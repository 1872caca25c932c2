--------------------------- MODULE LcmV1_proofs ---------------------------
(***************************************************************************)
(* The version 1 stack, for any number of operations, any maxLevel and any  *)
(* number of failures, retries and crashes.                                 *)
(*                                                                         *)
(* Three layers, each relying on the one before.  V1Parts: only the last    *)
(* operation is open, and its cast and its handler know its state, so that  *)
(* FAILED_TEMP goes with ERROR.  OpParts: what status, task_state and       *)
(* instantiation_state are at each step, so that they are those of an       *)
(* operable VNF once every operation has ended.  VimParts: what is known of *)
(* the Heat stack at each error_point, which is what a retry and a rollback *)
(* rely on, so that Heat and the row agree in the end.                      *)
(*                                                                         *)
(* CalmParts ties the last two to the code: while no handler was cancelled  *)
(* its copies of the row are the row, and save() writes what it should.     *)
(***************************************************************************)
EXTENDS LcmV1, Integers, TLAPS

\* The rows and records of the model.
V1Row == [inst : {"none", "NOT_INSTANTIATED", "INSTANTIATED"},
          task : {"None", "INSTANTIATING", "TERMINATING", "HEALING", "SCALING", "ERROR"},
          stack : BOOLEAN, level : Int]
Statuses == {"ACTIVE", "INACTIVE", "ERROR"} \cup PENDING_STATUSES
V1States == {"STARTING", "PROCESSING", "FAILED_TEMP", "ROLLING_BACK"} \cup V1Ended
V1Points == 0..7
V1OccRow == [op : V1Ops, state : V1States, ep : V1Points]
V1Handled == V1Ops \cup {"ROLLBACK"}
V1CastRow == [op : V1Handled, occ : Nat, before : V1Points, status : Statuses, row : V1Row]
V1Steps == {"begin", "status", "script", "vim", "end", "final", "save", "complete", "process", "pre", "modify"}
V1WorkRow == [op : V1Handled, occ : Nat, before : V1Points, status : Statuses, base : V1Row, obj : V1Row,
              pc : V1Steps, late : BOOLEAN]
V1VnfRow == [status : Statuses, cap : Int]
V1VimRow == [stack : BOOLEAN, level : Int]

\* The variables have the fields and values that the code reads and writes.
V1Types ==
    /\ v1Row \in V1Row
    /\ v1Vnf \in V1VnfRow
    /\ v1Occ \in Seq(V1OccRow)
    /\ v1Cast \in {NoCast} \cup V1CastRow
    /\ v1Work \in {NoWork} \cup V1WorkRow
    /\ v1Vim \in V1VimRow

\* Neither a second operation nor a crash between the two writes of a SCALE.
Clean == "second" \notin v1Taint /\ "between" \notin v1Taint

\* The operation that was created last.
Last == Len(v1Occ)
LastState == v1Occ[Last].state
LastOp == v1Occ[Last].op
\* No operation is open; no operation but the last one is.
AllEnded == \A o \in DOMAIN v1Occ : v1Occ[o].state \in V1Ended
LastOpen == \A o \in DOMAIN v1Occ : o # Last => v1Occ[o].state \in V1Ended

\* A cast waits; a handler runs; it is that of a MODIFY_INFO that has no
\* occurrence yet.
Casting == v1Cast # NoCast
Working == v1Work # NoWork
Pre == v1Work.op = "MODIFY_INFO" /\ v1Work.pc = "begin"
\* A cast or handler of a new operation, not of a retry or rollback.
Fresh(r) == r.before = 0 /\ r.op # "ROLLBACK"

\* The occurrence that a cast or handler is for is the last one.
OccOf(r) ==
    /\ Last > 0 /\ r.occ = Last
    /\ IF r.op = "ROLLBACK" THEN LastOp \in {"INSTANTIATE", "SCALE_OUT"} ELSE LastOp = r.op

\* What the status can be while an operation is under way.
ScaleStatuses == {"ACTIVE", "ERROR", "PENDING_SCALE_OUT", "PENDING_SCALE_IN"}
StatusOf(r) ==
    /\ r.op = "MODIFY_INFO" => v1Vnf.status \in {"ACTIVE", "INACTIVE"}
    /\ r.op = "ROLLBACK" => v1Vnf.status = "ERROR"
    /\ r.op \in Scales => v1Vnf.status \in ScaleStatuses
    /\ r.op \in Scales => v1Row.inst = "INSTANTIATED"

\* A cast is for the last operation, in the status that its request saw; it
\* waits behind a handler only when that one was cancelled.
CastInv ==
    Casting =>
       /\ v1Cast.op = "MODIFY_INFO" => AllEnded /\ v1Cast.occ = Last + 1 /\ v1Cast.before = 0
       /\ v1Cast.op # "MODIFY_INFO" => OccOf(v1Cast) /\ LastState # "PROCESSING"
       /\ StatusOf(v1Cast)
       /\ v1Cast.op \in Scales => v1Cast.row.inst = "INSTANTIATED"
       /\ v1Cast.status = "ERROR" => v1Vnf.status = "ERROR"
       /\ ~Fresh(v1Cast) => v1Cast.status = "ERROR"
       /\ Fresh(v1Cast) => ~Working
       /\ Working => v1Work.late

\* A handler works on the last operation, which is in PROCESSING (ROLLING_BACK)
\* unless it was cancelled.
WorkInv ==
    Working =>
       /\ Pre => AllEnded /\ v1Work.occ = Last + 1
       /\ ~Pre => OccOf(v1Work)
       /\ StatusOf(v1Work)
       /\ v1Work.op \in Scales => v1Work.obj.inst = "INSTANTIATED" /\ v1Work.base.inst = "INSTANTIATED"
       /\ v1Work.pc \in {"begin", "process"} /\ ~Pre => LastState # "PROCESSING"
       /\ v1Work.op \in {"ROLLBACK", "MODIFY_INFO"} \/ v1Work.pc \in {"begin", "process"} => ~v1Work.late
       /\ v1Work.pc = "begin" /\ ~Fresh(v1Work) => v1Work.status = "ERROR"
       /\ v1Work.pc \in {"begin", "status"} /\ v1Work.status = "ERROR" => v1Vnf.status = "ERROR" /\ ~v1Work.late
       /\ v1Work.late => LastState # "PROCESSING"
       /\ ~v1Work.late /\ v1Work.pc \notin {"begin", "process"} =>
             LastState = IF v1Work.op = "ROLLBACK" THEN "ROLLING_BACK" ELSE "PROCESSING"
       /\ v1Work.pc \in {"save", "complete"} /\ v1Work.before # 7 =>
             v1Vnf.status \notin PENDING_STATUSES /\ LastState # "FAILED_TEMP"
       /\ v1Work.pc \in {"status", "script", "final", "save", "complete"} => FullOp
       /\ v1Work.pc \in {"process", "pre"} => v1Work.op \in Scales
       /\ v1Work.pc = "modify" => v1Work.op = "MODIFY_INFO"
       /\ v1Work.op = "MODIFY_INFO" => v1Work.pc \in {"begin", "modify"} /\ v1Work.before = 0

\* An operation in FAILED_TEMP has left the VNF in ERROR, until the handler of
\* its retry has written PENDING_SCALE_* (ScaleBegin).
ErrorInv == Last > 0 /\ LastState = "FAILED_TEMP" /\ v1Work.pc # "process" => v1Vnf.status = "ERROR"

\* The inductive invariant of FailedTempIsError and CancelHolds.
V1Parts == LastOpen /\ CastInv /\ WorkInv /\ ErrorInv
V1Inv == Clean => V1Parts
----------------------------------------------------------------------------
\* The statuses of operations under way.
LEMMA PendingValues ==
    /\ PENDING_STATUSES = {"PENDING_CREATE", "PENDING_TERMINATE", "PENDING_SCALE_OUT", "PENDING_SCALE_IN",
                           "PENDING_HEAL", "PENDING_CHANGE_EXT_CONN"}
    /\ Pending["INSTANTIATE"] = "PENDING_CREATE" /\ Pending["TERMINATE"] = "PENDING_TERMINATE"
    /\ Pending["SCALE_OUT"] = "PENDING_SCALE_OUT" /\ Pending["SCALE_IN"] = "PENDING_SCALE_IN"
    /\ Pending["HEAL"] = "PENDING_HEAL" /\ Pending["HEAL_VNFC"] = "PENDING_HEAL"
    /\ Pending["CHANGE_EXT_CONN"] = "PENDING_CHANGE_EXT_CONN"
PROOF
<1> DEFINE Six == {"PENDING_CREATE", "PENDING_TERMINATE", "PENDING_SCALE_OUT", "PENDING_SCALE_IN",
                   "PENDING_HEAL", "PENDING_CHANGE_EXT_CONN"}
           OpSet == V1Ops \ {"MODIFY_INFO"}
<1>1. DOMAIN Pending = OpSet  BY DEF Pending
<1>2. OpSet = {"INSTANTIATE", "TERMINATE", "CHANGE_EXT_CONN", "SCALE_OUT", "SCALE_IN", "HEAL", "HEAL_VNFC"}
  BY DEF V1Ops, Scales, Heals
<1>3. /\ Pending["INSTANTIATE"] = "PENDING_CREATE" /\ Pending["TERMINATE"] = "PENDING_TERMINATE"
      /\ Pending["SCALE_OUT"] = "PENDING_SCALE_OUT" /\ Pending["SCALE_IN"] = "PENDING_SCALE_IN"
  <2>0. Heals \cap {"INSTANTIATE", "TERMINATE", "SCALE_OUT", "SCALE_IN"} = {}  BY DEF Heals
  <2>1. Pending["INSTANTIATE"] = "PENDING_CREATE"  BY <1>2, <2>0 DEF Pending
  <2>2. Pending["TERMINATE"] = "PENDING_TERMINATE"  BY <1>2, <2>0 DEF Pending
  <2>3. Pending["SCALE_OUT"] = "PENDING_SCALE_OUT"  BY <1>2, <2>0 DEF Pending
  <2>4. Pending["SCALE_IN"] = "PENDING_SCALE_IN"  BY <1>2, <2>0 DEF Pending
  <2>5. QED  BY <2>1, <2>2, <2>3, <2>4
<1>4. /\ Pending["HEAL"] = "PENDING_HEAL" /\ Pending["HEAL_VNFC"] = "PENDING_HEAL"
      /\ Pending["CHANGE_EXT_CONN"] = "PENDING_CHANGE_EXT_CONN"
  <2>1. \A op \in Heals : op \in OpSet /\ op \notin {"INSTANTIATE", "TERMINATE", "SCALE_OUT", "SCALE_IN"}
    BY <1>2 DEF Heals
  <2>2. "CHANGE_EXT_CONN" \notin Heals  BY DEF Heals
  <2>3. \A op \in Heals : Pending[op] = "PENDING_HEAL"  BY <2>1 DEF Pending
  <2>4. Pending["CHANGE_EXT_CONN"] = "PENDING_CHANGE_EXT_CONN"  BY <1>2, <2>2 DEF Pending
  <2>5. QED  BY <2>3, <2>4 DEF Heals
<1>5. PENDING_STATUSES \subseteq Six
  <2>1. SUFFICES ASSUME NEW op \in OpSet PROVE Pending[op] \in Six  BY <1>1 DEF PENDING_STATUSES
  <2>2. QED  BY <1>2, <1>3, <1>4
<1>6. Six \subseteq PENDING_STATUSES
  <2>1. \A op \in OpSet : Pending[op] \in PENDING_STATUSES  BY <1>1 DEF PENDING_STATUSES
  <2>2. QED  BY <2>1, <1>2, <1>3, <1>4
<1>7. PENDING_STATUSES = Six  BY <1>5, <1>6
<1>8. QED  BY <1>3, <1>4, <1>7

\* save() field by field; it saves the object when nothing else wrote the row.
LEMMA SavedFields ==
    ASSUME v1Row \in V1Row, NEW obj \in V1Row, v1Work.base \in V1Row
    PROVE  /\ Saved(obj) \in V1Row
           /\ Saved(obj).inst = IF obj.inst # v1Work.base.inst THEN obj.inst ELSE v1Row.inst
           /\ Saved(obj).task = IF obj.task # v1Work.base.task THEN obj.task ELSE v1Row.task
           /\ Saved(obj).stack = IF obj.stack # v1Work.base.stack THEN obj.stack ELSE v1Row.stack
           /\ Saved(obj).level = obj.level
           /\ v1Work.base = v1Row => Saved(obj) = obj
PROOF
<1>1. DOMAIN v1Row = {"inst", "task", "stack", "level"}  BY DEF V1Row
<1>2. /\ Saved(obj).inst = IF obj.inst # v1Work.base.inst THEN obj.inst ELSE v1Row.inst
      /\ Saved(obj).task = IF obj.task # v1Work.base.task THEN obj.task ELSE v1Row.task
      /\ Saved(obj).stack = IF obj.stack # v1Work.base.stack THEN obj.stack ELSE v1Row.stack
      /\ Saved(obj).level = obj.level
  BY <1>1 DEF Saved
<1>3. Saved(obj) = [inst |-> Saved(obj).inst, task |-> Saved(obj).task, stack |-> Saved(obj).stack,
                    level |-> Saved(obj).level]
  BY <1>1 DEF Saved
<1>4. Saved(obj) \in V1Row  BY <1>2, <1>3 DEF V1Row
<1>5. ASSUME v1Work.base = v1Row PROVE Saved(obj) = obj  BY <1>2, <1>4, <1>5 DEF V1Row
<1>6. QED  BY <1>2, <1>4, <1>5

\* The handler with another step and object.
LEMMA GoOnMoves ==
    ASSUME v1Work \in V1WorkRow, NEW pc \in V1Steps, NEW obj \in V1Row, GoOn(pc, obj)
    PROVE  /\ v1Work' \in V1WorkRow
           /\ v1Work'.op = v1Work.op /\ v1Work'.occ = v1Work.occ /\ v1Work'.before = v1Work.before
           /\ v1Work'.status = v1Work.status /\ v1Work'.base = v1Work.base /\ v1Work'.late = v1Work.late
           /\ v1Work'.pc = pc /\ v1Work'.obj = obj
BY DEF V1WorkRow, GoOn

\* One occurrence gets another state and error_point, the others stay.
OccBecomes(o, s, e) ==
    /\ v1Occ' \in Seq(V1OccRow)
    /\ Len(v1Occ') = Len(v1Occ) /\ DOMAIN v1Occ' = DOMAIN v1Occ
    /\ \A x \in DOMAIN v1Occ : x # o => v1Occ'[x] = v1Occ[x]
    /\ v1Occ'[o].op = v1Occ[o].op /\ v1Occ'[o].state = s /\ v1Occ'[o].ep = e

\* SetState and SetFailed are such changes.
LEMMA OccMoves ==
    ASSUME v1Occ \in Seq(V1OccRow), NEW o \in DOMAIN v1Occ, NEW s \in V1States, NEW e \in V1Points,
           \/ v1Occ' = [v1Occ EXCEPT ![o].state = s] /\ e = v1Occ[o].ep
           \/ v1Occ' = [v1Occ EXCEPT ![o].state = s, ![o].ep = e]
    PROVE  OccBecomes(o, s, e)
PROOF
<1>1. v1Occ[o] \in V1OccRow /\ DOMAIN v1Occ = 1..Len(v1Occ) /\ Len(v1Occ) \in Nat  OBVIOUS
<1>2. PICK r : r = [op |-> v1Occ[o].op, state |-> s, ep |-> e]  OBVIOUS
<1>3. r \in V1OccRow  BY <1>1, <1>2 DEF V1OccRow
<1>4. r.op = v1Occ[o].op /\ r.state = s /\ r.ep = e  BY <1>2
<1>5. v1Occ[o] = [op |-> v1Occ[o].op, state |-> v1Occ[o].state, ep |-> v1Occ[o].ep]  BY <1>1 DEF V1OccRow
<1>6. v1Occ' = [v1Occ EXCEPT ![o] = r]
  <2>1. CASE v1Occ' = [v1Occ EXCEPT ![o].state = s] /\ e = v1Occ[o].ep
    <3>1. [v1Occ[o] EXCEPT !.state = s] = [op |-> v1Occ[o].op, state |-> s, ep |-> v1Occ[o].ep]  BY <1>1, <1>5 DEF V1OccRow
    <3>2. [v1Occ[o] EXCEPT !.state = s] = r  BY <1>2, <2>1, <3>1
    <3>3. QED  BY <2>1, <3>2
  <2>2. CASE v1Occ' = [v1Occ EXCEPT ![o].state = s, ![o].ep = e]
    <3>0. PICK t : t = [op |-> v1Occ[o].op, state |-> s, ep |-> v1Occ[o].ep]  OBVIOUS
    <3>a. [v1Occ[o] EXCEPT !.state = s] = t  BY <3>0, <1>1 DEF V1OccRow
    <3>b. [t EXCEPT !.ep = e] = r  BY <3>0, <1>2
    <3>1. [[v1Occ[o] EXCEPT !.state = s] EXCEPT !.ep = e] = r  BY <3>a, <3>b
    <3>2. v1Occ' = [[v1Occ EXCEPT ![o].state = s] EXCEPT ![o].ep = e]  BY <2>2
    <3>3. [v1Occ EXCEPT ![o].state = s][o] = [v1Occ[o] EXCEPT !.state = s]  BY <1>1
    <3>4. [[v1Occ EXCEPT ![o].state = s] EXCEPT ![o].ep = e] = [v1Occ EXCEPT ![o] = r]  BY <3>1, <3>3, <1>1
    <3>5. QED  BY <3>2, <3>4
  <2>3. QED  BY <2>1, <2>2
<1>7. v1Occ' \in Seq(V1OccRow) /\ Len(v1Occ') = Len(v1Occ) /\ DOMAIN v1Occ' = DOMAIN v1Occ  BY <1>1, <1>3, <1>6
<1>8. v1Occ'[o] = r /\ \A x \in DOMAIN v1Occ : x # o => v1Occ'[x] = v1Occ[x]  BY <1>1, <1>6
<1>9. QED  BY <1>4, <1>7, <1>8 DEF OccBecomes

\* An occurrence is added behind the others.
LEMMA OccAdded ==
    ASSUME v1Occ \in Seq(V1OccRow), NEW r \in V1OccRow, v1Occ' = Append(v1Occ, r)
    PROVE  /\ v1Occ' \in Seq(V1OccRow)
           /\ Len(v1Occ') = Len(v1Occ) + 1 /\ Len(v1Occ) \in Nat
           /\ DOMAIN v1Occ = 1..Len(v1Occ) /\ DOMAIN v1Occ' = 1..Len(v1Occ')
           /\ \A x \in DOMAIN v1Occ : v1Occ'[x] = v1Occ[x]
           /\ v1Occ'[Len(v1Occ')] = r
OBVIOUS

\* A handler is a record of its fields.
LEMMA WorkRow == ASSUME V1Types, v1Work # NoWork PROVE v1Work \in V1WorkRow
BY DEF V1Types
\* The table stays a sequence of occurrences, whatever is written.
LEMMA OccTyped ==
    ASSUME v1Occ \in Seq(V1OccRow), NEW o, NEW s \in V1States, NEW e \in V1Points,
           \/ v1Occ' = [v1Occ EXCEPT ![o].state = s]
           \/ v1Occ' = [v1Occ EXCEPT ![o].state = s, ![o].ep = e]
    PROVE  v1Occ' \in Seq(V1OccRow)
PROOF
<1>1. CASE o \in DOMAIN v1Occ
  <2>0. v1Occ[o] \in V1OccRow  BY <1>1
  <2>1. v1Occ[o].ep \in V1Points  BY <2>0 DEF V1OccRow
  <2>2. CASE v1Occ' = [v1Occ EXCEPT ![o].state = s]  BY <1>1, <2>1, <2>2, OccMoves DEF OccBecomes
  <2>3. CASE v1Occ' = [v1Occ EXCEPT ![o].state = s, ![o].ep = e]  BY <1>1, <2>3, OccMoves DEF OccBecomes
  <2>4. QED  BY <2>2, <2>3
<1>2. CASE o \notin DOMAIN v1Occ
  <2>1. v1Occ' = v1Occ  BY <1>2
  <2>2. QED  BY <2>1
<1>3. QED  BY <1>1, <1>2

\* SetStatus leaves the size in scale_group.
LEMMA StatusMoves ==
    ASSUME v1Vnf \in V1VnfRow, NEW s \in Statuses, SetStatus(s)
    PROVE  v1Vnf' \in V1VnfRow /\ v1Vnf'.status = s /\ v1Vnf'.cap = v1Vnf.cap
BY DEF V1VnfRow, SetStatus

\* The statuses that are written, and which of them are pending.
LEMMA StatusValues ==
    /\ {"ACTIVE", "INACTIVE", "ERROR"} \subseteq Statuses
    /\ \A op \in V1Ops : op # "MODIFY_INFO" => Pending[op] \in Statuses /\ Pending[op] \in PENDING_STATUSES
    /\ \A op \in V1Ops : op # "MODIFY_INFO" => Pending[op] # "ERROR"
    /\ \A op \in Scales : op \in V1Ops /\ Pending[op] \in ScaleStatuses
    /\ "ACTIVE" \notin PENDING_STATUSES /\ "INACTIVE" \notin PENDING_STATUSES /\ "ERROR" \notin PENDING_STATUSES
BY PendingValues DEF Statuses, V1Ops, Scales, Heals, ScaleStatuses

\* task_state alone is written.
LEMMA TaskMoves ==
    ASSUME NEW r \in V1Row, NEW t \in {"None", "INSTANTIATING", "TERMINATING", "HEALING", "SCALING", "ERROR"}
    PROVE  /\ [r EXCEPT !.task = t] \in V1Row
           /\ [r EXCEPT !.task = t].inst = r.inst
           /\ [r EXCEPT !.task = t].task = t
           /\ [r EXCEPT !.task = t].stack = r.stack
           /\ [r EXCEPT !.task = t].level = r.level
BY DEF V1Row

\* instance_id and level are written.
LEMMA StackMoves ==
    ASSUME NEW r \in V1Row, NEW b, NEW l
    PROVE  [r EXCEPT !.stack = b, !.level = l] = [inst |-> r.inst, task |-> r.task, stack |-> b, level |-> l]
PROOF
<1>1. PICK t : t = [inst |-> r.inst, task |-> r.task, stack |-> b, level |-> r.level]  OBVIOUS
<1>2. [r EXCEPT !.stack = b] = t  BY <1>1 DEF V1Row
<1>3. [t EXCEPT !.level = l] = [inst |-> r.inst, task |-> r.task, stack |-> b, level |-> l]  BY <1>1
<1>4. QED  BY <1>2, <1>3

\* reinitialize forgets instance_id and level, and nothing else.
LEMMA Reset ==
    ASSUME NEW r \in V1Row
    PROVE  /\ Reinitialized(r) \in V1Row
           /\ Reinitialized(r).inst = r.inst
           /\ Reinitialized(r).task = r.task
           /\ ~Reinitialized(r).stack
           /\ Reinitialized(r).level = 0
PROOF
<1>1. Reinitialized(r) = [inst |-> r.inst, task |-> r.task, stack |-> FALSE, level |-> 0]
  BY StackMoves, Zenon DEF Reinitialized
<1>2. QED  BY <1>1 DEF V1Row

\* The row after the except clause.
FailedRow(obj) ==
    \/ v1Row' = v1Row
    \/ \E t \in {"None", "INSTANTIATING", "TERMINATING", "HEALING", "SCALING", "ERROR"} :
          v1Row' = [Saved(obj) EXCEPT !.task = t]
    \/ v1Work.op = "INSTANTIATE" /\ v1Row' = Reinitialized(v1Row) /\ "outage" \in v1Taint'

\* The except clause: the status is ERROR, the operation in FAILED_TEMP.
LEMMA FailedMoves ==
    ASSUME V1Types, v1Work # NoWork, NEW ep \in V1Points, NEW obj \in V1Row, NEW raised \in BOOLEAN,
           FailedIn(ep, obj, raised)
    PROVE  /\ v1Vnf' \in V1VnfRow /\ v1Vnf'.status = "ERROR" /\ v1Vnf'.cap = v1Vnf.cap
           /\ v1Occ' \in Seq(V1OccRow)
           /\ v1Work.occ \in DOMAIN v1Occ => OccBecomes(v1Work.occ, "FAILED_TEMP", ep)
           /\ v1Work' = NoWork
           /\ v1Row' \in V1Row
           /\ FailedRow(obj)
           /\ v1Taint \subseteq v1Taint'
PROOF
<1>0. v1Work \in V1WorkRow /\ v1Row \in V1Row /\ v1Vnf \in V1VnfRow /\ v1Occ \in Seq(V1OccRow)
  BY WorkRow DEF V1Types
<1>1. v1Vnf' \in V1VnfRow /\ v1Vnf'.status = "ERROR" /\ v1Vnf'.cap = v1Vnf.cap
  <2>1. SetStatus("ERROR")  BY DEF FailedIn
  <2>2. QED  BY <2>1, <1>0, StatusMoves, StatusValues
<1>2. v1Occ' = [v1Occ EXCEPT ![v1Work.occ].state = "FAILED_TEMP", ![v1Work.occ].ep = ep]  BY DEF FailedIn, SetFailed
<1>3. "FAILED_TEMP" \in V1States  BY DEF V1States
<1>4. v1Occ' \in Seq(V1OccRow)  BY <1>0, <1>2, <1>3, OccTyped
<1>5. ASSUME v1Work.occ \in DOMAIN v1Occ PROVE OccBecomes(v1Work.occ, "FAILED_TEMP", ep)
  BY <1>0, <1>2, <1>3, <1>5, OccMoves
<1>6. v1Work' = NoWork  BY DEF FailedIn
<1>7. v1Taint \subseteq v1Taint'  BY DEF FailedIn
<1>8. Saved(obj) \in V1Row  BY <1>0, SavedFields DEF V1WorkRow
<1>9. FailedRow(obj)
  <2>1. v1Row.task \in {"None", "INSTANTIATING", "TERMINATING", "HEALING", "SCALING", "ERROR"}  BY <1>0 DEF V1Row
  <2>2. revert_to_error_task_state(raised) \in {"None", "INSTANTIATING", "TERMINATING", "HEALING", "SCALING", "ERROR"}
    BY <2>1 DEF revert_to_error_task_state
  <2>3. QED  BY <2>2 DEF FailedIn, FailedRow
<1>10. v1Row' \in V1Row
  <2>1. \A t \in {"None", "INSTANTIATING", "TERMINATING", "HEALING", "SCALING", "ERROR"} :
           [Saved(obj) EXCEPT !.task = t] \in V1Row
    BY <1>8, TaskMoves
  <2>2. Reinitialized(v1Row) \in V1Row  BY <1>0, Reset
  <2>3. QED  BY <1>0, <1>9, <2>1, <2>2 DEF FailedRow
<1>11. QED  BY <1>1, <1>4, <1>5, <1>6, <1>7, <1>9, <1>10

\* The handler saves its object and goes on with what it saved.
LEMMA SaveGoOnMoves ==
    ASSUME V1Types, v1Work # NoWork, NEW pc \in V1Steps, NEW obj \in V1Row, SaveGoOn(pc, obj)
    PROVE  /\ v1Work' \in V1WorkRow
           /\ v1Work'.op = v1Work.op /\ v1Work'.occ = v1Work.occ /\ v1Work'.before = v1Work.before
           /\ v1Work'.status = v1Work.status /\ v1Work'.late = v1Work.late
           /\ v1Work'.pc = pc /\ v1Work'.obj = v1Row' /\ v1Work'.base = v1Row'
           /\ v1Row' = Saved(obj) /\ v1Row' \in V1Row
PROOF
<1>0. v1Work \in V1WorkRow /\ v1Row \in V1Row  BY WorkRow DEF V1Types
<1>1. PICK s : s = Saved(obj)  OBVIOUS
<1>2. s \in V1Row  BY <1>0, <1>1, SavedFields DEF V1WorkRow
<1>3. v1Row' = s /\ v1Work' = [v1Work EXCEPT !.pc = pc, !.base = s, !.obj = s]  BY <1>1 DEF SaveGoOn
<1>4. QED  BY <1>0, <1>1, <1>2, <1>3 DEF V1WorkRow

\* revert_to_error_scale: the status is ERROR, the operation in FAILED_TEMP or
\* left as it is.
LEMMA ScaleErrMoves ==
    ASSUME V1Types, v1Work # NoWork, NEW ep \in V1Points, NEW obj \in V1Row, NEW updated \in BOOLEAN,
           revert_to_error_scale(ep, obj, updated)
    PROVE  /\ v1Vnf' \in V1VnfRow /\ v1Vnf'.cap = v1Vnf.cap
           /\ v1Vnf'.status = _update_vnf_scaling_status_err(v1Vnf.status)
           /\ v1Vnf.status \in ScaleStatuses => v1Vnf'.status = "ERROR"
           /\ v1Vnf.status = "ERROR" => v1Vnf'.status = "ERROR"
           /\ v1Occ' \in Seq(V1OccRow)
           /\ \/ v1Work.occ \in DOMAIN v1Occ => OccBecomes(v1Work.occ, "FAILED_TEMP", ep)
              \/ v1Occ' = v1Occ /\ "outage" \in v1Taint'
           /\ v1Work' = NoWork
           /\ v1Row' \in V1Row
           /\ v1Row' = Saved([obj EXCEPT !.task = "None", !.level = ErrorLevel(obj, updated)])
           /\ [obj EXCEPT !.task = "None", !.level = ErrorLevel(obj, updated)] \in V1Row
           /\ v1Taint \subseteq v1Taint'
PROOF
<1>0. v1Work \in V1WorkRow /\ v1Row \in V1Row /\ v1Vnf \in V1VnfRow /\ v1Occ \in Seq(V1OccRow)
  BY WorkRow DEF V1Types
<1>1. PICK st : st = _update_vnf_scaling_status_err(v1Vnf.status)  OBVIOUS
<1>2. st \in Statuses  BY <1>0, <1>1, StatusValues DEF _update_vnf_scaling_status_err, V1VnfRow
<1>3. SetStatus(st)  BY <1>1 DEF revert_to_error_scale
<1>4. v1Vnf' \in V1VnfRow /\ v1Vnf'.status = st /\ v1Vnf'.cap = v1Vnf.cap  BY <1>0, <1>2, <1>3, StatusMoves
<1>5. /\ v1Vnf.status \in ScaleStatuses => st = "ERROR"
      /\ v1Vnf.status = "ERROR" => st = "ERROR"
  <2>1. {Pending[op] : op \in Scales} = {"PENDING_SCALE_OUT", "PENDING_SCALE_IN"}  BY PendingValues DEF Scales
  <2>2. QED  BY <1>1, <2>1 DEF _update_vnf_scaling_status_err, ScaleStatuses
<1>6. "FAILED_TEMP" \in V1States  BY DEF V1States
<1>7. \/ v1Occ' = [v1Occ EXCEPT ![v1Work.occ].state = "FAILED_TEMP", ![v1Work.occ].ep = ep]
      \/ v1Occ' = v1Occ /\ "outage" \in v1Taint'
  BY DEF revert_to_error_scale, SetFailed
<1>8. v1Occ' \in Seq(V1OccRow)  BY <1>0, <1>6, <1>7, OccTyped
<1>9. \/ v1Work.occ \in DOMAIN v1Occ => OccBecomes(v1Work.occ, "FAILED_TEMP", ep)
      \/ v1Occ' = v1Occ /\ "outage" \in v1Taint'
  BY <1>0, <1>6, <1>7, OccMoves
<1>10. ErrorLevel(obj, updated) \in Int  BY <1>0 DEF ErrorLevel, V1WorkRow, V1Row
<1>11. [obj EXCEPT !.task = "None", !.level = ErrorLevel(obj, updated)] \in V1Row  BY <1>10 DEF V1Row
<1>12. v1Row' = Saved([obj EXCEPT !.task = "None", !.level = ErrorLevel(obj, updated)])
  BY DEF revert_to_error_scale
<1>13. v1Row' \in V1Row  BY <1>0, <1>11, <1>12, SavedFields DEF V1WorkRow
<1>14. v1Work' = NoWork /\ v1Taint \subseteq v1Taint'  BY DEF revert_to_error_scale
<1>15. QED  BY <1>1, <1>4, <1>5, <1>8, <1>9, <1>11, <1>12, <1>13, <1>14
\* The task_state of each operation.
LEMMA TaskValues ==
    \A op \in V1Ops : TaskOf(op) \in {"None", "INSTANTIATING", "TERMINATING", "HEALING", "SCALING"}
BY DEF TaskOf, V1Ops

\* A request that passed: its occurrence, task_state and cast.
LEMMA SubmitMoves ==
    ASSUME V1Types, NEW op \in V1Ops, NEW before \in V1Points, NEW o \in Nat, Submit(op, before, o)
    PROVE  /\ v1Row' \in V1Row
           /\ v1Row'.inst = v1Row.inst /\ v1Row'.stack = v1Row.stack /\ v1Row'.level = v1Row.level
           /\ v1Row'.task = IF TaskOf(op) = "None" THEN v1Row.task ELSE TaskOf(op)
           /\ v1Cast' \in V1CastRow
           /\ v1Cast'.op = op /\ v1Cast'.before = before /\ v1Cast'.status = v1Vnf.status /\ v1Cast'.row = v1Row'
           /\ v1Cast'.occ = IF before = 0 THEN Len(v1Occ) + 1 ELSE o
           /\ v1Occ' \in Seq(V1OccRow)
           /\ IF before = 0 /\ op # "MODIFY_INFO"
              THEN /\ Len(v1Occ') = Len(v1Occ) + 1
                   /\ DOMAIN v1Occ' = 1..Len(v1Occ')
                   /\ \A x \in DOMAIN v1Occ : v1Occ'[x] = v1Occ[x]
                   /\ v1Occ'[Len(v1Occ')].op = op /\ v1Occ'[Len(v1Occ')].state = "STARTING"
                   /\ v1Occ'[Len(v1Occ')].ep = IF op \in Scales THEN 1 ELSE 0
              ELSE v1Occ' = v1Occ
PROOF
<1>0. v1Row \in V1Row /\ v1Vnf \in V1VnfRow /\ v1Occ \in Seq(V1OccRow)  BY DEF V1Types
<1>1. PICK t : t = IF TaskOf(op) = "None" THEN v1Row.task ELSE TaskOf(op)  OBVIOUS
<1>2. t \in {"None", "INSTANTIATING", "TERMINATING", "HEALING", "SCALING", "ERROR"}
  BY <1>0, <1>1, TaskValues DEF V1Row
<1>3. PICK row : row = [v1Row EXCEPT !.task = t]  OBVIOUS
<1>4. v1Row' = row /\ v1Cast' = [op |-> op, occ |-> IF before = 0 THEN Len(v1Occ) + 1 ELSE o, before |-> before,
                                 status |-> v1Vnf.status, row |-> row]
  BY <1>1, <1>3 DEF Submit
<1>5. row \in V1Row /\ row.inst = v1Row.inst /\ row.stack = v1Row.stack /\ row.level = v1Row.level /\ row.task = t
  BY <1>0, <1>2, <1>3, TaskMoves
<1>6. Len(v1Occ) \in Nat /\ v1Vnf.status \in Statuses /\ op \in V1Handled  BY <1>0 DEF V1VnfRow, V1Handled
<1>7. v1Cast' \in V1CastRow  BY <1>4, <1>5, <1>6 DEF V1CastRow
<1>8. /\ v1Cast'.op = op /\ v1Cast'.before = before /\ v1Cast'.status = v1Vnf.status /\ v1Cast'.row = v1Row'
      /\ v1Cast'.occ = IF before = 0 THEN Len(v1Occ) + 1 ELSE o
  BY <1>4
<1>9. CASE before = 0 /\ op # "MODIFY_INFO"
  <2>1. PICK r : r = [op |-> op, state |-> "STARTING", ep |-> IF op \in Scales THEN 1 ELSE 0]  OBVIOUS
  <2>2. r \in V1OccRow  BY <2>1 DEF V1OccRow, V1States, V1Points
  <2>3. v1Occ' = Append(v1Occ, r)  BY <1>9, <2>1 DEF Submit
  <2>4. r.op = op /\ r.state = "STARTING" /\ r.ep = IF op \in Scales THEN 1 ELSE 0  BY <2>1
  <2>5. QED  BY <1>0, <1>1, <1>4, <1>5, <1>7, <1>8, <1>9, <2>2, <2>3, <2>4, OccAdded
<1>10. CASE ~(before = 0 /\ op # "MODIFY_INFO")
  <2>1. v1Occ' = v1Occ  BY <1>10 DEF Submit
  <2>2. QED  BY <1>0, <1>1, <1>4, <1>5, <1>7, <1>8, <1>10, <2>1
<1>11. QED  BY <1>9, <1>10

\* revert_to_error_rollback: the operation is in FAILED_TEMP again.
LEMMA RollbackErrMoves ==
    ASSUME V1Types, v1Work # NoWork, NEW ep \in V1Points, revert_to_error_rollback(ep)
    PROVE  /\ v1Occ' \in Seq(V1OccRow)
           /\ v1Work.occ \in DOMAIN v1Occ => OccBecomes(v1Work.occ, "FAILED_TEMP", ep)
           /\ v1Work' = NoWork
           /\ v1Row' \in V1Row
           /\ \/ v1Row' = Saved(v1Work.obj)
              \/ Undone = "INSTANTIATE" /\ v1Row' = Saved([Reinitialized(v1Work.obj) EXCEPT !.task = "None"])
           /\ Undone = "INSTANTIATE" => "apart" \in v1Taint'
           /\ v1Taint \subseteq v1Taint'
PROOF
<1>0. v1Work \in V1WorkRow /\ v1Row \in V1Row /\ v1Occ \in Seq(V1OccRow)  BY WorkRow DEF V1Types
<1>1. v1Work.obj \in V1Row /\ v1Work.base \in V1Row  BY <1>0 DEF V1WorkRow
<1>2. v1Occ' = [v1Occ EXCEPT ![v1Work.occ].state = "FAILED_TEMP", ![v1Work.occ].ep = ep]
  BY DEF revert_to_error_rollback, SetFailed
<1>3. "FAILED_TEMP" \in V1States  BY DEF V1States
<1>4. v1Occ' \in Seq(V1OccRow)  BY <1>0, <1>2, <1>3, OccTyped
<1>5. v1Work.occ \in DOMAIN v1Occ => OccBecomes(v1Work.occ, "FAILED_TEMP", ep)  BY <1>0, <1>2, <1>3, OccMoves
<1>6. /\ \/ v1Row' = Saved(v1Work.obj)
         \/ Undone = "INSTANTIATE" /\ v1Row' = Saved([Reinitialized(v1Work.obj) EXCEPT !.task = "None"])
      /\ Undone = "INSTANTIATE" => "apart" \in v1Taint'
      /\ v1Taint \subseteq v1Taint'
      /\ v1Work' = NoWork
  BY DEF revert_to_error_rollback
<1>7. [Reinitialized(v1Work.obj) EXCEPT !.task = "None"] \in V1Row  BY <1>1, Reset, TaskMoves
<1>8. Saved(v1Work.obj) \in V1Row  BY <1>0, <1>1, SavedFields
<1>9. Saved([Reinitialized(v1Work.obj) EXCEPT !.task = "None"]) \in V1Row  BY <1>0, <1>1, <1>7, SavedFields
<1>10. QED  BY <1>4, <1>5, <1>6, <1>8, <1>9

\* The stack with another size, or gone.
LEMMA VimMoves ==
    ASSUME v1Vim \in V1VimRow
    PROVE  /\ \A s \in BOOLEAN : [v1Vim EXCEPT !.stack = s] \in V1VimRow
           /\ \A l \in Int : [v1Vim EXCEPT !.level = l] \in V1VimRow
           /\ \A l \in Int : [v1Vim EXCEPT !.level = l].stack = v1Vim.stack /\ [v1Vim EXCEPT !.level = l].level = l
           /\ \A s \in BOOLEAN : [v1Vim EXCEPT !.stack = s].level = v1Vim.level
           /\ \A s \in BOOLEAN : [v1Vim EXCEPT !.stack = s].stack = s
BY DEF V1VimRow

\* One field of a row is written.
LEMMA SomeRows ==
    ASSUME NEW r \in V1Row
    PROVE  /\ \A i \in {"none", "NOT_INSTANTIATED", "INSTANTIATED"} :
                /\ [r EXCEPT !.inst = i] \in V1Row
                /\ [r EXCEPT !.inst = i].inst = i /\ [r EXCEPT !.inst = i].task = r.task
                /\ [r EXCEPT !.inst = i].stack = r.stack /\ [r EXCEPT !.inst = i].level = r.level
           /\ \A l \in Int :
                /\ [r EXCEPT !.level = l] \in V1Row
                /\ [r EXCEPT !.level = l].inst = r.inst /\ [r EXCEPT !.level = l].task = r.task
                /\ [r EXCEPT !.level = l].stack = r.stack /\ [r EXCEPT !.level = l].level = l
           /\ \A s \in BOOLEAN :
                /\ [r EXCEPT !.stack = s] \in V1Row
                /\ [r EXCEPT !.stack = s].inst = r.inst /\ [r EXCEPT !.stack = s].task = r.task
                /\ [r EXCEPT !.stack = s].stack = s /\ [r EXCEPT !.stack = s].level = r.level
BY DEF V1Row
\* The steps, states and error_points that are written.
LEMMA StepValues ==
    /\ \A x \in {"begin", "status", "script", "vim", "end", "final", "save", "complete", "process", "pre", "modify"} :
          x \in V1Steps
    /\ \A s \in {"STARTING", "PROCESSING", "FAILED_TEMP", "ROLLING_BACK", "COMPLETED", "FAILED", "ROLLED_BACK"} :
          s \in V1States
    /\ \A e \in {0, 1, 2, 3, 4, 6, 7} : e \in V1Points
BY DEF V1Steps, V1States, V1Ended, V1Points

\* The rows that handlers make.
LEMMA MadeRow ==
    ASSUME NEW r \in V1Row
    PROVE  /\ [r EXCEPT !.stack = TRUE, !.level = 0] \in V1Row
           /\ [r EXCEPT !.stack = TRUE, !.level = 0].inst = r.inst
           /\ [r EXCEPT !.stack = TRUE, !.level = 0].task = r.task
           /\ [r EXCEPT !.stack = TRUE, !.level = 0].stack
           /\ [r EXCEPT !.stack = TRUE, !.level = 0].level = 0
PROOF
<1>1. [r EXCEPT !.stack = TRUE, !.level = 0] = [inst |-> r.inst, task |-> r.task, stack |-> TRUE, level |-> 0]
  BY StackMoves, Zenon
<1>2. PICK m : m = [inst |-> r.inst, task |-> r.task, stack |-> TRUE, level |-> 0]  OBVIOUS
<1>3. m \in V1Row /\ m.inst = r.inst /\ m.task = r.task /\ m.stack /\ m.level = 0  BY <1>2 DEF V1Row
<1>4. [r EXCEPT !.stack = TRUE, !.level = 0] = m  BY <1>1, <1>2, Zenon
<1>5. QED  BY <1>3, <1>4, Zenon

\* The fields of a handler and of the rows.
LEMMA WorkTypes ==
    ASSUME V1Types, v1Work # NoWork
    PROVE  /\ v1Work \in V1WorkRow /\ v1Work.op \in V1Handled /\ v1Work.occ \in Nat /\ v1Work.before \in V1Points
           /\ v1Work.status \in Statuses /\ v1Work.base \in V1Row /\ v1Work.obj \in V1Row /\ v1Work.pc \in V1Steps
           /\ v1Work.late \in BOOLEAN
           /\ v1Row \in V1Row /\ v1Vnf \in V1VnfRow /\ v1Vnf.status \in Statuses /\ v1Vnf.cap \in Int
           /\ v1Occ \in Seq(V1OccRow) /\ v1Vim \in V1VimRow /\ v1Vim.level \in Int /\ v1Vim.stack \in BOOLEAN
           /\ v1Row.level \in Int
PROOF
<1>1. v1Work \in V1WorkRow  BY WorkRow
<1>2. /\ v1Row \in V1Row /\ v1Vnf \in V1VnfRow /\ v1Occ \in Seq(V1OccRow) /\ v1Vim \in V1VimRow
  BY DEF V1Types
<1>3. QED  BY <1>1, <1>2 DEF V1WorkRow, V1VnfRow, V1VimRow, V1Row

\* No handler.
LEMMA IdleWork == NoWork.pc = "idle" /\ NoWork.op = "none" /\ NoWork.occ = 0 /\ NoWork.late
BY DEF NoWork

\* A step is that of a handler.
LEMMA AtWork ==
    ASSUME NEW pc \in V1Steps, At(pc)
    PROVE  v1Work # NoWork
BY IdleWork DEF At, V1Steps

\* instantiate, terminate, heal and change_ext_conn keep the types.
LEMMA FullTypes ==
    ASSUME V1Types, FullBegin \/ FullStatus \/ FullScript \/ SkipVim \/ FullEnd \/ FullFinal \/ FullComplete
    PROVE  V1Types'
PROOF
<1>0. v1Work # NoWork
  BY AtWork, StepValues DEF FullBegin, FullStatus, FullScript, SkipVim, FullEnd, FullFinal, FullComplete
<1>1. /\ v1Work \in V1WorkRow /\ v1Work.obj \in V1Row /\ v1Work.op \in V1Handled
      /\ v1Row \in V1Row /\ v1Vnf \in V1VnfRow /\ v1Vnf.status \in Statuses /\ v1Vnf.cap \in Int
      /\ v1Occ \in Seq(V1OccRow)
  BY <1>0, WorkTypes
<1>2. UNCHANGED <<v1Cast, v1Vim>>
  BY DEF FullBegin, FullStatus, FullScript, SkipVim, FullEnd, FullFinal, FullComplete
<1>3. v1Cast' \in {NoCast} \cup V1CastRow /\ v1Vim' \in V1VimRow  BY <1>2 DEF V1Types
<1>4. SUFFICES /\ v1Row' \in V1Row /\ v1Vnf' \in V1VnfRow /\ v1Occ' \in Seq(V1OccRow)
               /\ v1Work' \in {NoWork} \cup V1WorkRow
  BY <1>3 DEF V1Types
<1>5. ASSUME NEW ep \in V1Points, NEW obj \in V1Row, NEW raised \in BOOLEAN, FailedIn(ep, obj, raised)
      PROVE  /\ v1Row' \in V1Row /\ v1Vnf' \in V1VnfRow /\ v1Occ' \in Seq(V1OccRow)
             /\ v1Work' \in {NoWork} \cup V1WorkRow
  BY <1>0, <1>5, FailedMoves
<1>6. \A pc \in V1Steps, obj \in V1Row : GoOn(pc, obj) => v1Work' \in V1WorkRow  BY <1>1, GoOnMoves
<1>7. \A s \in V1States : SetState(s) => v1Occ' \in Seq(V1OccRow)  BY <1>1, OccTyped, StepValues DEF SetState
<1>8. CASE FullBegin  BY <1>1, <1>6, <1>7, <1>8, StepValues DEF FullBegin
<1>9. CASE FullStatus
  <2>1. CASE FailedIn(1, v1Work.obj, FALSE)  BY <1>1, <1>5, <2>1, StepValues
  <2>2. CASE ~FailedIn(1, v1Work.obj, FALSE)
    <3>1. v1Work.op \in V1Ops /\ v1Work.op # "MODIFY_INFO"  BY <1>1, <1>9 DEF FullStatus, FullOp, V1Handled
    <3>2. Pending[v1Work.op] \in Statuses  BY <3>1, StatusValues
    <3>3. \E s \in {v1Vnf.status, Pending[v1Work.op]} : SetStatus(s)  BY <1>9, <2>2 DEF FullStatus
    <3>4. v1Vnf' \in V1VnfRow  BY <1>1, <3>2, <3>3, StatusMoves
    <3>5. \E pc \in {"script", "save"} : GoOn(pc, v1Work.obj)  BY <1>9, <2>2 DEF FullStatus
    <3>6. v1Work' \in V1WorkRow  BY <1>1, <1>6, <3>5, StepValues
    <3>7. UNCHANGED <<v1Row, v1Occ>>  BY <1>9, <2>2 DEF FullStatus
    <3>8. QED  BY <1>1, <3>4, <3>6, <3>7
  <2>3. QED  BY <2>1, <2>2
<1>10. CASE FullScript
  <2>1. CASE FailedIn(2, v1Work.obj, TRUE)  BY <1>1, <1>5, <2>1, StepValues
  <2>2. CASE ~FailedIn(2, v1Work.obj, TRUE)  BY <1>1, <1>6, <1>10, <2>2, StepValues DEF FullScript
  <2>3. QED  BY <2>1, <2>2
<1>11. CASE SkipVim  BY <1>1, <1>6, <1>11, StepValues DEF SkipVim
<1>12. CASE FullEnd
  <2>1. CASE FailedIn(6, v1Work.obj, TRUE)  BY <1>1, <1>5, <2>1, StepValues
  <2>2. CASE ~FailedIn(6, v1Work.obj, TRUE)  BY <1>1, <1>6, <1>12, <2>2, StepValues DEF FullEnd
  <2>3. QED  BY <2>1, <2>2
<1>13. CASE FullFinal
  <2>1. CASE \E ep \in {6, 7}, obj \in {v1Work.obj, Reinitialized(v1Work.obj)} : FailedIn(ep, obj, FALSE)
    <3>1. Reinitialized(v1Work.obj) \in V1Row  BY <1>1, Reset
    <3>2. QED  BY <1>1, <1>5, <2>1, <3>1, StepValues
  <2>2. CASE ~\E ep \in {6, 7}, obj \in {v1Work.obj, Reinitialized(v1Work.obj)} : FailedIn(ep, obj, FALSE)
    <3>1. /\ v1Vnf' = [status |-> IF v1Work.op = "TERMINATE" THEN "INACTIVE" ELSE "ACTIVE",
                       cap |-> IF v1Work.op = "INSTANTIATE" THEN 0 ELSE v1Vnf.cap]
          /\ \E pc \in {"complete", "save"} : GoOn(pc, v1Work.obj)
          /\ UNCHANGED <<v1Row, v1Occ>>
      BY <1>13, <2>2 DEF FullFinal
    <3>2. v1Vnf' \in V1VnfRow  BY <1>1, <3>1, StatusValues DEF V1VnfRow
    <3>3. v1Work' \in V1WorkRow  BY <1>1, <1>6, <3>1, StepValues
    <3>4. QED  BY <1>1, <3>1, <3>2, <3>3
  <2>3. QED  BY <2>1, <2>2
<1>14. CASE FullComplete  BY <1>1, <1>7, <1>14, StepValues DEF FullComplete
<1>15. QED  BY <1>8, <1>9, <1>10, <1>11, <1>12, <1>13, <1>14

\* What a handler's step leaves to be shown of V1Types, and how its parts do it.
HandlerTyped ==
    /\ v1Row' \in V1Row /\ v1Vnf' \in V1VnfRow /\ v1Occ' \in Seq(V1OccRow)
    /\ v1Work' \in {NoWork} \cup V1WorkRow

\* The except clause keeps them.
LEMMA FailTyped ==
    ASSUME V1Types, v1Work # NoWork, NEW ep \in V1Points, NEW obj \in V1Row, NEW raised \in BOOLEAN,
           FailedIn(ep, obj, raised)
    PROVE  HandlerTyped
BY FailedMoves DEF HandlerTyped

\* So does a step that saves nothing,
LEMMA GoOnTyped ==
    ASSUME V1Types, v1Work # NoWork, NEW pc \in V1Steps, NEW obj \in V1Row, GoOn(pc, obj),
           UNCHANGED <<v1Row, v1Vnf, v1Occ>>
    PROVE  HandlerTyped
BY WorkRow, GoOnMoves DEF HandlerTyped, V1Types

\* one that saves the object,
LEMMA SaveTyped ==
    ASSUME V1Types, v1Work # NoWork, NEW pc \in V1Steps, NEW obj \in V1Row, SaveGoOn(pc, obj),
           UNCHANGED <<v1Vnf, v1Occ>>
    PROVE  HandlerTyped
BY SaveGoOnMoves DEF HandlerTyped, V1Types

\* and revert_to_error_scale.
LEMMA ScaleErrTyped ==
    ASSUME V1Types, v1Work # NoWork, NEW ep \in V1Points, NEW obj \in V1Row, NEW updated \in BOOLEAN,
           revert_to_error_scale(ep, obj, updated)
    PROVE  HandlerTyped
BY ScaleErrMoves DEF HandlerTyped

\* The calls to Heat keep the types.
LEMMA DriverTypes ==
    ASSUME V1Types, \/ _instantiate_vnf \/ _delete_vnf_instance_resources \/ _heal_vnf \/ _respawn_vnf
                    \/ _change_ext_conn_vnf \/ FullSave
    PROVE  V1Types'
PROOF
<1>0. v1Work # NoWork
  BY AtWork, StepValues
     DEF _instantiate_vnf, _delete_vnf_instance_resources, _heal_vnf, _respawn_vnf, _change_ext_conn_vnf, FullSave
<1>1. /\ v1Work.obj \in V1Row /\ v1Vim \in V1VimRow /\ v1Vim.stack \in BOOLEAN /\ v1Work.obj.stack \in BOOLEAN
      /\ v1Work.obj.level \in Int
  BY <1>0, WorkTypes DEF V1Row
<1>2. v1Cast' \in {NoCast} \cup V1CastRow
  BY DEF _instantiate_vnf, _delete_vnf_instance_resources, _heal_vnf, _respawn_vnf, _change_ext_conn_vnf, FullSave,
         V1Types
<1>3. SUFFICES HandlerTyped /\ v1Vim' \in V1VimRow  BY <1>2 DEF V1Types, HandlerTyped
<1>4. \A ep \in V1Points, obj \in V1Row, raised \in BOOLEAN : FailedIn(ep, obj, raised) => HandlerTyped
  BY <1>0, FailTyped
<1>5. \A pc \in V1Steps, obj \in V1Row : GoOn(pc, obj) /\ UNCHANGED <<v1Row, v1Vnf, v1Occ>> => HandlerTyped
  BY <1>0, GoOnTyped
<1>6. \A pc \in V1Steps, obj \in V1Row : SaveGoOn(pc, obj) /\ UNCHANGED <<v1Vnf, v1Occ>> => HandlerTyped
  BY <1>0, SaveTyped
<1>7. \A l \in Int : [stack |-> TRUE, level |-> l] \in V1VimRow  BY DEF V1VimRow
<1>8. CASE _instantiate_vnf
  <2>1. PICK made : made = [v1Work.obj EXCEPT !.stack = TRUE, !.level = 0]  OBVIOUS
  <2>2. made \in V1Row  BY <1>1, <2>1, MadeRow
  <2>3. KnownPoint(v1Work.obj) \in V1Points  BY StepValues DEF KnownPoint
  <2>4. \/ /\ StackMade(made, 0)
           /\ \/ GoOn("end", made) /\ UNCHANGED <<v1Row, v1Vnf, v1Occ, v1Taint>>
              \/ FailedIn(4, made, TRUE)
        \/ /\ UNCHANGED v1Vim
           /\ FailedIn(KnownPoint(v1Work.obj), v1Work.obj, TRUE)
    BY <1>8, <2>1 DEF _instantiate_vnf
  <2>a. v1Vim' = v1Vim \/ v1Vim' = [stack |-> TRUE, level |-> 0]  BY <2>4 DEF StackMade
  <2>b. [stack |-> TRUE, level |-> 0] \in V1VimRow  BY <1>7
  <2>5. v1Vim' \in V1VimRow  BY <1>1, <2>a, <2>b
  <2>6. HandlerTyped  BY <1>1, <1>4, <1>5, <2>2, <2>3, <2>4, StepValues
  <2>7. QED  BY <2>5, <2>6
<1>9. CASE _delete_vnf_instance_resources
  <2>1. PICK gone : gone = [v1Work.obj EXCEPT !.inst = "NOT_INSTANTIATED"]  OBVIOUS
  <2>2. gone \in V1Row  BY <1>1, <2>1, SomeRows
  <2>3. PICK full : full = [Reinitialized(gone) EXCEPT !.task = "None"]  OBVIOUS
  <2>4. PICK part : part = [Reinitialized(v1Work.obj) EXCEPT !.task = "None"]  OBVIOUS
  <2>5. full \in V1Row /\ part \in V1Row  BY <1>1, <2>2, <2>3, <2>4, Reset, TaskMoves
  <2>6. \/ UNCHANGED v1Vim /\ FailedIn(4, v1Work.obj, TRUE)
        \/ \E s \in {TRUE, FALSE} : v1Vim' = [v1Vim EXCEPT !.stack = @ /\ s] /\ FailedIn(4, gone, TRUE)
        \/ /\ v1Vim' = [v1Vim EXCEPT !.stack = FALSE]
           /\ SaveGoOn("end", full) /\ UNCHANGED <<v1Vnf, v1Occ, v1Taint>>
        \/ SaveGoOn("end", part) /\ UNCHANGED <<v1Vnf, v1Occ, v1Vim, v1Taint>>
    BY <1>9, <2>1, <2>3, <2>4 DEF _delete_vnf_instance_resources
  <2>7. HandlerTyped  BY <1>1, <1>4, <1>6, <2>2, <2>5, <2>6, StepValues
  <2>8. v1Vim' = v1Vim \/ \E s \in BOOLEAN : v1Vim' = [v1Vim EXCEPT !.stack = s]
    <3>1. \A s \in {TRUE, FALSE} : (v1Vim.stack /\ s) \in BOOLEAN  OBVIOUS
    <3>2. ASSUME NEW s \in {TRUE, FALSE}, v1Vim' = [v1Vim EXCEPT !.stack = @ /\ s]
          PROVE  \E b \in BOOLEAN : v1Vim' = [v1Vim EXCEPT !.stack = b]
      BY <3>1, <3>2, Zenon
    <3>3. QED  BY <2>6, <3>2, Zenon
  <2>9. QED  BY <1>1, <2>7, <2>8, VimMoves
<1>10. CASE _heal_vnf
  <2>1. [v1Work.obj EXCEPT !.task = "None"] \in V1Row  BY <1>1, TaskMoves
  <2>2. HandlerTyped  BY <1>1, <1>4, <1>6, <1>10, <2>1, StepValues DEF _heal_vnf
  <2>3. v1Vim' = v1Vim  BY <1>10 DEF _heal_vnf
  <2>4. QED  BY <1>1, <2>2, <2>3
<1>11. CASE _respawn_vnf
  <2>0. PICK there : there = (v1Vim.stack /\ (v1Work.before = 4 \/ ~v1Work.obj.stack))  OBVIOUS
  <2>a. there \in BOOLEAN  BY <2>0
  <2>1. PICK bare : bare = [v1Work.obj EXCEPT !.stack = FALSE]  OBVIOUS
  <2>2. PICK made : made = [v1Work.obj EXCEPT !.stack = TRUE]  OBVIOUS
  <2>3. bare \in V1Row /\ made \in V1Row /\ bare.stack \in BOOLEAN  BY <1>1, <2>1, <2>2, SomeRows DEF V1Row
  <2>4. \A l \in {0, v1Work.obj.level} : [bare EXCEPT !.level = l] \in V1Row
    <3>1. \A l \in Int : [bare EXCEPT !.level = l] \in V1Row  BY <2>3, SomeRows, Zenon
    <3>2. QED  BY <1>1, <3>1
  <2>5. PICK full : full = [made EXCEPT !.inst = "INSTANTIATED", !.task = "None"]  OBVIOUS
  <2>6. full \in V1Row  BY <2>3, <2>5 DEF V1Row
  <2>7. \/ \E s \in {TRUE, FALSE} : v1Vim' = [v1Vim EXCEPT !.stack = @ /\ s] /\ FailedIn(4, v1Work.obj, TRUE)
        \/ /\ v1Vim' = [v1Vim EXCEPT !.stack = there]
           /\ \E l \in {0, v1Work.obj.level} : FailedIn(3, [bare EXCEPT !.level = l], TRUE)
        \/ /\ v1Vim' = [stack |-> TRUE, level |-> v1Work.obj.level]
           /\ \/ SaveGoOn("end", full) /\ UNCHANGED <<v1Vnf, v1Occ, v1Taint>>
              \/ FailedIn(4, made, TRUE)
    BY <1>11, <2>0, <2>1, <2>2, <2>5 DEF _respawn_vnf
  <2>8. HandlerTyped  BY <1>1, <1>4, <1>6, <2>3, <2>4, <2>6, <2>7, StepValues
  <2>9. \/ \E s \in BOOLEAN : v1Vim' = [v1Vim EXCEPT !.stack = s]
        \/ v1Vim' = [stack |-> TRUE, level |-> v1Work.obj.level]
    <3>1. \A s \in {TRUE, FALSE} : (v1Vim.stack /\ s) \in BOOLEAN  OBVIOUS
    <3>2. ASSUME NEW s \in {TRUE, FALSE}, v1Vim' = [v1Vim EXCEPT !.stack = @ /\ s]
          PROVE  \E b \in BOOLEAN : v1Vim' = [v1Vim EXCEPT !.stack = b]
      BY <3>1, <3>2, Zenon
    <3>3. QED  BY <2>a, <2>7, <3>2, Zenon
  <2>10. v1Vim' \in V1VimRow  BY <1>1, <1>7, <2>9, VimMoves
  <2>11. QED  BY <2>8, <2>10
<1>12. CASE _change_ext_conn_vnf
  <2>1. HandlerTyped  BY <1>1, <1>4, <1>5, <1>12, StepValues DEF _change_ext_conn_vnf
  <2>2. v1Vim' = v1Vim  BY <1>12 DEF _change_ext_conn_vnf
  <2>3. QED  BY <1>1, <2>1, <2>2
<1>13. CASE FullSave
  <2>1. PICK inst : inst = CASE v1Work.op = "INSTANTIATE" -> "INSTANTIATED"
                             [] v1Work.op = "TERMINATE" -> "NOT_INSTANTIATED"
                             [] OTHER -> v1Work.obj.inst
    OBVIOUS
  <2>2. inst \in {"none", "NOT_INSTANTIATED", "INSTANTIATED"}  BY <1>1, <2>1 DEF V1Row
  <2>3. [v1Work.obj EXCEPT !.inst = inst, !.task = "None"] \in V1Row  BY <1>1, <2>2 DEF V1Row
  <2>4. \/ SaveGoOn("complete", [v1Work.obj EXCEPT !.inst = inst, !.task = "None"]) /\ UNCHANGED <<v1Vnf, v1Occ>>
        \/ FailedIn(7, v1Work.obj, FALSE)
    BY <1>13, <2>1 DEF FullSave
  <2>5. HandlerTyped  BY <1>1, <1>4, <1>6, <2>3, <2>4, StepValues
  <2>6. v1Vim' = v1Vim  BY <1>13 DEF FullSave
  <2>7. QED  BY <1>1, <2>5, <2>6
<1>14. QED  BY <1>8, <1>9, <1>10, <1>11, <1>12, <1>13

\* scale keeps the types.
LEMMA ScaleTypes ==
    ASSUME V1Types, ScaleBegin \/ ScaleProcess \/ _scale_vnf_pre \/ _scale_vnf \/ _scale_vnf_post, V1MaxLevel \in Nat
    PROVE  V1Types'
PROOF
<1>0. v1Work # NoWork
  BY AtWork, StepValues DEF ScaleBegin, ScaleProcess, _scale_vnf_pre, _scale_vnf, _scale_vnf_post
<1>1. /\ v1Work \in V1WorkRow /\ v1Work.obj \in V1Row /\ v1Work.base \in V1Row /\ v1Row \in V1Row
      /\ v1Vim \in V1VimRow /\ v1Vim.level \in Int /\ v1Vnf \in V1VnfRow /\ v1Vnf.status \in Statuses
      /\ v1Occ \in Seq(V1OccRow) /\ v1Work.obj.level \in Int
  BY <1>0, WorkTypes DEF V1Row
<1>2. v1Cast' \in {NoCast} \cup V1CastRow
  BY DEF ScaleBegin, ScaleProcess, _scale_vnf_pre, _scale_vnf, _scale_vnf_post, V1Types
<1>3. SUFFICES HandlerTyped /\ v1Vim' \in V1VimRow  BY <1>2 DEF V1Types, HandlerTyped
<1>4. \A ep \in V1Points, obj \in V1Row, updated \in BOOLEAN : revert_to_error_scale(ep, obj, updated) => HandlerTyped
  BY <1>0, ScaleErrTyped
<1>5. \A pc \in V1Steps, obj \in V1Row : GoOn(pc, obj) => v1Work' \in V1WorkRow  BY <1>1, GoOnMoves
<1>6. v1Work.op \in Scales  BY DEF ScaleBegin, ScaleProcess, _scale_vnf_pre, _scale_vnf, _scale_vnf_post
<1>7. Pending[v1Work.op] \in Statuses  BY <1>6, StatusValues DEF Scales
<1>8. \A s \in Statuses : SetStatus(s) => v1Vnf' \in V1VnfRow  BY <1>1, StatusMoves
<1>9. CASE ScaleBegin
  <2>1. v1Vnf' = v1Vnf \/ \E s \in {v1Vnf.status, Pending[v1Work.op]} : SetStatus(s)  BY <1>9 DEF ScaleBegin
  <2>2. v1Vnf' \in V1VnfRow  BY <1>1, <1>7, <1>8, <2>1
  <2>3. v1Work' = NoWork \/ GoOn("process", v1Work.obj)  BY <1>9 DEF ScaleBegin
  <2>4. v1Work' \in {NoWork} \cup V1WorkRow  BY <1>1, <1>5, <2>3, StepValues
  <2>5. UNCHANGED <<v1Row, v1Occ, v1Vim>>  BY <1>9 DEF ScaleBegin
  <2>6. QED  BY <1>1, <2>2, <2>4, <2>5 DEF HandlerTyped
<1>10. CASE ScaleProcess
  <2>1. v1Occ' \in Seq(V1OccRow)  BY <1>1, <1>10, OccTyped, StepValues DEF ScaleProcess, SetState
  <2>2. v1Work' \in V1WorkRow  BY <1>1, <1>5, <1>10, StepValues DEF ScaleProcess
  <2>3. UNCHANGED <<v1Row, v1Vnf, v1Vim>>  BY <1>10 DEF ScaleProcess
  <2>4. QED  BY <1>1, <2>1, <2>2, <2>3 DEF HandlerTyped
<1>11. CASE _scale_vnf_pre
  <2>1. v1Vim' = v1Vim  BY <1>11 DEF _scale_vnf_pre
  <2>2. CASE \E ep \in {1, 2} : revert_to_error_scale(ep, v1Work.obj, FALSE)  BY <1>1, <1>4, <2>1, <2>2, StepValues
  <2>3. CASE ~\E ep \in {1, 2} : revert_to_error_scale(ep, v1Work.obj, FALSE)
    <3>1. \E s \in {v1Vnf.status, Pending[v1Work.op]} : SetStatus(s)  BY <1>11, <2>3 DEF _scale_vnf_pre
    <3>2. GoOn("vim", v1Work.obj) /\ UNCHANGED <<v1Row, v1Occ>>  BY <1>11, <2>3 DEF _scale_vnf_pre
    <3>3. v1Vnf' \in V1VnfRow  BY <1>1, <1>7, <1>8, <3>1
    <3>4. v1Work' \in V1WorkRow  BY <1>1, <1>5, <3>2, StepValues
    <3>5. QED  BY <1>1, <2>1, <3>2, <3>3, <3>4 DEF HandlerTyped
  <2>4. QED  BY <2>2, <2>3
<1>12. CASE _scale_vnf
  <2>1. Signalled \in Int /\ After(v1Work.obj) \in Int  BY <1>1 DEF Signalled, After
  <2>2. [v1Work.obj EXCEPT !.level = After(v1Work.obj)] \in V1Row  BY <1>1, <2>1, SomeRows
  <2>3. \/ /\ v1Vim' = [v1Vim EXCEPT !.level = Signalled]
           /\ GoOn("end", [v1Work.obj EXCEPT !.level = After(v1Work.obj)])
           /\ UNCHANGED <<v1Row, v1Vnf, v1Occ>>
        \/ UNCHANGED v1Vim /\ revert_to_error_scale(3, v1Work.obj, FALSE)
        \/ /\ \E l \in {v1Vim.level, Signalled} : v1Vim' = [v1Vim EXCEPT !.level = l]
           /\ revert_to_error_scale(4, v1Work.obj, FALSE)
        \/ GoOn("end", v1Work.obj) /\ UNCHANGED <<v1Row, v1Vnf, v1Occ, v1Vim>>
    BY <1>12 DEF _scale_vnf
  <2>4. v1Vim' = v1Vim \/ \E l \in Int : v1Vim' = [v1Vim EXCEPT !.level = l]  BY <1>1, <2>1, <2>3
  <2>5. v1Vim' \in V1VimRow  BY <1>1, <2>4, VimMoves
  <2>6. \A pc \in V1Steps, obj \in V1Row : GoOn(pc, obj) /\ UNCHANGED <<v1Row, v1Vnf, v1Occ>> => HandlerTyped
    BY <1>0, GoOnTyped
  <2>7. HandlerTyped  BY <1>1, <1>4, <2>2, <2>3, <2>6, StepValues
  <2>8. QED  BY <2>5, <2>7
<1>13. CASE _scale_vnf_post
  <2>1. v1Vim' = v1Vim  BY <1>13 DEF _scale_vnf_post
  <2>2. CASE revert_to_error_scale(6, v1Work.obj, TRUE)  BY <1>1, <1>4, <2>1, <2>2, StepValues
  <2>3. CASE ~revert_to_error_scale(6, v1Work.obj, TRUE)
    <3>1. /\ v1Vnf' = [status |-> IF v1Vnf.status = Pending[v1Work.op] THEN "ACTIVE" ELSE v1Vnf.status,
                       cap |-> v1Vim.level]
          /\ SetState("COMPLETED")
          /\ v1Row' = Saved([v1Work.obj EXCEPT !.task = "None"])
          /\ v1Work' = NoWork
      BY <1>13, <2>3 DEF _scale_vnf_post
    <3>2. v1Vnf' \in V1VnfRow  BY <1>1, <3>1, StatusValues DEF V1VnfRow
    <3>3. v1Occ' \in Seq(V1OccRow)  BY <1>1, <3>1, OccTyped, StepValues DEF SetState
    <3>4. v1Row' \in V1Row  BY <1>1, <3>1, TaskMoves, SavedFields
    <3>5. QED  BY <1>1, <2>1, <3>1, <3>2, <3>3, <3>4 DEF HandlerTyped
  <2>4. QED  BY <2>2, <2>3
<1>14. QED  BY <1>9, <1>10, <1>11, <1>12, <1>13

\* rollback and update keep the types.
LEMMA RollbackTypes ==
    ASSUME V1Types, RollbackBegin \/ _rollback_vnf \/ _rollback_vnf_post \/ UpdateBegin \/ modify_vnf
    PROVE  V1Types'
PROOF
<1>0. v1Work # NoWork
  BY AtWork, StepValues DEF RollbackBegin, _rollback_vnf, _rollback_vnf_post, UpdateBegin, modify_vnf
<1>1. /\ v1Work \in V1WorkRow /\ v1Work.obj \in V1Row /\ v1Work.base \in V1Row /\ v1Row \in V1Row
      /\ v1Vim \in V1VimRow /\ v1Vim.level \in Int /\ v1Vnf \in V1VnfRow /\ v1Vnf.status \in Statuses
      /\ v1Occ \in Seq(V1OccRow) /\ v1Work.before \in V1Points /\ v1Vnf.cap \in Int /\ v1Vim.stack \in BOOLEAN
  BY <1>0, WorkTypes
<1>2. v1Cast' \in {NoCast} \cup V1CastRow
  BY DEF RollbackBegin, _rollback_vnf, _rollback_vnf_post, UpdateBegin, modify_vnf, V1Types
<1>3. SUFFICES HandlerTyped /\ v1Vim' \in V1VimRow  BY <1>2 DEF V1Types, HandlerTyped
<1>4. \A ep \in V1Points : revert_to_error_rollback(ep) => /\ v1Row' \in V1Row /\ v1Occ' \in Seq(V1OccRow)
                                                           /\ v1Work' = NoWork
  BY <1>0, RollbackErrMoves
<1>5. \A pc \in V1Steps, obj \in V1Row : GoOn(pc, obj) => v1Work' \in V1WorkRow  BY <1>1, GoOnMoves
<1>6. CASE RollbackBegin
  <2>1. v1Occ' \in Seq(V1OccRow)  BY <1>1, <1>6, OccTyped, StepValues DEF RollbackBegin, SetState
  <2>2. v1Work' \in V1WorkRow  BY <1>1, <1>5, <1>6, StepValues DEF RollbackBegin
  <2>3. UNCHANGED <<v1Row, v1Vnf, v1Vim>>  BY <1>6 DEF RollbackBegin
  <2>4. QED  BY <1>1, <2>1, <2>2, <2>3 DEF HandlerTyped
<1>7. CASE _rollback_vnf
  <2>1. PICK less : less = [v1Vim EXCEPT !.level = v1Vnf.cap]  OBVIOUS
  <2>2. PICK none : none = [v1Vim EXCEPT !.stack = @ /\ ~v1Work.obj.stack]  OBVIOUS
  <2>3. less \in V1VimRow  BY <1>1, <2>1, VimMoves
  <2>4. none \in V1VimRow
    <3>1. PICK b : b = (v1Vim.stack /\ ~v1Work.obj.stack)  OBVIOUS
    <3>2. b \in BOOLEAN  BY <3>1
    <3>3. none = [v1Vim EXCEPT !.stack = b]  BY <2>2, <3>1, Zenon
    <3>4. QED  BY <1>1, <3>2, <3>3, VimMoves
  <2>5. v1Vim' \in {v1Vim, less, none}  BY <1>7, <2>1, <2>2 DEF _rollback_vnf
  <2>6. \/ GoOn("end", v1Work.obj) /\ UNCHANGED <<v1Row, v1Occ>>
        \/ revert_to_error_rollback(v1Work.before)
    BY <1>7 DEF _rollback_vnf
  <2>7. v1Vnf' = v1Vnf  BY <1>7 DEF _rollback_vnf
  <2>8. v1Row' \in V1Row /\ v1Occ' \in Seq(V1OccRow) /\ v1Work' \in {NoWork} \cup V1WorkRow
    BY <1>1, <1>4, <1>5, <2>6, StepValues
  <2>9. QED  BY <1>1, <2>3, <2>4, <2>5, <2>7, <2>8 DEF HandlerTyped
<1>8. CASE _rollback_vnf_post
  <2>1. v1Vim' = v1Vim  BY <1>8 DEF _rollback_vnf_post
  <2>2. CASE revert_to_error_rollback(3)
    <3>a. v1Vnf' = v1Vnf \/ \E s \in {"ACTIVE", "INACTIVE", v1Vnf.status} : SetStatus(s)
      BY <1>8 DEF _rollback_vnf_post, RolledBackStatus
    <3>1. v1Vnf' \in V1VnfRow  BY <1>1, <3>a, StatusMoves, StatusValues
    <3>2. QED  BY <1>1, <1>4, <2>1, <2>2, <3>1, StepValues DEF HandlerTyped
  <2>3. CASE ~revert_to_error_rollback(3)
    <3>0. PICK obj : obj = IF Undone = "SCALE_OUT" THEN v1Work.obj ELSE Reinitialized(v1Work.obj)  OBVIOUS
    <3>1. obj \in V1Row  BY <1>1, <3>0, Reset
    <3>2. /\ SetStatus(IF v1Vnf.status = "ERROR" THEN RolledBackStatus ELSE v1Vnf.status)
          /\ v1Occ' = [v1Occ EXCEPT ![v1Work.occ].state = "ROLLED_BACK", ![v1Work.occ].ep = 2]
          /\ v1Row' = Saved([obj EXCEPT !.task = "None"])
          /\ v1Work' = NoWork
      BY <1>8, <2>3, <3>0 DEF _rollback_vnf_post
    <3>3. \E s \in {"ACTIVE", "INACTIVE", v1Vnf.status} : SetStatus(s)  BY <3>2 DEF RolledBackStatus
    <3>4. v1Vnf' \in V1VnfRow  BY <1>1, <3>3, StatusMoves, StatusValues
    <3>5. v1Occ' \in Seq(V1OccRow)  BY <1>1, <3>2, OccTyped, StepValues
    <3>6. v1Row' \in V1Row  BY <1>1, <3>1, <3>2, TaskMoves, SavedFields
    <3>7. QED  BY <1>1, <2>1, <3>2, <3>4, <3>5, <3>6 DEF HandlerTyped
  <2>4. QED  BY <2>2, <2>3
<1>9. CASE UpdateBegin
  <2>1. PICK r : r = [op |-> "MODIFY_INFO", state |-> "PROCESSING", ep |-> 0]  OBVIOUS
  <2>2. r \in V1OccRow  BY <2>1 DEF V1OccRow, V1Ops, V1States, V1Points
  <2>3. v1Occ' = Append(v1Occ, r)  BY <1>9, <2>1 DEF UpdateBegin
  <2>4. v1Occ' \in Seq(V1OccRow)  BY <1>1, <2>2, <2>3, OccAdded
  <2>5. v1Work' \in V1WorkRow  BY <1>1, <1>5, <1>9, StepValues DEF UpdateBegin
  <2>6. UNCHANGED <<v1Row, v1Vnf, v1Vim>>  BY <1>9 DEF UpdateBegin
  <2>7. QED  BY <1>1, <2>4, <2>5, <2>6 DEF HandlerTyped
<1>10. CASE modify_vnf
  <2>1. v1Work' = NoWork /\ UNCHANGED <<v1Row, v1Vim>>  BY <1>10 DEF modify_vnf
  <2>2. v1Vnf' = v1Vnf \/ SetStatus("ERROR")  BY <1>10 DEF modify_vnf, revert_update_lcm
  <2>3. v1Vnf' \in V1VnfRow  BY <1>1, <2>2, StatusMoves, StatusValues
  <2>4. \/ v1Occ' = [v1Occ EXCEPT ![v1Work.occ].state = "COMPLETED"]
        \/ v1Occ' = [v1Occ EXCEPT ![v1Work.occ].state = "FAILED_TEMP", ![v1Work.occ].ep = 0]
    BY <1>10 DEF modify_vnf, revert_update_lcm, SetState, SetFailed
  <2>5. v1Occ' \in Seq(V1OccRow)  BY <1>1, <2>4, OccTyped, StepValues
  <2>6. QED  BY <1>1, <2>1, <2>3, <2>5 DEF HandlerTyped
<1>11. QED  BY <1>6, <1>7, <1>8, <1>9, <1>10

\* The fields of a cast.
LEMMA CastTyped ==
    ASSUME V1Types, v1Cast # NoCast
    PROVE  /\ v1Cast \in V1CastRow /\ v1Cast.op \in V1Handled /\ v1Cast.occ \in Nat /\ v1Cast.before \in V1Points
           /\ v1Cast.status \in Statuses /\ v1Cast.row \in V1Row
PROOF
<1>1. v1Cast \in V1CastRow  BY DEF V1Types
<1>2. QED  BY <1>1 DEF V1CastRow

\* The handler that begins with a cast.
LEMMA Received ==
    ASSUME v1Cast \in V1CastRow,
           v1Work' = [op |-> v1Cast.op, occ |-> v1Cast.occ, before |-> v1Cast.before, status |-> v1Cast.status,
                      base |-> v1Cast.row, obj |-> v1Cast.row, pc |-> "begin", late |-> FALSE]
    PROVE  /\ v1Work' \in V1WorkRow
           /\ v1Work'.op = v1Cast.op /\ v1Work'.occ = v1Cast.occ /\ v1Work'.before = v1Cast.before
           /\ v1Work'.status = v1Cast.status /\ v1Work'.base = v1Cast.row /\ v1Work'.obj = v1Cast.row
           /\ v1Work'.pc = "begin" /\ ~v1Work'.late
PROOF
<1>1. PICK w : w = [op |-> v1Cast.op, occ |-> v1Cast.occ, before |-> v1Cast.before, status |-> v1Cast.status,
                    base |-> v1Cast.row, obj |-> v1Cast.row, pc |-> "begin", late |-> FALSE]
  OBVIOUS
<1>2. w \in V1WorkRow  BY <1>1 DEF V1WorkRow, V1CastRow, V1Steps
<1>3. /\ w.op = v1Cast.op /\ w.occ = v1Cast.occ /\ w.before = v1Cast.before
      /\ w.status = v1Cast.status /\ w.base = v1Cast.row /\ w.obj = v1Cast.row
      /\ w.pc = "begin" /\ ~w.late
  BY <1>1
<1>4. v1Work' = w  BY <1>1, Zenon
<1>5. QED  BY <1>2, <1>3, <1>4, Zenon

\* A handler is cancelled.
LEMMA CancelledWork ==
    ASSUME v1Work \in V1WorkRow, v1Work' = [v1Work EXCEPT !.late = TRUE]
    PROVE  /\ v1Work' \in V1WorkRow
           /\ v1Work'.op = v1Work.op /\ v1Work'.occ = v1Work.occ /\ v1Work'.before = v1Work.before
           /\ v1Work'.status = v1Work.status /\ v1Work'.base = v1Work.base /\ v1Work'.obj = v1Work.obj
           /\ v1Work'.pc = v1Work.pc /\ v1Work'.late
PROOF
<1>1. PICK b : b = TRUE  OBVIOUS
<1>2. PICK w : w = [v1Work EXCEPT !.late = b]  OBVIOUS
<1>3. w \in V1WorkRow  BY <1>1, <1>2 DEF V1WorkRow
<1>4. /\ w.op = v1Work.op /\ w.occ = v1Work.occ /\ w.before = v1Work.before
      /\ w.status = v1Work.status /\ w.base = v1Work.base /\ w.obj = v1Work.obj
      /\ w.pc = v1Work.pc /\ w.late = b
  BY <1>2 DEF V1WorkRow
<1>5. v1Work' = w  BY <1>1, <1>2, Zenon
<1>6. QED  BY <1>1, <1>3, <1>4, <1>5, Zenon

\* Requests, the receipt of a cast and a crash keep the types.
LEMMA ClientTypes ==
    ASSUME V1Types,
           \/ \E op \in V1Ops : v1_request(op)
           \/ \E o \in DOMAIN v1Occ : v1_retry(o) \/ v1_rollback(o) \/ v1_fail(o) \/ v1_cancel(o)
           \/ v1_delete \/ v1_receive \/ v1_crash
    PROVE  V1Types'
PROOF
<1>1. /\ v1Row \in V1Row /\ v1Vnf \in V1VnfRow /\ v1Occ \in Seq(V1OccRow) /\ v1Cast \in {NoCast} \cup V1CastRow
      /\ v1Work \in {NoWork} \cup V1WorkRow /\ v1Vim \in V1VimRow
  BY DEF V1Types
<1>a. \A o \in DOMAIN v1Occ : o \in Nat /\ v1Occ[o] \in V1OccRow  BY <1>1
<1>b. \A o \in DOMAIN v1Occ : v1Occ[o].op \in V1Ops /\ v1Occ[o].ep \in V1Points  BY <1>a DEF V1OccRow
<1>c. v1Vnf.status \in Statuses  BY <1>1 DEF V1VnfRow
<1>2. v1Vim' = v1Vim
  BY DEF v1_request, v1_retry, v1_rollback, v1_fail, v1_cancel, v1_delete, v1_receive, v1_crash
<1>3. ASSUME NEW op \in V1Ops, v1_request(op) PROVE V1Types'
  <2>1. Submit(op, 0, 0) /\ UNCHANGED <<v1Vnf, v1Work>>  BY <1>3 DEF v1_request
  <2>2. 0 \in V1Points /\ 0 \in Nat  BY DEF V1Points
  <2>3. v1Row' \in V1Row /\ v1Cast' \in V1CastRow /\ v1Occ' \in Seq(V1OccRow)  BY <2>1, <2>2, SubmitMoves
  <2>4. QED  BY <1>1, <1>2, <2>1, <2>3 DEF V1Types
<1>4. ASSUME NEW o \in DOMAIN v1Occ, v1_retry(o) PROVE V1Types'
  <2>1. Submit(v1Occ[o].op, v1Occ[o].ep, o) /\ UNCHANGED <<v1Vnf, v1Work>>  BY <1>4 DEF v1_retry
  <2>2. v1Occ[o].op \in V1Ops /\ v1Occ[o].ep \in V1Points /\ o \in Nat  BY <1>a, <1>b
  <2>3. v1Row' \in V1Row /\ v1Cast' \in V1CastRow /\ v1Occ' \in Seq(V1OccRow)  BY <2>1, <2>2, SubmitMoves
  <2>4. QED  BY <1>1, <1>2, <2>1, <2>3 DEF V1Types
<1>5. ASSUME NEW o \in DOMAIN v1Occ, v1_rollback(o) PROVE V1Types'
  <2>1. /\ v1Cast' = [op |-> "ROLLBACK", occ |-> o, before |-> v1Occ[o].ep, status |-> v1Vnf.status, row |-> v1Row]
        /\ UNCHANGED <<v1Row, v1Vnf, v1Occ, v1Work>>
    BY <1>5 DEF v1_rollback
  <2>2. v1Cast' \in V1CastRow  BY <1>1, <1>a, <1>b, <1>c, <2>1 DEF V1CastRow, V1Handled
  <2>3. QED  BY <1>1, <1>2, <2>1, <2>2 DEF V1Types
<1>6. ASSUME NEW o \in DOMAIN v1Occ, v1_fail(o) PROVE V1Types'
  <2>1. /\ \E s \in {"ACTIVE", "INACTIVE"} : SetStatus(s)
        /\ v1Row' = [v1Row EXCEPT !.task = "None"]
        /\ v1Occ' = [v1Occ EXCEPT ![o].state = "FAILED"]
        /\ UNCHANGED <<v1Cast, v1Work>>
    BY <1>6 DEF v1_fail, SetStatus
  <2>2. v1Vnf' \in V1VnfRow  BY <1>1, <2>1, StatusMoves, StatusValues
  <2>3. v1Row' \in V1Row  BY <1>1, <2>1, TaskMoves
  <2>4. v1Occ' \in Seq(V1OccRow)  BY <1>1, <2>1, OccTyped, StepValues
  <2>5. QED  BY <1>1, <1>2, <2>1, <2>2, <2>3, <2>4 DEF V1Types
<1>7. ASSUME NEW o \in DOMAIN v1Occ, v1_cancel(o) PROVE V1Types'
  <2>1. /\ SetStatus("ERROR")
        /\ v1Row' = [v1Row EXCEPT !.task = "None"]
        /\ v1Occ' = [v1Occ EXCEPT ![o].state = "FAILED_TEMP"]
        /\ v1Work' = v1Work \/ (v1Work.occ = o /\ v1Work' = [v1Work EXCEPT !.late = TRUE])
        /\ UNCHANGED v1Cast
    BY <1>7 DEF v1_cancel, SetStatus
  <2>2. v1Vnf' \in V1VnfRow  BY <1>1, <2>1, StatusMoves, StatusValues
  <2>3. v1Row' \in V1Row  BY <1>1, <2>1, TaskMoves
  <2>4. v1Occ' \in Seq(V1OccRow)  BY <1>1, <2>1, OccTyped, StepValues
  <2>5. o # 0  BY <1>1
  <2>6. v1Work' \in {NoWork} \cup V1WorkRow
    <3>1. CASE v1Work = NoWork  BY <1>1, <2>1, <2>5, <3>1, IdleWork
    <3>2. CASE v1Work # NoWork  BY <1>1, <2>1, <3>2, CancelledWork
    <3>3. QED  BY <3>1, <3>2
  <2>7. QED  BY <1>1, <1>2, <2>1, <2>2, <2>3, <2>4, <2>6 DEF V1Types
<1>8. CASE v1_delete
  <2>1. v1Row' = [v1Row EXCEPT !.inst = "none"] /\ UNCHANGED <<v1Vnf, v1Occ, v1Cast, v1Work>>  BY <1>8 DEF v1_delete
  <2>2. v1Row' \in V1Row  BY <1>1, <2>1, SomeRows
  <2>3. QED  BY <1>1, <1>2, <2>1, <2>2 DEF V1Types
<1>9. CASE v1_receive
  <2>1. v1Cast \in V1CastRow  BY <1>9, CastTyped DEF v1_receive
  <2>2. v1Cast' = NoCast /\ v1Vnf' = v1Vnf  BY <1>9 DEF v1_receive
  <2>3. CASE UNCHANGED <<v1Row, v1Occ>>
    <3>1. v1Work' \in {NoWork} \cup V1WorkRow  BY <1>9, <1>1, <2>1, Received DEF v1_receive
    <3>2. QED  BY <1>1, <1>2, <2>2, <2>3, <3>1 DEF V1Types
  <2>4. CASE grant_error_common /\ UNCHANGED v1Work
    <3>1. v1Row' \in V1Row  BY <1>1, <2>4, TaskMoves DEF grant_error_common
    <3>2. v1Occ' \in Seq(V1OccRow)  BY <1>1, <2>4, OccTyped, StepValues DEF grant_error_common
    <3>3. QED  BY <1>1, <1>2, <2>2, <2>4, <3>1, <3>2 DEF V1Types
  <2>5. QED  BY <1>9, <2>3, <2>4 DEF v1_receive
<1>10. CASE v1_crash
  <2>1. v1Work' = NoWork /\ UNCHANGED <<v1Row, v1Vnf, v1Occ, v1Cast>>  BY <1>10 DEF v1_crash
  <2>2. QED  BY <1>1, <1>2, <2>1 DEF V1Types
<1>11. QED  BY <1>3, <1>4, <1>5, <1>6, <1>7, <1>8, <1>9, <1>10

\* The types hold at the start.
LEMMA TypesInit == LcmV1Init => V1Types
PROOF
<1>1. SUFFICES ASSUME LcmV1Init PROVE V1Types  OBVIOUS
<1>2. v1Row \in V1Row /\ v1Vim \in V1VimRow  BY <1>1 DEF LcmV1Init, V1Row, V1VimRow
<1>3. v1Vnf \in V1VnfRow  BY <1>1, StatusValues DEF LcmV1Init, V1VnfRow
<1>4. v1Occ \in Seq(V1OccRow) /\ v1Cast = NoCast /\ v1Work = NoWork  BY <1>1 DEF LcmV1Init
<1>5. QED  BY <1>2, <1>3, <1>4 DEF V1Types

\* Every step keeps the types.
LEMMA TypesNext == ASSUME V1Types, [LcmV1Next]_v1Vars PROVE V1Types'
PROOF
<1>0. V1MaxLevel \in Nat  BY V1Assumption
<1>1. CASE UNCHANGED v1Vars  BY <1>1 DEF V1Types, v1Vars
<1>2. CASE LcmV1Next
  BY <1>0, <1>2, ClientTypes, FullTypes, DriverTypes, ScaleTypes, RollbackTypes DEF LcmV1Next, V1Conductor, V1Driver
<1>3. QED  BY <1>1, <1>2

----------------------------------------------------------------------------
\* The last operation gets another state, the others have ended.
LEMMA LastMoves ==
    ASSUME V1Types, LastOpen, Last > 0, NEW s \in V1States, NEW e \in V1Points, OccBecomes(Last, s, e)
    PROVE  Last' = Last /\ LastOp' = LastOp /\ LastState' = s /\ LastOpen' /\ v1Occ'[Last'].ep = e
PROOF
<1>1. v1Occ \in Seq(V1OccRow)  BY DEF V1Types
<1>2. Last' = Last /\ DOMAIN v1Occ' = DOMAIN v1Occ  BY DEF OccBecomes, Last
<1>3. Last \in DOMAIN v1Occ  BY <1>1 DEF Last
<1>4. LastOp' = LastOp /\ LastState' = s /\ v1Occ'[Last'].ep = e  BY <1>2, <1>3 DEF OccBecomes, LastOp, LastState
<1>5. LastOpen'  BY <1>2 DEF OccBecomes, LastOpen
<1>6. QED  BY <1>2, <1>4, <1>5

\* A step that writes no occurrence.
LEMMA LastKept ==
    ASSUME v1Occ' = v1Occ
    PROVE  /\ Last' = Last /\ LastOp' = LastOp /\ LastState' = LastState
           /\ LastOpen => LastOpen'
           /\ AllEnded => AllEnded'
BY DEF Last, LastOp, LastState, LastOpen, AllEnded

\* The last operation is one.
LEMMA LastIn ==
    ASSUME V1Types, Last > 0
    PROVE  /\ Last \in DOMAIN v1Occ /\ v1Occ[Last] \in V1OccRow /\ LastOp \in V1Ops /\ LastState \in V1States
           /\ v1Occ[Last].ep \in V1Points /\ Last \in Nat
PROOF
<1>1. v1Occ \in Seq(V1OccRow)  BY DEF V1Types
<1>2. Last \in DOMAIN v1Occ /\ v1Occ[Last] \in V1OccRow /\ Last \in Nat  BY <1>1 DEF Last
<1>3. QED  BY <1>2 DEF LastOp, LastState, V1OccRow

\* A cast that waits behind a handler: the handler was cancelled, and the cast
\* deals with the operation, which is in ERROR.
LEMMA Waiting ==
    ASSUME V1Parts, Working, Casting
    PROVE  /\ v1Work.late /\ v1Cast.op # "MODIFY_INFO" /\ v1Vnf.status = "ERROR" /\ LastState # "PROCESSING"
           /\ v1Work.op \notin {"ROLLBACK", "MODIFY_INFO"} /\ v1Work.pc \notin {"begin", "process"}
           /\ v1Cast.op = "ROLLBACK" \/ v1Cast.op = v1Work.op
PROOF
<1>1. /\ v1Work.late /\ ~Fresh(v1Cast)  BY DEF V1Parts, CastInv
<1>2. v1Cast.op # "MODIFY_INFO"  BY <1>1 DEF V1Parts, CastInv, Fresh
<1>3. v1Vnf.status = "ERROR" /\ LastState # "PROCESSING" /\ OccOf(v1Cast)  BY <1>1, <1>2 DEF V1Parts, CastInv
<1>4. v1Work.op \notin {"ROLLBACK", "MODIFY_INFO"} /\ v1Work.pc \notin {"begin", "process"}
  BY <1>1 DEF V1Parts, WorkInv
<1>5. OccOf(v1Work)  BY <1>4 DEF V1Parts, WorkInv, Pre
<1>6. v1Cast.op = "ROLLBACK" \/ v1Cast.op = v1Work.op  BY <1>3, <1>4, <1>5 DEF OccOf
<1>7. QED  BY <1>1, <1>2, <1>3, <1>4, <1>6

\* A cast that waits behind a handler stays true when the handler steps.
LEMMA CastKept ==
    ASSUME V1Parts, Working, v1Cast' = v1Cast, Last' = Last, LastOp' = LastOp,
           Casting => LastState' # "PROCESSING" /\ v1Vnf'.status = "ERROR",
           v1Work.op \in Scales => v1Row'.inst = "INSTANTIATED",
           Casting => v1Work' = NoWork \/ v1Work'.late
    PROVE  CastInv'
PROOF
<1>1. CASE ~Casting  BY <1>1 DEF CastInv, Casting
<1>2. CASE Casting
  <2>1. v1Cast.op # "MODIFY_INFO" /\ (v1Cast.op = "ROLLBACK" \/ v1Cast.op = v1Work.op)
    BY <1>2, Waiting
  <2>2. OccOf(v1Cast)' /\ LastState' # "PROCESSING"
    BY <1>2, <2>1 DEF V1Parts, CastInv, OccOf
  <2>3. StatusOf(v1Cast)'
    BY <1>2, <2>1 DEF StatusOf, ScaleStatuses, Scales
  <2>4. /\ v1Cast.op \in Scales => v1Cast.row.inst = "INSTANTIATED"
        /\ ~Fresh(v1Cast) => v1Cast.status = "ERROR"
        /\ ~Fresh(v1Cast)
    BY <1>2 DEF V1Parts, CastInv
  <2>5. ~Fresh(v1Cast)'  BY <2>4 DEF Fresh
  <2>6. QED  BY <1>2, <2>1, <2>2, <2>3, <2>4, <2>5 DEF CastInv, Working
<1>3. QED  BY <1>1, <1>2

\* The handler is over, whatever became of the operation.
LEMMA HandlerEnds ==
    ASSUME V1Types, V1Parts, Working, v1Cast' = v1Cast, v1Work' = NoWork,
           Last' = Last, LastOp' = LastOp, LastOpen',
           Casting => LastState' # "PROCESSING",
           v1Vnf.status = "ERROR" /\ Casting => v1Vnf'.status = "ERROR",
           v1Work.op \in Scales => v1Row'.inst = "INSTANTIATED",
           Last' > 0 /\ LastState' = "FAILED_TEMP" => v1Vnf'.status = "ERROR"
    PROVE  V1Parts'
PROOF
<1>1. Casting => v1Vnf.status = "ERROR"  BY Waiting
<1>2. CastInv'  BY <1>1, CastKept
<1>3. WorkInv'  BY DEF WorkInv, Working
<1>4. ErrorInv'  BY DEF ErrorInv
<1>5. QED  BY <1>2, <1>3, <1>4 DEF V1Parts

\* FailedIn, revert_to_error_scale and the others, with an occurrence.
LEMMA HandlerFails ==
    ASSUME V1Types, V1Parts, Working, v1Cast' = v1Cast, v1Work' = NoWork, ~Pre, NEW e \in V1Points,
           OccBecomes(Last, "FAILED_TEMP", e), v1Vnf'.status = "ERROR",
           v1Work.op \in Scales => v1Row'.inst = "INSTANTIATED"
    PROVE  V1Parts'
PROOF
<1>1. Last > 0 /\ LastOpen  BY DEF V1Parts, WorkInv, OccOf
<1>2. /\ Last' = Last /\ LastOp' = LastOp /\ LastOpen' /\ LastState' = "FAILED_TEMP"
  BY <1>1, LastMoves, StepValues
<1>3. QED  BY <1>2, HandlerEnds

\* The handler goes on between its first writes and its last ones, and nothing
\* but the row is written.
LEMMA HandlerGoesOn ==
    ASSUME V1Types, V1Parts, Working, v1Cast' = v1Cast, UNCHANGED <<v1Occ, v1Vnf>>,
           v1Work' # NoWork, v1Work'.op = v1Work.op, v1Work'.occ = v1Work.occ, v1Work'.before = v1Work.before,
           v1Work'.status = v1Work.status, v1Work'.late = v1Work.late,
           v1Work.pc \in {"script", "vim", "end"}, v1Work'.pc \in {"vim", "end", "final"},
           v1Work'.pc = "final" => FullOp,
           v1Work.op \in Scales => /\ v1Row'.inst = "INSTANTIATED"
                                   /\ v1Work'.obj.inst = "INSTANTIATED" /\ v1Work'.base.inst = "INSTANTIATED"
    PROVE  V1Parts'
PROOF
<1>1. /\ Last' = Last /\ LastOp' = LastOp /\ LastState' = LastState /\ LastOpen'
  BY LastKept DEF V1Parts
<1>2. v1Work.op # "MODIFY_INFO" /\ ~Pre /\ OccOf(v1Work)  BY DEF V1Parts, WorkInv, Pre
<1>3. CastInv'  BY <1>1, CastKept, Waiting
<1>4. WorkInv'
  <2>1. ~Pre' /\ OccOf(v1Work)'  BY <1>1, <1>2 DEF Pre, OccOf
  <2>2. StatusOf(v1Work)'  BY <1>2 DEF V1Parts, WorkInv, StatusOf
  <2>3. FullOp' = FullOp  BY DEF FullOp
  <2>4. /\ v1Work.op \in {"ROLLBACK", "MODIFY_INFO"} => ~v1Work.late
        /\ v1Work.late => LastState # "PROCESSING"
        /\ ~v1Work.late => LastState = IF v1Work.op = "ROLLBACK" THEN "ROLLING_BACK" ELSE "PROCESSING"
    BY DEF V1Parts, WorkInv
  <2>5. QED  BY <1>1, <1>2, <2>1, <2>2, <2>3, <2>4 DEF WorkInv
<1>5. ErrorInv'  BY <1>1 DEF V1Parts, ErrorInv
<1>6. QED  BY <1>1, <1>3, <1>4, <1>5 DEF V1Parts

\* The occurrence of a handler that has one.
LEMMA WorkOcc ==
    ASSUME V1Types, V1Parts, Working, ~Pre
    PROVE  /\ v1Work.occ = Last /\ Last > 0 /\ v1Work.occ \in DOMAIN v1Occ /\ LastOpen
           /\ LastOp = v1Work.op \/ v1Work.op = "ROLLBACK"
PROOF
<1>1. OccOf(v1Work) /\ LastOpen  BY DEF V1Parts, WorkInv
<1>2. QED  BY <1>1, LastIn DEF OccOf

\* The except clause keeps V1Parts.
LEMMA FullFails ==
    ASSUME V1Types, V1Parts, Working, FullOp, v1Cast' = v1Cast,
           NEW ep \in V1Points, NEW obj \in V1Row, NEW raised \in BOOLEAN, FailedIn(ep, obj, raised)
    PROVE  V1Parts'
PROOF
<1>1. ~Pre /\ v1Work.op \notin Scales  BY DEF FullOp, Pre
<1>2. v1Work.occ = Last /\ v1Work.occ \in DOMAIN v1Occ  BY <1>1, WorkOcc
<1>3. OccBecomes(Last, "FAILED_TEMP", ep) /\ v1Vnf'.status = "ERROR" /\ v1Work' = NoWork
  BY <1>2, FailedMoves DEF Working
<1>4. QED  BY <1>1, <1>3, HandlerFails

\* Steps of these handlers that write the status or the operation.
LEMMA FullGoesOn ==
    ASSUME V1Types, V1Parts, Working, FullOp, v1Cast' = v1Cast, UNCHANGED <<v1Occ, v1Vnf>>,
           v1Work.pc \in {"script", "vim", "end"}, NEW pc \in {"vim", "end", "final"}, NEW obj \in V1Row,
           GoOn(pc, obj) \/ SaveGoOn(pc, obj)
    PROVE  V1Parts'
PROOF
<1>1. v1Work \in V1WorkRow /\ pc \in V1Steps  BY WorkRow, StepValues DEF Working
<1>2. /\ v1Work' \in V1WorkRow
      /\ v1Work'.op = v1Work.op /\ v1Work'.occ = v1Work.occ /\ v1Work'.before = v1Work.before
      /\ v1Work'.status = v1Work.status /\ v1Work'.late = v1Work.late /\ v1Work'.pc = pc
  <2>1. CASE GoOn(pc, obj)  BY <1>1, <2>1, GoOnMoves
  <2>2. CASE SaveGoOn(pc, obj)  BY <1>1, <2>2, SaveGoOnMoves DEF Working
  <2>3. QED  BY <2>1, <2>2
<1>3. v1Work' # NoWork  BY <1>1, <1>2, IdleWork DEF V1Steps
<1>4. v1Work.op \notin Scales  BY DEF FullOp
<1>5. QED  BY <1>2, <1>3, <1>4, HandlerGoesOn

\* The calls to Heat and the scripts keep V1Parts.
LEMMA DriverParts ==
    ASSUME V1Types, V1Parts, \/ _instantiate_vnf \/ _delete_vnf_instance_resources \/ _heal_vnf \/ _respawn_vnf
                             \/ _change_ext_conn_vnf \/ SkipVim \/ FullScript \/ FullEnd
    PROVE  V1Parts'
PROOF
<1>0. /\ v1Work.pc \in {"script", "vim", "end"} /\ v1Cast' = v1Cast /\ FullOp
  BY DEF _instantiate_vnf, _delete_vnf_instance_resources, _heal_vnf, _respawn_vnf, _change_ext_conn_vnf, SkipVim,
         FullScript, FullEnd, At, FullOp, Scales, Heals
<1>1. Working  BY <1>0, IdleWork DEF Working
<1>2. v1Work.obj \in V1Row /\ v1Work.obj.level \in Int  BY <1>1, WorkTypes DEF Working, V1Row
<1>3. \A ep \in V1Points, obj \in V1Row, raised \in BOOLEAN : FailedIn(ep, obj, raised) => V1Parts'
  BY <1>0, <1>1, FullFails
<1>4. \A pc \in {"vim", "end", "final"}, obj \in V1Row :
         (GoOn(pc, obj) \/ SaveGoOn(pc, obj)) /\ UNCHANGED <<v1Occ, v1Vnf>> => V1Parts'
  BY <1>0, <1>1, FullGoesOn
<1>5. CASE _instantiate_vnf
  <2>1. PICK made : made = [v1Work.obj EXCEPT !.stack = TRUE, !.level = 0]  OBVIOUS
  <2>2. made \in V1Row  BY <1>2, <2>1, MadeRow
  <2>3. KnownPoint(v1Work.obj) \in V1Points  BY StepValues DEF KnownPoint
  <2>4. \/ GoOn("end", made) /\ UNCHANGED <<v1Vnf, v1Occ>>
        \/ FailedIn(4, made, TRUE)
        \/ FailedIn(KnownPoint(v1Work.obj), v1Work.obj, TRUE)
    BY <1>5, <2>1 DEF _instantiate_vnf
  <2>5. QED  BY <1>2, <1>3, <1>4, <2>2, <2>3, <2>4, StepValues
<1>6. CASE _delete_vnf_instance_resources
  <2>1. PICK gone : gone = [v1Work.obj EXCEPT !.inst = "NOT_INSTANTIATED"]  OBVIOUS
  <2>2. gone \in V1Row  BY <1>2, <2>1, SomeRows
  <2>3. PICK full : full = [Reinitialized(gone) EXCEPT !.task = "None"]  OBVIOUS
  <2>4. PICK part : part = [Reinitialized(v1Work.obj) EXCEPT !.task = "None"]  OBVIOUS
  <2>5. full \in V1Row /\ part \in V1Row  BY <1>2, <2>2, <2>3, <2>4, Reset, TaskMoves
  <2>6. \/ \E obj \in {v1Work.obj, gone} : FailedIn(4, obj, TRUE)
        \/ \E obj \in {full, part} : SaveGoOn("end", obj) /\ UNCHANGED <<v1Vnf, v1Occ>>
    BY <1>6, <2>1, <2>3, <2>4 DEF _delete_vnf_instance_resources
  <2>7. QED  BY <1>2, <1>3, <1>4, <2>2, <2>5, <2>6, StepValues
<1>7. CASE _heal_vnf
  <2>1. [v1Work.obj EXCEPT !.task = "None"] \in V1Row  BY <1>2, TaskMoves
  <2>2. QED  BY <1>2, <1>3, <1>4, <1>7, <2>1, StepValues DEF _heal_vnf
<1>8. CASE _respawn_vnf
  <2>1. PICK bare : bare = [v1Work.obj EXCEPT !.stack = FALSE]  OBVIOUS
  <2>2. PICK made : made = [v1Work.obj EXCEPT !.stack = TRUE]  OBVIOUS
  <2>3. bare \in V1Row /\ made \in V1Row  BY <1>2, <2>1, <2>2, SomeRows
  <2>4. \A l \in {0, v1Work.obj.level} : [bare EXCEPT !.level = l] \in V1Row
    <3>1. \A l \in Int : [bare EXCEPT !.level = l] \in V1Row  BY <2>3, SomeRows, Zenon
    <3>2. QED  BY <1>2, <3>1
  <2>5. PICK full : full = [made EXCEPT !.inst = "INSTANTIATED", !.task = "None"]  OBVIOUS
  <2>6. full \in V1Row  BY <2>3, <2>5 DEF V1Row
  <2>7. \/ \E obj \in {v1Work.obj, made} : FailedIn(4, obj, TRUE)
        \/ \E l \in {0, v1Work.obj.level} : FailedIn(3, [bare EXCEPT !.level = l], TRUE)
        \/ SaveGoOn("end", full) /\ UNCHANGED <<v1Vnf, v1Occ>>
    BY <1>8, <2>1, <2>2, <2>5 DEF _respawn_vnf
  <2>8. QED  BY <1>2, <1>3, <1>4, <2>3, <2>4, <2>6, <2>7, StepValues
<1>9. CASE _change_ext_conn_vnf  BY <1>2, <1>3, <1>4, <1>9, StepValues DEF _change_ext_conn_vnf
<1>10. CASE SkipVim  BY <1>2, <1>3, <1>4, <1>10, StepValues DEF SkipVim
<1>11. CASE FullScript  BY <1>2, <1>3, <1>4, <1>11, StepValues DEF FullScript
<1>12. CASE FullEnd  BY <1>2, <1>3, <1>4, <1>12, StepValues DEF FullEnd
<1>13. QED  BY <1>5, <1>6, <1>7, <1>8, <1>9, <1>10, <1>11, <1>12

\* A step that changes neither the occurrence's identity nor the cast: what is
\* left to show.
LEMMA FullMoves ==
    ASSUME V1Types, Working, FullOp, NEW pc \in V1Steps, NEW obj \in V1Row,
           GoOn(pc, obj) \/ SaveGoOn(pc, obj)
    PROVE  /\ v1Work'.op = v1Work.op /\ v1Work'.occ = v1Work.occ /\ v1Work'.before = v1Work.before
           /\ v1Work'.status = v1Work.status /\ v1Work'.late = v1Work.late /\ v1Work'.pc = pc
           /\ FullOp' /\ v1Work'.op \notin Scales /\ v1Work'.op \notin {"MODIFY_INFO", "ROLLBACK"} /\ ~Pre'
PROOF
<1>1. v1Work \in V1WorkRow  BY WorkRow DEF Working
<1>2. /\ v1Work'.op = v1Work.op /\ v1Work'.occ = v1Work.occ /\ v1Work'.before = v1Work.before
      /\ v1Work'.status = v1Work.status /\ v1Work'.late = v1Work.late /\ v1Work'.pc = pc
  <2>1. CASE GoOn(pc, obj)  BY <1>1, <2>1, GoOnMoves
  <2>2. CASE SaveGoOn(pc, obj)  BY <1>1, <2>2, SaveGoOnMoves DEF Working
  <2>3. QED  BY <2>1, <2>2
<1>3. QED  BY <1>2 DEF FullOp, Pre

\* The other steps of instantiate, terminate, heal and change_ext_conn do.
LEMMA FullParts ==
    ASSUME V1Types, V1Parts, FullBegin \/ FullStatus \/ FullFinal \/ FullSave \/ FullComplete
    PROVE  V1Parts'
PROOF
<1>0. /\ v1Work.pc \in {"begin", "status", "final", "save", "complete"} /\ v1Cast' = v1Cast /\ FullOp
  BY DEF FullBegin, FullStatus, FullFinal, FullSave, FullComplete, At
<1>1. Working  BY <1>0, IdleWork DEF Working
<1>2. /\ v1Work.obj \in V1Row /\ v1Vnf \in V1VnfRow /\ v1Work.before \in V1Points /\ v1Vnf.status \in Statuses
      /\ v1Work.late \in BOOLEAN /\ v1Work.op \in V1Handled /\ v1Occ \in Seq(V1OccRow)
  BY <1>1, WorkTypes DEF Working
<1>3. \A ep \in V1Points, obj \in V1Row, raised \in BOOLEAN : FailedIn(ep, obj, raised) => V1Parts'
  BY <1>0, <1>1, FullFails
<1>4. ~Pre /\ v1Work.op \notin Scales /\ v1Work.op \notin {"MODIFY_INFO", "ROLLBACK"}  BY <1>0 DEF FullOp, Pre
<1>5. v1Work.occ = Last /\ Last > 0 /\ Last \in DOMAIN v1Occ /\ LastOpen /\ OccOf(v1Work) /\ LastOp = v1Work.op
  BY <1>1, <1>4, WorkOcc, LastIn DEF V1Parts, WorkInv
<1>6. CASE FullBegin
  <2>1. SetState("PROCESSING") /\ GoOn("status", v1Work.obj) /\ v1Work.pc = "begin" /\ UNCHANGED <<v1Row, v1Vnf>>
    BY <1>6 DEF FullBegin, At
  <2>2. ~v1Work.late /\ ~Casting  BY <1>1, <2>1, Waiting DEF V1Parts, WorkInv
  <2>3. OccBecomes(Last, "PROCESSING", v1Occ[Last].ep)
    BY <1>2, <1>5, <2>1, LastIn, OccMoves, StepValues DEF SetState
  <2>4. /\ Last' = Last /\ LastOp' = LastOp /\ LastState' = "PROCESSING" /\ LastOpen'
    BY <1>5, <2>3, LastIn, LastMoves, StepValues
  <2>5. /\ v1Work'.op = v1Work.op /\ v1Work'.occ = v1Work.occ /\ v1Work'.before = v1Work.before
        /\ v1Work'.status = v1Work.status /\ ~v1Work'.late /\ v1Work'.pc = "status"
        /\ FullOp' /\ v1Work'.op \notin Scales /\ v1Work'.op \notin {"MODIFY_INFO", "ROLLBACK"} /\ ~Pre'
    BY <1>0, <1>1, <1>2, <2>1, <2>2, FullMoves, StepValues
  <2>6. CastInv' /\ ErrorInv'  BY <2>1, <2>2, <2>4, <1>0 DEF CastInv, ErrorInv, Casting
  <2>7. WorkInv'
    <3>1. OccOf(v1Work)'  BY <1>4, <1>5, <2>4, <2>5 DEF OccOf
    <3>2. StatusOf(v1Work)'  BY <2>5 DEF StatusOf
    <3>3. v1Work.status = "ERROR" => v1Vnf.status = "ERROR"  BY <1>1, <2>1 DEF V1Parts, WorkInv
    <3>4. QED  BY <2>1, <2>4, <2>5, <3>1, <3>2, <3>3 DEF WorkInv
  <2>8. QED  BY <2>4, <2>6, <2>7 DEF V1Parts
<1>7. CASE FullStatus
  <2>1. CASE FailedIn(1, v1Work.obj, FALSE)  BY <1>2, <1>3, <2>1, StepValues
  <2>2. CASE ~FailedIn(1, v1Work.obj, FALSE)
    <3>1. v1Occ' = v1Occ /\ v1Row' = v1Row /\ v1Work.pc = "status"  BY <1>7, <2>2 DEF FullStatus, At
    <3>a. GoOn(IF v1Work.before <= 6 \/ v1Work.op = "CHANGE_EXT_CONN" THEN "script" ELSE "save", v1Work.obj)
      BY <1>7, <2>2 DEF FullStatus
    <3>b. v1Work.before <= 6 \/ v1Work.before = 7  BY <1>2 DEF V1Points
    <3>2. PICK pc \in {"script", "save"} : GoOn(pc, v1Work.obj) /\ (pc = "save" => v1Work.before = 7)
      BY <3>a, <3>b
    <3>3. /\ v1Work'.op = v1Work.op /\ v1Work'.occ = v1Work.occ /\ v1Work'.before = v1Work.before
          /\ v1Work'.status = v1Work.status /\ v1Work'.late = v1Work.late /\ v1Work'.pc = pc
          /\ FullOp' /\ v1Work'.op \notin Scales /\ v1Work'.op \notin {"MODIFY_INFO", "ROLLBACK"} /\ ~Pre'
      BY <1>0, <1>1, <1>2, <3>2, FullMoves, StepValues
    <3>4. Last' = Last /\ LastOp' = LastOp /\ LastState' = LastState /\ LastOpen'  BY <1>5, <3>1, LastKept
    <3>5. \/ v1Vnf'.status = v1Vnf.status
          \/ v1Vnf'.status = Pending[v1Work.op] /\ (v1Work.status = "ERROR" \/ v1Vnf.status \in {"ACTIVE", "INACTIVE"})
      <4>1. PICK s : SetStatus(s) /\ (\/ s = v1Vnf.status
                                      \/ /\ s = Pending[v1Work.op]
                                         /\ v1Work.status = "ERROR" \/ v1Vnf.status \in {"ACTIVE", "INACTIVE"})
        BY <1>7, <2>2 DEF FullStatus
      <4>2. s \in Statuses  BY <1>2, <1>4, <4>1, StatusValues DEF V1Handled
      <4>3. QED  BY <1>2, <4>1, <4>2, StatusMoves
    <3>6. v1Work.status = "ERROR" => ~v1Work.late  BY <1>1, <3>1 DEF V1Parts, WorkInv
    <3>7. Casting => v1Vnf'.status = "ERROR" /\ v1Work.late /\ LastState # "PROCESSING"
      BY <1>1, <3>5, <3>6, Waiting
    <3>8. CastInv'  BY <1>0, <1>1, <1>4, <3>3, <3>4, <3>7, CastKept
    <3>9. /\ v1Work.late => LastState # "PROCESSING"
          /\ ~v1Work.late => LastState = "PROCESSING"
      BY <1>1, <1>4, <3>1 DEF V1Parts, WorkInv
    <3>10. ErrorInv'
      BY <1>5, <3>1, <3>4, <3>5, <3>6, <3>9 DEF V1Parts, ErrorInv
    <3>11. WorkInv'
      <4>1. OccOf(v1Work)'  BY <1>4, <1>5, <3>3, <3>4 DEF OccOf
      <4>2. StatusOf(v1Work)'  BY <3>3 DEF StatusOf
      <4>3. QED  BY <3>2, <3>3, <3>4, <3>9, <4>1, <4>2 DEF WorkInv
    <3>12. QED  BY <3>4, <3>8, <3>10, <3>11 DEF V1Parts
  <2>3. QED  BY <2>1, <2>2
<1>8. CASE FullFinal
  <2>1. CASE \E ep \in {6, 7}, obj \in {v1Work.obj, Reinitialized(v1Work.obj)} : FailedIn(ep, obj, FALSE)
    <3>1. Reinitialized(v1Work.obj) \in V1Row  BY <1>2, Reset
    <3>2. QED  BY <1>2, <1>3, <2>1, <3>1, StepValues
  <2>2. CASE ~\E ep \in {6, 7}, obj \in {v1Work.obj, Reinitialized(v1Work.obj)} : FailedIn(ep, obj, FALSE)
    <3>1. /\ Finishable /\ v1Occ' = v1Occ /\ v1Work.pc = "final"
          /\ v1Vnf' = [status |-> IF v1Work.op = "TERMINATE" THEN "INACTIVE" ELSE "ACTIVE",
                       cap |-> IF v1Work.op = "INSTANTIATE" THEN 0 ELSE v1Vnf.cap]
          /\ \E pc \in {"complete", "save"} : GoOn(pc, v1Work.obj)
      BY <1>8, <2>2 DEF FullFinal, At
    <3>2. PICK pc \in {"complete", "save"} : GoOn(pc, v1Work.obj)  BY <3>1
    <3>3. /\ v1Work'.op = v1Work.op /\ v1Work'.occ = v1Work.occ /\ v1Work'.before = v1Work.before
          /\ v1Work'.status = v1Work.status /\ v1Work'.late = v1Work.late /\ v1Work'.pc = pc
          /\ FullOp' /\ v1Work'.op \notin Scales /\ v1Work'.op \notin {"MODIFY_INFO", "ROLLBACK"} /\ ~Pre'
      BY <1>0, <1>1, <1>2, <3>2, FullMoves, StepValues
    <3>4. Last' = Last /\ LastOp' = LastOp /\ LastState' = LastState /\ LastOpen'  BY <1>5, <3>1, LastKept
    <3>5. v1Vnf.status # "ERROR"  BY <3>1, StatusValues DEF Finishable
    <3>6. ~Casting  BY <1>1, <3>5, Waiting
    <3>7. LastState # "FAILED_TEMP"  BY <1>5, <3>1, <3>5 DEF V1Parts, ErrorInv
    <3>8. v1Vnf'.status \notin PENDING_STATUSES  BY <3>1, StatusValues
    <3>9. CastInv' /\ ErrorInv'  BY <1>0, <3>4, <3>6, <3>7 DEF CastInv, ErrorInv, Casting
    <3>10. /\ v1Work.late => LastState # "PROCESSING"
           /\ ~v1Work.late => LastState = "PROCESSING"
      BY <1>1, <1>4, <3>1 DEF V1Parts, WorkInv
    <3>11. WorkInv'
      <4>1. OccOf(v1Work)'  BY <1>4, <1>5, <3>3, <3>4 DEF OccOf
      <4>2. StatusOf(v1Work)'  BY <3>3 DEF StatusOf
      <4>3. QED  BY <3>3, <3>4, <3>7, <3>8, <3>10, <4>1, <4>2 DEF WorkInv
    <3>12. QED  BY <3>4, <3>9, <3>11 DEF V1Parts
  <2>3. QED  BY <2>1, <2>2
<1>9. CASE FullSave
  <2>1. CASE FailedIn(7, v1Work.obj, FALSE)  BY <1>2, <1>3, <2>1, StepValues
  <2>2. CASE ~FailedIn(7, v1Work.obj, FALSE)
    <3>1. PICK inst : inst = CASE v1Work.op = "INSTANTIATE" -> "INSTANTIATED"
                               [] v1Work.op = "TERMINATE" -> "NOT_INSTANTIATED"
                               [] OTHER -> v1Work.obj.inst
      OBVIOUS
    <3>2. inst \in {"none", "NOT_INSTANTIATED", "INSTANTIATED"}  BY <1>2, <3>1 DEF V1Row
    <3>3. [v1Work.obj EXCEPT !.inst = inst, !.task = "None"] \in V1Row  BY <1>2, <3>2 DEF V1Row
    <3>4. SaveGoOn("complete", [v1Work.obj EXCEPT !.inst = inst, !.task = "None"])
      BY <1>9, <2>2, <3>1 DEF FullSave
    <3>5. UNCHANGED <<v1Vnf, v1Occ>> /\ v1Work.pc = "save"  BY <1>9, <2>2 DEF FullSave, At
    <3>6. /\ v1Work'.op = v1Work.op /\ v1Work'.occ = v1Work.occ /\ v1Work'.before = v1Work.before
          /\ v1Work'.status = v1Work.status /\ v1Work'.late = v1Work.late /\ v1Work'.pc = "complete"
          /\ FullOp' /\ v1Work'.op \notin Scales /\ v1Work'.op \notin {"MODIFY_INFO", "ROLLBACK"} /\ ~Pre'
      BY <1>0, <1>1, <3>3, <3>4, FullMoves, StepValues
    <3>7. Last' = Last /\ LastOp' = LastOp /\ LastState' = LastState /\ LastOpen'  BY <1>5, <3>5, LastKept
    <3>8. CastInv'  BY <1>0, <1>1, <1>4, <3>5, <3>6, <3>7, CastKept, Waiting
    <3>9. ErrorInv'  BY <3>5, <3>7, <1>5 DEF V1Parts, ErrorInv
    <3>10. /\ v1Work.late => LastState # "PROCESSING"
           /\ ~v1Work.late => LastState = "PROCESSING"
           /\ v1Work.before # 7 => v1Vnf.status \notin PENDING_STATUSES /\ LastState # "FAILED_TEMP"
      BY <1>1, <1>4, <3>5 DEF V1Parts, WorkInv
    <3>11. WorkInv'
      <4>1. OccOf(v1Work)'  BY <1>4, <1>5, <3>6, <3>7 DEF OccOf
      <4>2. StatusOf(v1Work)'  BY <3>6 DEF StatusOf
      <4>3. QED  BY <3>5, <3>6, <3>7, <3>10, <4>1, <4>2 DEF WorkInv
    <3>12. QED  BY <3>7, <3>8, <3>9, <3>11 DEF V1Parts
  <2>3. QED  BY <2>1, <2>2
<1>10. CASE FullComplete
  <2>1. SetState("COMPLETED") /\ v1Work' = NoWork /\ UNCHANGED <<v1Vnf, v1Cast>>  BY <1>10 DEF FullComplete
  <2>2. OccBecomes(Last, "COMPLETED", v1Occ[Last].ep)
    BY <1>2, <1>5, <2>1, LastIn, OccMoves, StepValues DEF SetState
  <2>3. /\ Last' = Last /\ LastOp' = LastOp /\ LastState' = "COMPLETED" /\ LastOpen'
    BY <1>5, <2>2, LastIn, LastMoves, StepValues
  <2>4. QED  BY <1>1, <1>4, <2>1, <2>3, HandlerEnds
<1>11. QED  BY <1>6, <1>7, <1>8, <1>9, <1>10, <1>0

\* The rows that a SCALE writes stay INSTANTIATED.
LEMMA ScaleRow ==
    ASSUME V1Types, V1Parts, Working, v1Work.op \in Scales, NEW obj \in V1Row, obj.inst = "INSTANTIATED"
    PROVE  Saved(obj).inst = "INSTANTIATED"
PROOF
<1>1. v1Work.base.inst = "INSTANTIATED" /\ v1Row.inst = "INSTANTIATED"  BY DEF V1Parts, WorkInv, StatusOf
<1>2. v1Row \in V1Row /\ v1Work.base \in V1Row  BY WorkTypes DEF Working
<1>3. QED  BY <1>1, <1>2, SavedFields

\* revert_to_error_scale keeps V1Parts.
LEMMA ScaleFails ==
    ASSUME V1Types, V1Parts, Working, v1Work.op \in Scales, v1Cast' = v1Cast,
           v1Work.pc \notin {"begin", "process"},
           NEW ep \in V1Points, NEW updated \in BOOLEAN, revert_to_error_scale(ep, v1Work.obj, updated)
    PROVE  V1Parts'
PROOF
<1>1. ~Pre  BY DEF Pre
<1>2. v1Work.occ = Last /\ v1Work.occ \in DOMAIN v1Occ /\ Last > 0 /\ LastOpen  BY <1>1, WorkOcc
<1>3. v1Vnf.status \in ScaleStatuses /\ v1Work.obj.inst = "INSTANTIATED"  BY DEF V1Parts, WorkInv, StatusOf
<1>4. v1Work.obj \in V1Row /\ v1Work.base \in V1Row  BY WorkTypes DEF Working
<1>5. /\ v1Vnf'.status = "ERROR" /\ v1Work' = NoWork
      /\ OccBecomes(Last, "FAILED_TEMP", ep) \/ v1Occ' = v1Occ
  BY <1>2, <1>3, <1>4, ScaleErrMoves DEF Working
<1>6. v1Row'.inst = "INSTANTIATED"
  <2>1. PICK r : r = [v1Work.obj EXCEPT !.task = "None", !.level = ErrorLevel(v1Work.obj, updated)]  OBVIOUS
  <2>2. r \in V1Row /\ v1Row' = Saved(r)  BY <1>4, <2>1, ScaleErrMoves DEF Working
  <2>3. r.inst = "INSTANTIATED"  BY <1>3, <1>4, <2>1 DEF V1Row
  <2>4. QED  BY <2>2, <2>3, ScaleRow
<1>7. CASE OccBecomes(Last, "FAILED_TEMP", ep)  BY <1>1, <1>5, <1>6, <1>7, HandlerFails
<1>8. CASE v1Occ' = v1Occ
  <2>1. Last' = Last /\ LastOp' = LastOp /\ LastState' = LastState /\ LastOpen'  BY <1>2, <1>8, LastKept
  <2>2. Casting => LastState # "PROCESSING"  BY Waiting
  <2>3. QED  BY <1>5, <1>6, <2>1, <2>2, HandlerEnds
<1>9. QED  BY <1>5, <1>7, <1>8

\* Every step of scale keeps V1Parts.
LEMMA ScaleParts ==
    ASSUME V1Types, V1Parts, V1MaxLevel \in Nat,
           ScaleBegin \/ ScaleProcess \/ _scale_vnf_pre \/ _scale_vnf \/ _scale_vnf_post
    PROVE  V1Parts'
PROOF
<1>0. /\ v1Work.pc \in {"begin", "process", "pre", "vim", "end"} /\ v1Cast' = v1Cast /\ v1Work.op \in Scales
  BY DEF ScaleBegin, ScaleProcess, _scale_vnf_pre, _scale_vnf, _scale_vnf_post, At
<1>1. Working  BY <1>0, IdleWork DEF Working
<1>2. /\ v1Work \in V1WorkRow /\ v1Work.obj \in V1Row /\ v1Vnf \in V1VnfRow /\ v1Vnf.status \in Statuses
      /\ v1Work.late \in BOOLEAN /\ v1Occ \in Seq(V1OccRow) /\ v1Work.obj.level \in Int
  BY <1>1, WorkTypes DEF Working, V1Row
<1>3. ~Pre /\ v1Work.op \notin {"MODIFY_INFO", "ROLLBACK"} /\ ~FullOp  BY <1>0 DEF Pre, Scales, FullOp
<1>4. v1Work.occ = Last /\ Last > 0 /\ Last \in DOMAIN v1Occ /\ LastOpen /\ OccOf(v1Work) /\ LastOp = v1Work.op
  BY <1>1, <1>3, WorkOcc, LastIn DEF V1Parts, WorkInv
<1>5. Pending[v1Work.op] \in ScaleStatuses /\ Pending[v1Work.op] \in Statuses
  BY <1>0, StatusValues DEF Scales
<1>6. v1Row.inst = "INSTANTIATED" /\ v1Work.obj.inst = "INSTANTIATED" /\ v1Work.base.inst = "INSTANTIATED"
      /\ v1Vnf.status \in ScaleStatuses
  BY <1>0, <1>1 DEF V1Parts, WorkInv, StatusOf
<1>7. \A pc \in V1Steps, obj \in V1Row : GoOn(pc, obj) =>
         /\ v1Work'.op = v1Work.op /\ v1Work'.occ = v1Work.occ /\ v1Work'.before = v1Work.before
         /\ v1Work'.status = v1Work.status /\ v1Work'.late = v1Work.late /\ v1Work'.pc = pc
         /\ v1Work'.base = v1Work.base /\ v1Work'.obj = obj
  BY <1>2, GoOnMoves
<1>8. \A s \in Statuses : SetStatus(s) => v1Vnf'.status = s  BY <1>2, StatusMoves
<1>9. CASE ScaleBegin
  <2>1. v1Work.pc = "begin" /\ UNCHANGED <<v1Row, v1Occ>>  BY <1>9 DEF ScaleBegin, At
  <2>2. /\ v1Work.status = "ERROR" => v1Vnf.status = "ERROR"
        /\ ~v1Work.late /\ LastState # "PROCESSING" /\ ~Casting
    BY <1>1, <1>3, <2>1, Waiting DEF V1Parts, WorkInv
  <2>3. \E s \in {v1Vnf.status, Pending[v1Work.op]} : SetStatus(s)  BY <1>9, <2>2 DEF ScaleBegin
  <2>4. GoOn("process", v1Work.obj)  BY <1>9, <2>2 DEF ScaleBegin
  <2>5. v1Vnf'.status \in ScaleStatuses  BY <1>2, <1>5, <1>6, <1>8, <2>3
  <2>6. /\ v1Work'.op = v1Work.op /\ v1Work'.occ = v1Work.occ /\ v1Work'.before = v1Work.before
        /\ v1Work'.status = v1Work.status /\ ~v1Work'.late /\ v1Work'.pc = "process"
        /\ v1Work'.base = v1Work.base /\ v1Work'.obj = v1Work.obj
    BY <1>2, <1>7, <2>2, <2>4, StepValues
  <2>7. Last' = Last /\ LastOp' = LastOp /\ LastState' = LastState /\ LastOpen'  BY <1>4, <2>1, LastKept
  <2>8. CastInv' /\ ErrorInv'  BY <1>0, <2>2, <2>6 DEF CastInv, ErrorInv, Casting
  <2>9. WorkInv'
    <3>1. OccOf(v1Work)' /\ ~Pre'  BY <1>3, <1>4, <2>6, <2>7 DEF OccOf, Pre
    <3>2. StatusOf(v1Work)'  BY <1>3, <1>6, <2>1, <2>5, <2>6 DEF StatusOf
    <3>3. QED  BY <1>0, <1>3, <1>6, <2>2, <2>6, <2>7, <3>1, <3>2 DEF WorkInv
  <2>10. QED  BY <2>7, <2>8, <2>9 DEF V1Parts
<1>10. CASE ScaleProcess
  <2>1. v1Work.pc = "process" /\ UNCHANGED <<v1Row, v1Vnf>> /\ SetState("PROCESSING") /\ GoOn("pre", v1Work.obj)
    BY <1>10 DEF ScaleProcess, At
  <2>2. ~v1Work.late /\ ~Casting  BY <1>1, <2>1, Waiting DEF V1Parts, WorkInv
  <2>3. OccBecomes(Last, "PROCESSING", v1Occ[Last].ep)
    BY <1>2, <1>4, <2>1, LastIn, OccMoves, StepValues DEF SetState
  <2>4. /\ Last' = Last /\ LastOp' = LastOp /\ LastState' = "PROCESSING" /\ LastOpen'
    BY <1>4, <2>3, LastIn, LastMoves, StepValues
  <2>5. /\ v1Work'.op = v1Work.op /\ v1Work'.occ = v1Work.occ /\ v1Work'.before = v1Work.before
        /\ v1Work'.status = v1Work.status /\ ~v1Work'.late /\ v1Work'.pc = "pre"
        /\ v1Work'.base = v1Work.base /\ v1Work'.obj = v1Work.obj
    BY <1>2, <1>7, <2>1, <2>2, StepValues
  <2>6. CastInv' /\ ErrorInv'  BY <1>0, <2>2, <2>4 DEF CastInv, ErrorInv, Casting
  <2>7. WorkInv'
    <3>1. OccOf(v1Work)' /\ ~Pre'  BY <1>3, <1>4, <2>4, <2>5 DEF OccOf, Pre
    <3>2. StatusOf(v1Work)'  BY <1>3, <1>6, <2>1, <2>5 DEF StatusOf
    <3>3. QED  BY <1>0, <1>3, <1>6, <2>4, <2>5, <3>1, <3>2 DEF WorkInv
  <2>8. QED  BY <2>4, <2>6, <2>7 DEF V1Parts
<1>11. CASE _scale_vnf_pre
  <2>1. v1Work.pc = "pre"  BY <1>11 DEF _scale_vnf_pre, At
  <2>2. CASE \E ep \in {1, 2} : revert_to_error_scale(ep, v1Work.obj, FALSE)
    BY <1>0, <1>1, <2>1, <2>2, ScaleFails, StepValues
  <2>3. CASE ~\E ep \in {1, 2} : revert_to_error_scale(ep, v1Work.obj, FALSE)
    <3>1. /\ UNCHANGED <<v1Row, v1Occ>> /\ GoOn("vim", v1Work.obj)
          /\ SetStatus(IF v1Work.before <= 1 /\ v1Vnf.status = "ACTIVE" THEN Pending[v1Work.op] ELSE v1Vnf.status)
      BY <1>11, <2>3 DEF _scale_vnf_pre
    <3>2. v1Vnf'.status = v1Vnf.status \/ (v1Vnf.status = "ACTIVE" /\ v1Vnf'.status = Pending[v1Work.op])
      BY <1>2, <1>5, <1>8, <3>1
    <3>3. /\ v1Work'.op = v1Work.op /\ v1Work'.occ = v1Work.occ /\ v1Work'.before = v1Work.before
          /\ v1Work'.status = v1Work.status /\ v1Work'.late = v1Work.late /\ v1Work'.pc = "vim"
          /\ v1Work'.base = v1Work.base /\ v1Work'.obj = v1Work.obj
      BY <1>2, <1>7, <3>1, StepValues
    <3>4. Last' = Last /\ LastOp' = LastOp /\ LastState' = LastState /\ LastOpen'  BY <1>4, <3>1, LastKept
    <3>5. Casting => v1Vnf'.status = "ERROR" /\ v1Work.late /\ LastState # "PROCESSING"
      BY <1>1, <3>2, Waiting
    <3>6. CastInv'  BY <1>0, <1>1, <1>6, <3>1, <3>3, <3>4, <3>5, CastKept
    <3>7. ErrorInv'  BY <1>4, <2>1, <3>2, <3>4 DEF V1Parts, ErrorInv
    <3>8. /\ v1Work.late => LastState # "PROCESSING"
          /\ ~v1Work.late => LastState = "PROCESSING"
      BY <1>1, <1>3, <2>1 DEF V1Parts, WorkInv
    <3>9. WorkInv'
      <4>1. OccOf(v1Work)' /\ ~Pre'  BY <1>3, <1>4, <3>3, <3>4 DEF OccOf, Pre
      <4>2. StatusOf(v1Work)'  BY <1>3, <1>5, <1>6, <3>1, <3>2, <3>3 DEF StatusOf
      <4>3. QED  BY <1>0, <1>3, <1>6, <3>3, <3>4, <3>8, <4>1, <4>2 DEF WorkInv
    <3>10. QED  BY <3>4, <3>6, <3>7, <3>9 DEF V1Parts
  <2>4. QED  BY <2>2, <2>3
<1>12. CASE _scale_vnf
  <2>0. v1Work.pc = "vim"  BY <1>12 DEF _scale_vnf, At
  <2>1. CASE \E ep \in {3, 4} : revert_to_error_scale(ep, v1Work.obj, FALSE)
    BY <1>0, <1>1, <2>0, <2>1, ScaleFails, StepValues
  <2>2. CASE ~\E ep \in {3, 4} : revert_to_error_scale(ep, v1Work.obj, FALSE)
    <3>1. PICK more : more = [v1Work.obj EXCEPT !.level = After(v1Work.obj)]  OBVIOUS
    <3>2. After(v1Work.obj) \in Int  BY <1>2 DEF After
    <3>3. more \in V1Row /\ more.inst = "INSTANTIATED"
      <4>1. PICK l \in Int : l = After(v1Work.obj)  BY <3>2
      <4>2. more = [v1Work.obj EXCEPT !.level = l]  BY <3>1, <4>1
      <4>3. QED  BY <1>2, <1>6, <4>2 DEF V1Row
    <3>4. (\E obj \in {more, v1Work.obj} : GoOn("end", obj)) /\ UNCHANGED <<v1Row, v1Vnf, v1Occ>>
      BY <1>12, <2>2, <3>1 DEF _scale_vnf
    <3>5. PICK obj \in V1Row : GoOn("end", obj) /\ obj.inst = "INSTANTIATED"  BY <1>2, <1>6, <3>3, <3>4
    <3>6. /\ v1Work'.op = v1Work.op /\ v1Work'.occ = v1Work.occ /\ v1Work'.before = v1Work.before
          /\ v1Work'.status = v1Work.status /\ v1Work'.late = v1Work.late /\ v1Work'.pc = "end"
          /\ v1Work'.base = v1Work.base /\ v1Work'.obj = obj
      BY <1>7, <3>5, StepValues
    <3>7. v1Work' # NoWork  BY <3>6, IdleWork
    <3>8. QED  BY <1>0, <1>1, <1>6, <2>0, <3>4, <3>5, <3>6, <3>7, HandlerGoesOn
  <2>3. QED  BY <2>1, <2>2
<1>13. CASE _scale_vnf_post
  <2>0. v1Work.pc = "end"  BY <1>13 DEF _scale_vnf_post, At
  <2>1. CASE revert_to_error_scale(6, v1Work.obj, TRUE)  BY <1>0, <1>1, <2>0, <2>1, ScaleFails, StepValues
  <2>2. CASE ~revert_to_error_scale(6, v1Work.obj, TRUE)
    <3>1. /\ v1Vnf' = [status |-> IF v1Vnf.status = Pending[v1Work.op] THEN "ACTIVE" ELSE v1Vnf.status,
                       cap |-> v1Vim.level]
          /\ SetState("COMPLETED")
          /\ v1Row' = Saved([v1Work.obj EXCEPT !.task = "None"])
          /\ v1Work' = NoWork
      BY <1>13, <2>2 DEF _scale_vnf_post
    <3>2. OccBecomes(Last, "COMPLETED", v1Occ[Last].ep)
      BY <1>2, <1>4, <3>1, LastIn, OccMoves, StepValues DEF SetState
    <3>3. /\ Last' = Last /\ LastOp' = LastOp /\ LastState' = "COMPLETED" /\ LastOpen'
      BY <1>4, <3>2, LastIn, LastMoves, StepValues
    <3>4. v1Row'.inst = "INSTANTIATED"
      <4>1. PICK r : r = [v1Work.obj EXCEPT !.task = "None"]  OBVIOUS
      <4>2. r \in V1Row /\ r.inst = "INSTANTIATED"  BY <1>2, <1>6, <4>1, TaskMoves
      <4>3. QED  BY <1>0, <1>1, <3>1, <4>1, <4>2, ScaleRow
    <3>5. v1Vnf.status = "ERROR" => v1Vnf'.status = "ERROR"
      <4>1. Pending[v1Work.op] # "ERROR"  BY <1>0, PendingValues DEF Scales
      <4>2. QED  BY <3>1, <4>1
    <3>6. QED  BY <1>0, <1>1, <3>1, <3>3, <3>4, <3>5, HandlerEnds
  <2>3. QED  BY <2>1, <2>2
<1>14. QED  BY <1>9, <1>10, <1>11, <1>12, <1>13

\* Every step of rollback and update keeps V1Parts.
LEMMA RollbackParts ==
    ASSUME V1Types, V1Parts, RollbackBegin \/ _rollback_vnf \/ _rollback_vnf_post \/ UpdateBegin \/ modify_vnf
    PROVE  V1Parts'
PROOF
<1>0. /\ v1Work.pc \in {"begin", "vim", "end", "modify"} /\ v1Cast' = v1Cast
      /\ v1Work.op \in {"ROLLBACK", "MODIFY_INFO"}
  BY DEF RollbackBegin, _rollback_vnf, _rollback_vnf_post, UpdateBegin, modify_vnf, At
<1>1. Working  BY <1>0, IdleWork DEF Working
<1>2. /\ v1Work \in V1WorkRow /\ v1Work.obj \in V1Row /\ v1Vnf \in V1VnfRow /\ v1Vnf.status \in Statuses
      /\ v1Work.late \in BOOLEAN /\ v1Occ \in Seq(V1OccRow) /\ v1Work.before \in V1Points
  BY <1>1, WorkTypes DEF Working
<1>3. ~v1Work.late /\ ~Casting /\ v1Work.op \notin Scales /\ ~FullOp
  BY <1>0, <1>1, Waiting DEF V1Parts, WorkInv, Scales, FullOp
<1>4. CastInv'  BY <1>0, <1>3 DEF CastInv, Casting
<1>5. \A pc \in V1Steps, obj \in V1Row : GoOn(pc, obj) =>
         /\ v1Work'.op = v1Work.op /\ v1Work'.occ = v1Work.occ /\ v1Work'.before = v1Work.before
         /\ v1Work'.status = v1Work.status /\ v1Work'.late = v1Work.late /\ v1Work'.pc = pc
         /\ v1Work'.base = v1Work.base /\ v1Work'.obj = obj
  BY <1>2, GoOnMoves
<1>6. v1Work.op = "ROLLBACK" => v1Vnf.status = "ERROR"  BY <1>1 DEF V1Parts, WorkInv, StatusOf
<1>7. ~Pre => /\ v1Work.occ = Last /\ Last > 0 /\ Last \in DOMAIN v1Occ /\ LastOpen /\ OccOf(v1Work)
  BY <1>1, WorkOcc, LastIn DEF V1Parts, WorkInv
<1>8. CASE RollbackBegin
  <2>1. /\ v1Work.op = "ROLLBACK" /\ v1Work.pc = "begin" /\ UNCHANGED <<v1Row, v1Vnf>>
        /\ SetState("ROLLING_BACK") /\ GoOn("vim", v1Work.obj) /\ ~Pre
    BY <1>8 DEF RollbackBegin, At, Pre
  <2>2. OccBecomes(Last, "ROLLING_BACK", v1Occ[Last].ep)
    BY <1>2, <1>7, <2>1, LastIn, OccMoves, StepValues DEF SetState
  <2>3. /\ Last' = Last /\ LastOp' = LastOp /\ LastState' = "ROLLING_BACK" /\ LastOpen'
    BY <1>7, <2>1, <2>2, LastIn, LastMoves, StepValues
  <2>4. /\ v1Work'.op = v1Work.op /\ v1Work'.occ = v1Work.occ /\ v1Work'.before = v1Work.before
        /\ v1Work'.status = v1Work.status /\ ~v1Work'.late /\ v1Work'.pc = "vim"
    BY <1>2, <1>3, <1>5, <2>1, StepValues
  <2>5. ErrorInv'  BY <2>3 DEF ErrorInv
  <2>6. WorkInv'
    <3>1. OccOf(v1Work)' /\ ~Pre'  BY <1>7, <2>1, <2>3, <2>4 DEF OccOf, Pre
    <3>2. StatusOf(v1Work)'  BY <1>3, <1>6, <2>1, <2>4 DEF StatusOf
    <3>3. QED  BY <1>3, <2>1, <2>3, <2>4, <3>1, <3>2 DEF WorkInv
  <2>7. QED  BY <1>4, <2>3, <2>5, <2>6 DEF V1Parts
<1>9. CASE _rollback_vnf
  <2>1. v1Work.op = "ROLLBACK" /\ v1Work.pc = "vim" /\ v1Vnf' = v1Vnf /\ ~Pre  BY <1>9 DEF _rollback_vnf, At, Pre
  <2>2. CASE revert_to_error_rollback(v1Work.before)
    <3>1. OccBecomes(Last, "FAILED_TEMP", v1Work.before) /\ v1Work' = NoWork
      BY <1>1, <1>2, <1>7, <2>1, <2>2, RollbackErrMoves DEF Working
    <3>2. QED  BY <1>0, <1>1, <1>2, <1>3, <1>6, <2>1, <3>1, HandlerFails
  <2>3. CASE ~revert_to_error_rollback(v1Work.before)
    <3>1. GoOn("end", v1Work.obj) /\ UNCHANGED <<v1Row, v1Occ>>  BY <1>9, <2>3 DEF _rollback_vnf
    <3>2. /\ v1Work'.op = v1Work.op /\ v1Work'.occ = v1Work.occ /\ v1Work'.before = v1Work.before
          /\ v1Work'.status = v1Work.status /\ v1Work'.late = v1Work.late /\ v1Work'.pc = "end"
      BY <1>2, <1>5, <3>1, StepValues
    <3>3. v1Work' # NoWork  BY <3>2, IdleWork
    <3>4. QED  BY <1>0, <1>1, <1>3, <2>1, <3>1, <3>2, <3>3, HandlerGoesOn
  <2>4. QED  BY <2>2, <2>3
<1>10. CASE _rollback_vnf_post
  <2>1. v1Work.op = "ROLLBACK" /\ v1Work.pc = "end" /\ ~Pre /\ v1Work' = NoWork
    BY <1>10 DEF _rollback_vnf_post, At, Pre, revert_to_error_rollback
  <2>2. CASE v1Vnf' = v1Vnf /\ revert_to_error_rollback(3)
    <3>1. OccBecomes(Last, "FAILED_TEMP", 3)
      BY <1>1, <1>7, <2>1, <2>2, RollbackErrMoves, StepValues DEF Working
    <3>2. QED  BY <1>0, <1>1, <1>3, <1>6, <2>1, <2>2, <3>1, HandlerFails, StepValues
  <2>3. CASE v1Occ' = [v1Occ EXCEPT ![v1Work.occ].state = "ROLLED_BACK", ![v1Work.occ].ep = 2]
    <3>1. OccBecomes(Last, "ROLLED_BACK", 2)  BY <1>2, <1>7, <2>1, <2>3, OccMoves, StepValues
    <3>2. /\ Last' = Last /\ LastOp' = LastOp /\ LastState' = "ROLLED_BACK" /\ LastOpen'
      BY <1>7, <2>1, <3>1, LastMoves, StepValues
    <3>3. QED  BY <1>0, <1>1, <1>3, <2>1, <3>2, HandlerEnds
  <2>4. QED  BY <1>10, <2>2, <2>3 DEF _rollback_vnf_post
<1>11. CASE UpdateBegin
  <2>1. /\ v1Work.op = "MODIFY_INFO" /\ v1Work.pc = "begin" /\ UNCHANGED <<v1Row, v1Vnf>> /\ Pre
        /\ GoOn("modify", v1Work.obj)
    BY <1>11 DEF UpdateBegin, At, Pre
  <2>2. AllEnded /\ v1Work.occ = Last + 1 /\ StatusOf(v1Work) /\ v1Work.before = 0  BY <1>1, <2>1 DEF V1Parts, WorkInv
  <2>3. PICK r : r = [op |-> "MODIFY_INFO", state |-> "PROCESSING", ep |-> 0]  OBVIOUS
  <2>4. r \in V1OccRow  BY <2>3 DEF V1OccRow, V1Ops, V1States, V1Points
  <2>5. v1Occ' = Append(v1Occ, r)  BY <1>11, <2>3 DEF UpdateBegin
  <2>6. /\ Len(v1Occ') = Len(v1Occ) + 1 /\ Len(v1Occ) \in Nat
        /\ DOMAIN v1Occ = 1..Len(v1Occ) /\ DOMAIN v1Occ' = 1..Len(v1Occ')
        /\ \A x \in DOMAIN v1Occ : v1Occ'[x] = v1Occ[x]
        /\ v1Occ'[Len(v1Occ')] = r
    BY <1>2, <2>4, <2>5, OccAdded
  <2>7. Last' = Last + 1 /\ Last' > 0 /\ LastOp' = "MODIFY_INFO" /\ LastState' = "PROCESSING"
    BY <2>3, <2>6 DEF Last, LastOp, LastState
  <2>8. LastOpen'  BY <2>2, <2>6 DEF AllEnded, LastOpen, Last
  <2>9. /\ v1Work'.op = v1Work.op /\ v1Work'.occ = v1Work.occ /\ v1Work'.before = v1Work.before
        /\ v1Work'.status = v1Work.status /\ ~v1Work'.late /\ v1Work'.pc = "modify"
    BY <1>2, <1>3, <1>5, <2>1, StepValues
  <2>10. ErrorInv'  BY <2>7 DEF ErrorInv
  <2>11. WorkInv'
    <3>1. OccOf(v1Work)' /\ ~Pre'  BY <2>1, <2>2, <2>7, <2>9 DEF OccOf, Pre
    <3>2. StatusOf(v1Work)'  BY <1>3, <2>1, <2>2, <2>9 DEF StatusOf
    <3>3. QED  BY <1>3, <2>1, <2>2, <2>7, <2>9, <3>1, <3>2 DEF WorkInv
  <2>12. QED  BY <1>4, <2>8, <2>10, <2>11 DEF V1Parts
<1>12. CASE modify_vnf
  <2>1. v1Work.pc = "modify" /\ ~Pre /\ v1Work' = NoWork  BY <1>12 DEF modify_vnf, At, Pre
  <2>2. CASE revert_update_lcm
    <3>1. OccBecomes(Last, "FAILED_TEMP", 0)
      BY <1>2, <1>7, <2>1, <2>2, OccMoves, StepValues DEF revert_update_lcm, SetFailed
    <3>2. v1Vnf'.status = "ERROR"  BY <1>2, <2>2, StatusMoves, StatusValues DEF revert_update_lcm
    <3>3. QED  BY <1>0, <1>1, <1>3, <2>1, <3>1, <3>2, HandlerFails, StepValues
  <2>3. CASE SetState("COMPLETED")
    <3>1. OccBecomes(Last, "COMPLETED", v1Occ[Last].ep)
      BY <1>2, <1>7, <2>1, <2>3, LastIn, OccMoves, StepValues DEF SetState
    <3>2. /\ Last' = Last /\ LastOp' = LastOp /\ LastState' = "COMPLETED" /\ LastOpen'
      BY <1>7, <2>1, <3>1, LastIn, LastMoves, StepValues
    <3>3. QED  BY <1>0, <1>1, <1>3, <2>1, <3>2, HandlerEnds
  <2>4. QED  BY <1>12, <2>2, <2>3 DEF modify_vnf
<1>13. QED  BY <1>8, <1>9, <1>10, <1>11, <1>12

\* An occurrence that has not ended is the last one.
LEMMA OpenIsLast ==
    ASSUME V1Types, LastOpen, NEW o \in DOMAIN v1Occ, v1Occ[o].state \notin V1Ended
    PROVE  o = Last /\ Last > 0 /\ LastState = v1Occ[o].state /\ LastOp = v1Occ[o].op
PROOF
<1>1. v1Occ \in Seq(V1OccRow)  BY DEF V1Types
<1>2. o = Last  BY DEF LastOpen
<1>3. o > 0  BY <1>1
<1>4. QED  BY <1>2, <1>3 DEF LastState, LastOp

\* What the client may do with an operation in FAILED_TEMP: no cast waits, the
\* handler, if there is one, was cancelled, and the status is ERROR.
LEMMA FailedTempState ==
    ASSUME V1Types, V1Parts, NEW o \in DOMAIN v1Occ, V1FailedTemp(o)
    PROVE  /\ o = Last /\ Last > 0 /\ LastState = "FAILED_TEMP" /\ LastOp = v1Occ[o].op
           /\ v1Vnf.status = "ERROR" /\ ~Casting
           /\ Working => /\ v1Work.late /\ v1Work.op \notin {"ROLLBACK", "MODIFY_INFO"} /\ ~Pre
                         /\ v1Work.pc \notin {"begin", "process"}
PROOF
<1>1. v1Occ[o].state = "FAILED_TEMP" /\ ~Casting /\ v1Work.late  BY DEF V1FailedTemp, Casting
<1>2. o = Last /\ Last > 0 /\ LastState = "FAILED_TEMP" /\ LastOp = v1Occ[o].op
  BY <1>1, OpenIsLast DEF V1Parts, V1Ended
<1>3. Working => /\ v1Work.op \notin {"ROLLBACK", "MODIFY_INFO"} /\ ~Pre /\ v1Work.pc \notin {"begin", "process"}
  BY <1>1 DEF V1Parts, WorkInv, Pre
<1>4. v1Work.pc # "process"  BY <1>3, IdleWork DEF Working
<1>5. v1Vnf.status = "ERROR"  BY <1>2, <1>4 DEF V1Parts, ErrorInv
<1>6. QED  BY <1>1, <1>2, <1>3, <1>5

\* A request keeps V1Parts.
LEMMA RequestParts ==
    ASSUME V1Types, V1Parts, Clean', NEW op \in V1Ops, v1_request(op)
    PROVE  V1Parts'
PROOF
<1>1. /\ ~Casting /\ ~Working /\ Submit(op, 0, 0) /\ Accepted(op, 0, TRUE) /\ UNCHANGED <<v1Vnf, v1Work>>
  BY DEF v1_request, V1Idle, Casting, Working
<1>2. AllEnded  BY DEF v1_request, Clean, AllEnded
<1>3. 0 \in V1Points /\ 0 \in Nat /\ v1Occ \in Seq(V1OccRow) /\ v1Row \in V1Row  BY DEF V1Points, V1Types
<1>4. /\ v1Row'.inst = v1Row.inst /\ v1Cast' \in V1CastRow
      /\ v1Cast'.op = op /\ v1Cast'.before = 0 /\ v1Cast'.status = v1Vnf.status /\ v1Cast'.row = v1Row'
      /\ v1Cast'.occ = Last + 1
      /\ IF op # "MODIFY_INFO"
         THEN /\ Len(v1Occ') = Len(v1Occ) + 1
              /\ DOMAIN v1Occ' = 1..Len(v1Occ')
              /\ \A x \in DOMAIN v1Occ : v1Occ'[x] = v1Occ[x]
              /\ v1Occ'[Len(v1Occ')].op = op /\ v1Occ'[Len(v1Occ')].state = "STARTING"
         ELSE v1Occ' = v1Occ
  BY <1>1, <1>3, SubmitMoves DEF Last
<1>5. /\ op = "MODIFY_INFO" => v1Vnf.status \in {"ACTIVE", "INACTIVE"}
      /\ op \in Scales => v1Vnf.status = "ACTIVE" /\ v1Row.inst = "INSTANTIATED"
  BY <1>1 DEF Accepted, check_vnf_state, check_vnf_status_and_error_point, Scales
<1>6. WorkInv'  BY <1>1 DEF WorkInv, Working
<1>7. op # "ROLLBACK" /\ Fresh(v1Cast)'  BY <1>4 DEF V1Ops, Scales, Heals, Fresh
<1>8. StatusOf(v1Cast)'  BY <1>1, <1>4, <1>5, <1>7 DEF StatusOf, ScaleStatuses
<1>9. CASE op = "MODIFY_INFO"
  <2>1. Last' = Last /\ LastState' = LastState /\ AllEnded' /\ LastOpen'
    BY <1>2, <1>4, <1>9, LastKept DEF V1Parts
  <2>2. CastInv'  BY <1>1, <1>4, <1>7, <1>8, <1>9, <2>1 DEF CastInv, Working, Scales
  <2>3. ErrorInv'  BY <1>1, <2>1 DEF V1Parts, ErrorInv
  <2>4. QED  BY <1>6, <2>1, <2>2, <2>3 DEF V1Parts
<1>10. CASE op # "MODIFY_INFO"
  <2>1. Last' = Last + 1 /\ Last \in Nat /\ Last' > 0 /\ LastOp' = op /\ LastState' = "STARTING"
    BY <1>3, <1>4, <1>10 DEF Last, LastOp, LastState
  <2>2. LastOpen'
    <3>1. DOMAIN v1Occ = 1..Len(v1Occ) /\ Len(v1Occ) \in Nat  BY <1>3
    <3>2. QED  BY <1>2, <1>4, <1>10, <3>1 DEF AllEnded, LastOpen, Last
  <2>3. OccOf(v1Cast)'  BY <1>4, <1>7, <2>1 DEF OccOf
  <2>4. CastInv'  BY <1>1, <1>4, <1>5, <1>7, <1>8, <1>10, <2>1, <2>3 DEF CastInv, Working
  <2>5. ErrorInv'  BY <2>1 DEF ErrorInv
  <2>6. QED  BY <1>6, <2>2, <2>4, <2>5 DEF V1Parts
<1>11. QED  BY <1>9, <1>10

\* A step of the client that leaves a cancelled handler where it is.
LEMMA WorkKept ==
    ASSUME V1Types, V1Parts, v1Work' = v1Work, Working => v1Work.late, Last' = Last, LastOp' = LastOp,
           LastState' # "PROCESSING", v1Row'.inst = v1Row.inst,
           \/ v1Vnf'.status = v1Vnf.status /\ LastState' = LastState
           \/ /\ v1Vnf'.status \in {"ACTIVE", "INACTIVE"} /\ LastState' # "FAILED_TEMP"
              /\ v1Row.inst = "INSTANTIATED" => v1Vnf'.status = "ACTIVE"
    PROVE  WorkInv'
PROOF
<1>1. CASE ~Working  BY <1>1 DEF WorkInv, Working
<1>2. CASE Working
  <2>0. v1Work.op \notin {"ROLLBACK", "MODIFY_INFO"} /\ ~Pre /\ v1Work.pc \notin {"begin", "process"}
    BY <1>2 DEF V1Parts, WorkInv, Pre
  <2>1. OccOf(v1Work)' /\ ~Pre'  BY <1>2, <2>0 DEF V1Parts, WorkInv, OccOf, Pre
  <2>2. v1Work.op \in Scales => v1Row.inst = "INSTANTIATED" /\ v1Vnf.status \in ScaleStatuses
    BY <1>2 DEF V1Parts, WorkInv, StatusOf
  <2>3. StatusOf(v1Work)'  BY <2>0, <2>2 DEF StatusOf, ScaleStatuses
  <2>4. FullOp' = FullOp  BY DEF FullOp
  <2>5. /\ v1Work.op \in Scales => v1Work.obj.inst = "INSTANTIATED" /\ v1Work.base.inst = "INSTANTIATED"
        /\ v1Work.pc = "status" => v1Work.status # "ERROR"
        /\ v1Work.pc \in {"save", "complete"} /\ v1Work.before # 7 =>
             v1Vnf.status \notin PENDING_STATUSES /\ LastState # "FAILED_TEMP"
        /\ v1Work.pc \in {"status", "script", "final", "save", "complete"} => FullOp
        /\ v1Work.pc \in {"process", "pre"} => v1Work.op \in Scales
        /\ v1Work.pc = "modify" => v1Work.op = "MODIFY_INFO"
    BY <1>2 DEF V1Parts, WorkInv
  <2>6. v1Work.pc \in {"save", "complete"} /\ v1Work.before # 7 =>
             v1Vnf'.status \notin PENDING_STATUSES /\ LastState' # "FAILED_TEMP"
    BY <2>5, StatusValues
  <2>7. QED  BY <1>2, <2>0, <2>1, <2>3, <2>4, <2>5, <2>6 DEF WorkInv
<1>3. QED  BY <1>1, <1>2

\* retry and rollback keep V1Parts.
LEMMA RetryParts ==
    ASSUME V1Types, V1Parts, Clean', NEW o \in DOMAIN v1Occ, v1_retry(o) \/ v1_rollback(o)
    PROVE  V1Parts'
PROOF
<1>0. V1FailedTemp(o)  BY DEF v1_retry, v1_rollback
<1>1. /\ o = Last /\ Last > 0 /\ LastState = "FAILED_TEMP" /\ LastOp = v1Occ[o].op
      /\ v1Vnf.status = "ERROR" /\ ~Casting /\ (Working => v1Work.late)
  BY <1>0, FailedTempState
<1>2. v1Occ[Last].ep \in V1Points /\ LastOp \in V1Ops /\ Last \in Nat  BY <1>1, LastIn
<1>3. UNCHANGED <<v1Vnf, v1Work>>  BY DEF v1_retry, v1_rollback
<1>4. /\ v1Occ' = v1Occ /\ v1Row'.inst = v1Row.inst /\ v1Cast'.occ = Last
      /\ v1Cast'.status = "ERROR" /\ v1Cast'.row.inst = v1Row.inst
      /\ ~Fresh(v1Cast)'
      /\ \/ v1Cast'.op = "ROLLBACK" /\ LastOp \in {"INSTANTIATE", "SCALE_OUT"}
         \/ /\ v1Cast'.op = LastOp /\ LastOp \notin {"MODIFY_INFO", "ROLLBACK"}
            /\ LastOp \in Scales => v1Row.inst = "INSTANTIATED"
  <2>1. CASE v1_retry(o)
    <3>1. Submit(LastOp, v1Occ[Last].ep, Last) /\ Accepted(LastOp, v1Occ[Last].ep, FALSE) /\ LastOp # "MODIFY_INFO"
      BY <1>1, <2>1 DEF v1_retry
    <3>2. v1Occ[Last].ep # 0  BY <1>1, <2>1 DEF v1_retry, Clean
    <3>3. /\ v1Row'.inst = v1Row.inst /\ v1Occ' = v1Occ
          /\ v1Cast'.op = LastOp /\ v1Cast'.before = v1Occ[Last].ep /\ v1Cast'.status = v1Vnf.status
          /\ v1Cast'.row = v1Row' /\ v1Cast'.occ = Last
      BY <1>2, <3>1, <3>2, SubmitMoves
    <3>4. LastOp \in Scales => v1Row.inst = "INSTANTIATED"  BY <3>1 DEF Accepted, check_vnf_state
    <3>5. LastOp # "ROLLBACK"  BY <1>2 DEF V1Ops, Scales, Heals
    <3>6. ~Fresh(v1Cast)'  BY <3>2, <3>3 DEF Fresh
    <3>7. QED  BY <1>1, <3>1, <3>3, <3>4, <3>5, <3>6
  <2>2. CASE v1_rollback(o)
    <3>1. /\ v1Cast' = [op |-> "ROLLBACK", occ |-> o, before |-> v1Occ[o].ep, status |-> v1Vnf.status, row |-> v1Row]
          /\ LastOp \in {"INSTANTIATE", "SCALE_OUT"} /\ UNCHANGED <<v1Row, v1Occ>>
      BY <1>1, <2>2 DEF v1_rollback
    <3>2. ~Fresh(v1Cast)'  BY <3>1 DEF Fresh
    <3>3. QED  BY <1>1, <3>1, <3>2
  <2>3. QED  BY <2>1, <2>2
<1>5. Last' = Last /\ LastOp' = LastOp /\ LastState' = LastState /\ LastOpen'  BY <1>4, LastKept DEF V1Parts
<1>6. WorkInv'  BY <1>1, <1>3, <1>4, <1>5, WorkKept
<1>7. ErrorInv'  BY <1>1, <1>3 DEF ErrorInv
<1>8. CastInv'
  <2>1. OccOf(v1Cast)' /\ v1Cast'.op # "MODIFY_INFO"  BY <1>1, <1>4, <1>5 DEF OccOf
  <2>2. StatusOf(v1Cast)'  BY <1>1, <1>3, <1>4, <2>1 DEF StatusOf, ScaleStatuses, Scales
  <2>3. v1Cast'.op \in Scales => v1Cast'.row.inst = "INSTANTIATED"  BY <1>4 DEF Scales
  <2>4. QED  BY <1>1, <1>3, <1>4, <1>5, <2>1, <2>2, <2>3 DEF CastInv, Working
<1>9. QED  BY <1>5, <1>6, <1>7, <1>8 DEF V1Parts

\* fail keeps V1Parts.
LEMMA FailParts ==
    ASSUME V1Types, V1Parts, NEW o \in DOMAIN v1Occ, v1_fail(o)
    PROVE  V1Parts'
PROOF
<1>0. V1FailedTemp(o)  BY DEF v1_fail
<1>1. /\ o = Last /\ Last > 0 /\ ~Casting /\ (Working => v1Work.late)
  BY <1>0, FailedTempState
<1>2. v1Row \in V1Row /\ v1Vnf \in V1VnfRow /\ v1Occ \in Seq(V1OccRow) /\ LastOpen  BY DEF V1Types, V1Parts
<1>3. /\ SetStatus(IF v1Row.inst = "INSTANTIATED" THEN "ACTIVE" ELSE "INACTIVE")
      /\ v1Row' = [v1Row EXCEPT !.task = "None"]
      /\ v1Occ' = [v1Occ EXCEPT ![o].state = "FAILED"]
      /\ UNCHANGED <<v1Cast, v1Work>>
  BY DEF v1_fail, SetStatus
<1>4. /\ v1Vnf'.status \in {"ACTIVE", "INACTIVE"}
      /\ v1Row.inst = "INSTANTIATED" => v1Vnf'.status = "ACTIVE"
  BY <1>2, <1>3, StatusMoves, StatusValues
<1>5. v1Row'.inst = v1Row.inst  BY <1>2, <1>3, TaskMoves
<1>6. OccBecomes(Last, "FAILED", v1Occ[Last].ep)  BY <1>1, <1>2, <1>3, LastIn, OccMoves, StepValues
<1>7. Last' = Last /\ LastOp' = LastOp /\ LastState' = "FAILED" /\ LastOpen'
  BY <1>1, <1>2, <1>6, LastIn, LastMoves, StepValues
<1>8. WorkInv'  BY <1>1, <1>3, <1>4, <1>5, <1>7, WorkKept
<1>9. CastInv' /\ ErrorInv'  BY <1>1, <1>3, <1>7 DEF CastInv, ErrorInv, Casting
<1>10. QED  BY <1>7, <1>8, <1>9 DEF V1Parts

\* An operation that can be cancelled: its cast was received, and its handler,
\* if it is not lost, is neither at its first nor past its last change of the
\* status.
LEMMA CancelState ==
    ASSUME V1Types, V1Parts, NEW o \in DOMAIN v1Occ, v1_cancel(o)
    PROVE  /\ o = Last /\ Last > 0 /\ LastState = "PROCESSING" /\ ~Casting
           /\ Working => /\ v1Work.occ = o /\ ~Pre /\ OccOf(v1Work)
                         /\ v1Work.op \notin {"ROLLBACK", "MODIFY_INFO"} /\ v1Work.pc \notin {"begin", "process"}
                         /\ v1Work.pc = "status" => v1Work.status # "ERROR"
                         /\ v1Work.pc \in {"save", "complete"} => v1Work.before = 7
                         /\ ~v1Work.late
PROOF
<1>1. v1Occ[o].state = "PROCESSING" /\ v1Vnf.status \in PENDING_STATUSES  BY DEF v1_cancel
<1>2. o = Last /\ Last > 0 /\ LastState = "PROCESSING"  BY <1>1, OpenIsLast DEF V1Parts, V1Ended
<1>3. v1Vnf.status \notin {"ERROR", "ACTIVE", "INACTIVE"}  BY <1>1, StatusValues
<1>4. ~AllEnded  BY <1>1 DEF AllEnded, V1Ended
<1>5. ~Casting  BY <1>2, <1>4 DEF V1Parts, CastInv
<1>6. ASSUME Working
      PROVE  /\ v1Work.occ = o /\ ~Pre /\ OccOf(v1Work)
             /\ v1Work.op \notin {"ROLLBACK", "MODIFY_INFO"} /\ v1Work.pc \notin {"begin", "process"}
             /\ v1Work.pc = "status" => v1Work.status # "ERROR"
             /\ v1Work.pc \in {"save", "complete"} => v1Work.before = 7
             /\ ~v1Work.late
  <2>1. v1Work.op \notin {"ROLLBACK", "MODIFY_INFO"}  BY <1>3, <1>6 DEF V1Parts, WorkInv, StatusOf
  <2>2. ~Pre  BY <2>1 DEF Pre
  <2>3. OccOf(v1Work) /\ v1Work.pc \notin {"begin", "process"}  BY <1>2, <1>6, <2>2 DEF V1Parts, WorkInv
  <2>4. v1Work.occ = o  BY <1>2, <2>3 DEF OccOf
  <2>5. /\ v1Work.pc = "status" => v1Work.status # "ERROR"
        /\ v1Work.pc \in {"save", "complete"} => v1Work.before = 7
        /\ ~v1Work.late
    BY <1>1, <1>2, <1>3, <1>6 DEF V1Parts, WorkInv
  <2>6. QED  BY <2>1, <2>2, <2>3, <2>4, <2>5
<1>7. QED  BY <1>2, <1>5, <1>6

\* cancel keeps V1Parts, with the handler marked.
LEMMA CancelParts ==
    ASSUME V1Types, V1Parts, NEW o \in DOMAIN v1Occ, v1_cancel(o)
    PROVE  V1Parts'
PROOF
<1>1. o = Last /\ Last > 0 /\ ~Casting  BY CancelState
<1>2. v1Row \in V1Row /\ v1Vnf \in V1VnfRow /\ v1Occ \in Seq(V1OccRow) /\ LastOpen  BY DEF V1Types, V1Parts
<1>3. /\ SetStatus("ERROR")
      /\ v1Row' = [v1Row EXCEPT !.task = "None"]
      /\ v1Occ' = [v1Occ EXCEPT ![o].state = "FAILED_TEMP"]
      /\ UNCHANGED v1Cast
      /\ v1Work' = IF v1Work.occ = o THEN [v1Work EXCEPT !.late = TRUE] ELSE v1Work
  BY DEF v1_cancel, SetStatus
<1>4. v1Vnf'.status = "ERROR"  BY <1>2, <1>3, StatusMoves, StatusValues
<1>5. v1Row'.inst = v1Row.inst  BY <1>2, <1>3, TaskMoves
<1>6. OccBecomes(Last, "FAILED_TEMP", v1Occ[Last].ep)  BY <1>1, <1>2, <1>3, LastIn, OccMoves, StepValues
<1>7. Last' = Last /\ LastOp' = LastOp /\ LastState' = "FAILED_TEMP" /\ LastOpen'
  BY <1>1, <1>2, <1>6, LastIn, LastMoves, StepValues
<1>8. CastInv' /\ ErrorInv'  BY <1>1, <1>3, <1>4 DEF CastInv, ErrorInv, Casting
<1>9. WorkInv'
  <2>1. CASE ~Working
    <3>1. v1Work.occ # o  BY <1>1, <2>1, IdleWork DEF Working
    <3>2. v1Work' = NoWork  BY <1>3, <2>1, <3>1 DEF Working
    <3>3. QED  BY <3>2 DEF WorkInv, Working
  <2>2. CASE Working
    <3>1. /\ v1Work.occ = o /\ ~Pre /\ OccOf(v1Work)
          /\ v1Work.op \notin {"ROLLBACK", "MODIFY_INFO"} /\ v1Work.pc \notin {"begin", "process"}
          /\ v1Work.pc = "status" => v1Work.status # "ERROR"
          /\ v1Work.pc \in {"save", "complete"} => v1Work.before = 7
      BY <2>2, CancelState
    <3>2. v1Work \in V1WorkRow  BY <2>2, WorkRow DEF Working
    <3>3. /\ v1Work'.op = v1Work.op /\ v1Work'.occ = v1Work.occ /\ v1Work'.before = v1Work.before
          /\ v1Work'.status = v1Work.status /\ v1Work'.base = v1Work.base /\ v1Work'.obj = v1Work.obj
          /\ v1Work'.pc = v1Work.pc /\ v1Work'.late
      BY <1>3, <3>1, <3>2, CancelledWork
    <3>4. OccOf(v1Work)' /\ ~Pre' /\ FullOp' = FullOp  BY <1>7, <3>1, <3>3 DEF OccOf, Pre, FullOp
    <3>5. v1Work.op \in Scales => v1Row.inst = "INSTANTIATED"  BY <2>2 DEF V1Parts, WorkInv, StatusOf
    <3>6. StatusOf(v1Work)'  BY <1>4, <1>5, <3>1, <3>3, <3>5 DEF StatusOf, ScaleStatuses
    <3>7. /\ v1Work.op \in Scales => v1Work.obj.inst = "INSTANTIATED" /\ v1Work.base.inst = "INSTANTIATED"
          /\ v1Work.pc \in {"status", "script", "final", "save", "complete"} => FullOp
          /\ v1Work.pc \in {"process", "pre"} => v1Work.op \in Scales
          /\ v1Work.pc = "modify" => v1Work.op = "MODIFY_INFO"
      BY <2>2 DEF V1Parts, WorkInv
    <3>8. QED  BY <1>7, <3>1, <3>3, <3>4, <3>6, <3>7 DEF WorkInv
  <2>3. QED  BY <2>1, <2>2
<1>10. QED  BY <1>7, <1>8, <1>9 DEF V1Parts

\* delete, the receipt of a cast and a crash keep V1Parts.
LEMMA OtherParts ==
    ASSUME V1Types, V1Parts, Clean', v1_delete \/ v1_receive \/ v1_crash
    PROVE  V1Parts'
PROOF
<1>1. CASE v1_delete
  <2>1. ~Casting /\ ~Working /\ UNCHANGED <<v1Cast, v1Work, v1Occ, v1Vnf>>
    BY <1>1 DEF v1_delete, V1Idle, Casting, Working
  <2>2. CastInv' /\ WorkInv'  BY <2>1 DEF CastInv, WorkInv, Casting, Working
  <2>3. LastOpen' /\ Last' = Last /\ LastState' = LastState  BY <2>1, LastKept DEF V1Parts
  <2>4. ErrorInv'  BY <2>1, <2>3 DEF V1Parts, ErrorInv
  <2>5. QED  BY <2>2, <2>3, <2>4 DEF V1Parts
<1>2. CASE v1_crash
  <2>1. Working /\ ~At("process") /\ v1Work' = NoWork /\ UNCHANGED <<v1Row, v1Vnf, v1Occ, v1Cast>>
    BY <1>2 DEF v1_crash, Working, Clean
  <2>2. Last' = Last /\ LastOp' = LastOp /\ LastState' = LastState /\ LastOpen'  BY <2>1, LastKept DEF V1Parts
  <2>3. Last > 0 /\ LastState = "FAILED_TEMP" => v1Vnf.status = "ERROR"  BY <2>1 DEF V1Parts, ErrorInv, At
  <2>4. v1Work.op \in Scales => v1Row.inst = "INSTANTIATED"  BY <2>1 DEF V1Parts, WorkInv, StatusOf
  <2>5. QED  BY <2>1, <2>2, <2>3, <2>4, Waiting, HandlerEnds
<1>3. CASE v1_receive
  <2>1. Casting /\ ~Working /\ v1Cast' = NoCast /\ v1Vnf' = v1Vnf  BY <1>3 DEF v1_receive, Casting, Working
  <2>2. CastInv'  BY <2>1 DEF CastInv, Casting
  <2>3. /\ v1Cast \in V1CastRow /\ v1Row \in V1Row /\ v1Occ \in Seq(V1OccRow) /\ v1Work.pc = "idle"
    BY <2>1, CastTyped, IdleWork DEF V1Types, Casting, Working
  <2>4. CASE UNCHANGED <<v1Row, v1Occ>>
    <3>1. Last' = Last /\ LastOp' = LastOp /\ LastState' = LastState /\ LastOpen' /\ (AllEnded => AllEnded')
      BY <2>4, LastKept DEF V1Parts
    <3>2. ErrorInv'  BY <2>1, <2>3, <3>1 DEF V1Parts, ErrorInv
    <3>3. CASE v1Work' = v1Work  BY <2>1, <2>2, <3>1, <3>2, <3>3 DEF V1Parts, WorkInv, Working
    <3>4. CASE v1Work' # v1Work
      <4>1. /\ v1Work'.op = v1Cast.op /\ v1Work'.occ = v1Cast.occ /\ v1Work'.before = v1Cast.before
            /\ v1Work'.status = v1Cast.status /\ v1Work'.base = v1Cast.row /\ v1Work'.obj = v1Cast.row
            /\ v1Work'.pc = "begin" /\ ~v1Work'.late
        BY <1>3, <2>3, <3>4, Received DEF v1_receive
      <4>2. /\ v1Cast.op = "MODIFY_INFO" => AllEnded /\ v1Cast.occ = Last + 1 /\ v1Cast.before = 0
            /\ v1Cast.op # "MODIFY_INFO" => OccOf(v1Cast) /\ LastState # "PROCESSING"
            /\ StatusOf(v1Cast)
            /\ v1Cast.op \in Scales => v1Cast.row.inst = "INSTANTIATED"
            /\ v1Cast.status = "ERROR" => v1Vnf.status = "ERROR"
            /\ ~Fresh(v1Cast) => v1Cast.status = "ERROR"
        BY <2>1 DEF V1Parts, CastInv
      <4>3. Pre' = (v1Cast.op = "MODIFY_INFO")  BY <4>1 DEF Pre
      <4>4. v1Cast.op # "MODIFY_INFO" => OccOf(v1Work)'  BY <3>1, <4>1, <4>2 DEF OccOf
      <4>5. StatusOf(v1Work)'  BY <2>1, <2>4, <4>1, <4>2 DEF StatusOf
      <4>6. ~Fresh(v1Work)' => v1Work'.status = "ERROR"  BY <4>1, <4>2 DEF Fresh
      <4>7. WorkInv'  BY <2>1, <3>1, <4>1, <4>2, <4>3, <4>4, <4>5, <4>6 DEF WorkInv
      <4>8. QED  BY <2>2, <3>1, <3>2, <4>7 DEF V1Parts
    <3>5. QED  BY <3>3, <3>4
  <2>5. CASE v1Cast.op \notin {"ROLLBACK", "MODIFY_INFO"} /\ grant_error_common /\ UNCHANGED v1Work
    <3>1. OccOf(v1Cast)  BY <2>1, <2>5 DEF V1Parts, CastInv
    <3>2. v1Cast.occ = Last /\ Last > 0 /\ Last \in DOMAIN v1Occ /\ LastOpen  BY <3>1, LastIn DEF OccOf, V1Parts
    <3>3. OccBecomes(Last, "ROLLED_BACK", v1Occ[Last].ep)
      BY <2>3, <2>5, <3>2, LastIn, OccMoves, StepValues DEF grant_error_common
    <3>4. Last' = Last /\ LastOp' = LastOp /\ LastState' = "ROLLED_BACK" /\ LastOpen'
      BY <3>2, <3>3, LastIn, LastMoves, StepValues
    <3>5. WorkInv' /\ ErrorInv'  BY <2>1, <2>5, <3>4 DEF WorkInv, ErrorInv, Working
    <3>6. QED  BY <2>2, <3>4, <3>5 DEF V1Parts
  <2>6. QED  BY <1>3, <2>4, <2>5 DEF v1_receive
<1>4. QED  BY <1>1, <1>2, <1>3

\* The history only grows.
LEMMA TaintGrows ==
    ASSUME [LcmV1Next]_v1Vars
    PROVE  v1Taint \subseteq v1Taint' /\ (Clean' => Clean)
PROOF
<1>1. v1Taint \subseteq v1Taint'
  <2>1. CASE UNCHANGED v1Vars  BY <2>1 DEF v1Vars
  <2>2. CASE (\E op \in V1Ops : v1_request(op)) \/ v1_delete \/ v1_crash \/ v1_receive
    BY <2>2 DEF v1_request, v1_delete, v1_crash, v1_receive
  <2>3. CASE \E o \in DOMAIN v1Occ : v1_retry(o) \/ v1_rollback(o) \/ v1_fail(o) \/ v1_cancel(o)
    BY <2>3 DEF v1_retry, v1_rollback, v1_fail, v1_cancel
  <2>4. \A ep, obj, raised : FailedIn(ep, obj, raised) => v1Taint \subseteq v1Taint'  BY DEF FailedIn
  <2>5. CASE FullBegin \/ FullStatus \/ FullScript \/ FullEnd \/ FullFinal \/ FullSave \/ FullComplete
    BY <2>4, <2>5 DEF FullBegin, FullStatus, FullScript, FullEnd, FullFinal, FullSave, FullComplete
  <2>6. \A ep, obj, updated : revert_to_error_scale(ep, obj, updated) => v1Taint \subseteq v1Taint'
    BY DEF revert_to_error_scale
  <2>7. CASE ScaleBegin \/ ScaleProcess \/ _scale_vnf_pre \/ _scale_vnf_post \/ _scale_vnf
    BY <2>6, <2>7 DEF ScaleBegin, ScaleProcess, _scale_vnf_pre, _scale_vnf_post, _scale_vnf
  <2>8. \A ep : revert_to_error_rollback(ep) => v1Taint \subseteq v1Taint'  BY DEF revert_to_error_rollback
  <2>9. CASE RollbackBegin \/ _rollback_vnf_post \/ _rollback_vnf \/ UpdateBegin \/ modify_vnf
    BY <2>8, <2>9 DEF RollbackBegin, _rollback_vnf_post, _rollback_vnf, UpdateBegin, modify_vnf
  <2>10. CASE SkipVim \/ _instantiate_vnf \/ _delete_vnf_instance_resources \/ _heal_vnf \/ _respawn_vnf
              \/ _change_ext_conn_vnf
    BY <2>4, <2>10 DEF SkipVim, _instantiate_vnf, _delete_vnf_instance_resources, _heal_vnf, _respawn_vnf,
                       _change_ext_conn_vnf
  <2>11. QED  BY <2>1, <2>2, <2>3, <2>5, <2>7, <2>9, <2>10 DEF LcmV1Next, V1Conductor, V1Driver
<1>2. QED  BY <1>1 DEF Clean

\* The invariant holds at the start.
LEMMA V1InvInit == LcmV1Init => V1Inv
PROOF
<1>1. SUFFICES ASSUME LcmV1Init PROVE V1Parts  BY DEF V1Inv
<1>2. v1Cast = NoCast /\ v1Work = NoWork /\ v1Occ = <<>>  BY <1>1 DEF LcmV1Init
<1>3. DOMAIN v1Occ = {} /\ Last = 0  BY <1>2 DEF Last
<1>4. QED  BY <1>2, <1>3 DEF V1Parts, LastOpen, CastInv, WorkInv, ErrorInv, Casting, Working

\* Every step keeps it.
LEMMA V1InvNext == ASSUME V1Types, V1Inv, [LcmV1Next]_v1Vars PROVE V1Inv'
PROOF
<1>1. SUFFICES ASSUME Clean' PROVE V1Parts'  BY DEF V1Inv
<1>2. V1Parts  BY <1>1, TaintGrows DEF V1Inv
<1>0. V1MaxLevel \in Nat  BY V1Assumption
<1>3. CASE UNCHANGED v1Vars
  <2>1. UNCHANGED <<v1Row, v1Vnf, v1Occ, v1Cast, v1Work>>  BY <1>3 DEF v1Vars
  <2>2. LastOpen' /\ ErrorInv'  BY <1>2, <2>1 DEF V1Parts, LastOpen, Last, ErrorInv, LastState
  <2>3. CastInv'
    BY <1>2, <2>1 DEF V1Parts, CastInv, Casting, Working, AllEnded, Last, LastState, LastOp, OccOf, StatusOf, Fresh
  <2>4. WorkInv'
    BY <1>2, <2>1 DEF V1Parts, WorkInv, Working, Pre, AllEnded, Last, LastState, LastOp, OccOf, StatusOf, Fresh, FullOp
  <2>5. QED  BY <2>2, <2>3, <2>4 DEF V1Parts
<1>4. CASE \E op \in V1Ops : v1_request(op)  BY <1>1, <1>2, <1>4, RequestParts
<1>5. CASE \E o \in DOMAIN v1Occ : v1_retry(o) \/ v1_rollback(o) \/ v1_fail(o) \/ v1_cancel(o)
  BY <1>1, <1>2, <1>5, RetryParts, FailParts, CancelParts
<1>6. CASE v1_delete \/ v1_receive \/ v1_crash  BY <1>1, <1>2, <1>6, OtherParts
<1>7. CASE FullBegin \/ FullStatus \/ FullFinal \/ FullSave \/ FullComplete  BY <1>2, <1>7, FullParts
<1>8. CASE \/ _instantiate_vnf \/ _delete_vnf_instance_resources \/ _heal_vnf \/ _respawn_vnf
           \/ _change_ext_conn_vnf \/ SkipVim \/ FullScript \/ FullEnd
  BY <1>2, <1>8, DriverParts
<1>9. CASE ScaleBegin \/ ScaleProcess \/ _scale_vnf_pre \/ _scale_vnf \/ _scale_vnf_post
  BY <1>0, <1>2, <1>9, ScaleParts
<1>10. CASE RollbackBegin \/ _rollback_vnf \/ _rollback_vnf_post \/ UpdateBegin \/ modify_vnf
  BY <1>2, <1>10, RollbackParts
<1>11. QED
  BY <1>3, <1>4, <1>5, <1>6, <1>7, <1>8, <1>9, <1>10 DEF LcmV1Next, V1Conductor, V1Driver

\* The types, and what holds of the last operation, its cast and its handler as
\* long as no second operation was started (conductor_server.py).
THEOREM V1Invariant == LcmV1Spec => [](V1Types /\ V1Inv)
PROOF
<1>1. LcmV1Init => V1Types /\ V1Inv  BY TypesInit, V1InvInit
<1>2. V1Types /\ V1Inv /\ [LcmV1Next]_v1Vars => (V1Types /\ V1Inv)'  BY TypesNext, V1InvNext
<1>3. QED  BY <1>1, <1>2, PTL DEF LcmV1Spec

\* An operation in FAILED_TEMP that nothing is being done about has left the
\* VNF in ERROR, the status without which fail and the retry of a SCALE are
\* refused: for any number of operations, failures, retries, cancels and crashes.
THEOREM FailedTempInError == LcmV1Spec => []FailedTempIsError
PROOF
<1>1. V1Types /\ V1Inv => FailedTempIsError
  <2>1. SUFFICES ASSUME V1Types, V1Inv, V1Quiet, v1Taint \cap {"second", "between"} = {},
                        NEW o \in DOMAIN v1Occ, v1Occ[o].state = "FAILED_TEMP"
                 PROVE  v1Vnf.status = "ERROR"
    BY DEF FailedTempIsError
  <2>2. V1Parts  BY <2>1 DEF V1Inv, Clean
  <2>3. o = Last /\ Last > 0 /\ LastState = "FAILED_TEMP"  BY <2>1, <2>2, OpenIsLast DEF V1Parts, V1Ended
  <2>4. v1Work.pc # "process"  BY <2>1, IdleWork DEF V1Quiet, V1Idle
  <2>5. QED  BY <2>2, <2>3, <2>4 DEF V1Parts, ErrorInv
<1>2. QED  BY <1>1, V1Invariant, PTL

\* Of a handler that was cancelled: what it makes of its operation, which is in
\* FAILED_TEMP.
LEMMA LateOutcome ==
    ASSUME V1Types, V1Inv, Clean, LcmV1Next, v1Work # NoWork, v1Work.late,
           v1Occ[v1Work.occ].state = "FAILED_TEMP", v1Occ' # v1Occ, v1Work' # v1Work
    PROVE  v1Occ'[v1Work.occ].state # "COMPLETED" \/ v1Work.op \in Scales \/ v1Work.before = 7
PROOF
<1>1. V1Parts /\ Working  BY DEF V1Inv, Working
<1>2. /\ v1Work.op \notin {"ROLLBACK", "MODIFY_INFO"} /\ v1Work.pc \notin {"begin", "process"} /\ ~Pre
  BY <1>1 DEF V1Parts, WorkInv, Pre
<1>3. v1Work.occ = Last /\ Last > 0 /\ Last \in DOMAIN v1Occ /\ LastState = "FAILED_TEMP"
  BY <1>1, <1>2, WorkOcc, LastIn DEF LastState
<1>4. v1Occ \in Seq(V1OccRow) /\ v1Work.obj \in V1Row  BY <1>1, WorkTypes DEF Working
<1>5. ASSUME NEW ep, v1Occ' = [v1Occ EXCEPT ![v1Work.occ].state = "FAILED_TEMP", ![v1Work.occ].ep = ep]
      PROVE  v1Occ'[v1Work.occ].state = "FAILED_TEMP"
  <2>1. v1Occ[Last] \in V1OccRow  BY <1>3, LastIn
  <2>2. v1Occ'[Last] = [[v1Occ[Last] EXCEPT !.state = "FAILED_TEMP"] EXCEPT !.ep = ep]  BY <1>3, <1>5
  <2>3. QED  BY <1>3, <2>1, <2>2 DEF V1OccRow
<1>6. \A ep, obj, raised : FailedIn(ep, obj, raised) => v1Occ'[v1Work.occ].state = "FAILED_TEMP"
  BY <1>5 DEF FailedIn, SetFailed
<1>7. CASE FullStatus \/ FullScript \/ FullEnd \/ FullFinal \/ FullSave
  BY <1>6, <1>7 DEF FullStatus, FullScript, FullEnd, FullFinal, FullSave
<1>8. CASE \/ SkipVim \/ _instantiate_vnf \/ _delete_vnf_instance_resources \/ _heal_vnf \/ _respawn_vnf
           \/ _change_ext_conn_vnf
  BY <1>6, <1>8 DEF SkipVim, _instantiate_vnf, _delete_vnf_instance_resources, _heal_vnf, _respawn_vnf,
                    _change_ext_conn_vnf
<1>9. CASE FullComplete
  <2>1. v1Work.before # 7 => LastState # "FAILED_TEMP"  BY <1>1, <1>9 DEF FullComplete, At, V1Parts, WorkInv
  <2>2. QED  BY <1>3, <2>1
<1>10. CASE FullBegin \/ v1_receive \/ v1_delete \/ v1_crash \/ \E op \in V1Ops : v1_request(op)
  BY <1>2, <1>10 DEF FullBegin, At, v1_receive, v1_delete, v1_crash, v1_request, V1Idle
<1>11. CASE \E o \in DOMAIN v1Occ : v1_retry(o) \/ v1_rollback(o) \/ v1_fail(o) \/ v1_cancel(o)
  BY <1>11 DEF v1_retry, v1_rollback, v1_fail, v1_cancel
<1>12. CASE ScaleBegin \/ ScaleProcess \/ _scale_vnf_pre \/ _scale_vnf \/ _scale_vnf_post
  BY <1>12 DEF ScaleBegin, ScaleProcess, _scale_vnf_pre, _scale_vnf, _scale_vnf_post
<1>13. CASE RollbackBegin \/ _rollback_vnf \/ _rollback_vnf_post \/ UpdateBegin \/ modify_vnf
  BY <1>2, <1>13 DEF RollbackBegin, _rollback_vnf, _rollback_vnf_post, UpdateBegin, modify_vnf
<1>14. QED
  BY <1>7, <1>8, <1>9, <1>10, <1>11, <1>12, <1>13 DEF LcmV1Next, V1Conductor, V1Driver

\* An operation cancelled while it ran is not COMPLETED by its handler: the
\* last change of the status refuses, since cancel made it ERROR.
THEOREM CancelIsKept == LcmV1Spec => CancelHolds
PROOF
<1>1. V1Types /\ V1Inv /\ [LcmV1Next]_v1Vars =>
        [/\ v1Work # NoWork /\ v1Work.late /\ v1Occ[v1Work.occ].state = "FAILED_TEMP"
         /\ v1Occ' # v1Occ /\ v1Work' # v1Work
         /\ v1Taint \cap {"second", "between"} = {}
         => \/ v1Occ'[v1Work.occ].state # "COMPLETED"
            \/ v1Work.op \in Scales
            \/ v1Work.before = 7]_v1Vars
  BY LateOutcome DEF Clean
<1>2. QED  BY <1>1, V1Invariant, PTL DEF LcmV1Spec, CancelHolds

----------------------------------------------------------------------------
\* Nor was a handler cancelled.
Calm == Clean /\ v1Late = {}
\* The error_point of the last operation.
LastEp == v1Occ[Last].ep
\* The handler has not passed its call to Heat.
Early == v1Work.pc \in {"begin", "process", "pre", "status", "script", "vim"}

\* A cast or handler has the row as it is; its operation is open, and has the
\* error_point that is retried.
CalmCast ==
    Casting =>
       /\ ~Working /\ v1Cast.row = v1Row
       /\ v1Cast.before # 0 => LastEp = v1Cast.before
       /\ v1Cast.op # "MODIFY_INFO" => LastState \notin V1Ended
CalmWork ==
    Working =>
       /\ ~v1Work.late /\ v1Work.base = v1Row
       /\ v1Work.before # 0 => LastEp = v1Work.before
       /\ v1Work.pc \in {"begin", "process"} /\ ~Pre => LastState \notin V1Ended
       /\ Early \/ v1Work.op = "ROLLBACK" => v1Work.obj = v1Row
CalmParts == CalmCast /\ CalmWork

\* A history that is calm was calm before.
LEMMA LateGrows ==
    ASSUME [LcmV1Next]_v1Vars
    PROVE  v1Late \subseteq v1Late' /\ (Calm' => Calm)
PROOF
<1>1. v1Late \subseteq v1Late'
  BY DEF LcmV1Next, V1Conductor, V1Driver, v1Vars, v1_request, v1_delete, v1_crash, v1_receive,
         v1_retry, v1_rollback, v1_fail, v1_cancel, FullBegin, FullStatus, FullScript, FullEnd, FullFinal, FullSave,
         FullComplete, ScaleBegin, ScaleProcess, _scale_vnf_pre, _scale_vnf_post, _scale_vnf,
         RollbackBegin, _rollback_vnf_post, _rollback_vnf, UpdateBegin, modify_vnf,
         SkipVim, _instantiate_vnf, _delete_vnf_instance_resources, _heal_vnf, _respawn_vnf, _change_ext_conn_vnf
<1>2. QED  BY <1>1, TaintGrows DEF Calm

\* The state of an operation whose handler runs.
LEMMA CalmState ==
    ASSUME V1Types, V1Parts, CalmParts, Working, ~Pre
    PROVE  /\ LastState \notin V1Ended /\ ~AllEnded /\ ~Casting /\ v1Work.occ = Last /\ Last > 0
           /\ Last \in DOMAIN v1Occ /\ ~v1Work.late /\ v1Work.base = v1Row
           /\ LastState # "FAILED_TEMP" \/ v1Work.pc \in {"begin", "process"}
PROOF
<1>1. v1Work.occ = Last /\ Last > 0 /\ Last \in DOMAIN v1Occ  BY WorkOcc
<1>2. ~v1Work.late /\ v1Work.base = v1Row /\ ~Casting  BY DEF CalmParts, CalmWork, CalmCast
<1>3. CASE v1Work.pc \in {"begin", "process"}
  BY <1>1, <1>2, <1>3 DEF CalmParts, CalmWork, AllEnded, LastState
<1>4. CASE v1Work.pc \notin {"begin", "process"}
  <2>1. LastState \in {"PROCESSING", "ROLLING_BACK"}  BY <1>2, <1>4 DEF V1Parts, WorkInv
  <2>2. QED  BY <1>1, <1>2, <2>1 DEF AllEnded, LastState, V1Ended
<1>5. QED  BY <1>3, <1>4

\* What is saved is the object of the handler.
LEMMA CalmSaved ==
    ASSUME V1Types, CalmParts, Working, NEW obj \in V1Row
    PROVE  Saved(obj) = obj
PROOF
<1>1. v1Row \in V1Row /\ v1Work.base \in V1Row  BY WorkTypes DEF Working
<1>2. v1Work.base = v1Row  BY DEF CalmParts, CalmWork
<1>3. QED  BY <1>1, <1>2, SavedFields

\* The handler is over.
LEMMA CalmEnds ==
    ASSUME CalmParts, Working, v1Cast' = v1Cast, v1Work' = NoWork
    PROVE  CalmParts' /\ ~Casting' /\ ~Working'
BY DEF CalmParts, CalmCast, CalmWork, Casting, Working

\* The handler goes on.
LEMMA CalmGoesOn ==
    ASSUME CalmParts, Working, v1Cast' = v1Cast,
           v1Work'.op = v1Work.op, v1Work'.before = v1Work.before, v1Work'.late = v1Work.late,
           v1Work'.base = v1Row', v1Work'.pc # "begin", v1Work'.pc = "process" => LastState' \notin V1Ended,
           v1Work.before # 0 => LastEp' = LastEp,
           (v1Work'.pc \in {"process", "pre", "status", "script", "vim"} \/ v1Work.op = "ROLLBACK") =>
              v1Work'.obj = v1Row'
    PROVE  CalmParts' /\ ~Casting'
PROOF
<1>1. ~Casting'  BY DEF CalmParts, CalmCast, Casting
<1>2. CalmWork'  BY DEF CalmParts, CalmWork, Early, Pre
<1>3. QED  BY <1>1, <1>2 DEF CalmParts, CalmCast

\* GoOn and SaveGoOn, of which the first leaves the rows.
LEMMA CalmMoves ==
    ASSUME V1Types, CalmParts, Working, NEW pc \in V1Steps, NEW obj \in V1Row,
           (GoOn(pc, obj) /\ v1Row' = v1Row) \/ SaveGoOn(pc, obj)
    PROVE  /\ v1Work' # NoWork
           /\ v1Work'.op = v1Work.op /\ v1Work'.occ = v1Work.occ /\ v1Work'.before = v1Work.before
           /\ v1Work'.status = v1Work.status /\ v1Work'.late = v1Work.late
           /\ v1Work'.pc = pc /\ v1Work'.base = v1Row' /\ v1Work'.obj = obj
           /\ v1Row' = v1Row \/ v1Row' = obj
           /\ SaveGoOn(pc, obj) => v1Row' = obj
PROOF
<1>1. v1Work \in V1WorkRow  BY WorkRow DEF Working
<1>2. v1Work.base = v1Row  BY DEF CalmParts, CalmWork
<1>3. pc # "idle"  BY DEF V1Steps
<1>4. Saved(obj) = obj  BY CalmSaved
<1>5. CASE SaveGoOn(pc, obj)  BY <1>1, <1>3, <1>4, <1>5, SaveGoOnMoves, IdleWork DEF Working
<1>6. CASE GoOn(pc, obj) /\ v1Row' = v1Row /\ ~SaveGoOn(pc, obj)  BY <1>1, <1>2, <1>3, <1>6, GoOnMoves, IdleWork
<1>7. QED  BY <1>5, <1>6

----------------------------------------------------------------------------
\* No operation was completed by a retry that RetriedOperational is about.
Plain ==
    \A o \in DOMAIN v1Occ :
       v1Occ[o].state = "COMPLETED" => v1Occ[o].ep # 7 /\ (v1Occ[o].op = "CHANGE_EXT_CONN" => v1Occ[o].ep = 0)
\* The status and task_state of a VNF that can be operated.
Norm(inst) == IF inst = "INSTANTIATED" THEN "ACTIVE" ELSE "INACTIVE"
Healthy == v1Row.task = "None" /\ v1Vnf.status = Norm(v1Row.inst)
\* instantiation_state while an operation is open.
OpenInst(op, inst) ==
    /\ op = "INSTANTIATE" => inst # "INSTANTIATED"
    /\ op \in Scales \cup Heals \cup {"CHANGE_EXT_CONN"} => inst = "INSTANTIATED"

\* The status, task_state and instantiation_state between operations, while a
\* cast waits, and at each step of a handler.
OpQuiet ==
    ~Working /\ ~Casting =>
       /\ AllEnded => Healthy
       /\ Last > 0 /\ (LastState = "FAILED_TEMP" \/ (LastState = "PROCESSING" /\ v1Vnf.status \in PENDING_STATUSES)) =>
             OpenInst(LastOp, v1Row.inst)
OpCast ==
    Casting =>
       /\ v1Cast.op # "MODIFY_INFO" => OpenInst(LastOp, v1Row.inst)
       /\ Fresh(v1Cast) => v1Vnf.status = Norm(v1Row.inst) /\ (TaskOf(v1Cast.op) = "None" => v1Row.task = "None")
OpWork ==
    Working =>
       /\ ~Pre /\ (v1Work.pc # "complete" \/ v1Work.op = "CHANGE_EXT_CONN") =>
             OpenInst(LastOp, v1Row.inst) /\ OpenInst(LastOp, v1Work.obj.inst)
       /\ v1Work.op = "MODIFY_INFO" => Healthy
       /\ v1Work.op \in Scales =>
             v1Vnf.status = IF v1Work.pc = "begin" THEN IF v1Work.before = 0 THEN "ACTIVE" ELSE "ERROR"
                            ELSE IF v1Work.pc \in {"process", "pre"} /\ v1Work.before = 0 THEN "ACTIVE"
                            ELSE Pending[v1Work.op]
       /\ v1Work.op = "CHANGE_EXT_CONN" /\ v1Work.before = 0 => v1Row.task = "None" /\ v1Work.obj.task = "None"
       /\ v1Work.pc = "save" /\ v1Work.before # 7 =>
             v1Vnf.status = IF v1Work.op = "TERMINATE" THEN "INACTIVE" ELSE "ACTIVE"
       /\ v1Work.pc = "complete" /\ v1Work.before # 7 =>
             v1Vnf.status = Norm(v1Row.inst) /\ (v1Work.op # "CHANGE_EXT_CONN" => v1Row.task = "None")
\* error_point 7 is reached in terminate and change_ext_conn only.
OpPoints == \A o \in DOMAIN v1Occ : v1Occ[o].ep = 7 => v1Occ[o].op \in {"TERMINATE", "CHANGE_EXT_CONN"}
OpParts == OpQuiet /\ OpCast /\ OpWork /\ OpPoints

\* v1Taint makes no exception, and the conductor did not die.
Faithful == v1Taint = {} /\ v1Crashes = 0
\* Heat, the row r and scale_group agree.
Agree(r) ==
    /\ v1Vim.stack <=> r.inst = "INSTANTIATED"
    /\ r.stack <=> v1Vim.stack
    /\ v1Vim.stack => v1Vim.level = r.level /\ v1Vnf.cap = r.level
\* What is known of Heat while an operation is open, by its error_point: what
\* its retry and its rollback rely on.
OpenVim(op, ep) ==
    /\ op = "INSTANTIATE" => /\ v1Row.inst # "INSTANTIATED" /\ ep # 7
                             /\ v1Row.stack <=> v1Vim.stack
                             /\ v1Row.stack <=> ep >= 4
                             /\ v1Row.stack => v1Vim.level = 0 /\ v1Row.level = 0
    /\ op = "TERMINATE" => IF ep > 4 THEN ~v1Row.stack /\ ~v1Vim.stack ELSE v1Vim.stack => v1Row.stack
    /\ op = "HEAL" => /\ v1Row.inst = "INSTANTIATED" /\ v1Vnf.cap = v1Row.level
                      /\ ep <= 3 => (v1Row.stack <=> v1Vim.stack)
                      /\ ep = 4 => v1Row.stack
                      /\ ep > 4 => Agree(v1Row)
    /\ op \in {"HEAL_VNFC", "CHANGE_EXT_CONN", "MODIFY_INFO"} => Agree(v1Row)
    /\ op \in Scales => /\ v1Row.inst = "INSTANTIATED" /\ v1Row.stack /\ v1Vim.stack
                        /\ ep <= 3 => Agree(v1Row)
                        /\ ep = 4 => v1Vnf.cap = v1Row.level
                        /\ ep > 4 => v1Vim.level = v1Row.level

\* Heat and the rows between operations, while a cast waits, and at each step
\* of a handler.
VimQuiet ==
    ~Working /\ ~Casting =>
       /\ AllEnded => Agree(v1Row)
       /\ Last > 0 /\ LastState = "FAILED_TEMP" => OpenVim(LastOp, LastEp)
VimCast ==
    Casting =>
       /\ v1Cast.op # "MODIFY_INFO" => OpenVim(LastOp, v1Cast.before)
       /\ Fresh(v1Cast) => Agree(v1Row)
       /\ v1Cast.op = "ROLLBACK" /\ LastOp = "SCALE_OUT" => v1Cast.before <= 4
       /\ v1Cast.op \in Scales => LevelAllowed(v1Cast.op) /\ v1Cast.before # 4
VimWork ==
    Working =>
       /\ ~Pre /\ Early => OpenVim(LastOp, v1Work.before)
       /\ v1Work.op = "MODIFY_INFO" => Agree(v1Row)
       /\ v1Work.op = "ROLLBACK" /\ LastOp = "SCALE_OUT" => v1Work.before <= 4
       /\ v1Work.op \in Scales /\ Early => LevelAllowed(v1Work.op) /\ v1Work.before # 4
       /\ ~Early /\ v1Work.op = "INSTANTIATE" =>
             /\ v1Work.pc # "complete" => /\ v1Work.obj.inst # "INSTANTIATED" /\ v1Work.obj.stack /\ v1Work.obj.level = 0
                                          /\ v1Vim.stack /\ v1Vim.level = 0
             /\ v1Work.pc = "save" => v1Vnf.cap = 0
             /\ v1Work.pc = "complete" => Agree(v1Row)
       /\ ~Early /\ v1Work.op = "TERMINATE" =>
             /\ ~v1Work.obj.stack /\ ~v1Vim.stack
             /\ v1Work.pc = "complete" => Agree(v1Row)
       /\ ~Early /\ v1Work.op \in Heals \cup {"CHANGE_EXT_CONN"} => Agree(v1Row) /\ Agree(v1Work.obj)
       /\ ~Early /\ v1Work.op = "HEAL" => v1Row.inst = "INSTANTIATED" /\ v1Work.obj.inst = "INSTANTIATED"
       /\ ~Early /\ v1Work.op \in Scales =>
             v1Work.obj.inst = "INSTANTIATED" /\ v1Work.obj.stack /\ v1Vim.stack /\ v1Vim.level = v1Work.obj.level
       /\ ~Early /\ v1Work.op = "ROLLBACK" =>
             IF LastOp = "SCALE_OUT" THEN Agree(v1Row) /\ v1Row.inst = "INSTANTIATED" ELSE ~v1Vim.stack /\ v1Row.inst # "INSTANTIATED"
VimParts == VimQuiet /\ VimCast /\ VimWork

\* The state between two steps, and what is to be shown of the next.
Whole == V1Types /\ V1Parts /\ CalmParts /\ (Plain => OpParts) /\ (Faithful => VimParts)
WholeNext == CalmParts' /\ (Plain' => OpParts') /\ (Faithful' => VimParts')

\* Occurrences that have ended stay as they are.
LEMMA PlainKept ==
    ASSUME V1Types, Last > 0, LastState # "COMPLETED", NEW s, NEW e, OccBecomes(Last, s, e)
    PROVE  /\ Plain' => Plain
           /\ OpPoints /\ (e = 7 => LastOp \in {"TERMINATE", "CHANGE_EXT_CONN"}) => OpPoints'
PROOF
<1>1. DOMAIN v1Occ' = DOMAIN v1Occ /\ \A x \in DOMAIN v1Occ : x # Last => v1Occ'[x] = v1Occ[x]
  BY DEF OccBecomes
<1>2. ASSUME Plain' PROVE Plain  BY <1>1, <1>2 DEF Plain, LastState
<1>3. ASSUME OpPoints, e = 7 => LastOp \in {"TERMINATE", "CHANGE_EXT_CONN"} PROVE OpPoints'
  BY <1>1, <1>3 DEF OpPoints, OccBecomes, LastOp
<1>4. QED  BY <1>2, <1>3

\* The operation fails, and the handler is over.
LEMMA WholeFails ==
    ASSUME Whole, Working, ~Pre, v1Cast' = v1Cast, v1Work' = NoWork, NEW e \in V1Points,
           OccBecomes(Last, "FAILED_TEMP", e),
           OpParts /\ e = 7 => LastOp \in {"TERMINATE", "CHANGE_EXT_CONN"},
           OpParts => OpenInst(LastOp, v1Row'.inst),
           Faithful' => OpenVim(LastOp, e)'
    PROVE  WholeNext
PROOF
<1>0. V1Types /\ V1Parts /\ CalmParts  BY DEF Whole
<1>1. LastState \notin V1Ended /\ Last > 0  BY <1>0, CalmState
<1>2. Last' = Last /\ LastOp' = LastOp /\ LastState' = "FAILED_TEMP" /\ LastEp' = e
  BY <1>0, <1>1, LastMoves, StepValues DEF V1Parts, LastEp
<1>3. CalmParts' /\ ~Casting' /\ ~Working'  BY <1>0, CalmEnds
<1>4. ~AllEnded'
  <2>1. Last' \in DOMAIN v1Occ'  BY <1>0, <1>1, <1>2, LastIn DEF OccBecomes
  <2>2. QED  BY <1>2, <2>1 DEF AllEnded, LastState, V1Ended
<1>5. ASSUME Plain' PROVE OpParts'
  <2>1. OpParts  BY <1>0, <1>1, <1>5, PlainKept DEF Whole, V1Ended
  <2>2. OpPoints'  BY <1>0, <1>1, <2>1, PlainKept DEF OpParts, V1Ended
  <2>3. OpenInst(LastOp, v1Row.inst)'  BY <1>2, <2>1 DEF OpenInst
  <2>4. QED  BY <1>3, <1>4, <2>2, <2>3 DEF OpParts, OpQuiet, OpCast, OpWork
<1>6. ASSUME Faithful' PROVE VimParts'
  <2>1. OpenVim(LastOp, LastEp)'  BY <1>2, <1>6 DEF OpenVim
  <2>2. QED  BY <1>3, <1>4, <2>1 DEF VimParts, VimQuiet, VimCast, VimWork
<1>7. QED  BY <1>3, <1>5, <1>6 DEF WholeNext

\* The operation ends, and the handler is over.
LEMMA WholeEnds ==
    ASSUME Whole, Working, ~Pre, v1Cast' = v1Cast, v1Work' = NoWork, NEW s \in V1Ended, NEW e \in V1Points,
           OccBecomes(Last, s, e),
           OpParts /\ e = 7 => LastOp \in {"TERMINATE", "CHANGE_EXT_CONN"},
           Plain' /\ OpParts => Healthy',
           Faithful' => Agree(v1Row)'
    PROVE  WholeNext
PROOF
<1>0. V1Types /\ V1Parts /\ CalmParts /\ s \in V1States  BY DEF Whole, V1States
<1>1. LastState \notin V1Ended /\ Last > 0  BY <1>0, CalmState
<1>2. Last' = Last /\ LastOp' = LastOp /\ LastState' = s /\ LastEp' = e
  BY <1>0, <1>1, LastMoves DEF V1Parts, LastEp
<1>3. CalmParts' /\ ~Casting' /\ ~Working'  BY <1>0, CalmEnds
<1>4. LastState' \notin {"FAILED_TEMP", "PROCESSING"}  BY <1>2 DEF V1Ended
<1>5. ASSUME Plain' PROVE OpParts'
  <2>1. OpParts  BY <1>0, <1>1, <1>5, PlainKept DEF Whole, V1Ended
  <2>2. OpPoints'  BY <1>0, <1>1, <2>1, PlainKept DEF OpParts, V1Ended
  <2>3. QED  BY <1>3, <1>4, <1>5, <2>1, <2>2 DEF OpParts, OpQuiet, OpCast, OpWork
<1>6. ASSUME Faithful' PROVE VimParts'
  BY <1>3, <1>4, <1>6 DEF VimParts, VimQuiet, VimCast, VimWork
<1>7. QED  BY <1>3, <1>5, <1>6 DEF WholeNext

\* The handler goes on; its operation stays as it is, or is PROCESSING or
\* ROLLING_BACK now.
LEMMA WholeGoesOn ==
    ASSUME Whole, Working, ~Pre, v1Cast' = v1Cast,
           v1Work'.op = v1Work.op, v1Work'.before = v1Work.before, v1Work'.late = v1Work.late,
           v1Work'.base = v1Row', v1Work'.pc # "begin",
           (v1Work'.pc \in {"process", "pre", "status", "script", "vim"} \/ v1Work.op = "ROLLBACK") =>
              v1Work'.obj = v1Row',
           \/ v1Occ' = v1Occ
           \/ \E s \in {"PROCESSING", "ROLLING_BACK"} : OccBecomes(Last, s, LastEp),
           v1Work' # NoWork,
           OpParts => OpWork',
           Faithful' /\ (Faithful => VimParts) => VimWork'
    PROVE  WholeNext
PROOF
<1>0. V1Types /\ V1Parts /\ CalmParts  BY DEF Whole
<1>1. LastState \notin V1Ended /\ Last > 0 /\ Last \in DOMAIN v1Occ  BY <1>0, CalmState
<1>2. LastEp \in V1Points  BY <1>0, <1>1, LastIn DEF LastEp
<1>3. /\ LastEp' = LastEp /\ LastState' \notin V1Ended
      /\ Plain' => Plain
      /\ OpPoints => OpPoints'
  <2>1. CASE v1Occ' = v1Occ  BY <1>1, <2>1 DEF LastEp, LastState, Last, Plain, OpPoints
  <2>2. ASSUME NEW s \in {"PROCESSING", "ROLLING_BACK"}, OccBecomes(Last, s, LastEp)
        PROVE  /\ LastEp' = LastEp /\ LastState' \notin V1Ended
               /\ Plain' => Plain
               /\ OpPoints => OpPoints'
    <3>1. LastEp' = LastEp /\ LastState' = s
      BY <1>0, <1>1, <1>2, <2>2, LastMoves, StepValues DEF V1Parts, LastEp
    <3>2. OpPoints /\ LastEp = 7 => LastOp \in {"TERMINATE", "CHANGE_EXT_CONN"}
      BY <1>1 DEF OpPoints, LastEp, LastOp
    <3>3. QED  BY <1>0, <1>1, <2>2, <3>1, <3>2, PlainKept DEF V1Ended
  <2>3. QED  BY <2>1, <2>2
<1>4. CalmParts' /\ ~Casting' /\ Working'  BY <1>0, <1>3, CalmGoesOn DEF Working
<1>5. ASSUME Plain' PROVE OpParts'
  BY <1>3, <1>4, <1>5 DEF Whole, OpParts, OpQuiet, OpCast
<1>6. ASSUME Faithful' PROVE VimParts'
  BY <1>4, <1>6 DEF Whole, VimParts, VimQuiet, VimCast
<1>7. QED  BY <1>4, <1>5, <1>6 DEF WholeNext

\* The rows differ in task_state at most.
SameRow(r, s) == r.inst = s.inst /\ r.stack = s.stack /\ r.level = s.level

\* The except clause when no handler was cancelled: the row is the object, but
\* for task_state, unless v1Taint says that it is not.
LEMMA CalmFails ==
    ASSUME Whole, Working, FullOp, v1Crashes' = v1Crashes,
           NEW ep \in V1Points, NEW obj \in V1Row, NEW raised \in BOOLEAN, FailedIn(ep, obj, raised)
    PROVE  /\ OccBecomes(Last, "FAILED_TEMP", ep) /\ v1Work' = NoWork /\ v1Vnf'.cap = v1Vnf.cap
           /\ v1Row'.inst \in {obj.inst, v1Row.inst}
           /\ Faithful' =>
                /\ Faithful
                /\ v1Work.before >= 4 => ep >= 4
                /\ v1Work.op = "HEAL" => obj.level = v1Work.obj.level
                /\ v1Work.op = "INSTANTIATE" /\ v1Work.obj.stack => obj.stack
                /\ \/ SameRow(v1Row', obj)
                   \/ v1Row' = v1Row /\ v1Work.op \notin {"INSTANTIATE", "TERMINATE"} /\ ~raised
PROOF
<1>0. V1Types /\ V1Parts /\ CalmParts /\ v1Work # NoWork  BY DEF Whole, Working
<1>1. v1Work.occ = Last /\ Last \in DOMAIN v1Occ  BY <1>0, CalmState DEF FullOp, Pre
<1>2. OccBecomes(Last, "FAILED_TEMP", ep) /\ v1Work' = NoWork /\ v1Vnf'.cap = v1Vnf.cap
  BY <1>0, <1>1, FailedMoves
<1>3. /\ v1Row \in V1Row /\ v1Work \in V1WorkRow /\ v1Work.before \in V1Points /\ v1Row.task \in {"None", "INSTANTIATING", "TERMINATING", "HEALING", "SCALING", "ERROR"}
  BY <1>0, WorkTypes DEF V1Row
<1>4. Saved(obj) = obj  BY <1>0, CalmSaved
<1>5. \A t \in {"None", "INSTANTIATING", "TERMINATING", "HEALING", "SCALING", "ERROR"} :
         SameRow([obj EXCEPT !.task = t], obj)
  BY TaskMoves DEF SameRow
<1>6. PICK t \in {"None", "INSTANTIATING", "TERMINATING", "HEALING", "SCALING", "ERROR"} :
         t = IF v1Work.op \in {"INSTANTIATE", "TERMINATE"} THEN "None" ELSE revert_to_error_task_state(raised)
  BY <1>3 DEF revert_to_error_task_state
<1>7. \/ /\ v1Row' = IF v1Work.op \in {"INSTANTIATE", "TERMINATE"} \/ raised THEN [obj EXCEPT !.task = t] ELSE v1Row
         /\ v1Work.op = "INSTANTIATE" /\ v1Work.obj.stack /\ ~obj.stack => "outage" \in v1Taint'
      \/ v1Work.op = "INSTANTIATE" /\ v1Row' = Reinitialized(v1Row) /\ "outage" \in v1Taint'
  BY <1>4, <1>6 DEF FailedIn
<1>8. /\ v1Taint \subseteq v1Taint'
      /\ v1Work.before >= 4 /\ ep < 4 => "apart" \in v1Taint'
      /\ v1Work.op = "HEAL" /\ obj.level # v1Work.obj.level => "apart" \in v1Taint'
  BY DEF FailedIn
<1>9. v1Row'.inst \in {obj.inst, v1Row.inst}
  <2>1. Reinitialized(v1Row).inst = v1Row.inst  BY <1>3, Reset
  <2>2. [obj EXCEPT !.task = t].inst = obj.inst  BY TaskMoves
  <2>3. QED  BY <1>7, <2>1, <2>2
<1>10. ASSUME Faithful'
       PROVE  /\ Faithful
              /\ v1Work.before >= 4 => ep >= 4
              /\ v1Work.op = "HEAL" => obj.level = v1Work.obj.level
              /\ v1Work.op = "INSTANTIATE" /\ v1Work.obj.stack => obj.stack
              /\ \/ SameRow(v1Row', obj)
                 \/ v1Row' = v1Row /\ v1Work.op \notin {"INSTANTIATE", "TERMINATE"} /\ ~raised
  <2>1. v1Taint' = {} /\ v1Taint = {} /\ Faithful  BY <1>8, <1>10 DEF Faithful
  <2>2. v1Work.before >= 4 => ep >= 4  BY <1>3, <1>8, <2>1 DEF V1Points
  <2>3. v1Work.op = "HEAL" => obj.level = v1Work.obj.level  BY <1>8, <2>1
  <2>4. v1Work.op = "INSTANTIATE" /\ v1Work.obj.stack => obj.stack  BY <1>7, <2>1
  <2>5. \/ SameRow(v1Row', obj)
        \/ v1Row' = v1Row /\ v1Work.op \notin {"INSTANTIATE", "TERMINATE"} /\ ~raised
    BY <1>5, <1>7, <2>1
  <2>6. QED  BY <2>1, <2>2, <2>3, <2>4, <2>5
<1>11. QED  BY <1>2, <1>9, <1>10

\* An operation fails: what each must show of its object, its error_point and
\* the stack.
LEMMA WholeFullFails ==
    ASSUME Whole, Working, FullOp, NEW op, op = v1Work.op, v1Cast' = v1Cast, v1Crashes' = v1Crashes,
           NEW ep \in V1Points, NEW obj \in V1Row, NEW raised \in BOOLEAN, FailedIn(ep, obj, raised),
           v1Work.pc # "complete",
           ep = 7 => v1Work.op \in {"TERMINATE", "CHANGE_EXT_CONN"},
           OpParts => OpenInst(v1Work.op, obj.inst),
           /\ Faithful' /\ VimParts
           /\ v1Work.before >= 4 => ep >= 4
           /\ v1Work.op = "HEAL" => obj.level = v1Work.obj.level
           /\ v1Work.op = "INSTANTIATE" /\ v1Work.obj.stack => obj.stack
           /\ v1Vnf'.cap = v1Vnf.cap
           /\ \/ SameRow(v1Row', obj)
              \/ v1Row' = v1Row /\ v1Work.op \notin {"INSTANTIATE", "TERMINATE"} /\ ~raised
           => OpenVim(op, ep)'
    PROVE  WholeNext
PROOF
<1>0. V1Types /\ V1Parts /\ CalmParts /\ ~Pre  BY DEF Whole, FullOp, Pre
<1>1. /\ OccBecomes(Last, "FAILED_TEMP", ep) /\ v1Work' = NoWork /\ v1Vnf'.cap = v1Vnf.cap
      /\ v1Row'.inst \in {obj.inst, v1Row.inst}
  BY CalmFails
<1>2. LastOp = v1Work.op /\ Last > 0  BY <1>0, WorkOcc DEF FullOp
<1>3. OpParts => OpenInst(LastOp, v1Row'.inst)
  <2>1. OpParts => OpenInst(LastOp, v1Row.inst)  BY <1>0 DEF OpParts, OpWork
  <2>2. QED  BY <1>1, <1>2, <2>1
<1>4. Faithful' => OpenVim(LastOp, ep)'
  <2>1. SUFFICES ASSUME Faithful' PROVE OpenVim(LastOp, ep)'  OBVIOUS
  <2>2. OpenVim(op, ep)'  BY <2>1, CalmFails DEF Whole
  <2>3. LastOp' = op  BY <1>0, <1>1, <1>2, LastMoves, StepValues DEF V1Parts
  <2>4. QED  BY <1>2, <2>2, <2>3 DEF OpenVim
<1>5. QED  BY <1>0, <1>1, <1>2, <1>3, <1>4, WholeFails

\* What is known of Heat stays true when neither it nor the row changes, also
\* with another error_point before the call.
LEMMA VimKept ==
    ASSUME NEW op, NEW b \in V1Points, NEW e \in V1Points, OpenVim(op, b), SameRow(v1Row', v1Row),
           v1Vim' = v1Vim, v1Vnf'.cap = v1Vnf.cap, b = e \/ (b <= 3 /\ e <= 3)
    PROVE  OpenVim(op, e)'
PROOF
<1>1. Agree(v1Row) => Agree(v1Row)'  BY DEF Agree, SameRow
<1>2. op = "INSTANTIATE" => /\ v1Row'.inst # "INSTANTIATED" /\ e # 7
                            /\ v1Row'.stack <=> v1Vim'.stack
                            /\ v1Row'.stack <=> e >= 4
                            /\ v1Row'.stack => v1Vim'.level = 0 /\ v1Row'.level = 0
  BY DEF OpenVim, SameRow, V1Points
<1>3. op = "TERMINATE" => IF e > 4 THEN ~v1Row'.stack /\ ~v1Vim'.stack ELSE v1Vim'.stack => v1Row'.stack
  BY DEF OpenVim, SameRow, V1Points
<1>4. op = "HEAL" => /\ v1Row'.inst = "INSTANTIATED" /\ v1Vnf'.cap = v1Row'.level
                     /\ e <= 3 => (v1Row'.stack <=> v1Vim'.stack)
                     /\ e = 4 => v1Row'.stack
                     /\ e > 4 => Agree(v1Row)'
  BY <1>1 DEF OpenVim, SameRow, V1Points
<1>5. op \in {"HEAL_VNFC", "CHANGE_EXT_CONN", "MODIFY_INFO"} => Agree(v1Row)'  BY <1>1 DEF OpenVim
<1>6. op \in Scales => /\ v1Row'.inst = "INSTANTIATED" /\ v1Row'.stack /\ v1Vim'.stack
                       /\ e <= 3 => Agree(v1Row)'
                       /\ e = 4 => v1Vnf'.cap = v1Row'.level
                       /\ e > 4 => v1Vim'.level = v1Row'.level
  BY <1>1 DEF OpenVim, SameRow, V1Points
<1>7. QED  BY <1>2, <1>3, <1>4, <1>5, <1>6 DEF OpenVim

\* What Whole says of a handler of instantiate, terminate, heal or change_ext_conn.
LEMMA FullState ==
    ASSUME Whole, Working, FullOp
    PROVE  /\ V1Types /\ V1Parts /\ CalmParts /\ ~Pre /\ LastOp = v1Work.op /\ Last > 0 /\ v1Work.occ = Last
           /\ v1Work.op \in {"INSTANTIATE", "TERMINATE", "CHANGE_EXT_CONN", "HEAL", "HEAL_VNFC"}
           /\ v1Work.op \notin Scales
           /\ v1Work \in V1WorkRow /\ v1Row \in V1Row /\ v1Work.obj \in V1Row /\ v1Work.before \in V1Points
           /\ Last \in DOMAIN v1Occ /\ v1Occ \in Seq(V1OccRow) /\ LastEp \in V1Points
           /\ v1Work.base = v1Row /\ ~v1Work.late
           /\ Early => v1Work.obj = v1Row
           /\ OpParts /\ v1Work.pc # "complete" => OpenInst(v1Work.op, v1Row.inst) /\ OpenInst(v1Work.op, v1Work.obj.inst)
           /\ VimParts /\ Early => OpenVim(v1Work.op, v1Work.before)
PROOF
<1>1. V1Types /\ V1Parts /\ CalmParts /\ ~Pre  BY DEF Whole, FullOp, Pre
<1>2. LastOp = v1Work.op /\ Last > 0 /\ v1Work.occ = Last  BY <1>1, WorkOcc DEF FullOp
<1>3. /\ v1Work \in V1WorkRow /\ v1Row \in V1Row /\ v1Work.obj \in V1Row /\ v1Work.before \in V1Points
      /\ v1Work.op \in V1Handled /\ v1Occ \in Seq(V1OccRow)
  BY <1>1, WorkTypes DEF Working
<1>4. v1Work.op \in {"INSTANTIATE", "TERMINATE", "CHANGE_EXT_CONN", "HEAL", "HEAL_VNFC"} /\ v1Work.op \notin Scales
  BY <1>3 DEF FullOp, V1Handled, V1Ops, Scales, Heals
<1>5. v1Work.base = v1Row /\ ~v1Work.late /\ (Early => v1Work.obj = v1Row)  BY <1>1 DEF CalmParts, CalmWork
<1>6. OpParts /\ v1Work.pc # "complete" => OpenInst(v1Work.op, v1Row.inst) /\ OpenInst(v1Work.op, v1Work.obj.inst)
  BY <1>1, <1>2 DEF OpParts, OpWork
<1>7. VimParts /\ Early => OpenVim(v1Work.op, v1Work.before)  BY <1>1, <1>2 DEF VimParts, VimWork
<1>8. Last \in DOMAIN v1Occ /\ LastEp \in V1Points  BY <1>1, <1>2, LastIn DEF LastEp
<1>9. QED  BY <1>1, <1>2, <1>3, <1>4, <1>5, <1>6, <1>7, <1>8

\* The part of OpWork that a step to another pc must show.
LEMMA OpOn ==
    ASSUME NEW op \in {"INSTANTIATE", "TERMINATE", "CHANGE_EXT_CONN", "HEAL", "HEAL_VNFC"},
           v1Work'.op = op, LastOp' = op,
           v1Work'.pc # "complete" \/ op = "CHANGE_EXT_CONN" =>
              OpenInst(op, v1Row'.inst) /\ OpenInst(op, v1Work'.obj.inst),
           op = "CHANGE_EXT_CONN" /\ v1Work'.before = 0 => v1Row'.task = "None" /\ v1Work'.obj.task = "None",
           v1Work'.pc = "save" /\ v1Work'.before # 7 =>
              v1Vnf'.status = IF op = "TERMINATE" THEN "INACTIVE" ELSE "ACTIVE",
           v1Work'.pc = "complete" /\ v1Work'.before # 7 =>
              v1Vnf'.status = Norm(v1Row'.inst) /\ (op # "CHANGE_EXT_CONN" => v1Row'.task = "None")
    PROVE  OpWork'
BY DEF OpWork, OpenInst, Norm, Scales

\* The part of VimWork that a step to another pc must show.
LEMMA VimOn ==
    ASSUME NEW op \in {"INSTANTIATE", "TERMINATE", "CHANGE_EXT_CONN", "HEAL", "HEAL_VNFC"}, NEW b,
           v1Work'.op = op, LastOp' = op, v1Work'.before = b,
           v1Work'.pc \in {"status", "script", "vim", "end", "final", "save", "complete"},
           v1Work'.pc \in {"status", "script", "vim"} => OpenVim(op, b)',
           v1Work'.pc \notin {"status", "script", "vim"} =>
              /\ op = "INSTANTIATE" =>
                   /\ v1Work'.pc # "complete" =>
                        /\ v1Work'.obj.inst # "INSTANTIATED" /\ v1Work'.obj.stack /\ v1Work'.obj.level = 0
                        /\ v1Vim'.stack /\ v1Vim'.level = 0
                   /\ v1Work'.pc = "save" => v1Vnf'.cap = 0
                   /\ v1Work'.pc = "complete" => Agree(v1Row)'
              /\ op = "TERMINATE" =>
                   /\ ~v1Work'.obj.stack /\ ~v1Vim'.stack
                   /\ v1Work'.pc = "complete" => Agree(v1Row)'
              /\ op \in Heals \cup {"CHANGE_EXT_CONN"} => Agree(v1Row)' /\ Agree(v1Work.obj)'
              /\ op = "HEAL" => v1Row'.inst = "INSTANTIATED" /\ v1Work'.obj.inst = "INSTANTIATED"
    PROVE  VimWork'
PROOF
<1>1. Early' = (v1Work'.pc \in {"status", "script", "vim"})  BY DEF Early
<1>2. op \notin Scales  BY DEF Scales
<1>3. ~Pre' /\ Early' => OpenVim(LastOp, v1Work.before)'  BY <1>1 DEF OpenVim
<1>4. QED  BY <1>1, <1>2, <1>3 DEF VimWork

\* A handler of these four that goes on: what each step must show.
LEMMA WholeFullOn ==
    ASSUME Whole, Working, FullOp, v1Cast' = v1Cast, v1Crashes' = v1Crashes, v1Taint' = v1Taint,
           NEW op, op = v1Work.op, NEW b, b = v1Work.before,
           NEW pc \in {"status", "script", "vim", "end", "final", "save", "complete"}, NEW obj \in V1Row,
           (GoOn(pc, obj) /\ v1Row' = v1Row) \/ SaveGoOn(pc, obj),
           v1Occ' = v1Occ \/ OccBecomes(Last, "PROCESSING", LastEp),
           pc \in {"status", "script", "vim"} => obj = v1Row,
           OpParts =>
              /\ pc # "complete" \/ op = "CHANGE_EXT_CONN" => OpenInst(op, v1Row'.inst) /\ OpenInst(op, obj.inst)
              /\ op = "CHANGE_EXT_CONN" /\ b = 0 => v1Row'.task = "None" /\ obj.task = "None"
              /\ pc = "save" /\ b # 7 => v1Vnf'.status = IF op = "TERMINATE" THEN "INACTIVE" ELSE "ACTIVE"
              /\ pc = "complete" /\ b # 7 =>
                    v1Vnf'.status = Norm(v1Row'.inst) /\ (op # "CHANGE_EXT_CONN" => v1Row'.task = "None"),
           Faithful /\ VimParts =>
              /\ pc \in {"status", "script", "vim"} => OpenVim(op, b)'
              /\ pc \notin {"status", "script", "vim"} =>
                   /\ op = "INSTANTIATE" =>
                        /\ pc # "complete" => /\ obj.inst # "INSTANTIATED" /\ obj.stack /\ obj.level = 0
                                              /\ v1Vim'.stack /\ v1Vim'.level = 0
                        /\ pc = "save" => v1Vnf'.cap = 0
                        /\ pc = "complete" => Agree(v1Row)'
                   /\ op = "TERMINATE" =>
                        /\ ~obj.stack /\ ~v1Vim'.stack
                        /\ pc = "complete" => Agree(v1Row)'
                   /\ op \in Heals \cup {"CHANGE_EXT_CONN"} => Agree(v1Row)' /\ Agree(obj)'
                   /\ op = "HEAL" => v1Row'.inst = "INSTANTIATED" /\ obj.inst = "INSTANTIATED"
    PROVE  WholeNext
PROOF
<1>0. /\ V1Types /\ V1Parts /\ CalmParts /\ ~Pre /\ LastOp = op /\ Last > 0 /\ v1Work.occ = Last
      /\ op \in {"INSTANTIATE", "TERMINATE", "CHANGE_EXT_CONN", "HEAL", "HEAL_VNFC"}
      /\ LastEp \in V1Points /\ op # "ROLLBACK"
  BY FullState DEF FullOp
<1>1. /\ v1Work' # NoWork
      /\ v1Work'.op = v1Work.op /\ v1Work'.before = v1Work.before /\ v1Work'.late = v1Work.late
      /\ v1Work'.pc = pc /\ v1Work'.base = v1Row' /\ v1Work'.obj = obj
      /\ v1Row' = v1Row \/ v1Row' = obj
  <2>1. pc \in V1Steps  BY DEF V1Steps
  <2>2. QED  BY <1>0, <2>1, CalmMoves
<1>2. LastOp' = op
  <2>1. CASE v1Occ' = v1Occ  BY <1>0, <2>1, LastKept
  <2>2. CASE OccBecomes(Last, "PROCESSING", LastEp)
    BY <1>0, <2>2, LastMoves, StepValues DEF V1Parts
  <2>3. QED  BY <2>1, <2>2
<1>3. OpParts => OpWork'
  <2>1. SUFFICES ASSUME OpParts PROVE OpWork'  OBVIOUS
  <2>2. /\ v1Work'.pc # "complete" \/ op = "CHANGE_EXT_CONN" =>
              OpenInst(op, v1Row'.inst) /\ OpenInst(op, v1Work'.obj.inst)
        /\ op = "CHANGE_EXT_CONN" /\ v1Work'.before = 0 => v1Row'.task = "None" /\ v1Work'.obj.task = "None"
    BY <1>1, <2>1
  <2>3. /\ v1Work'.pc = "save" /\ v1Work'.before # 7 =>
              v1Vnf'.status = IF op = "TERMINATE" THEN "INACTIVE" ELSE "ACTIVE"
        /\ v1Work'.pc = "complete" /\ v1Work'.before # 7 =>
              v1Vnf'.status = Norm(v1Row'.inst) /\ (op # "CHANGE_EXT_CONN" => v1Row'.task = "None")
    BY <1>1, <2>1
  <2>4. QED  BY <1>0, <1>1, <1>2, <2>2, <2>3, OpOn
<1>4. Faithful' /\ (Faithful => VimParts) => VimWork'
  <2>1. SUFFICES ASSUME Faithful /\ VimParts PROVE VimWork'  BY DEF Faithful
  <2>2. v1Work'.pc \in {"status", "script", "vim"} => OpenVim(op, b)'  BY <1>1, <2>1
  <2>3. v1Work'.pc \notin {"status", "script", "vim"} =>
              /\ op = "INSTANTIATE" =>
                   /\ v1Work'.pc # "complete" =>
                        /\ v1Work'.obj.inst # "INSTANTIATED" /\ v1Work'.obj.stack /\ v1Work'.obj.level = 0
                        /\ v1Vim'.stack /\ v1Vim'.level = 0
                   /\ v1Work'.pc = "save" => v1Vnf'.cap = 0
                   /\ v1Work'.pc = "complete" => Agree(v1Row)'
              /\ op = "TERMINATE" =>
                   /\ ~v1Work'.obj.stack /\ ~v1Vim'.stack
                   /\ v1Work'.pc = "complete" => Agree(v1Row)'
              /\ op \in Heals \cup {"CHANGE_EXT_CONN"} => Agree(v1Row)' /\ Agree(v1Work.obj)'
              /\ op = "HEAL" => v1Row'.inst = "INSTANTIATED" /\ v1Work'.obj.inst = "INSTANTIATED"
    <3>1. Agree(obj)' => Agree(v1Work.obj)'  BY <1>1 DEF Agree
    <3>2. QED  BY <1>1, <2>1, <3>1
  <2>4. QED  BY <1>0, <1>1, <1>2, <2>2, <2>3, VimOn
<1>5. /\ v1Work'.pc # "begin"
      /\ (v1Work'.pc \in {"process", "pre", "status", "script", "vim"} \/ v1Work.op = "ROLLBACK") =>
              v1Work'.obj = v1Row'
  BY <1>0, <1>1
<1>6. v1Occ' = v1Occ \/ \E s \in {"PROCESSING", "ROLLING_BACK"} : OccBecomes(Last, s, LastEp)
  OBVIOUS
<1>7. QED  BY <1>0, <1>1, <1>3, <1>4, <1>5, <1>6, WholeGoesOn

\* The operation is PROCESSING.
LEMMA WholeFullBegin == ASSUME Whole, FullBegin PROVE WholeNext
PROOF
<1>0. Working /\ FullOp /\ v1Work.pc = "begin"  BY AtWork, StepValues DEF FullBegin, At, Working
<1>1. PICK op, b, obj : op = v1Work.op /\ b = v1Work.before /\ obj = v1Work.obj  OBVIOUS
<1>2. /\ V1Types /\ LastOp = op /\ v1Work.occ = Last /\ obj \in V1Row /\ b \in V1Points /\ LastEp \in V1Points
      /\ Last \in DOMAIN v1Occ /\ v1Occ \in Seq(V1OccRow) /\ obj = v1Row
      /\ OpParts => OpenInst(op, v1Row.inst) /\ OpenInst(op, obj.inst)
      /\ VimParts => OpenVim(op, b)
  BY <1>0, <1>1, FullState DEF Early
<1>3. UNCHANGED <<v1Row, v1Vnf, v1Cast, v1Vim, v1Crashes, v1Taint>> /\ GoOn("status", obj)
  BY <1>1 DEF FullBegin
<1>4. OccBecomes(Last, "PROCESSING", LastEp)
  BY <1>2, OccMoves, StepValues DEF FullBegin, SetState, LastEp
<1>5. OpParts /\ op = "CHANGE_EXT_CONN" /\ b = 0 => v1Row.task = "None" /\ obj.task = "None"
  BY <1>0, <1>1 DEF OpParts, OpWork
<1>6. VimParts => OpenVim(op, b)'  BY <1>2, <1>3, VimKept DEF SameRow
<1>7. QED  BY <1>0, <1>1, <1>2, <1>3, <1>4, <1>5, <1>6, WholeFullOn

\* A failure before Heat was called.
LEMMA WholeEarlyFails ==
    ASSUME Whole, Working, FullOp, Early, v1Cast' = v1Cast, v1Crashes' = v1Crashes, v1Vim' = v1Vim,
           NEW ep \in {1, 2, 3}, NEW raised \in BOOLEAN, FailedIn(ep, v1Work.obj, raised)
    PROVE  WholeNext
PROOF
<1>1. PICK op, b, obj : op = v1Work.op /\ b = v1Work.before /\ obj = v1Work.obj  OBVIOUS
<1>2. /\ obj \in V1Row /\ b \in V1Points /\ obj = v1Row /\ v1Work.pc # "complete"
      /\ OpParts => OpenInst(v1Work.op, obj.inst)
      /\ VimParts => OpenVim(op, b)
  BY <1>1, FullState DEF Early
<1>3. ep \in V1Points /\ ep # 7 /\ ep <= 3  BY DEF V1Points
<1>4. /\ Faithful' /\ VimParts
      /\ v1Work.before >= 4 => ep >= 4
      /\ v1Vnf'.cap = v1Vnf.cap
      /\ \/ SameRow(v1Row', obj)
         \/ v1Row' = v1Row /\ v1Work.op \notin {"INSTANTIATE", "TERMINATE"} /\ ~raised
      => OpenVim(op, ep)'
  <2>1. SUFFICES ASSUME VimParts, v1Work.before >= 4 => ep >= 4, v1Vnf'.cap = v1Vnf.cap,
                        SameRow(v1Row', obj) \/ v1Row' = v1Row
                 PROVE  OpenVim(op, ep)'
    OBVIOUS
  <2>2. SameRow(v1Row', v1Row)  BY <1>2, <2>1 DEF SameRow
  <2>3. b <= 3  BY <1>1, <1>2, <1>3, <2>1 DEF V1Points
  <2>4. QED  BY <1>2, <1>3, <2>1, <2>2, <2>3, VimKept
<1>5. FailedIn(ep, obj, raised)  BY <1>1
<1>6. QED  BY <1>1, <1>2, <1>3, <1>4, <1>5, WholeFullFails

\* A failure after it.
LEMMA WholeLateFails ==
    ASSUME Whole, Working, FullOp, ~Early, v1Work.pc # "complete", v1Cast' = v1Cast, v1Crashes' = v1Crashes, v1Vim' = v1Vim,
           NEW ep \in {6, 7}, ep = 7 => v1Work.op \in {"TERMINATE", "CHANGE_EXT_CONN"},
           NEW raised \in BOOLEAN, FailedIn(ep, v1Work.obj, raised)
    PROVE  WholeNext
PROOF
<1>1. PICK op, obj : op = v1Work.op /\ obj = v1Work.obj  OBVIOUS
<1>2. /\ obj \in V1Row /\ v1Row \in V1Row
      /\ op \in {"INSTANTIATE", "TERMINATE", "CHANGE_EXT_CONN", "HEAL", "HEAL_VNFC"}
      /\ OpParts => OpenInst(v1Work.op, obj.inst)
  BY <1>1, FullState
<1>3. ep \in V1Points /\ ep > 4 /\ ~(ep <= 3) /\ ep # 4 /\ ep >= 4  BY DEF V1Points
<1>4. /\ Faithful' /\ VimParts
      /\ v1Vnf'.cap = v1Vnf.cap
      /\ \/ SameRow(v1Row', obj)
         \/ v1Row' = v1Row /\ v1Work.op \notin {"INSTANTIATE", "TERMINATE"} /\ ~raised
      => OpenVim(op, ep)'
  <2>1. SUFFICES ASSUME VimParts, v1Vnf'.cap = v1Vnf.cap,
                        SameRow(v1Row', obj) \/ (v1Row' = v1Row /\ op \notin {"INSTANTIATE", "TERMINATE"})
                 PROVE  OpenVim(op, ep)'
    BY <1>1
  <2>2. /\ op = "INSTANTIATE" => /\ obj.inst # "INSTANTIATED" /\ obj.stack /\ obj.level = 0
                                 /\ v1Vim.stack /\ v1Vim.level = 0
        /\ op = "TERMINATE" => ~obj.stack /\ ~v1Vim.stack
        /\ op \in Heals \cup {"CHANGE_EXT_CONN"} => Agree(v1Row) /\ Agree(obj)
        /\ op = "HEAL" => v1Row.inst = "INSTANTIATED" /\ obj.inst = "INSTANTIATED"
    BY <1>1, <2>1 DEF VimParts, VimWork
  <2>3. CASE op = "INSTANTIATE"
    <3>1. SameRow(v1Row', obj)  BY <2>1, <2>3
    <3>2. QED  BY <1>1, <1>3, <2>2, <2>3, <3>1 DEF OpenVim, SameRow, Scales
  <2>4. CASE op = "TERMINATE"
    <3>1. SameRow(v1Row', obj)  BY <2>1, <2>4
    <3>2. QED  BY <1>3, <2>2, <2>4, <3>1 DEF OpenVim, SameRow, Scales
  <2>5. CASE op \in Heals \cup {"CHANGE_EXT_CONN"}
    <3>1. Agree(v1Row)'  BY <2>1, <2>2, <2>5 DEF Agree, SameRow
    <3>2. op = "HEAL" => v1Row'.inst = "INSTANTIATED"  BY <2>1, <2>2 DEF SameRow
    <3>3. op = "HEAL" => v1Vnf'.cap = v1Row'.level  BY <3>1, <3>2 DEF Agree
    <3>4. QED  BY <1>3, <2>5, <3>1, <3>2, <3>3 DEF OpenVim, Scales, Heals
  <2>6. QED  BY <1>2, <2>3, <2>4, <2>5 DEF Heals
<1>5. FailedIn(ep, obj, raised)  BY <1>1
<1>6. QED  BY <1>1, <1>2, <1>3, <1>4, <1>5, WholeFullFails

\* The status is PENDING_*, or the operation fails before Heat was called.
LEMMA WholeFullStatus == ASSUME Whole, FullStatus PROVE WholeNext
PROOF
<1>0. Working /\ FullOp /\ v1Work.pc = "status" /\ Early  BY AtWork, StepValues DEF FullStatus, At, Working, Early
<1>1. PICK op, b, obj : op = v1Work.op /\ b = v1Work.before /\ obj = v1Work.obj  OBVIOUS
<1>2. /\ V1Types /\ LastOp = op /\ obj \in V1Row /\ b \in V1Points /\ obj = v1Row
      /\ op \in {"INSTANTIATE", "TERMINATE", "CHANGE_EXT_CONN", "HEAL", "HEAL_VNFC"}
      /\ OpParts => OpenInst(op, v1Row.inst) /\ OpenInst(op, obj.inst)
      /\ VimParts => OpenVim(op, b)
  BY <1>0, <1>1, FullState
<1>3. UNCHANGED <<v1Cast, v1Vim, v1Crashes>>  BY DEF FullStatus
<1>4. \/ /\ \E s : SetStatus(s)
         /\ GoOn(IF v1Work.before <= 6 \/ op = "CHANGE_EXT_CONN" THEN "script" ELSE "save", v1Work.obj)
         /\ UNCHANGED <<v1Row, v1Occ, v1Taint>>
      \/ FailedIn(1, v1Work.obj, FALSE)
  BY <1>1 DEF FullStatus
<1>5. CASE FailedIn(1, v1Work.obj, FALSE)
  BY <1>0, <1>3, <1>5, WholeEarlyFails
<1>6. CASE /\ \E s : SetStatus(s)
           /\ GoOn(IF v1Work.before <= 6 \/ op = "CHANGE_EXT_CONN" THEN "script" ELSE "save", v1Work.obj)
           /\ UNCHANGED <<v1Row, v1Occ, v1Taint>>
  <2>1. v1Vnf'.cap = v1Vnf.cap  BY <1>2, <1>6 DEF SetStatus, V1Types, V1VnfRow
  <2>2. VimParts => OpenVim(op, b)'  BY <1>2, <1>3, <1>6, <2>1, VimKept DEF SameRow
  <2>3. OpParts /\ op = "CHANGE_EXT_CONN" /\ b = 0 => v1Row.task = "None" /\ obj.task = "None"
    BY <1>0, <1>1 DEF OpParts, OpWork
  <2>4. PICK pc : pc = IF v1Work.before <= 6 \/ op = "CHANGE_EXT_CONN" THEN "script" ELSE "save"  OBVIOUS
  <2>5. GoOn(pc, obj)  BY <1>1, <1>6, <2>4
  <2>6. CASE pc = "script"
    BY <1>0, <1>1, <1>2, <1>3, <1>6, <2>2, <2>3, <2>5, <2>6, WholeFullOn
  <2>7. CASE pc = "save"
    <3>1. b = 7 /\ op # "CHANGE_EXT_CONN"  BY <1>1, <1>2, <2>4, <2>7 DEF V1Points
    <3>2. VimParts => /\ op # "INSTANTIATE"
                      /\ op = "TERMINATE" => ~v1Row.stack /\ ~v1Vim.stack
                      /\ op \in Heals => Agree(v1Row)
                      /\ op = "HEAL" => v1Row.inst = "INSTANTIATED"
      BY <1>2, <3>1 DEF OpenVim, Heals
    <3>3. Agree(v1Row) => Agree(v1Row)' /\ Agree(obj)'  BY <1>2, <1>3, <1>6, <2>1 DEF Agree
    <3>4. QED  BY <1>0, <1>1, <1>2, <1>3, <1>6, <2>5, <2>7, <3>1, <3>2, <3>3, WholeFullOn
  <2>8. QED  BY <2>4, <2>6, <2>7
<1>7. QED  BY <1>4, <1>5, <1>6

\* The start script.
LEMMA WholeFullScript == ASSUME Whole, FullScript PROVE WholeNext
PROOF
<1>0. Working /\ FullOp /\ v1Work.pc = "script" /\ Early  BY AtWork, StepValues DEF FullScript, At, Working, Early
<1>1. PICK op, b, obj : op = v1Work.op /\ b = v1Work.before /\ obj = v1Work.obj  OBVIOUS
<1>2. /\ V1Types /\ LastOp = op /\ obj \in V1Row /\ b \in V1Points /\ obj = v1Row
      /\ OpParts => OpenInst(op, v1Row.inst) /\ OpenInst(op, obj.inst)
      /\ VimParts => OpenVim(op, b)
  BY <1>0, <1>1, FullState
<1>3. UNCHANGED <<v1Cast, v1Vim, v1Crashes>>  BY DEF FullScript
<1>4. (GoOn("vim", obj) /\ UNCHANGED <<v1Row, v1Vnf, v1Occ, v1Taint>>) \/ FailedIn(2, v1Work.obj, TRUE)
  BY <1>1 DEF FullScript
<1>5. CASE FailedIn(2, v1Work.obj, TRUE)  BY <1>0, <1>3, <1>5, WholeEarlyFails
<1>6. CASE GoOn("vim", obj) /\ UNCHANGED <<v1Row, v1Vnf, v1Occ, v1Taint>>
  <2>1. VimParts => OpenVim(op, b)'  BY <1>2, <1>3, <1>6, VimKept DEF SameRow
  <2>2. OpParts /\ op = "CHANGE_EXT_CONN" /\ b = 0 => v1Row.task = "None" /\ obj.task = "None"
    BY <1>0, <1>1 DEF OpParts, OpWork
  <2>3. QED  BY <1>0, <1>1, <1>2, <1>3, <1>6, <2>1, <2>2, WholeFullOn
<1>7. QED  BY <1>4, <1>5, <1>6

\* A retry that is past the call finds Heat as it was left.
LEMMA WholeSkip == ASSUME Whole, SkipVim PROVE WholeNext
PROOF
<1>0. Working /\ FullOp /\ v1Work.pc = "vim" /\ Early /\ v1Work.before > 4 /\ v1Work.op # "TERMINATE"
  BY AtWork, StepValues DEF SkipVim, At, Working, Early, FullOp, Scales, Heals
<1>1. PICK op, b, obj : op = v1Work.op /\ b = v1Work.before /\ obj = v1Work.obj  OBVIOUS
<1>2. /\ obj \in V1Row /\ b \in V1Points /\ obj = v1Row
      /\ op \in {"INSTANTIATE", "TERMINATE", "CHANGE_EXT_CONN", "HEAL", "HEAL_VNFC"}
      /\ OpParts => OpenInst(op, v1Row.inst) /\ OpenInst(op, obj.inst)
      /\ VimParts => OpenVim(op, b)
  BY <1>0, <1>1, FullState
<1>3. UNCHANGED <<v1Row, v1Vnf, v1Occ, v1Cast, v1Vim, v1Crashes, v1Taint>> /\ GoOn("end", obj)
  BY <1>1 DEF SkipVim
<1>4. OpParts /\ op = "CHANGE_EXT_CONN" /\ b = 0 => v1Row.task = "None" /\ obj.task = "None"
  BY <1>0, <1>1 DEF OpParts, OpWork
<1>5. b >= 4 /\ b > 4  BY <1>0, <1>1, <1>2 DEF V1Points
<1>6. VimParts =>
        /\ op = "INSTANTIATE" => obj.inst # "INSTANTIATED" /\ obj.stack /\ obj.level = 0 /\ v1Vim.stack /\ v1Vim.level = 0
        /\ op \in Heals \cup {"CHANGE_EXT_CONN"} => Agree(v1Row)
        /\ op = "HEAL" => v1Row.inst = "INSTANTIATED" /\ obj.inst = "INSTANTIATED"
  BY <1>2, <1>5 DEF OpenVim, Heals
<1>7. Agree(v1Row) => Agree(v1Row)' /\ Agree(obj)'  BY <1>2, <1>3 DEF Agree
<1>8. QED  BY <1>0, <1>1, <1>2, <1>3, <1>4, <1>6, <1>7, WholeFullOn

\* The end script.
LEMMA WholeFullEnd == ASSUME Whole, FullEnd PROVE WholeNext
PROOF
<1>0. Working /\ FullOp /\ v1Work.pc = "end" /\ ~Early  BY AtWork, StepValues DEF FullEnd, At, Working, Early
<1>1. PICK op, b, obj : op = v1Work.op /\ b = v1Work.before /\ obj = v1Work.obj  OBVIOUS
<1>2. /\ obj \in V1Row
      /\ OpParts => OpenInst(op, v1Row.inst) /\ OpenInst(op, obj.inst)
  BY <1>0, <1>1, FullState
<1>3. UNCHANGED <<v1Cast, v1Vim, v1Crashes>>  BY DEF FullEnd
<1>4. (GoOn("final", obj) /\ UNCHANGED <<v1Row, v1Vnf, v1Occ, v1Taint>>) \/ FailedIn(6, v1Work.obj, TRUE)
  BY <1>1 DEF FullEnd
<1>5. CASE FailedIn(6, v1Work.obj, TRUE)
  <2>1. PICK ep \in {6, 7} : ep = 6 /\ ep # 7  OBVIOUS
  <2>2. QED  BY <1>0, <1>3, <1>5, <2>1, WholeLateFails
<1>6. CASE GoOn("final", obj) /\ UNCHANGED <<v1Row, v1Vnf, v1Occ, v1Taint>>
  <2>1. OpParts /\ op = "CHANGE_EXT_CONN" /\ b = 0 => v1Row.task = "None" /\ obj.task = "None"
    BY <1>0, <1>1 DEF OpParts, OpWork
  <2>2. VimParts =>
          /\ op = "INSTANTIATE" => obj.inst # "INSTANTIATED" /\ obj.stack /\ obj.level = 0 /\ v1Vim.stack /\ v1Vim.level = 0
          /\ op = "TERMINATE" => ~obj.stack /\ ~v1Vim.stack
          /\ op \in Heals \cup {"CHANGE_EXT_CONN"} => Agree(v1Row) /\ Agree(obj)
          /\ op = "HEAL" => v1Row.inst = "INSTANTIATED" /\ obj.inst = "INSTANTIATED"
    BY <1>0, <1>1 DEF VimParts, VimWork
  <2>3. /\ Agree(v1Row) => Agree(v1Row)'
        /\ Agree(obj) => Agree(obj)'
    BY <1>3, <1>6 DEF Agree
  <2>4. QED  BY <1>0, <1>1, <1>2, <1>3, <1>6, <2>1, <2>2, <2>3, WholeFullOn
<1>7. QED  BY <1>4, <1>5, <1>6

\* The status is that of the VNF again.
LEMMA WholeFullFinal == ASSUME Whole, FullFinal PROVE WholeNext
PROOF
<1>0. Working /\ FullOp /\ v1Work.pc = "final" /\ ~Early  BY AtWork, StepValues DEF FullFinal, At, Working, Early
<1>1. PICK op, b, obj : op = v1Work.op /\ b = v1Work.before /\ obj = v1Work.obj  OBVIOUS
<1>2. /\ obj \in V1Row
      /\ op \in {"INSTANTIATE", "TERMINATE", "CHANGE_EXT_CONN", "HEAL", "HEAL_VNFC"}
      /\ OpParts => OpenInst(op, v1Row.inst) /\ OpenInst(op, obj.inst)
  BY <1>0, <1>1, FullState
<1>3. UNCHANGED <<v1Cast, v1Vim, v1Crashes>>  BY DEF FullFinal
<1>4. \/ /\ v1Vnf' = [status |-> IF op = "TERMINATE" THEN "INACTIVE" ELSE "ACTIVE",
                      cap |-> IF op = "INSTANTIATE" THEN 0 ELSE v1Vnf.cap]
         /\ GoOn(IF op = "CHANGE_EXT_CONN" THEN "complete" ELSE "save", obj)
         /\ UNCHANGED <<v1Row, v1Occ, v1Taint>>
      \/ FailedIn(IF op = "CHANGE_EXT_CONN" THEN 7 ELSE 6, v1Work.obj, FALSE)
      \/ op = "INSTANTIATE" /\ FailedIn(6, Reinitialized(obj), FALSE)
  BY <1>1 DEF FullFinal
<1>5. CASE FailedIn(IF op = "CHANGE_EXT_CONN" THEN 7 ELSE 6, v1Work.obj, FALSE)
  <2>1. CASE op = "CHANGE_EXT_CONN"  BY <1>0, <1>1, <1>3, <1>5, <2>1, WholeLateFails
  <2>2. CASE op # "CHANGE_EXT_CONN"
    <3>1. PICK ep \in {6, 7} : ep = 6 /\ ep # 7  OBVIOUS
    <3>2. FailedIn(ep, v1Work.obj, FALSE)  BY <1>5, <2>2, <3>1
    <3>3. QED  BY <1>0, <1>3, <3>1, <3>2, WholeLateFails
  <2>3. QED  BY <2>1, <2>2
<1>6. CASE op = "INSTANTIATE" /\ FailedIn(6, Reinitialized(obj), FALSE)
  <2>1. Reinitialized(obj) \in V1Row /\ Reinitialized(obj).inst = obj.inst /\ ~Reinitialized(obj).stack  BY <1>2, Reset
  <2>2. PICK new : new = Reinitialized(obj)  OBVIOUS
  <2>3. VimParts => obj.stack  BY <1>0, <1>1, <1>6 DEF VimParts, VimWork
  <2>4. OpParts => OpenInst(v1Work.op, new.inst)  BY <1>1, <1>2, <2>1, <2>2
  <2>5. PICK ep \in V1Points : ep = 6 /\ ep # 7 /\ ep = 6  BY StepValues
  <2>8. FailedIn(ep, new, FALSE) /\ new \in V1Row /\ ~new.stack  BY <1>6, <2>1, <2>2, <2>5
  <2>6. v1Work.pc # "complete" /\ v1Work.obj = obj /\ v1Work.op = "INSTANTIATE"  BY <1>0, <1>1, <1>6
  <2>7. QED  BY <1>0, <1>1, <1>3, <2>3, <2>4, <2>5, <2>6, <2>8, WholeFullFails
<1>7. CASE /\ v1Vnf' = [status |-> IF op = "TERMINATE" THEN "INACTIVE" ELSE "ACTIVE",
                        cap |-> IF op = "INSTANTIATE" THEN 0 ELSE v1Vnf.cap]
           /\ GoOn(IF op = "CHANGE_EXT_CONN" THEN "complete" ELSE "save", obj)
           /\ UNCHANGED <<v1Row, v1Occ, v1Taint>>
  <2>1. OpParts /\ op = "CHANGE_EXT_CONN" /\ b = 0 => v1Row.task = "None" /\ obj.task = "None"
    BY <1>0, <1>1 DEF OpParts, OpWork
  <2>2. VimParts =>
          /\ op = "INSTANTIATE" => obj.inst # "INSTANTIATED" /\ obj.stack /\ obj.level = 0 /\ v1Vim.stack /\ v1Vim.level = 0
          /\ op = "TERMINATE" => ~obj.stack /\ ~v1Vim.stack
          /\ op \in Heals \cup {"CHANGE_EXT_CONN"} => Agree(v1Row) /\ Agree(obj)
          /\ op = "HEAL" => v1Row.inst = "INSTANTIATED" /\ obj.inst = "INSTANTIATED"
    BY <1>0, <1>1 DEF VimParts, VimWork
  <2>3. /\ v1Vnf'.status = IF op = "TERMINATE" THEN "INACTIVE" ELSE "ACTIVE"
        /\ v1Vnf'.cap = IF op = "INSTANTIATE" THEN 0 ELSE v1Vnf.cap
    BY <1>7
  <2>4. /\ op # "INSTANTIATE" /\ Agree(v1Row) => Agree(v1Row)'
        /\ op # "INSTANTIATE" /\ Agree(obj) => Agree(obj)'
    BY <1>3, <1>7, <2>3 DEF Agree
  <2>5. CASE op = "CHANGE_EXT_CONN"
    <3>1. GoOn("complete", obj)  BY <1>7, <2>5
    <3>2. OpParts => v1Vnf'.status = Norm(v1Row'.inst)  BY <1>2, <1>7, <2>3, <2>5 DEF OpenInst, Norm
    <3>3. QED  BY <1>0, <1>1, <1>2, <1>3, <1>7, <2>1, <2>2, <2>4, <2>5, <3>1, <3>2, WholeFullOn
  <2>6. CASE op # "CHANGE_EXT_CONN"
    <3>1. GoOn("save", obj)  BY <1>7, <2>6
    <3>2. op \in Heals \cup {"CHANGE_EXT_CONN"} => op # "INSTANTIATE"  BY DEF Heals
    <3>3. QED  BY <1>0, <1>1, <1>2, <1>3, <1>7, <2>2, <2>3, <2>4, <2>6, <3>1, <3>2, WholeFullOn
  <2>7. QED  BY <2>5, <2>6
<1>8. QED  BY <1>4, <1>5, <1>6, <1>7

\* The row that an operation saves at its end.
LEMMA SavedRow ==
    ASSUME NEW r \in V1Row, NEW i \in {"none", "NOT_INSTANTIATED", "INSTANTIATED"}
    PROVE  /\ [r EXCEPT !.inst = i, !.task = "None"] \in V1Row
           /\ [r EXCEPT !.inst = i, !.task = "None"].inst = i
           /\ [r EXCEPT !.inst = i, !.task = "None"].task = "None"
           /\ [r EXCEPT !.inst = i, !.task = "None"].stack = r.stack
           /\ [r EXCEPT !.inst = i, !.task = "None"].level = r.level
PROOF
<1>1. PICK q : q = [r EXCEPT !.inst = i]  OBVIOUS
<1>2. /\ [r EXCEPT !.inst = i] \in V1Row /\ [r EXCEPT !.inst = i].inst = i
      /\ [r EXCEPT !.inst = i].stack = r.stack /\ [r EXCEPT !.inst = i].level = r.level
  BY DEF V1Row
<1>3. q \in V1Row /\ q.inst = i /\ q.stack = r.stack /\ q.level = r.level  BY <1>1, <1>2, Zenon
<1>4. [r EXCEPT !.inst = i, !.task = "None"] = [q EXCEPT !.task = "None"]  BY <1>1
<1>5. PICK n : n = [q EXCEPT !.task = "None"]  OBVIOUS
<1>6. /\ [q EXCEPT !.task = "None"] \in V1Row /\ [q EXCEPT !.task = "None"].inst = q.inst
      /\ [q EXCEPT !.task = "None"].task = "None"
      /\ [q EXCEPT !.task = "None"].stack = q.stack /\ [q EXCEPT !.task = "None"].level = q.level
  BY <1>3, TaskMoves, Zenon
<1>7. n \in V1Row /\ n.inst = i /\ n.task = "None" /\ n.stack = r.stack /\ n.level = r.level
  BY <1>3, <1>5, <1>6, Zenon
<1>8. QED  BY <1>4, <1>5, <1>7, Zenon

\* The row agrees with Heat again.
LEMMA WholeFullSave == ASSUME Whole, FullSave PROVE WholeNext
PROOF
<1>0. Working /\ FullOp /\ v1Work.pc = "save" /\ ~Early  BY AtWork, StepValues DEF FullSave, At, Working, Early
<1>1. PICK op, b, obj : op = v1Work.op /\ b = v1Work.before /\ obj = v1Work.obj  OBVIOUS
<1>2. /\ obj \in V1Row /\ V1Types /\ CalmParts
      /\ op \in {"INSTANTIATE", "TERMINATE", "CHANGE_EXT_CONN", "HEAL", "HEAL_VNFC"}
      /\ OpParts => OpenInst(op, v1Row.inst) /\ OpenInst(op, obj.inst)
  BY <1>0, <1>1, FullState
<1>3. UNCHANGED <<v1Cast, v1Vim, v1Crashes>>  BY DEF FullSave
<1>4. PICK i : i = CASE op = "INSTANTIATE" -> "INSTANTIATED"
                      [] op = "TERMINATE" -> "NOT_INSTANTIATED"
                      [] OTHER -> obj.inst
  OBVIOUS
<1>5. \/ SaveGoOn("complete", [obj EXCEPT !.inst = i, !.task = "None"]) /\ UNCHANGED <<v1Vnf, v1Occ, v1Taint>>
      \/ op = "TERMINATE" /\ FailedIn(7, v1Work.obj, FALSE)
  BY <1>1, <1>4 DEF FullSave
<1>6. CASE op = "TERMINATE" /\ FailedIn(7, v1Work.obj, FALSE)  BY <1>0, <1>1, <1>3, <1>6, WholeLateFails
<1>7. CASE SaveGoOn("complete", [obj EXCEPT !.inst = i, !.task = "None"]) /\ UNCHANGED <<v1Vnf, v1Occ, v1Taint>>
  <2>1. /\ op = "INSTANTIATE" => i = "INSTANTIATED"
        /\ op = "TERMINATE" => i = "NOT_INSTANTIATED"
        /\ op \notin {"INSTANTIATE", "TERMINATE"} => i = obj.inst
    BY <1>4
  <2>2. i \in {"none", "NOT_INSTANTIATED", "INSTANTIATED"}  BY <1>2, <2>1 DEF V1Row
  <2>3. PICK new : new = [obj EXCEPT !.inst = i, !.task = "None"]  OBVIOUS
  <2>4. new \in V1Row /\ new.inst = i /\ new.task = "None" /\ new.stack = obj.stack /\ new.level = obj.level
    BY <1>2, <2>2, <2>3, SavedRow
  <2>5. SaveGoOn("complete", new)  BY <1>7, <2>3
  <2>6. v1Row' = new  BY <1>0, <1>2, <2>4, <2>5, CalmMoves, StepValues
  <2>7. VimParts =>
          /\ op = "INSTANTIATE" => obj.stack /\ obj.level = 0 /\ v1Vim.stack /\ v1Vim.level = 0 /\ v1Vnf.cap = 0
          /\ op = "TERMINATE" => ~obj.stack /\ ~v1Vim.stack
          /\ op \in Heals \cup {"CHANGE_EXT_CONN"} => Agree(obj)
          /\ op = "HEAL" => obj.inst = "INSTANTIATED"
    BY <1>0, <1>1 DEF VimParts, VimWork
  <2>8. VimParts =>
          /\ op \in {"INSTANTIATE", "TERMINATE"} => Agree(v1Row)'
          /\ op \in Heals \cup {"CHANGE_EXT_CONN"} => Agree(v1Row)' /\ Agree(new)'
          /\ op = "TERMINATE" => ~new.stack /\ ~v1Vim'.stack
    <3>1. VimParts /\ op = "INSTANTIATE" => Agree(v1Row)'  BY <1>3, <1>7, <2>1, <2>4, <2>6, <2>7 DEF Agree
    <3>2. VimParts /\ op = "TERMINATE" => Agree(v1Row)' /\ ~new.stack /\ ~v1Vim'.stack
      BY <1>3, <1>7, <2>1, <2>4, <2>6, <2>7 DEF Agree
    <3>3. VimParts /\ op \in Heals \cup {"CHANGE_EXT_CONN"} => Agree(v1Row)' /\ Agree(new)'
      BY <1>3, <1>7, <2>1, <2>4, <2>6, <2>7 DEF Agree, Heals
    <3>4. QED  BY <3>1, <3>2, <3>3
  <2>9. OpParts =>
          /\ op = "CHANGE_EXT_CONN" => OpenInst(op, v1Row'.inst) /\ OpenInst(op, new.inst)
          /\ b # 7 => v1Vnf'.status = Norm(v1Row'.inst)
    <3>1. OpParts /\ b # 7 => v1Vnf.status = IF op = "TERMINATE" THEN "INACTIVE" ELSE "ACTIVE"
      BY <1>0, <1>1 DEF OpParts, OpWork
    <3>2. OpParts => IF op = "TERMINATE" THEN i = "NOT_INSTANTIATED" ELSE i = "INSTANTIATED"
      BY <1>2, <2>1 DEF OpenInst, Heals
    <3>3. OpParts /\ op = "CHANGE_EXT_CONN" => OpenInst(op, new.inst)  BY <1>2, <2>1, <2>4
    <3>4. QED  BY <1>7, <2>4, <2>6, <3>1, <3>2, <3>3 DEF Norm
  <2>10. op = "HEAL" /\ VimParts => v1Row'.inst = "INSTANTIATED" /\ new.inst = "INSTANTIATED"
    BY <2>1, <2>4, <2>6, <2>7
  <2>11. QED  BY <1>0, <1>1, <1>2, <1>3, <1>7, <2>4, <2>5, <2>6, <2>8, <2>9, <2>10, WholeFullOn
<1>8. QED  BY <1>5, <1>6, <1>7

\* The operation is COMPLETED, and the VNF can be operated.
LEMMA WholeFullComplete == ASSUME Whole, FullComplete PROVE WholeNext
PROOF
<1>0. Working /\ FullOp /\ v1Work.pc = "complete" /\ ~Early  BY AtWork, StepValues DEF FullComplete, At, Working, Early
<1>1. PICK op, b : op = v1Work.op /\ b = v1Work.before  OBVIOUS
<1>2. /\ V1Types /\ V1Parts /\ CalmParts /\ ~Pre /\ LastOp = op /\ Last > 0 /\ v1Work.occ = Last
      /\ op \in {"INSTANTIATE", "TERMINATE", "CHANGE_EXT_CONN", "HEAL", "HEAL_VNFC"}
      /\ LastEp \in V1Points /\ v1Occ \in Seq(V1OccRow) /\ Last \in DOMAIN v1Occ
  BY <1>0, <1>1, FullState
<1>3. UNCHANGED <<v1Row, v1Vnf, v1Cast, v1Vim, v1Crashes, v1Taint>> /\ v1Work' = NoWork  BY DEF FullComplete
<1>4. OccBecomes(Last, "COMPLETED", LastEp)
  BY <1>2, OccMoves, StepValues DEF FullComplete, SetState, LastEp
<1>5. OpParts /\ LastEp = 7 => LastOp \in {"TERMINATE", "CHANGE_EXT_CONN"}
  BY <1>2 DEF OpParts, OpPoints, LastEp, LastOp
<1>6. Plain' /\ OpParts => Healthy'
  <2>1. SUFFICES ASSUME Plain', OpParts PROVE Healthy'  OBVIOUS
  <2>2. LastEp # 7 /\ (op = "CHANGE_EXT_CONN" => LastEp = 0)
    BY <1>2, <1>4, <2>1 DEF Plain, OccBecomes, LastOp
  <2>3. b # 0 => LastEp = b  BY <1>0, <1>1, <1>2 DEF CalmParts, CalmWork
  <2>4. b # 7 /\ (op = "CHANGE_EXT_CONN" => b = 0)  BY <2>2, <2>3
  <2>5. v1Row.task = "None" /\ v1Vnf.status = Norm(v1Row.inst)
    BY <1>0, <1>1, <2>1, <2>4 DEF OpParts, OpWork
  <2>6. QED  BY <1>3, <2>5 DEF Healthy
<1>7. Faithful' => Agree(v1Row)'
  <2>1. Faithful => Agree(v1Row)  BY <1>0, <1>1, <1>2 DEF Whole, VimParts, VimWork, Heals
  <2>2. QED  BY <1>3, <2>1 DEF Faithful, Agree
<1>8. "COMPLETED" \in V1Ended  BY DEF V1Ended
<1>9. QED  BY <1>0, <1>2, <1>3, <1>4, <1>5, <1>6, <1>7, <1>8, WholeEnds

\* The row that a rollback of INSTANTIATE saves.
LEMMA ResetSaved ==
    ASSUME NEW r \in V1Row
    PROVE  /\ [Reinitialized(r) EXCEPT !.task = "None"] \in V1Row
           /\ [Reinitialized(r) EXCEPT !.task = "None"].inst = r.inst
           /\ [Reinitialized(r) EXCEPT !.task = "None"].task = "None"
           /\ ~[Reinitialized(r) EXCEPT !.task = "None"].stack
           /\ [Reinitialized(r) EXCEPT !.task = "None"].level = 0
PROOF
<1>1. PICK q : q = Reinitialized(r)  OBVIOUS
<1>2. q \in V1Row /\ q.inst = r.inst /\ ~q.stack /\ q.level = 0  BY <1>1, Reset
<1>3. PICK n : n = [q EXCEPT !.task = "None"]  OBVIOUS
<1>4. n \in V1Row /\ n.inst = q.inst /\ n.task = "None" /\ n.stack = q.stack /\ n.level = q.level
  BY <1>2, <1>3, TaskMoves
<1>5. n \in V1Row /\ n.inst = r.inst /\ n.task = "None" /\ ~n.stack /\ n.level = 0  BY <1>2, <1>4
<1>6. QED  BY <1>1, <1>3, <1>5, Zenon

\* The stack that is made.
LEMMA StackSet ==
    ASSUME NEW r \in V1Row, NEW l \in Int
    PROVE  /\ [r EXCEPT !.stack = TRUE] \in V1Row
           /\ [r EXCEPT !.stack = TRUE].inst = r.inst
           /\ [r EXCEPT !.stack = TRUE].stack
           /\ [r EXCEPT !.stack = TRUE].level = r.level
           /\ [r EXCEPT !.stack = FALSE, !.level = l] \in V1Row
           /\ [r EXCEPT !.stack = FALSE, !.level = l].inst = r.inst
           /\ ~[r EXCEPT !.stack = FALSE, !.level = l].stack
           /\ [r EXCEPT !.stack = FALSE, !.level = l].level = l
PROOF
<1>1. r.inst \in {"none", "NOT_INSTANTIATED", "INSTANTIATED"} /\ r.level \in Int
      /\ r.task \in {"None", "INSTANTIATING", "TERMINATING", "HEALING", "SCALING", "ERROR"}
  BY DEF V1Row
<1>2. /\ [r EXCEPT !.stack = TRUE] \in V1Row
      /\ [r EXCEPT !.stack = TRUE].inst = r.inst
      /\ [r EXCEPT !.stack = TRUE].stack
      /\ [r EXCEPT !.stack = TRUE].level = r.level
  BY DEF V1Row
<1>3. PICK q : q = [inst |-> r.inst, task |-> r.task, stack |-> FALSE, level |-> l]  OBVIOUS
<1>4. q \in V1Row /\ q.inst = r.inst /\ ~q.stack /\ q.level = l  BY <1>1, <1>3 DEF V1Row
<1>5. [r EXCEPT !.stack = FALSE, !.level = l] = q  BY <1>3, StackMoves
<1>6. QED  BY <1>2, <1>4, <1>5, Zenon

\* instantiate: the stack is made, and the object knows it, whether the waiting
\* fails or not.
LEMMA WholeInstantiate == ASSUME Whole, _instantiate_vnf PROVE WholeNext
PROOF
<1>0. Working /\ FullOp /\ v1Work.pc = "vim" /\ Early /\ v1Work.op = "INSTANTIATE" /\ v1Work.before <= 4
  BY AtWork, StepValues DEF _instantiate_vnf, At, Working, Early, FullOp, Scales
<1>1. PICK op, b, obj : op = v1Work.op /\ b = v1Work.before /\ obj = v1Work.obj  OBVIOUS
<1>2. /\ obj \in V1Row /\ b \in V1Points /\ obj = v1Row /\ V1Types
      /\ OpParts => OpenInst(op, v1Row.inst) /\ OpenInst(op, obj.inst)
      /\ VimParts => OpenVim(op, b)
  BY <1>0, <1>1, FullState
<1>3. UNCHANGED <<v1Cast, v1Crashes>>  BY DEF _instantiate_vnf
<1>4. PICK made : made = [obj EXCEPT !.stack = TRUE, !.level = 0]  OBVIOUS
<1>5. made \in V1Row /\ made.inst = obj.inst /\ made.stack /\ made.level = 0  BY <1>2, <1>4, MadeRow, Zenon
<1>6. VimParts => v1Row.inst # "INSTANTIATED" /\ (v1Row.stack <=> b >= 4)  BY <1>0, <1>1, <1>2 DEF OpenVim
<1>7. \/ /\ v1Vim' = [stack |-> TRUE, level |-> 0]
         /\ \/ GoOn("end", made) /\ UNCHANGED <<v1Row, v1Vnf, v1Occ, v1Taint>>
            \/ FailedIn(4, made, TRUE)
      \/ v1Vim' = v1Vim /\ FailedIn(KnownPoint(obj), obj, TRUE)
  BY <1>1, <1>4 DEF _instantiate_vnf, StackMade
<1>8. CASE v1Vim' = [stack |-> TRUE, level |-> 0] /\ GoOn("end", made) /\ UNCHANGED <<v1Row, v1Vnf, v1Occ, v1Taint>>
  <2>1. v1Vim'.stack /\ v1Vim'.level = 0  BY <1>8
  <2>2. op = "INSTANTIATE" /\ op \notin Heals \cup {"CHANGE_EXT_CONN"}  BY <1>0, <1>1 DEF Heals
  <2>3. OpParts => OpenInst(op, v1Row'.inst) /\ OpenInst(op, made.inst)  BY <1>2, <1>5, <1>8
  <2>4. VimParts => made.inst # "INSTANTIATED"  BY <1>2, <1>5, <1>6
  <2>5. QED  BY <1>0, <1>1, <1>3, <1>5, <1>8, <2>1, <2>2, <2>3, <2>4, WholeFullOn
<1>9. CASE v1Vim' = [stack |-> TRUE, level |-> 0] /\ FailedIn(4, made, TRUE)
  <2>1. v1Vim'.stack /\ v1Vim'.level = 0  BY <1>9
  <2>2. OpParts => OpenInst(v1Work.op, made.inst)  BY <1>1, <1>2, <1>5
  <2>3. Faithful' /\ VimParts /\ SameRow(v1Row', made) => OpenVim(op, 4)'
    <3>1. Faithful' /\ VimParts /\ SameRow(v1Row', made) =>
            v1Row'.inst # "INSTANTIATED" /\ v1Row'.stack /\ v1Row'.level = 0
      BY <1>2, <1>5, <1>6 DEF SameRow
    <3>2. op = "INSTANTIATE"  BY <1>0, <1>1
    <3>3. QED  BY <2>1, <3>1, <3>2 DEF OpenVim, Scales
  <2>4. v1Work.pc # "complete" /\ 4 \in V1Points /\ 4 # 7  BY <1>0, StepValues
  <2>5. PICK ep \in V1Points : ep = 4 /\ ep # 7  BY <2>4
  <2>6. QED  BY <1>0, <1>1, <1>3, <1>5, <1>9, <2>2, <2>3, <2>4, <2>5, WholeFullFails
<1>10. CASE v1Vim' = v1Vim /\ FailedIn(KnownPoint(obj), obj, TRUE)
  <2>1. PICK ep \in V1Points : ep = KnownPoint(obj) /\ ep # 7 /\ ep \in {3, 4} /\ (obj.stack <=> ep = 4)
    BY StepValues DEF KnownPoint
  <2>2. VimParts => b = ep \/ (b <= 3 /\ ep <= 3)
    BY <1>0, <1>1, <1>2, <1>6, <2>1 DEF V1Points
  <2>3. /\ Faithful' /\ VimParts /\ v1Vnf'.cap = v1Vnf.cap
        /\ SameRow(v1Row', obj) \/ v1Row' = v1Row
        => OpenVim(op, ep)'
    BY <1>2, <1>10, <2>2, VimKept DEF SameRow
  <2>4. v1Work.pc # "complete" /\ FailedIn(ep, obj, TRUE) /\ (OpParts => OpenInst(v1Work.op, obj.inst))
    BY <1>0, <1>1, <1>2, <1>10, <2>1
  <2>5. QED  BY <1>0, <1>1, <1>2, <1>3, <2>1, <2>3, <2>4, WholeFullFails
<1>11. QED  BY <1>7, <1>8, <1>9, <1>10

\* terminate: the stack is deleted before instance_id is forgotten.
LEMMA WholeDelete == ASSUME Whole, _delete_vnf_instance_resources PROVE WholeNext
PROOF
<1>0. Working /\ FullOp /\ v1Work.pc = "vim" /\ Early /\ v1Work.op = "TERMINATE" /\ v1Work.pc # "complete"
  BY AtWork, StepValues DEF _delete_vnf_instance_resources, At, Working, Early, FullOp, Scales
<1>1. PICK op, b, obj : op = v1Work.op /\ b = v1Work.before /\ obj = v1Work.obj  OBVIOUS
<1>2. /\ obj \in V1Row /\ b \in V1Points /\ obj = v1Row /\ V1Types /\ CalmParts /\ v1Vim \in V1VimRow
      /\ v1Vim.stack \in BOOLEAN
      /\ VimParts => OpenVim(op, b)
  <2>1. /\ obj \in V1Row /\ b \in V1Points /\ obj = v1Row /\ V1Types /\ CalmParts
        /\ VimParts => OpenVim(op, b)
    BY <1>0, <1>1, FullState
  <2>2. QED  BY <1>0, <2>1, WorkTypes DEF Working
<1>3. UNCHANGED <<v1Cast, v1Crashes>>  BY DEF _delete_vnf_instance_resources
<1>4. PICK gone : gone = [obj EXCEPT !.inst = "NOT_INSTANTIATED"]  OBVIOUS
<1>5. gone \in V1Row /\ gone.stack = obj.stack  BY <1>2, <1>4, SomeRows
<1>6. PICK x : x = [Reinitialized(gone) EXCEPT !.task = "None"]  OBVIOUS
<1>7. PICK y : y = [Reinitialized(obj) EXCEPT !.task = "None"]  OBVIOUS
<1>8. x \in V1Row /\ ~x.stack /\ y \in V1Row /\ ~y.stack  BY <1>2, <1>5, <1>6, <1>7, ResetSaved, Zenon
<1>9. \/ obj.stack /\ v1Vim' = v1Vim /\ FailedIn(4, obj, TRUE)
      \/ obj.stack /\ FailedIn(4, gone, TRUE)
      \/ /\ v1Vim' = [v1Vim EXCEPT !.stack = FALSE]
         /\ SaveGoOn("end", x)
         /\ UNCHANGED <<v1Vnf, v1Occ, v1Taint>>
      \/ /\ ~(b <= 4 /\ obj.stack)
         /\ SaveGoOn("end", y)
         /\ UNCHANGED <<v1Vnf, v1Occ, v1Vim, v1Taint>>
  BY <1>1, <1>4, <1>6, <1>7 DEF _delete_vnf_instance_resources
<1>10. \A i : OpenInst("TERMINATE", i)  BY DEF OpenInst, Scales, Heals
<1>11. op = "TERMINATE" /\ op \notin Heals \cup {"CHANGE_EXT_CONN"}  BY <1>0, <1>1 DEF Heals
<1>12. ASSUME NEW q \in V1Row, q.stack, FailedIn(4, q, TRUE) PROVE WholeNext
  <2>1. OpParts => OpenInst(v1Work.op, q.inst)  BY <1>0, <1>10
  <2>2. SameRow(v1Row', q) => OpenVim(op, 4)'
    <3>1. SameRow(v1Row', q) => v1Row'.stack  BY <1>12 DEF SameRow
    <3>2. QED  BY <1>11, <3>1 DEF OpenVim, Scales
  <2>3. PICK ep \in V1Points : ep = 4 /\ ep # 7  BY StepValues
  <2>4. QED  BY <1>0, <1>1, <1>3, <1>12, <2>1, <2>2, <2>3, WholeFullFails
<1>13. ASSUME NEW q \in V1Row, ~q.stack, SaveGoOn("end", q), VimParts => ~v1Vim'.stack,
              UNCHANGED <<v1Vnf, v1Occ, v1Taint>>
       PROVE WholeNext
  <2>1. OpParts => OpenInst(op, v1Row'.inst) /\ OpenInst(op, q.inst)  BY <1>10, <1>11
  <2>2. QED  BY <1>0, <1>1, <1>3, <1>11, <1>13, <2>1, WholeFullOn
<1>14. CASE obj.stack /\ v1Vim' = v1Vim /\ FailedIn(4, obj, TRUE)  BY <1>2, <1>12, <1>14
<1>15. CASE obj.stack /\ FailedIn(4, gone, TRUE)  BY <1>5, <1>12, <1>15
<1>16. CASE v1Vim' = [v1Vim EXCEPT !.stack = FALSE] /\ SaveGoOn("end", x) /\ UNCHANGED <<v1Vnf, v1Occ, v1Taint>>
  <2>1. ~v1Vim'.stack  BY <1>2, <1>16, VimMoves
  <2>2. QED  BY <1>8, <1>13, <1>16, <2>1
<1>17. CASE ~(b <= 4 /\ obj.stack) /\ SaveGoOn("end", y) /\ UNCHANGED <<v1Vnf, v1Occ, v1Vim, v1Taint>>
  <2>1. VimParts => ~v1Vim'.stack  BY <1>2, <1>11, <1>17 DEF OpenVim, V1Points
  <2>2. QED  BY <1>8, <1>13, <1>17, <2>1
<1>18. QED  BY <1>9, <1>14, <1>15, <1>16, <1>17

\* heal of named VNFCs and change_ext_conn leave the stack as it is.
LEMMA WholeSameStack ==
    ASSUME Whole, Working, FullOp, v1Work.pc = "vim", v1Work.op \in {"HEAL_VNFC", "CHANGE_EXT_CONN"},
           UNCHANGED <<v1Cast, v1Vim, v1Crashes>>, NEW ep \in {3, 4}, FailedIn(ep, v1Work.obj, TRUE)
    PROVE  WholeNext
PROOF
<1>1. PICK op, b, obj : op = v1Work.op /\ b = v1Work.before /\ obj = v1Work.obj  OBVIOUS
<1>2. /\ obj \in V1Row /\ obj = v1Row /\ op \in {"HEAL_VNFC", "CHANGE_EXT_CONN"}
      /\ OpParts => OpenInst(v1Work.op, obj.inst)
      /\ VimParts => OpenVim(op, b)
  BY <1>1, FullState DEF Early
<1>3. ep \in V1Points /\ ep # 7  BY StepValues
<1>4. /\ VimParts /\ v1Vnf'.cap = v1Vnf.cap
      /\ SameRow(v1Row', obj) \/ v1Row' = v1Row
      => OpenVim(op, ep)'
  <2>1. SUFFICES ASSUME VimParts, v1Vnf'.cap = v1Vnf.cap, SameRow(v1Row', obj) \/ v1Row' = v1Row
                 PROVE  OpenVim(op, ep)'
    OBVIOUS
  <2>2. Agree(v1Row)  BY <1>2, <2>1 DEF OpenVim
  <2>3. Agree(v1Row)'  BY <1>2, <2>1, <2>2 DEF Agree, SameRow
  <2>4. QED  BY <1>2, <2>3 DEF OpenVim, Scales
<1>5. FailedIn(ep, obj, TRUE) /\ v1Work.pc # "complete"  BY <1>1
<1>6. QED  BY <1>1, <1>2, <1>3, <1>4, <1>5, WholeFullFails

\* heal of named VNFCs.
LEMMA WholeHealVnfc == ASSUME Whole, _heal_vnf PROVE WholeNext
PROOF
<1>0. Working /\ FullOp /\ v1Work.pc = "vim" /\ Early /\ v1Work.op = "HEAL_VNFC"
  BY AtWork, StepValues DEF _heal_vnf, At, Working, Early, FullOp, Scales
<1>1. PICK op, b, obj : op = v1Work.op /\ b = v1Work.before /\ obj = v1Work.obj  OBVIOUS
<1>2. /\ obj \in V1Row /\ obj = v1Row /\ V1Types /\ CalmParts
      /\ OpParts => OpenInst(op, v1Row.inst) /\ OpenInst(op, obj.inst)
      /\ VimParts => OpenVim(op, b)
  BY <1>0, <1>1, FullState
<1>3. UNCHANGED <<v1Cast, v1Vim, v1Crashes>>  BY DEF _heal_vnf
<1>4. PICK new : new = [obj EXCEPT !.task = "None"]  OBVIOUS
<1>5. new \in V1Row /\ new.inst = obj.inst /\ new.stack = obj.stack /\ new.level = obj.level
  BY <1>2, <1>4, TaskMoves
<1>6. \/ SaveGoOn("end", new) /\ UNCHANGED <<v1Vnf, v1Occ, v1Taint>>
      \/ \E ep \in {3, 4} : FailedIn(ep, v1Work.obj, TRUE)
  BY <1>1, <1>4 DEF _heal_vnf
<1>7. CASE \E ep \in {3, 4} : FailedIn(ep, v1Work.obj, TRUE)  BY <1>0, <1>3, <1>7, WholeSameStack
<1>8. CASE SaveGoOn("end", new) /\ UNCHANGED <<v1Vnf, v1Occ, v1Taint>>
  <2>1. v1Row' = new  BY <1>0, <1>2, <1>5, <1>8, CalmMoves, StepValues
  <2>2. op = "HEAL_VNFC"  BY <1>0, <1>1
  <2>3. VimParts => Agree(v1Row)' /\ Agree(new)'  BY <1>2, <1>3, <1>5, <1>8, <2>1, <2>2 DEF OpenVim, Agree
  <2>4. OpParts => OpenInst(op, v1Row'.inst) /\ OpenInst(op, new.inst)  BY <1>2, <1>5, <2>1
  <2>5. QED  BY <1>0, <1>1, <1>3, <1>5, <1>8, <2>2, <2>3, <2>4, WholeFullOn
<1>9. QED  BY <1>6, <1>7, <1>8

\* change_ext_conn.
LEMMA WholeChangeConn == ASSUME Whole, _change_ext_conn_vnf PROVE WholeNext
PROOF
<1>0. Working /\ FullOp /\ v1Work.pc = "vim" /\ Early /\ v1Work.op = "CHANGE_EXT_CONN"
  BY AtWork, StepValues DEF _change_ext_conn_vnf, At, Working, Early, FullOp, Scales
<1>1. PICK op, b, obj : op = v1Work.op /\ b = v1Work.before /\ obj = v1Work.obj  OBVIOUS
<1>2. /\ obj \in V1Row /\ obj = v1Row
      /\ OpParts => OpenInst(op, v1Row.inst) /\ OpenInst(op, obj.inst)
      /\ VimParts => OpenVim(op, b)
  BY <1>0, <1>1, FullState
<1>3. UNCHANGED <<v1Cast, v1Vim, v1Crashes>>  BY DEF _change_ext_conn_vnf
<1>4. \/ GoOn("end", obj) /\ UNCHANGED <<v1Row, v1Vnf, v1Occ, v1Taint>>
      \/ \E ep \in {3, 4} : FailedIn(ep, v1Work.obj, TRUE)
  BY <1>1 DEF _change_ext_conn_vnf
<1>5. CASE \E ep \in {3, 4} : FailedIn(ep, v1Work.obj, TRUE)  BY <1>0, <1>3, <1>5, WholeSameStack
<1>6. CASE GoOn("end", obj) /\ UNCHANGED <<v1Row, v1Vnf, v1Occ, v1Taint>>
  <2>1. op = "CHANGE_EXT_CONN"  BY <1>0, <1>1
  <2>2. VimParts => Agree(v1Row)' /\ Agree(obj)'  BY <1>2, <1>3, <1>6, <2>1 DEF OpenVim, Agree
  <2>3. OpParts /\ op = "CHANGE_EXT_CONN" /\ b = 0 => v1Row.task = "None" /\ obj.task = "None"
    BY <1>0, <1>1 DEF OpParts, OpWork
  <2>4. QED  BY <1>0, <1>1, <1>2, <1>3, <1>6, <2>1, <2>2, <2>3, WholeFullOn
<1>7. QED  BY <1>4, <1>5, <1>6

\* heal of the whole VNF: the stack is deleted and made again with the level of
\* the row.
LEMMA WholeRespawn == ASSUME Whole, _respawn_vnf PROVE WholeNext
PROOF
<1>0. Working /\ FullOp /\ v1Work.pc = "vim" /\ Early /\ v1Work.op = "HEAL" /\ v1Work.pc # "complete" /\ v1Work.before <= 4
  BY AtWork, StepValues DEF _respawn_vnf, At, Working, Early, FullOp, Scales
<1>1. PICK op, b, obj : op = v1Work.op /\ b = v1Work.before /\ obj = v1Work.obj  OBVIOUS
<1>2. /\ obj \in V1Row /\ b \in V1Points /\ obj = v1Row /\ V1Types /\ CalmParts /\ v1Vim \in V1VimRow
      /\ v1Vim.stack \in BOOLEAN /\ obj.level \in Int /\ obj.stack \in BOOLEAN
      /\ OpParts => OpenInst(op, v1Row.inst) /\ OpenInst(op, obj.inst)
      /\ VimParts => OpenVim(op, b)
  <2>1. /\ obj \in V1Row /\ b \in V1Points /\ obj = v1Row /\ V1Types /\ CalmParts
        /\ OpParts => OpenInst(op, v1Row.inst) /\ OpenInst(op, obj.inst)
        /\ VimParts => OpenVim(op, b)
    BY <1>0, <1>1, FullState
  <2>2. QED  BY <1>0, <2>1, WorkTypes DEF Working, V1Row
<1>3. UNCHANGED <<v1Cast, v1Crashes>> /\ op = "HEAL"  BY <1>0, <1>1 DEF _respawn_vnf
<1>4. VimParts => /\ v1Row.inst = "INSTANTIATED" /\ v1Vnf.cap = v1Row.level
                  /\ b <= 3 => (v1Row.stack <=> v1Vim.stack)
  BY <1>2, <1>3 DEF OpenVim
<1>5. PICK made : made = [obj EXCEPT !.stack = TRUE]  OBVIOUS
<1>6. made \in V1Row /\ made.inst = obj.inst /\ made.stack /\ made.level = obj.level  BY <1>2, <1>5, StackSet, Zenon
<1>7. PICK new : new = [made EXCEPT !.inst = "INSTANTIATED", !.task = "None"]  OBVIOUS
<1>8. new \in V1Row /\ new.inst = "INSTANTIATED" /\ new.stack = made.stack /\ new.level = made.level
  BY <1>6, <1>7, SavedRow
<1>9. PICK there \in BOOLEAN : there = (v1Vim.stack /\ (b = 4 \/ ~obj.stack))  OBVIOUS
<1>10. \/ obj.stack /\ FailedIn(4, obj, TRUE)
       \/ /\ v1Vim' = [v1Vim EXCEPT !.stack = there]
          /\ \E l \in {0, obj.level} : FailedIn(3, [obj EXCEPT !.stack = FALSE, !.level = l], TRUE)
       \/ /\ v1Vim' = [stack |-> TRUE, level |-> obj.level]
          /\ \/ SaveGoOn("end", new) /\ UNCHANGED <<v1Vnf, v1Occ, v1Taint>>
             \/ FailedIn(4, made, TRUE)
  BY <1>1, <1>5, <1>7, <1>9 DEF _respawn_vnf
<1>11. ASSUME NEW q \in V1Row, q.stack, q.inst = obj.inst, q.level = obj.level, FailedIn(4, q, TRUE) PROVE WholeNext
  <2>1. OpParts => OpenInst(v1Work.op, q.inst)  BY <1>1, <1>2, <1>11
  <2>2. VimParts /\ v1Vnf'.cap = v1Vnf.cap /\ SameRow(v1Row', q) => OpenVim(op, 4)'
    <3>1. VimParts /\ v1Vnf'.cap = v1Vnf.cap /\ SameRow(v1Row', q) =>
             v1Row'.inst = "INSTANTIATED" /\ v1Vnf'.cap = v1Row'.level /\ v1Row'.stack
      BY <1>2, <1>4, <1>11 DEF SameRow
    <3>2. QED  BY <1>3, <3>1 DEF OpenVim, Scales
  <2>3. PICK ep \in V1Points : ep = 4 /\ ep # 7  BY StepValues
  <2>4. QED  BY <1>0, <1>1, <1>3, <1>11, <2>1, <2>2, <2>3, WholeFullFails
<1>12. CASE obj.stack /\ FailedIn(4, obj, TRUE)  BY <1>2, <1>11, <1>12
<1>13. CASE FailedIn(4, made, TRUE)  BY <1>6, <1>11, <1>13
<1>14. ASSUME v1Vim' = [v1Vim EXCEPT !.stack = there], NEW l \in {0, obj.level},
              FailedIn(3, [obj EXCEPT !.stack = FALSE, !.level = l], TRUE)
       PROVE  WholeNext
  <2>1. PICK q : q = [obj EXCEPT !.stack = FALSE, !.level = l]  OBVIOUS
  <2>2. l \in Int  BY <1>2
  <2>3. q \in V1Row /\ q.inst = obj.inst /\ ~q.stack /\ q.level = l  BY <1>2, <2>1, <2>2, StackSet, Zenon
  <2>4. PICK ep \in V1Points : ep = 3 /\ ep # 7  BY StepValues
  <2>5. FailedIn(ep, q, TRUE)  BY <1>14, <2>1, <2>4
  <2>6. /\ Faithful' /\ VimParts
        /\ v1Work.before >= 4 => ep >= 4
        /\ v1Work.op = "HEAL" => q.level = v1Work.obj.level
        /\ v1Vnf'.cap = v1Vnf.cap
        /\ SameRow(v1Row', q)
        => OpenVim(op, ep)'
    <3>1. SUFFICES ASSUME VimParts, v1Work.before >= 4 => ep >= 4, q.level = obj.level,
                          v1Vnf'.cap = v1Vnf.cap, SameRow(v1Row', q)
                   PROVE  OpenVim(op, ep)'
      BY <1>0, <1>1
    <3>2. b <= 3 /\ b # 4  BY <1>1, <1>2, <2>4, <3>1 DEF V1Points
    <3>3. ~there  BY <1>2, <1>4, <1>9, <3>1, <3>2
    <3>4. ~v1Vim'.stack  BY <1>2, <1>14, <3>3, VimMoves
    <3>5. v1Row'.inst = "INSTANTIATED" /\ v1Vnf'.cap = v1Row'.level /\ ~v1Row'.stack
      BY <1>2, <1>4, <2>3, <3>1 DEF SameRow
    <3>6. QED  BY <1>3, <2>4, <3>4, <3>5 DEF OpenVim, Scales
  <2>7. OpParts => OpenInst(v1Work.op, q.inst)  BY <1>1, <1>2, <2>3
  <2>8. QED  BY <1>0, <1>1, <1>3, <2>3, <2>4, <2>5, <2>6, <2>7, WholeFullFails
<1>15. CASE /\ v1Vim' = [stack |-> TRUE, level |-> obj.level]
            /\ SaveGoOn("end", new) /\ UNCHANGED <<v1Vnf, v1Occ, v1Taint>>
  <2>1. v1Row' = new  BY <1>0, <1>2, <1>8, <1>15, CalmMoves, StepValues
  <2>2. v1Vim'.stack /\ v1Vim'.level = obj.level  BY <1>15
  <2>3. VimParts => Agree(v1Row)' /\ Agree(new)'  BY <1>2, <1>4, <1>6, <1>8, <1>15, <2>1, <2>2 DEF Agree
  <2>4. OpParts => OpenInst(op, v1Row'.inst) /\ OpenInst(op, new.inst)
    BY <1>3, <1>8, <2>1 DEF OpenInst
  <2>5. v1Row'.inst = "INSTANTIATED"  BY <1>8, <2>1
  <2>6. QED  BY <1>0, <1>1, <1>3, <1>8, <1>15, <2>3, <2>4, <2>5, WholeFullOn
<1>16. QED  BY <1>10, <1>12, <1>13, <1>14, <1>15

\* What Whole says of a handler of scale.
LEMMA ScaleState ==
    ASSUME Whole, Working, v1Work.op \in Scales
    PROVE  /\ V1Types /\ V1Parts /\ CalmParts /\ ~Pre /\ LastOp = v1Work.op /\ Last > 0 /\ v1Work.occ = Last
           /\ v1Work.op # "ROLLBACK" /\ v1Work.op # "MODIFY_INFO" /\ v1Work.op \in V1Ops
           /\ v1Work \in V1WorkRow /\ v1Row \in V1Row /\ v1Work.obj \in V1Row /\ v1Work.before \in V1Points
           /\ Last \in DOMAIN v1Occ /\ v1Occ \in Seq(V1OccRow) /\ LastEp \in V1Points
           /\ v1Work.base = v1Row /\ ~v1Work.late /\ v1Vnf \in V1VnfRow
           /\ Early => v1Work.obj = v1Row
           /\ v1Vnf.status \in ScaleStatuses /\ v1Row.inst = "INSTANTIATED" /\ v1Work.obj.inst = "INSTANTIATED"
           /\ VimParts /\ Early => OpenVim(v1Work.op, v1Work.before) /\ LevelAllowed(v1Work.op) /\ v1Work.before # 4
PROOF
<1>1. V1Types /\ V1Parts /\ CalmParts /\ ~Pre /\ v1Work.op # "ROLLBACK" /\ v1Work.op # "MODIFY_INFO" /\ v1Work.op \in V1Ops
  BY DEF Whole, Scales, Pre, V1Ops
<1>2. LastOp = v1Work.op /\ Last > 0 /\ v1Work.occ = Last  BY <1>1, WorkOcc
<1>3. /\ v1Work \in V1WorkRow /\ v1Row \in V1Row /\ v1Work.obj \in V1Row /\ v1Work.before \in V1Points
      /\ v1Occ \in Seq(V1OccRow) /\ v1Vnf \in V1VnfRow
  BY <1>1, WorkTypes DEF Working
<1>4. v1Work.base = v1Row /\ ~v1Work.late /\ (Early => v1Work.obj = v1Row)  BY <1>1 DEF CalmParts, CalmWork
<1>5. v1Vnf.status \in ScaleStatuses /\ v1Row.inst = "INSTANTIATED" /\ v1Work.obj.inst = "INSTANTIATED"
  BY <1>1 DEF V1Parts, WorkInv, StatusOf
<1>6. VimParts /\ Early => OpenVim(v1Work.op, v1Work.before) /\ LevelAllowed(v1Work.op) /\ v1Work.before # 4
  BY <1>1, <1>2 DEF VimParts, VimWork
<1>7. Last \in DOMAIN v1Occ /\ LastEp \in V1Points  BY <1>1, <1>2, LastIn DEF LastEp
<1>8. QED  BY <1>1, <1>2, <1>3, <1>4, <1>5, <1>6, <1>7

\* The VIM failed the operation and its error handling: it stays in PROCESSING.
LEMMA WholeStuck ==
    ASSUME Whole, Working, v1Work.op \in Scales, v1Work.pc \notin {"begin", "process"}, v1Cast' = v1Cast, v1Work' = NoWork,
           v1Occ' = v1Occ, v1Vnf'.status = "ERROR", "outage" \in v1Taint'
    PROVE  WholeNext
PROOF
<1>0. V1Types /\ V1Parts /\ CalmParts /\ ~Pre /\ v1Work.op # "ROLLBACK" /\ ~v1Work.late  BY ScaleState
<1>1. LastState = "PROCESSING" /\ ~AllEnded  BY <1>0, CalmState DEF V1Parts, WorkInv
<1>2. LastState' = "PROCESSING" /\ ~AllEnded'  BY <1>1 DEF LastState, Last, AllEnded
<1>3. CalmParts' /\ ~Casting' /\ ~Working'  BY <1>0, CalmEnds
<1>4. ASSUME Plain' PROVE OpParts'
  <2>1. OpPoints  BY <1>4 DEF Whole, Plain, OpParts
  <2>2. OpPoints'  BY <2>1 DEF OpPoints
  <2>3. v1Vnf'.status \notin PENDING_STATUSES  BY StatusValues
  <2>4. QED  BY <1>2, <1>3, <2>2, <2>3 DEF OpParts, OpQuiet, OpCast, OpWork
<1>5. ~Faithful'  BY DEF Faithful
<1>6. QED  BY <1>3, <1>4, <1>5 DEF WholeNext

\* The row that revert_to_error_scale saves.
LEMMA ErrorRow ==
    ASSUME NEW r \in V1Row, NEW l \in Int
    PROVE  /\ [r EXCEPT !.task = "None", !.level = l] \in V1Row
           /\ [r EXCEPT !.task = "None", !.level = l].inst = r.inst
           /\ [r EXCEPT !.task = "None", !.level = l].task = "None"
           /\ [r EXCEPT !.task = "None", !.level = l].stack = r.stack
           /\ [r EXCEPT !.task = "None", !.level = l].level = l
PROOF
<1>1. PICK q : q = [r EXCEPT !.task = "None"]  OBVIOUS
<1>2. q \in V1Row /\ q.inst = r.inst /\ q.task = "None" /\ q.stack = r.stack  BY <1>1, TaskMoves
<1>3. PICK n : n = [q EXCEPT !.level = l]  OBVIOUS
<1>4. n \in V1Row /\ n.inst = q.inst /\ n.task = q.task /\ n.stack = q.stack /\ n.level = l  BY <1>2, <1>3 DEF V1Row
<1>5. n \in V1Row /\ n.inst = r.inst /\ n.task = "None" /\ n.stack = r.stack /\ n.level = l  BY <1>2, <1>4
<1>6. [r EXCEPT !.task = "None", !.level = l] = n  BY <1>1, <1>3
<1>7. QED  BY <1>5, <1>6, Zenon

\* The SCALE fails.
LEMMA WholeScaleFails ==
    ASSUME Whole, Working, v1Work.op \in Scales, v1Work.pc \notin {"begin", "process"},
           v1Cast' = v1Cast, v1Crashes' = v1Crashes, NEW op, op = v1Work.op,
           NEW ep \in V1Points, ep # 7, NEW updated \in BOOLEAN, revert_to_error_scale(ep, v1Work.obj, updated),
           /\ Faithful' /\ VimParts
           /\ v1Work.before >= 4 => ep >= 4
           /\ v1Vnf'.cap = v1Vnf.cap
           /\ v1Row'.inst = "INSTANTIATED" /\ v1Row'.stack = v1Work.obj.stack
           /\ v1Row'.level = IF updated THEN v1Work.obj.level ELSE v1Row.level
           => OpenVim(op, ep)'
    PROVE  WholeNext
PROOF
<1>0. /\ V1Types /\ V1Parts /\ CalmParts /\ ~Pre /\ LastOp = op /\ Last > 0 /\ v1Work.occ = Last
      /\ v1Work.obj \in V1Row /\ v1Row \in V1Row /\ v1Work.before \in V1Points /\ Last \in DOMAIN v1Occ /\ v1Work.base = v1Row
      /\ v1Vnf.status \in ScaleStatuses /\ v1Work.obj.inst = "INSTANTIATED" /\ v1Work # NoWork
  BY ScaleState DEF Working
<1>1. PICK l : l = ErrorLevel(v1Work.obj, updated)  OBVIOUS
<1>2. l = IF updated THEN v1Work.obj.level ELSE v1Row.level  BY <1>0, <1>1 DEF ErrorLevel
<1>3. l \in Int  BY <1>0, <1>2 DEF V1Row
<1>4. PICK new : new = [v1Work.obj EXCEPT !.task = "None", !.level = l]  OBVIOUS
<1>5. new \in V1Row /\ new.inst = v1Work.obj.inst /\ new.stack = v1Work.obj.stack /\ new.level = l
  BY <1>0, <1>3, <1>4, ErrorRow
<1>6. /\ v1Vnf'.cap = v1Vnf.cap /\ v1Vnf'.status = "ERROR" /\ v1Work' = NoWork
      /\ OccBecomes(Last, "FAILED_TEMP", ep) \/ (v1Occ' = v1Occ /\ "outage" \in v1Taint')
  BY <1>0, ScaleErrMoves
<1>7. v1Row' = new
  <2>1. v1Row' = Saved([v1Work.obj EXCEPT !.task = "None", !.level = l])  BY <1>1 DEF revert_to_error_scale
  <2>2. v1Row' = Saved(new)  BY <1>4, <2>1
  <2>3. QED  BY <1>0, <1>5, <2>2, CalmSaved
<1>8. v1Taint \subseteq v1Taint'  BY <1>0, ScaleErrMoves
<1>9. CASE v1Occ' = v1Occ /\ "outage" \in v1Taint'  BY <1>6, <1>9, WholeStuck
<1>10. CASE ~(v1Occ' = v1Occ /\ "outage" \in v1Taint')
  <2>1. OccBecomes(Last, "FAILED_TEMP", ep)  BY <1>6, <1>10
  <2>2. OpParts => OpenInst(LastOp, v1Row'.inst)  BY <1>0, <1>5, <1>7 DEF OpenInst, Scales
  <2>3. Faithful' => OpenVim(LastOp, ep)'
    <3>1. SUFFICES ASSUME Faithful' PROVE OpenVim(LastOp, ep)'  OBVIOUS
    <3>2. Faithful  BY <1>8, <3>1 DEF Faithful
    <3>3. v1Work.before >= 4 /\ ep < 4 => "apart" \in v1Taint'
      BY <1>10 DEF revert_to_error_scale
    <3>4. v1Work.before >= 4 => ep >= 4  BY <1>0, <3>1, <3>3 DEF Faithful, V1Points
    <3>5. VimParts  BY <3>2 DEF Whole
    <3>6. v1Row'.inst = "INSTANTIATED" /\ v1Row'.stack = v1Work.obj.stack
      BY <1>0, <1>5, <1>7
    <3>7. v1Row'.level = IF updated THEN v1Work.obj.level ELSE v1Row.level  BY <1>2, <1>5, <1>7
    <3>8. OpenVim(op, ep)'  BY <1>6, <3>1, <3>4, <3>5, <3>6, <3>7
    <3>9. LastOp' = op  BY <1>0, <2>1, LastMoves, StepValues DEF V1Parts
    <3>10. QED  BY <3>8, <3>9 DEF OpenVim
  <2>4. QED  BY <1>0, <1>6, <2>1, <2>2, <2>3, WholeFails
<1>11. QED  BY <1>9, <1>10

\* The SCALE goes on, and its row is not written.
LEMMA WholeScaleOn ==
    ASSUME Whole, Working, v1Work.op \in Scales, UNCHANGED <<v1Cast, v1Crashes, v1Taint, v1Row>>,
           NEW pc \in {"process", "pre", "vim", "end"}, NEW obj \in V1Row, GoOn(pc, obj),
           v1Occ' = v1Occ \/ OccBecomes(Last, "PROCESSING", LastEp),
           obj.inst = "INSTANTIATED", v1Vnf'.cap = v1Vnf.cap,
           pc # "end" => obj = v1Row /\ Early /\ v1Vim' = v1Vim,
           OpParts => v1Vnf'.status = IF pc \in {"process", "pre"} /\ v1Work.before = 0 THEN "ACTIVE" ELSE Pending[v1Work.op],
           Faithful /\ VimParts /\ pc = "end" => obj.stack /\ v1Vim'.stack /\ v1Vim'.level = obj.level
    PROVE  WholeNext
PROOF
<1>0. /\ V1Types /\ V1Parts /\ CalmParts /\ ~Pre /\ LastOp = v1Work.op /\ Last > 0 /\ v1Work.occ = Last
      /\ v1Work.op # "ROLLBACK" /\ LastEp \in V1Points /\ v1Row.inst = "INSTANTIATED" /\ v1Work.before \in V1Points
  BY ScaleState
<1>1. PICK op, b : op = v1Work.op /\ b = v1Work.before  OBVIOUS
<1>2. op \in Scales /\ op \notin {"ROLLBACK", "MODIFY_INFO", "CHANGE_EXT_CONN", "INSTANTIATE", "TERMINATE", "HEAL"} /\ op \notin Heals
  BY <1>1 DEF Scales, Heals
<1>3. /\ v1Work' # NoWork
      /\ v1Work'.op = op /\ v1Work'.before = b /\ v1Work'.late = v1Work.late
      /\ v1Work'.pc = pc /\ v1Work'.base = v1Row' /\ v1Work'.obj = obj
  <2>1. pc \in V1Steps  BY DEF V1Steps
  <2>2. QED  BY <1>0, <1>1, <2>1, CalmMoves
<1>4. LastOp' = op
  <2>1. CASE v1Occ' = v1Occ  BY <1>0, <1>1, <2>1, LastKept
  <2>2. CASE OccBecomes(Last, "PROCESSING", LastEp)
    BY <1>0, <1>1, <2>2, LastMoves, StepValues DEF V1Parts
  <2>3. QED  BY <2>1, <2>2
<1>5. OpParts => OpWork'
  <2>1. SUFFICES ASSUME OpParts PROVE OpWork'  OBVIOUS
  <2>2. OpenInst(op, v1Row'.inst) /\ OpenInst(op, v1Work'.obj.inst)  BY <1>0, <1>2, <1>3 DEF OpenInst
  <2>3. v1Vnf'.status = IF v1Work'.pc \in {"process", "pre"} /\ v1Work'.before = 0 THEN "ACTIVE" ELSE Pending[v1Work'.op]
    BY <1>1, <1>3, <2>1
  <2>4. v1Work'.pc \notin {"begin", "save", "complete"}  BY <1>3
  <2>5. QED  BY <1>2, <1>3, <1>4, <2>2, <2>3, <2>4 DEF OpWork, OpenInst
<1>6. Faithful' /\ (Faithful => VimParts) => VimWork'
  <2>1. SUFFICES ASSUME Faithful /\ VimParts PROVE VimWork'  BY DEF Faithful
  <2>2. CASE pc = "end"
    <3>1. ~Early'  BY <1>3, <2>2 DEF Early
    <3>2. v1Work'.obj.inst = "INSTANTIATED" /\ v1Work'.obj.stack /\ v1Vim'.stack /\ v1Vim'.level = v1Work'.obj.level
      BY <1>3, <2>1, <2>2
    <3>3. QED  BY <1>2, <1>3, <1>4, <3>1, <3>2 DEF VimWork
  <2>3. CASE pc # "end"
    <3>1. OpenVim(op, b) /\ LevelAllowed(op) /\ b # 4  BY <1>1, <2>1, <2>3, ScaleState
    <3>2. OpenVim(op, b)'  BY <1>0, <1>1, <2>3, <3>1, VimKept DEF SameRow
    <3>3. LevelAllowed(op)'  BY <3>1 DEF LevelAllowed
    <3>4. OpenVim(LastOp, v1Work.before)' /\ LevelAllowed(v1Work.op)'
      BY <1>3, <1>4, <3>2, <3>3 DEF OpenVim, LevelAllowed
    <3>5. Early'  BY <1>3, <2>3 DEF Early
    <3>6. QED  BY <1>2, <1>3, <3>1, <3>4, <3>5 DEF VimWork
  <2>4. QED  BY <2>2, <2>3
<1>7. /\ v1Work'.pc # "begin"
      /\ (v1Work'.pc \in {"process", "pre", "status", "script", "vim"} \/ v1Work.op = "ROLLBACK") =>
              v1Work'.obj = v1Row'
  BY <1>0, <1>3
<1>8. v1Occ' = v1Occ \/ \E s \in {"PROCESSING", "ROLLING_BACK"} : OccBecomes(Last, s, LastEp)
  OBVIOUS
<1>9. QED  BY <1>0, <1>1, <1>3, <1>5, <1>6, <1>7, <1>8, WholeGoesOn

\* The retry of a SCALE writes PENDING_SCALE_* first.
LEMMA WholeScaleBegin == ASSUME Whole, ScaleBegin PROVE WholeNext
PROOF
<1>0. Working /\ v1Work.op \in Scales /\ v1Work.pc = "begin" /\ Early
  BY AtWork, StepValues DEF ScaleBegin, At, Working, Early
<1>1. /\ V1Types /\ V1Parts /\ v1Work.obj = v1Row /\ v1Work.obj \in V1Row /\ v1Work.obj.inst = "INSTANTIATED"
      /\ ~Pre /\ v1Work.op # "ROLLBACK" /\ v1Vnf \in V1VnfRow
  BY <1>0, ScaleState
<1>2. /\ v1Work.status = "ERROR" => v1Vnf.status = "ERROR"
      /\ ~Fresh(v1Work) => v1Work.status = "ERROR"
  BY <1>0, <1>1 DEF V1Parts, WorkInv
<1>3. UNCHANGED <<v1Cast, v1Crashes, v1Taint, v1Row, v1Occ, v1Vim>> /\ GoOn("process", v1Work.obj)
  BY <1>2 DEF ScaleBegin
<1>4. SetStatus(IF v1Work.status = "ERROR" THEN Pending[v1Work.op] ELSE v1Vnf.status)
  BY <1>2 DEF ScaleBegin
<1>5. v1Vnf'.cap = v1Vnf.cap /\ v1Vnf'.status = IF v1Work.status = "ERROR" THEN Pending[v1Work.op] ELSE v1Vnf.status
  BY <1>1, <1>4 DEF SetStatus, V1VnfRow
<1>6. OpParts => v1Vnf'.status = IF v1Work.before = 0 THEN "ACTIVE" ELSE Pending[v1Work.op]
  <2>1. OpParts => v1Vnf.status = IF v1Work.before = 0 THEN "ACTIVE" ELSE "ERROR"  BY <1>0 DEF OpParts, OpWork
  <2>2. v1Work.before # 0 => v1Work.status = "ERROR"  BY <1>2 DEF Fresh
  <2>3. QED  BY <1>2, <1>5, <2>1, <2>2
<1>7. QED  BY <1>0, <1>1, <1>3, <1>5, <1>6, WholeScaleOn

\* Then the operation is PROCESSING.
LEMMA WholeScaleProcess == ASSUME Whole, ScaleProcess PROVE WholeNext
PROOF
<1>0. Working /\ v1Work.op \in Scales /\ v1Work.pc = "process" /\ Early
  BY AtWork, StepValues DEF ScaleProcess, At, Working, Early
<1>1. /\ V1Types /\ v1Work.obj = v1Row /\ v1Work.obj \in V1Row /\ v1Work.obj.inst = "INSTANTIATED"
      /\ v1Occ \in Seq(V1OccRow) /\ Last \in DOMAIN v1Occ /\ v1Work.occ = Last /\ LastEp \in V1Points
  BY <1>0, ScaleState
<1>2. UNCHANGED <<v1Cast, v1Crashes, v1Taint, v1Row, v1Vnf, v1Vim>> /\ GoOn("pre", v1Work.obj)
  BY DEF ScaleProcess
<1>3. OccBecomes(Last, "PROCESSING", LastEp)
  BY <1>1, OccMoves, StepValues DEF ScaleProcess, SetState, LastEp
<1>4. OpParts => v1Vnf'.status = IF v1Work.before = 0 THEN "ACTIVE" ELSE Pending[v1Work.op]
  BY <1>0, <1>2 DEF OpParts, OpWork
<1>5. QED  BY <1>0, <1>1, <1>2, <1>3, <1>4, WholeScaleOn

\* A new SCALE writes PENDING_SCALE_* now.
LEMMA WholeScalePre == ASSUME Whole, _scale_vnf_pre PROVE WholeNext
PROOF
<1>0. Working /\ v1Work.op \in Scales /\ v1Work.pc = "pre" /\ Early
  BY AtWork, StepValues DEF _scale_vnf_pre, At, Working, Early
<1>1. /\ V1Types /\ v1Work.obj = v1Row /\ v1Work.obj \in V1Row /\ v1Work.obj.inst = "INSTANTIATED"
      /\ v1Work.before \in V1Points /\ v1Vnf \in V1VnfRow /\ v1Row.inst = "INSTANTIATED"
  BY <1>0, ScaleState
<1>2. UNCHANGED <<v1Cast, v1Crashes, v1Vim>>  BY DEF _scale_vnf_pre
<1>3. \/ /\ SetStatus(IF v1Work.before <= 1 /\ v1Vnf.status = "ACTIVE" THEN Pending[v1Work.op] ELSE v1Vnf.status)
         /\ GoOn("vim", v1Work.obj)
         /\ UNCHANGED <<v1Row, v1Occ, v1Taint>>
      \/ \E ep \in {1, 2} : revert_to_error_scale(ep, v1Work.obj, FALSE)
  BY DEF _scale_vnf_pre
<1>4. CASE /\ SetStatus(IF v1Work.before <= 1 /\ v1Vnf.status = "ACTIVE" THEN Pending[v1Work.op] ELSE v1Vnf.status)
           /\ GoOn("vim", v1Work.obj)
           /\ UNCHANGED <<v1Row, v1Occ, v1Taint>>
  <2>1. /\ v1Vnf'.cap = v1Vnf.cap
        /\ v1Vnf'.status = IF v1Work.before <= 1 /\ v1Vnf.status = "ACTIVE" THEN Pending[v1Work.op] ELSE v1Vnf.status
    BY <1>1, <1>4 DEF SetStatus, V1VnfRow
  <2>2. OpParts => v1Vnf.status = IF v1Work.before = 0 THEN "ACTIVE" ELSE Pending[v1Work.op]
    BY <1>0 DEF OpParts, OpWork
  <2>3. OpParts => v1Vnf'.status = Pending[v1Work.op]  BY <2>1, <2>2
  <2>4. QED  BY <1>0, <1>1, <1>2, <1>4, <2>1, <2>3, WholeScaleOn
<1>5. ASSUME NEW ep \in {1, 2}, revert_to_error_scale(ep, v1Work.obj, FALSE) PROVE WholeNext
  <2>1. PICK op, b : op = v1Work.op /\ b = v1Work.before  OBVIOUS
  <2>2. ep \in V1Points /\ ep # 7 /\ ep <= 3 /\ ~(ep >= 4)  BY DEF V1Points
  <2>3. VimParts => OpenVim(op, b)  BY <1>0, <2>1, ScaleState
  <2>4. /\ VimParts
        /\ v1Work.before >= 4 => ep >= 4
        /\ v1Vnf'.cap = v1Vnf.cap
        /\ v1Row'.inst = "INSTANTIATED" /\ v1Row'.stack = v1Work.obj.stack
        /\ v1Row'.level = v1Row.level
        => OpenVim(op, ep)'
    <3>1. SUFFICES ASSUME VimParts, v1Work.before >= 4 => ep >= 4, v1Vnf'.cap = v1Vnf.cap,
                          v1Row'.inst = "INSTANTIATED", v1Row'.stack = v1Work.obj.stack, v1Row'.level = v1Row.level
                   PROVE  OpenVim(op, ep)'
      OBVIOUS
    <3>2. SameRow(v1Row', v1Row)  BY <1>1, <3>1 DEF SameRow
    <3>3. b <= 3 /\ b \in V1Points  BY <1>1, <2>1, <2>2, <3>1 DEF V1Points
    <3>4. QED  BY <1>2, <2>2, <2>3, <3>1, <3>2, <3>3, VimKept
  <2>5. v1Work.pc \notin {"begin", "process"}  BY <1>0
  <2>6. QED  BY <1>0, <1>2, <1>5, <2>1, <2>2, <2>4, <2>5, WholeScaleFails
<1>6. QED  BY <1>3, <1>4, <1>5

\* Heat is signalled: within its limits, since the level of the row is.
LEMMA WholeScaleVim == ASSUME Whole, _scale_vnf, V1MaxLevel \in Nat PROVE WholeNext
PROOF
<1>0. Working /\ v1Work.op \in Scales /\ v1Work.pc = "vim" /\ Early /\ v1Work.pc \notin {"begin", "process"}
  BY AtWork, StepValues DEF _scale_vnf, At, Working, Early
<1>1. /\ V1Types /\ v1Work.obj = v1Row /\ v1Work.obj \in V1Row /\ v1Work.obj.inst = "INSTANTIATED"
      /\ v1Work.before \in V1Points /\ v1Row.inst = "INSTANTIATED" /\ v1Row \in V1Row
      /\ VimParts => OpenVim(v1Work.op, v1Work.before) /\ LevelAllowed(v1Work.op) /\ v1Work.before # 4
  BY <1>0, ScaleState
<1>2. v1Vim \in V1VimRow /\ v1Vim.level \in Int /\ v1Vim.stack \in BOOLEAN /\ v1Row.level \in Int
  BY <1>0, <1>1, WorkTypes DEF Working
<1>3. UNCHANGED <<v1Cast, v1Crashes>>  BY DEF _scale_vnf
<1>4. PICK op, b : op = v1Work.op /\ b = v1Work.before  OBVIOUS
<1>5. VimParts =>
         /\ v1Row.stack /\ v1Vim.stack /\ LevelAllowed(op) /\ b # 4
         /\ b <= 3 => v1Vim.level = v1Row.level /\ v1Vnf.cap = v1Row.level
         /\ b > 4 => v1Vim.level = v1Row.level
  BY <1>0, <1>1, <1>4 DEF OpenVim, Agree, Scales
<1>6. PICK new : new = [v1Work.obj EXCEPT !.level = After(v1Work.obj)]  OBVIOUS
<1>7. After(v1Work.obj) \in Int /\ Signalled \in Int  BY <1>1, <1>2 DEF After, Signalled
<1>8. /\ new \in V1Row /\ new.inst = "INSTANTIATED" /\ new.stack = v1Work.obj.stack
      /\ new.level = After(v1Work.obj)
  <2>1. PICK l \in Int : l = After(v1Work.obj)  BY <1>7
  <2>2. PICK r \in V1Row : r = v1Work.obj  BY <1>1
  <2>3. new = [r EXCEPT !.level = l]  BY <1>6, <2>1, <2>2
  <2>4. new \in V1Row /\ new.inst = r.inst /\ new.stack = r.stack /\ new.level = l  BY <2>3 DEF V1Row
  <2>5. QED  BY <1>1, <2>1, <2>2, <2>4
<1>9. \/ /\ v1Work.before <= 4
         /\ v1Vim' = [v1Vim EXCEPT !.level = Signalled]
         /\ GoOn("end", new)
         /\ UNCHANGED <<v1Row, v1Vnf, v1Occ, v1Taint>>
      \/ v1Work.before <= 4 /\ v1Vim' = v1Vim /\ revert_to_error_scale(3, v1Work.obj, FALSE)
      \/ /\ v1Work.before <= 4
         /\ \E l \in {v1Vim.level, Signalled} : v1Vim' = [v1Vim EXCEPT !.level = l]
         /\ revert_to_error_scale(4, v1Work.obj, FALSE)
      \/ /\ v1Work.before > 4
         /\ GoOn("end", v1Work.obj)
         /\ UNCHANGED <<v1Row, v1Vnf, v1Occ, v1Vim, v1Taint>>
  BY <1>6 DEF _scale_vnf
<1>10. OpParts => v1Vnf.status = Pending[v1Work.op]  BY <1>0 DEF OpParts, OpWork
<1>11. CASE /\ v1Work.before <= 4
            /\ v1Vim' = [v1Vim EXCEPT !.level = Signalled]
            /\ GoOn("end", new)
            /\ UNCHANGED <<v1Row, v1Vnf, v1Occ, v1Taint>>
  <2>1. v1Vim'.stack = v1Vim.stack /\ v1Vim'.level = Signalled
    <3>1. PICK s \in Int : s = Signalled  BY <1>7
    <3>2. v1Vim' = [v1Vim EXCEPT !.level = s]  BY <1>11, <3>1
    <3>3. QED  BY <1>2, <3>1, <3>2, VimMoves
  <2>2. VimParts => Signalled = After(v1Work.obj)
    <3>1. VimParts => v1Vim.level = v1Row.level /\ LevelAllowed(op)  BY <1>1, <1>4, <1>5, <1>11 DEF V1Points
    <3>2. QED  BY <1>0, <1>1, <1>2, <1>4, <3>1 DEF Signalled, After, LevelAllowed, Scales
  <2>3. VimParts => new.stack /\ v1Vim'.stack /\ v1Vim'.level = new.level  BY <1>1, <1>5, <1>8, <2>1, <2>2
  <2>4. QED  BY <1>0, <1>3, <1>8, <1>10, <1>11, <2>3, WholeScaleOn
<1>12. CASE v1Work.before <= 4 /\ v1Vim' = v1Vim /\ revert_to_error_scale(3, v1Work.obj, FALSE)
  <2>1. PICK ep \in V1Points : ep = 3 /\ ep # 7 /\ ep <= 3  BY StepValues
  <2>2. /\ VimParts
        /\ v1Vnf'.cap = v1Vnf.cap
        /\ v1Row'.inst = "INSTANTIATED" /\ v1Row'.stack = v1Work.obj.stack
        /\ v1Row'.level = v1Row.level
        => OpenVim(op, ep)'
    <3>1. SUFFICES ASSUME VimParts, v1Vnf'.cap = v1Vnf.cap,
                          v1Row'.inst = "INSTANTIATED", v1Row'.stack = v1Work.obj.stack, v1Row'.level = v1Row.level
                   PROVE  OpenVim(op, ep)'
      OBVIOUS
    <3>2. SameRow(v1Row', v1Row)  BY <1>1, <3>1 DEF SameRow
    <3>3. b <= 3 /\ b \in V1Points /\ OpenVim(op, b)  BY <1>1, <1>4, <1>12, <3>1 DEF V1Points
    <3>4. QED  BY <1>12, <2>1, <3>1, <3>2, <3>3, VimKept
  <2>3. QED  BY <1>0, <1>3, <1>4, <1>12, <2>1, <2>2, WholeScaleFails
<1>13. CASE /\ v1Work.before <= 4
            /\ \E l \in {v1Vim.level, Signalled} : v1Vim' = [v1Vim EXCEPT !.level = l]
            /\ revert_to_error_scale(4, v1Work.obj, FALSE)
  <2>1. PICK ep \in V1Points : ep = 4 /\ ep # 7  BY StepValues
  <2>2. v1Vim'.stack = v1Vim.stack
    <3>1. PICK l \in {v1Vim.level, Signalled} : v1Vim' = [v1Vim EXCEPT !.level = l]  BY <1>13
    <3>2. l \in Int  BY <1>2, <1>7, <3>1
    <3>3. QED  BY <1>2, <3>1, <3>2, VimMoves
  <2>3. /\ VimParts
        /\ v1Vnf'.cap = v1Vnf.cap
        /\ v1Row'.inst = "INSTANTIATED" /\ v1Row'.stack = v1Work.obj.stack
        /\ v1Row'.level = v1Row.level
        => OpenVim(op, ep)'
    <3>1. SUFFICES ASSUME VimParts, v1Vnf'.cap = v1Vnf.cap,
                          v1Row'.inst = "INSTANTIATED", v1Row'.stack = v1Work.obj.stack, v1Row'.level = v1Row.level
                   PROVE  OpenVim(op, ep)'
      OBVIOUS
    <3>2. b <= 3  BY <1>1, <1>4, <1>5, <1>13, <3>1 DEF V1Points
    <3>3. v1Row'.stack /\ v1Vim'.stack /\ v1Vnf'.cap = v1Row'.level  BY <1>1, <1>5, <2>2, <3>1, <3>2
    <3>4. op \in Scales  BY <1>0, <1>4
    <3>5. QED  BY <2>1, <3>1, <3>3, <3>4 DEF OpenVim, Scales
  <2>4. QED  BY <1>0, <1>3, <1>4, <1>13, <2>1, <2>3, WholeScaleFails
<1>14. CASE /\ v1Work.before > 4
            /\ GoOn("end", v1Work.obj)
            /\ UNCHANGED <<v1Row, v1Vnf, v1Occ, v1Vim, v1Taint>>
  <2>1. VimParts => v1Work.obj.stack /\ v1Vim'.stack /\ v1Vim'.level = v1Work.obj.level  BY <1>1, <1>4, <1>5, <1>14
  <2>2. QED  BY <1>0, <1>1, <1>3, <1>10, <1>14, <2>1, WholeScaleOn
<1>15. QED  BY <1>9, <1>11, <1>12, <1>13, <1>14

\* The level is saved, and the size kept in scale_group.
LEMMA WholeScalePost == ASSUME Whole, _scale_vnf_post PROVE WholeNext
PROOF
<1>0. Working /\ v1Work.op \in Scales /\ v1Work.pc = "end" /\ ~Early /\ v1Work.pc \notin {"begin", "process"}
  BY AtWork, StepValues DEF _scale_vnf_post, At, Working, Early
<1>1. /\ V1Types /\ V1Parts /\ CalmParts /\ ~Pre /\ Last > 0 /\ v1Work.occ = Last /\ LastOp = v1Work.op
      /\ v1Work.obj \in V1Row /\ v1Work.obj.inst = "INSTANTIATED"
      /\ Last \in DOMAIN v1Occ /\ v1Occ \in Seq(V1OccRow) /\ LastEp \in V1Points
  BY <1>0, ScaleState
<1>2. UNCHANGED <<v1Cast, v1Crashes, v1Vim>>  BY DEF _scale_vnf_post
<1>3. VimParts => v1Work.obj.stack /\ v1Vim.stack /\ v1Vim.level = v1Work.obj.level
  BY <1>0 DEF VimParts, VimWork
<1>4. \/ /\ v1Vnf' = [status |-> IF v1Vnf.status = Pending[v1Work.op] THEN "ACTIVE" ELSE v1Vnf.status,
                      cap |-> v1Vim.level]
         /\ SetState("COMPLETED")
         /\ v1Row' = Saved([v1Work.obj EXCEPT !.task = "None"])
         /\ v1Work' = NoWork
         /\ UNCHANGED v1Taint
      \/ v1Work.op = "SCALE_OUT" /\ revert_to_error_scale(6, v1Work.obj, TRUE)
  BY DEF _scale_vnf_post
<1>5. CASE v1Work.op = "SCALE_OUT" /\ revert_to_error_scale(6, v1Work.obj, TRUE)
  <2>1. PICK op : op = v1Work.op  OBVIOUS
  <2>2. PICK ep \in V1Points : ep = 6 /\ ep # 7 /\ ep > 4 /\ ~(ep <= 3) /\ ep # 4  BY StepValues
  <2>3. /\ VimParts
        /\ v1Row'.inst = "INSTANTIATED" /\ v1Row'.stack = v1Work.obj.stack
        /\ v1Row'.level = v1Work.obj.level
        => OpenVim(op, ep)'
    BY <1>2, <1>3, <1>5, <2>1, <2>2 DEF OpenVim, Scales
  <2>4. QED  BY <1>0, <1>2, <1>5, <2>1, <2>2, <2>3, WholeScaleFails
<1>6. CASE /\ v1Vnf' = [status |-> IF v1Vnf.status = Pending[v1Work.op] THEN "ACTIVE" ELSE v1Vnf.status,
                        cap |-> v1Vim.level]
           /\ SetState("COMPLETED")
           /\ v1Row' = Saved([v1Work.obj EXCEPT !.task = "None"])
           /\ v1Work' = NoWork
           /\ UNCHANGED v1Taint
  <2>1. PICK new : new = [v1Work.obj EXCEPT !.task = "None"]  OBVIOUS
  <2>2. /\ new \in V1Row /\ new.inst = v1Work.obj.inst /\ new.task = "None"
        /\ new.stack = v1Work.obj.stack /\ new.level = v1Work.obj.level
    BY <1>1, <2>1, TaskMoves
  <2>3. v1Row' = new
    <3>1. v1Row' = Saved(new)  BY <1>6, <2>1
    <3>2. QED  BY <1>0, <1>1, <2>2, <3>1, CalmSaved
  <2>4. OccBecomes(Last, "COMPLETED", LastEp)  BY <1>1, <1>6, OccMoves, StepValues DEF SetState, LastEp
  <2>5. OpParts /\ LastEp = 7 => LastOp \in {"TERMINATE", "CHANGE_EXT_CONN"}
    BY <1>1 DEF OpParts, OpPoints, LastEp, LastOp
  <2>6. v1Vnf'.status = (IF v1Vnf.status = Pending[v1Work.op] THEN "ACTIVE" ELSE v1Vnf.status) /\ v1Vnf'.cap = v1Vim.level
    BY <1>6
  <2>7. OpParts => Healthy'
    <3>1. OpParts => v1Vnf.status = Pending[v1Work.op]  BY <1>0 DEF OpParts, OpWork
    <3>2. QED  BY <1>1, <2>2, <2>3, <2>6, <3>1 DEF Healthy, Norm
  <2>8. Faithful' => Agree(v1Row)'
    <3>1. Faithful' => VimParts  BY <1>2, <1>6 DEF Whole, Faithful
    <3>2. QED  BY <1>1, <1>2, <1>3, <2>2, <2>3, <2>6, <3>1 DEF Agree
  <2>9. "COMPLETED" \in V1Ended  BY DEF V1Ended
  <2>10. QED  BY <1>0, <1>1, <1>2, <1>6, <2>4, <2>5, <2>7, <2>8, <2>9, WholeEnds
<1>7. QED  BY <1>4, <1>5, <1>6

\* What Whole says of a handler of rollback.
LEMMA RollbackState ==
    ASSUME Whole, Working, v1Work.op = "ROLLBACK"
    PROVE  /\ V1Types /\ V1Parts /\ CalmParts /\ ~Pre /\ Last > 0 /\ v1Work.occ = Last
           /\ LastOp \in {"INSTANTIATE", "SCALE_OUT"} /\ Undone = LastOp
           /\ v1Row \in V1Row /\ v1Work.obj = v1Row /\ v1Work.before \in V1Points
           /\ Last \in DOMAIN v1Occ /\ v1Occ \in Seq(V1OccRow) /\ LastEp \in V1Points
           /\ v1Vnf \in V1VnfRow /\ v1Vnf.status = "ERROR"
           /\ v1Work.before # 0 => LastEp = v1Work.before
           /\ OpParts /\ v1Work.pc # "complete" => OpenInst(LastOp, v1Row.inst)
           /\ VimParts /\ Early => OpenVim(LastOp, v1Work.before)
           /\ VimParts /\ LastOp = "SCALE_OUT" => v1Work.before <= 4
           /\ VimParts /\ ~Early =>
                IF LastOp = "SCALE_OUT" THEN Agree(v1Row) /\ v1Row.inst = "INSTANTIATED"
                ELSE ~v1Vim.stack /\ v1Row.inst # "INSTANTIATED"
PROOF
<1>1. V1Types /\ V1Parts /\ CalmParts /\ ~Pre  BY DEF Whole, Pre
<1>2. Last > 0 /\ v1Work.occ = Last  BY <1>1, WorkOcc
<1>3. LastOp \in {"INSTANTIATE", "SCALE_OUT"} /\ v1Vnf.status = "ERROR"
  BY <1>1 DEF V1Parts, WorkInv, OccOf, StatusOf
<1>4. v1Row \in V1Row /\ v1Work.before \in V1Points /\ v1Occ \in Seq(V1OccRow) /\ v1Vnf \in V1VnfRow
  BY <1>1, WorkTypes DEF Working
<1>5. v1Work.obj = v1Row /\ (v1Work.before # 0 => LastEp = v1Work.before)  BY <1>1 DEF CalmParts, CalmWork
<1>6. OpParts /\ v1Work.pc # "complete" => OpenInst(LastOp, v1Row.inst)  BY <1>1 DEF OpParts, OpWork
<1>7. /\ VimParts /\ Early => OpenVim(LastOp, v1Work.before)
      /\ VimParts /\ LastOp = "SCALE_OUT" => v1Work.before <= 4
      /\ VimParts /\ ~Early =>
           IF LastOp = "SCALE_OUT" THEN Agree(v1Row) /\ v1Row.inst = "INSTANTIATED"
           ELSE ~v1Vim.stack /\ v1Row.inst # "INSTANTIATED"
  BY <1>1 DEF VimParts, VimWork
<1>8. Last \in DOMAIN v1Occ /\ LastEp \in V1Points  BY <1>1, <1>2, LastIn DEF LastEp
<1>9. Undone = LastOp  BY <1>2 DEF Undone, LastOp
<1>10. QED  BY <1>1, <1>2, <1>3, <1>4, <1>5, <1>6, <1>7, <1>8, <1>9

\* The rollback goes on.
LEMMA WholeRollbackOn ==
    ASSUME Whole, Working, v1Work.op = "ROLLBACK", v1Work.pc # "complete",
           UNCHANGED <<v1Cast, v1Crashes, v1Taint, v1Row, v1Vnf>>,
           NEW pc \in {"vim", "end"}, GoOn(pc, v1Work.obj), NEW op, op = LastOp,
           v1Occ' = v1Occ \/ OccBecomes(Last, "ROLLING_BACK", LastEp),
           pc = "vim" => Early /\ v1Vim' = v1Vim,
           VimParts /\ pc = "end" =>
              IF op = "SCALE_OUT" THEN Agree(v1Row)' /\ v1Row.inst = "INSTANTIATED" ELSE ~v1Vim'.stack /\ v1Row.inst # "INSTANTIATED"
    PROVE  WholeNext
PROOF
<1>0. /\ V1Types /\ V1Parts /\ CalmParts /\ ~Pre /\ Last > 0
      /\ op \in {"INSTANTIATE", "SCALE_OUT"} /\ v1Row \in V1Row /\ v1Work.obj = v1Row /\ v1Work.before \in V1Points
      /\ LastEp \in V1Points
      /\ OpParts => OpenInst(op, v1Row.inst)
      /\ VimParts /\ Early => OpenVim(op, v1Work.before)
      /\ VimParts /\ op = "SCALE_OUT" => v1Work.before <= 4
  BY RollbackState
<1>1. PICK b : b = v1Work.before  OBVIOUS
<1>2. /\ v1Work' # NoWork
      /\ v1Work'.op = "ROLLBACK" /\ v1Work'.before = b /\ v1Work'.late = v1Work.late
      /\ v1Work'.pc = pc /\ v1Work'.base = v1Row' /\ v1Work'.obj = v1Row
  <2>1. pc \in V1Steps  BY DEF V1Steps
  <2>2. QED  BY <1>0, <1>1, <2>1, CalmMoves
<1>3. LastOp' = op
  <2>1. CASE v1Occ' = v1Occ  BY <1>0, <2>1, LastKept
  <2>2. CASE OccBecomes(Last, "ROLLING_BACK", LastEp)
    BY <1>0, <2>2, LastMoves, StepValues DEF V1Parts
  <2>3. QED  BY <2>1, <2>2
<1>4. OpParts => OpWork'
  <2>1. OpParts => OpenInst(LastOp, v1Row.inst)' /\ OpenInst(LastOp, v1Work.obj.inst)'
    BY <1>0, <1>2, <1>3 DEF OpenInst
  <2>2. v1Work'.op \notin Scales /\ v1Work'.op \notin {"MODIFY_INFO", "CHANGE_EXT_CONN"} /\ v1Work'.pc \notin {"save", "complete"}
    BY <1>2 DEF Scales
  <2>3. QED  BY <1>2, <2>1, <2>2 DEF OpWork
<1>5. Faithful' /\ (Faithful => VimParts) => VimWork'
  <2>1. SUFFICES ASSUME VimParts PROVE VimWork'  BY DEF Faithful
  <2>2. v1Work'.op \notin Scales /\ v1Work'.op \notin Heals \cup {"CHANGE_EXT_CONN"}
        /\ v1Work'.op \notin {"MODIFY_INFO", "INSTANTIATE", "TERMINATE", "HEAL"}
    BY <1>2 DEF Scales, Heals
  <2>3. LastOp' = "SCALE_OUT" => v1Work'.before <= 4  BY <1>0, <1>1, <1>2, <1>3, <2>1
  <2>4. CASE pc = "end"
    <3>1. ~Early'  BY <1>2, <2>4 DEF Early
    <3>2. IF LastOp' = "SCALE_OUT" THEN Agree(v1Row)' /\ v1Row'.inst = "INSTANTIATED"
          ELSE ~v1Vim'.stack /\ v1Row'.inst # "INSTANTIATED"
      BY <1>3, <2>1, <2>4
    <3>3. QED  BY <2>2, <2>3, <3>1, <3>2 DEF VimWork
  <2>5. CASE pc = "vim"
    <3>1. Early'  BY <1>2, <2>5 DEF Early
    <3>2. OpenVim(op, b)  BY <1>0, <1>1, <2>1, <2>5
    <3>3. OpenVim(op, b)'  BY <1>0, <1>1, <2>5, <3>2, VimKept DEF SameRow
    <3>4. OpenVim(LastOp, v1Work.before)'  BY <1>2, <1>3, <3>3 DEF OpenVim
    <3>5. QED  BY <2>2, <2>3, <3>1, <3>4 DEF VimWork
  <2>6. QED  BY <2>4, <2>5
<1>6. v1Work'.pc # "begin" /\ v1Work'.obj = v1Row'  BY <1>2
<1>7. v1Occ' = v1Occ \/ \E s \in {"PROCESSING", "ROLLING_BACK"} : OccBecomes(Last, s, LastEp)
  OBVIOUS
<1>8. QED  BY <1>0, <1>1, <1>2, <1>4, <1>5, <1>6, <1>7, WholeGoesOn

\* The operation is ROLLING_BACK.
LEMMA WholeRollbackBegin == ASSUME Whole, RollbackBegin PROVE WholeNext
PROOF
<1>0. Working /\ v1Work.op = "ROLLBACK" /\ v1Work.pc = "begin" /\ Early
  BY AtWork, StepValues DEF RollbackBegin, At, Working, Early
<1>1. v1Occ \in Seq(V1OccRow) /\ Last \in DOMAIN v1Occ /\ v1Work.occ = Last /\ LastEp \in V1Points
  BY <1>0, RollbackState
<1>2. UNCHANGED <<v1Cast, v1Crashes, v1Taint, v1Row, v1Vnf, v1Vim>> /\ GoOn("vim", v1Work.obj)
  BY DEF RollbackBegin
<1>3. OccBecomes(Last, "ROLLING_BACK", LastEp)
  BY <1>1, OccMoves, StepValues DEF RollbackBegin, SetState, LastEp
<1>4. PICK op : op = LastOp  OBVIOUS
<1>5. QED  BY <1>0, <1>2, <1>3, <1>4, WholeRollbackOn

\* The rollback fails.
LEMMA WholeRollbackFails ==
    ASSUME Whole, Working, v1Work.op = "ROLLBACK", v1Work.pc # "complete",
           UNCHANGED <<v1Cast, v1Crashes, v1Vnf>>, NEW ep \in V1Points, ep # 7 \/ ep = v1Work.before,
           revert_to_error_rollback(ep), NEW op, op = LastOp,
           VimParts /\ op = "SCALE_OUT" /\ v1Row' = v1Row => OpenVim(op, ep)'
    PROVE  WholeNext
PROOF
<1>0. /\ V1Types /\ V1Parts /\ CalmParts /\ ~Pre /\ Last > 0 /\ v1Work.occ = Last /\ Undone = op
      /\ op \in {"INSTANTIATE", "SCALE_OUT"} /\ v1Row \in V1Row /\ v1Work.obj = v1Row /\ Last \in DOMAIN v1Occ
      /\ OpParts => OpenInst(op, v1Row.inst)
      /\ v1Work.before # 0 => LastEp = v1Work.before
  BY RollbackState
<1>1. /\ OccBecomes(Last, "FAILED_TEMP", ep)
      /\ v1Work' = NoWork
      /\ \/ v1Row' = Saved(v1Row)
         \/ Undone = "INSTANTIATE" /\ v1Row' = Saved([Reinitialized(v1Row) EXCEPT !.task = "None"])
      /\ Undone = "INSTANTIATE" => "apart" \in v1Taint'
      /\ v1Taint \subseteq v1Taint'
  BY <1>0, RollbackErrMoves DEF Working
<1>2. PICK r : r = [Reinitialized(v1Row) EXCEPT !.task = "None"]  OBVIOUS
<1>3. r \in V1Row /\ r.inst = v1Row.inst  BY <1>0, <1>2, ResetSaved, Zenon
<1>4. v1Row' = v1Row \/ (op = "INSTANTIATE" /\ v1Row' = r)
  BY <1>0, <1>1, <1>2, <1>3, CalmSaved
<1>5. OpParts => OpenInst(LastOp, v1Row'.inst)  BY <1>0, <1>3, <1>4
<1>6. OpParts /\ ep = 7 => LastOp \in {"TERMINATE", "CHANGE_EXT_CONN"}
  BY <1>0 DEF OpParts, OpPoints, LastEp, LastOp
<1>7. Faithful' => OpenVim(LastOp, ep)'
  <2>1. SUFFICES ASSUME Faithful' PROVE OpenVim(LastOp, ep)'  OBVIOUS
  <2>2. op = "SCALE_OUT" /\ VimParts /\ v1Row' = v1Row  BY <1>0, <1>1, <1>4, <2>1 DEF Faithful, Whole
  <2>3. OpenVim(op, ep)'  BY <2>2
  <2>4. LastOp' = op  BY <1>0, <1>1, LastMoves, StepValues DEF V1Parts
  <2>5. QED  BY <2>3, <2>4 DEF OpenVim
<1>8. QED  BY <1>0, <1>1, <1>5, <1>6, <1>7, WholeFails

\* The stack of an INSTANTIATE is deleted, the size from before a SCALE_OUT
\* restored.
LEMMA WholeRollbackVim == ASSUME Whole, _rollback_vnf PROVE WholeNext
PROOF
<1>0. Working /\ v1Work.op = "ROLLBACK" /\ v1Work.pc = "vim" /\ Early /\ v1Work.pc # "complete"
  BY AtWork, StepValues DEF _rollback_vnf, At, Working, Early
<1>1. PICK op, b : op = LastOp /\ b = v1Work.before  OBVIOUS
<1>2. /\ V1Types /\ Undone = op /\ op \in {"INSTANTIATE", "SCALE_OUT"} /\ v1Row \in V1Row /\ v1Work.obj = v1Row
      /\ b \in V1Points
      /\ VimParts => OpenVim(op, b)
      /\ VimParts /\ op = "SCALE_OUT" => b <= 4
  BY <1>0, <1>1, RollbackState
<1>3. v1Vim \in V1VimRow /\ v1Vim.stack \in BOOLEAN /\ v1Vnf.cap \in Int
  BY <1>0, <1>2, WorkTypes DEF Working
<1>4. PICK s \in BOOLEAN : s = (v1Vim.stack /\ ~v1Row.stack)  OBVIOUS
<1>5. PICK c \in Int : c = v1Vnf.cap  BY <1>3
<1>6. PICK undone : undone = IF b >= 4 THEN IF op = "SCALE_OUT" THEN [v1Vim EXCEPT !.level = c]
                                            ELSE [v1Vim EXCEPT !.stack = s]
                             ELSE v1Vim
  OBVIOUS
<1>7. /\ b >= 4 /\ op = "SCALE_OUT" => undone.stack = v1Vim.stack /\ undone.level = v1Vnf.cap
      /\ b >= 4 /\ op # "SCALE_OUT" => undone.stack = s
      /\ ~(b >= 4) => undone = v1Vim
  BY <1>3, <1>5, <1>6, VimMoves
<1>8. \/ v1Vim' = undone /\ GoOn("end", v1Work.obj) /\ UNCHANGED <<v1Row, v1Occ, v1Taint>>
      \/ v1Vim' \in {v1Vim, undone} /\ revert_to_error_rollback(b)
  BY <1>1, <1>2, <1>4, <1>5, <1>6 DEF _rollback_vnf, UndoneVim
<1>9. UNCHANGED <<v1Vnf, v1Cast, v1Crashes>>  BY DEF _rollback_vnf
<1>10. CASE v1Vim' = undone /\ GoOn("end", v1Work.obj) /\ UNCHANGED <<v1Row, v1Occ, v1Taint>>
  <2>1. VimParts => IF op = "SCALE_OUT" THEN Agree(v1Row)' /\ v1Row.inst = "INSTANTIATED"
                    ELSE ~v1Vim'.stack /\ v1Row.inst # "INSTANTIATED"
    <3>1. SUFFICES ASSUME VimParts
                   PROVE  IF op = "SCALE_OUT" THEN Agree(v1Row)' /\ v1Row.inst = "INSTANTIATED"
                          ELSE ~v1Vim'.stack /\ v1Row.inst # "INSTANTIATED"
      OBVIOUS
    <3>2. OpenVim(op, b)  BY <1>2, <3>1
    <3>3. CASE op = "SCALE_OUT" /\ b <= 3
      <4>1. Agree(v1Row) /\ v1Row.inst = "INSTANTIATED" /\ v1Vim' = v1Vim
        BY <1>2, <1>7, <1>10, <3>2, <3>3 DEF OpenVim, Scales, V1Points
      <4>2. Agree(v1Row)'  BY <1>9, <1>10, <4>1 DEF Agree
      <4>3. QED  BY <3>3, <4>1, <4>2
    <3>4. CASE op = "SCALE_OUT" /\ ~(b <= 3)
      <4>1. b = 4  BY <1>2, <3>1, <3>4 DEF V1Points
      <4>2. v1Row.inst = "INSTANTIATED" /\ v1Row.stack /\ v1Vim.stack /\ v1Vnf.cap = v1Row.level
        BY <3>2, <3>4, <4>1 DEF OpenVim, Scales
      <4>3. v1Vim'.stack = v1Vim.stack /\ v1Vim'.level = v1Vnf.cap  BY <1>7, <1>10, <3>4, <4>1
      <4>4. Agree(v1Row)'  BY <1>9, <1>10, <4>2, <4>3 DEF Agree
      <4>5. QED  BY <3>4, <4>2, <4>4
    <3>5. CASE op # "SCALE_OUT"
      <4>1. v1Row.inst # "INSTANTIATED" /\ (v1Row.stack <=> v1Vim.stack) /\ (v1Row.stack <=> b >= 4)
        BY <1>2, <3>2, <3>5 DEF OpenVim
      <4>2. ~v1Vim'.stack  BY <1>4, <1>7, <1>10, <3>5, <4>1
      <4>3. QED  BY <3>5, <4>1, <4>2
    <3>6. QED  BY <3>3, <3>4, <3>5
  <2>2. QED  BY <1>0, <1>1, <1>9, <1>10, <2>1, WholeRollbackOn
<1>11. CASE v1Vim' \in {v1Vim, undone} /\ revert_to_error_rollback(b)
  <2>1. VimParts /\ op = "SCALE_OUT" /\ v1Row' = v1Row => OpenVim(op, b)'
    <3>1. SUFFICES ASSUME VimParts, op = "SCALE_OUT", v1Row' = v1Row PROVE OpenVim(op, b)'  OBVIOUS
    <3>2. OpenVim(op, b)  BY <1>2, <3>1
    <3>3. CASE b <= 3
      <4>1. v1Vim' = v1Vim  BY <1>2, <1>7, <1>11, <3>3 DEF V1Points
      <4>2. QED  BY <1>2, <1>9, <3>1, <3>2, <4>1, VimKept DEF SameRow
    <3>4. CASE ~(b <= 3)
      <4>1. b = 4  BY <1>2, <3>1, <3>4 DEF V1Points
      <4>2. v1Row.inst = "INSTANTIATED" /\ v1Row.stack /\ v1Vim.stack /\ v1Vnf.cap = v1Row.level
        BY <3>1, <3>2, <4>1 DEF OpenVim, Scales
      <4>3. v1Vim'.stack = v1Vim.stack  BY <1>7, <1>11, <3>1, <4>1
      <4>4. QED  BY <1>9, <3>1, <4>1, <4>2, <4>3 DEF OpenVim, Scales
    <3>5. QED  BY <3>3, <3>4
  <2>2. b = v1Work.before  BY <1>1
  <2>3. QED  BY <1>0, <1>1, <1>2, <1>9, <1>11, <2>1, <2>2, WholeRollbackFails
<1>12. QED  BY <1>8, <1>10, <1>11

\* The operation is ROLLED_BACK, and the VNF can be operated.
LEMMA WholeRollbackPost == ASSUME Whole, _rollback_vnf_post PROVE WholeNext
PROOF
<1>0. Working /\ v1Work.op = "ROLLBACK" /\ v1Work.pc = "end" /\ ~Early /\ v1Work.pc # "complete"
  BY AtWork, StepValues DEF _rollback_vnf_post, At, Working, Early
<1>1. PICK op : op = LastOp  OBVIOUS
<1>2. /\ V1Types /\ V1Parts /\ CalmParts /\ ~Pre /\ Last > 0 /\ v1Work.occ = Last
      /\ op \in {"INSTANTIATE", "SCALE_OUT"} /\ Undone = op
      /\ v1Row \in V1Row /\ v1Work.obj = v1Row
      /\ Last \in DOMAIN v1Occ /\ v1Occ \in Seq(V1OccRow)
      /\ v1Vnf \in V1VnfRow /\ v1Vnf.status = "ERROR"
      /\ OpParts => OpenInst(op, v1Row.inst)
      /\ VimParts => IF op = "SCALE_OUT" THEN Agree(v1Row) /\ v1Row.inst = "INSTANTIATED"
                     ELSE ~v1Vim.stack /\ v1Row.inst # "INSTANTIATED"
  BY <1>0, <1>1, RollbackState
<1>3. UNCHANGED <<v1Cast, v1Crashes>>  BY DEF _rollback_vnf_post
<1>4. PICK r : r = IF op = "SCALE_OUT" THEN [v1Row EXCEPT !.task = "None"] ELSE [Reinitialized(v1Row) EXCEPT !.task = "None"]
  OBVIOUS
<1>5. /\ r \in V1Row /\ r.inst = v1Row.inst /\ r.task = "None"
      /\ op = "SCALE_OUT" => r.stack = v1Row.stack /\ r.level = v1Row.level
      /\ op # "SCALE_OUT" => ~r.stack
  <2>1. CASE op = "SCALE_OUT"
    <3>1. r = [v1Row EXCEPT !.task = "None"]  BY <1>4, <2>1
    <3>2. r \in V1Row /\ r.inst = v1Row.inst /\ r.task = "None" /\ r.stack = v1Row.stack /\ r.level = v1Row.level
      BY <1>2, <3>1, TaskMoves
    <3>3. QED  BY <2>1, <3>2
  <2>2. CASE op # "SCALE_OUT"
    <3>1. r = [Reinitialized(v1Row) EXCEPT !.task = "None"]  BY <1>4, <2>2
    <3>2. r \in V1Row /\ r.inst = v1Row.inst /\ r.task = "None" /\ ~r.stack
      BY <1>2, <3>1, ResetSaved, Zenon
    <3>3. QED  BY <2>2, <3>2
  <2>3. QED  BY <2>1, <2>2
<1>6. \/ /\ SetStatus(IF op = "SCALE_OUT" THEN "ACTIVE" ELSE "INACTIVE")
         /\ v1Occ' = [v1Occ EXCEPT ![Last].state = "ROLLED_BACK", ![Last].ep = 2]
         /\ v1Row' = Saved(r)
         /\ v1Work' = NoWork
         /\ UNCHANGED <<v1Vim, v1Taint>>
      \/ UNCHANGED <<v1Vnf, v1Vim>> /\ revert_to_error_rollback(3)
  BY <1>2, <1>4 DEF _rollback_vnf_post, RolledBackStatus
<1>7. CASE UNCHANGED <<v1Vnf, v1Vim>> /\ revert_to_error_rollback(3)
  <2>1. PICK ep \in V1Points : ep = 3 /\ ep # 7  BY StepValues
  <2>2. VimParts /\ op = "SCALE_OUT" /\ v1Row' = v1Row => OpenVim(op, ep)'
    <3>1. VimParts /\ op = "SCALE_OUT" /\ v1Row' = v1Row =>
             /\ Agree(v1Row)' /\ v1Row'.inst = "INSTANTIATED"
             /\ v1Row'.stack /\ v1Vim'.stack
      BY <1>2, <1>7 DEF Agree
    <3>2. QED  BY <2>1, <3>1 DEF OpenVim, Scales
  <2>3. QED  BY <1>0, <1>1, <1>3, <1>7, <2>1, <2>2, WholeRollbackFails
<1>8. CASE /\ SetStatus(IF op = "SCALE_OUT" THEN "ACTIVE" ELSE "INACTIVE")
           /\ v1Occ' = [v1Occ EXCEPT ![Last].state = "ROLLED_BACK", ![Last].ep = 2]
           /\ v1Row' = Saved(r)
           /\ v1Work' = NoWork
           /\ UNCHANGED <<v1Vim, v1Taint>>
  <2>1. PICK e \in V1Points : e = 2 /\ e # 7  BY StepValues
  <2>2. OccBecomes(Last, "ROLLED_BACK", e)  BY <1>2, <1>8, <2>1, OccMoves, StepValues
  <2>3. v1Row' = r  BY <1>0, <1>2, <1>5, <1>8, CalmSaved
  <2>4. v1Vnf'.cap = v1Vnf.cap /\ v1Vnf'.status = IF op = "SCALE_OUT" THEN "ACTIVE" ELSE "INACTIVE"
    BY <1>2, <1>8 DEF SetStatus, V1VnfRow
  <2>5. OpParts => Healthy'
    <3>1. OpParts => (op = "SCALE_OUT" <=> v1Row.inst = "INSTANTIATED")  BY <1>2 DEF OpenInst, Scales
    <3>2. QED  BY <1>5, <2>3, <2>4, <3>1 DEF Healthy, Norm
  <2>6. Faithful' => Agree(v1Row)'
    <3>1. Faithful' => VimParts  BY <1>3, <1>8 DEF Whole, Faithful
    <3>2. CASE op = "SCALE_OUT"  BY <1>2, <1>5, <1>8, <2>3, <2>4, <3>1, <3>2 DEF Agree
    <3>3. CASE op # "SCALE_OUT"  BY <1>2, <1>5, <1>8, <2>3, <3>1, <3>3 DEF Agree
    <3>4. QED  BY <3>2, <3>3
  <2>7. "ROLLED_BACK" \in V1Ended  BY DEF V1Ended
  <2>8. QED  BY <1>0, <1>2, <1>3, <1>8, <2>1, <2>2, <2>5, <2>6, <2>7, WholeEnds
<1>9. QED  BY <1>6, <1>7, <1>8

\* update creates its occurrence.
LEMMA WholeUpdateBegin == ASSUME Whole, UpdateBegin PROVE WholeNext
PROOF
<1>0. Working /\ v1Work.op = "MODIFY_INFO" /\ v1Work.pc = "begin" /\ Pre
  BY AtWork, StepValues DEF UpdateBegin, At, Working, Pre
<1>1. V1Types /\ V1Parts /\ CalmParts  BY DEF Whole
<1>2. v1Occ \in Seq(V1OccRow) /\ v1Work.obj \in V1Row  BY <1>0, <1>1, WorkTypes DEF Working
<1>3. UNCHANGED <<v1Row, v1Vnf, v1Cast, v1Vim, v1Crashes, v1Taint>> /\ GoOn("modify", v1Work.obj)
  BY DEF UpdateBegin
<1>4. PICK r : r = [op |-> "MODIFY_INFO", state |-> "PROCESSING", ep |-> 0]  OBVIOUS
<1>5. r.state = "PROCESSING" /\ r.ep = 0 /\ r.op = "MODIFY_INFO" /\ r \in V1OccRow
  BY <1>4 DEF V1OccRow, V1Ops, V1States, V1Points
<1>6. v1Occ' = Append(v1Occ, r)  BY <1>4 DEF UpdateBegin
<1>7. /\ Len(v1Occ') = Len(v1Occ) + 1 /\ Len(v1Occ) \in Nat
      /\ DOMAIN v1Occ = 1..Len(v1Occ) /\ DOMAIN v1Occ' = 1..Len(v1Occ')
      /\ \A x \in DOMAIN v1Occ : v1Occ'[x] = v1Occ[x]
      /\ v1Occ'[Len(v1Occ')] = r
  BY <1>2, <1>5, <1>6, OccAdded
<1>8. /\ v1Work' # NoWork /\ v1Work'.op = "MODIFY_INFO" /\ v1Work'.before = v1Work.before /\ v1Work'.late = v1Work.late
      /\ v1Work'.pc = "modify" /\ v1Work'.base = v1Row'
  BY <1>0, <1>1, <1>2, <1>3, CalmMoves, StepValues
<1>9. v1Work.before = 0  BY <1>0, <1>1 DEF V1Parts, WorkInv
<1>10. ~Casting' /\ ~v1Work'.late  BY <1>0, <1>1, <1>3, <1>8 DEF CalmParts, CalmCast, CalmWork, Casting
<1>11. ~Early'  BY <1>8 DEF Early
<1>12. CalmParts'  BY <1>8, <1>9, <1>10, <1>11 DEF CalmParts, CalmCast, CalmWork
<1>13. Working'  BY <1>8 DEF Working
<1>14. LastOp' = "MODIFY_INFO"  BY <1>5, <1>7 DEF LastOp, Last
<1>15. ASSUME Plain' PROVE OpParts'
  <2>1. \A x \in DOMAIN v1Occ : x \in DOMAIN v1Occ'  BY <1>7
  <2>2. OpParts  BY <1>7, <1>15, <2>1 DEF Whole, Plain
  <2>3. OpPoints'
    <3>1. SUFFICES ASSUME NEW x \in DOMAIN v1Occ', v1Occ'[x].ep = 7
                   PROVE  v1Occ'[x].op \in {"TERMINATE", "CHANGE_EXT_CONN"}
      BY DEF OpPoints
    <3>2. x \in DOMAIN v1Occ \/ x = Len(v1Occ')  BY <1>7
    <3>3. x # Len(v1Occ')  BY <1>5, <1>7, <3>1
    <3>4. QED  BY <1>7, <2>2, <3>1, <3>2, <3>3 DEF OpParts, OpPoints
  <2>4. Healthy'  BY <1>0, <1>3, <2>2 DEF OpParts, OpWork, Healthy
  <2>5. \A i : OpenInst("MODIFY_INFO", i)  BY DEF OpenInst, Scales, Heals
  <2>6. OpenInst(LastOp, v1Row.inst)' /\ OpenInst(LastOp, v1Work.obj.inst)'  BY <1>14, <2>5
  <2>7. v1Work'.op \notin Scales  BY <1>8 DEF Scales
  <2>8. OpWork'  BY <1>8, <2>4, <2>6, <2>7 DEF OpWork
  <2>9. QED  BY <1>10, <1>13, <2>3, <2>8 DEF OpParts, OpQuiet, OpCast
<1>16. ASSUME Faithful' PROVE VimParts'
  <2>1. VimParts  BY <1>3, <1>16 DEF Whole, Faithful
  <2>2. Agree(v1Row)'  BY <1>0, <1>3, <2>1 DEF VimParts, VimWork, Agree
  <2>3. v1Work'.op \notin Scales /\ v1Work'.op \notin Heals \cup {"CHANGE_EXT_CONN"}  BY <1>8 DEF Scales, Heals
  <2>4. VimWork'  BY <1>8, <1>11, <2>2, <2>3 DEF VimWork
  <2>5. QED  BY <1>10, <1>13, <2>4 DEF VimParts, VimQuiet, VimCast
<1>17. QED  BY <1>12, <1>15, <1>16 DEF WholeNext

\* update ends or fails; the instance is as it was.
LEMMA WholeModify == ASSUME Whole, modify_vnf PROVE WholeNext
PROOF
<1>0. Working /\ v1Work.op = "MODIFY_INFO" /\ v1Work.pc = "modify" /\ ~Pre
  BY AtWork, StepValues DEF modify_vnf, At, Working, Pre
<1>1. V1Types /\ V1Parts /\ CalmParts  BY DEF Whole
<1>2. LastOp = "MODIFY_INFO" /\ v1Work.occ = Last /\ Last > 0  BY <1>0, <1>1, WorkOcc
<1>3. /\ Last \in DOMAIN v1Occ /\ LastEp \in V1Points /\ v1Occ \in Seq(V1OccRow) /\ v1Vnf \in V1VnfRow
  BY <1>1, <1>2, LastIn DEF LastEp, V1Types
<1>4. UNCHANGED <<v1Row, v1Cast, v1Vim, v1Crashes, v1Taint>> /\ v1Work' = NoWork  BY DEF modify_vnf
<1>5. (SetState("COMPLETED") /\ UNCHANGED v1Vnf) \/ (SetFailed(0) /\ SetStatus("ERROR"))
  BY DEF modify_vnf, revert_update_lcm
<1>6. Faithful' => Agree(v1Row) /\ VimParts  BY <1>0, <1>4 DEF Faithful, Whole, VimParts, VimWork
<1>7. CASE SetState("COMPLETED") /\ UNCHANGED v1Vnf
  <2>1. OccBecomes(Last, "COMPLETED", LastEp)  BY <1>2, <1>3, <1>7, OccMoves, StepValues DEF SetState, LastEp
  <2>2. OpParts /\ LastEp = 7 => LastOp \in {"TERMINATE", "CHANGE_EXT_CONN"}
    BY <1>3 DEF OpParts, OpPoints, LastEp, LastOp
  <2>3. OpParts => Healthy'  BY <1>0, <1>4, <1>7 DEF OpParts, OpWork, Healthy
  <2>4. Faithful' => Agree(v1Row)'  BY <1>4, <1>6, <1>7 DEF Agree
  <2>5. "COMPLETED" \in V1Ended  BY DEF V1Ended
  <2>6. QED  BY <1>0, <1>3, <1>4, <2>1, <2>2, <2>3, <2>4, <2>5, WholeEnds
<1>8. CASE SetFailed(0) /\ SetStatus("ERROR")
  <2>1. PICK e \in V1Points : e = 0 /\ e # 7  BY StepValues
  <2>2. OccBecomes(Last, "FAILED_TEMP", e)
    <3>1. v1Occ' = [v1Occ EXCEPT ![Last].state = "FAILED_TEMP", ![Last].ep = e]  BY <1>2, <1>8, <2>1 DEF SetFailed
    <3>2. QED  BY <1>3, <3>1, OccMoves, StepValues
  <2>3. v1Vnf'.cap = v1Vnf.cap  BY <1>3, <1>8 DEF SetStatus, V1VnfRow
  <2>4. \A i : OpenInst("MODIFY_INFO", i)  BY DEF OpenInst, Scales, Heals
  <2>5. OpParts => OpenInst(LastOp, v1Row'.inst)  BY <1>2, <2>4
  <2>6. Faithful' => OpenVim(LastOp, e)'
    <3>1. Faithful' => Agree(v1Row)'  BY <1>4, <1>6, <2>3 DEF Agree
    <3>2. LastOp' = "MODIFY_INFO"  BY <1>1, <1>2, <2>2, LastMoves, StepValues DEF V1Parts
    <3>3. QED  BY <3>1, <3>2 DEF OpenVim, Scales
  <2>7. QED  BY <1>0, <1>4, <2>1, <2>2, <2>5, <2>6, WholeFails
<1>9. QED  BY <1>5, <1>7, <1>8

\* A cast is sent while nothing else is under way.
LEMMA WholeCasts ==
    ASSUME Whole, v1Work = NoWork, v1Work' = NoWork, v1Cast' # NoCast,
           v1Cast'.row = v1Row', v1Cast'.before # 0 => LastEp' = v1Cast'.before,
           v1Cast'.op # "MODIFY_INFO" => LastState' \notin V1Ended,
           Plain' => Plain, OpPoints => OpPoints',
           OpParts => OpCast',
           Faithful' /\ (Faithful => VimParts) => VimCast'
    PROVE  WholeNext
PROOF
<1>1. ~Working' /\ Casting'  BY DEF Working, Casting
<1>2. CalmParts'  BY <1>1 DEF CalmParts, CalmCast, CalmWork
<1>3. ASSUME Plain' PROVE OpParts'  BY <1>1, <1>3 DEF Whole, OpParts, OpQuiet, OpWork
<1>4. ASSUME Faithful' PROVE VimParts'  BY <1>1, <1>4 DEF Whole, VimParts, VimQuiet, VimWork
<1>5. QED  BY <1>2, <1>3, <1>4 DEF WholeNext

\* A new operation finds the VNF as the last one left it.
LEMMA WholeRequest == ASSUME Whole, Clean', NEW op \in V1Ops, v1_request(op) PROVE WholeNext
PROOF
<1>0. V1Types /\ ~Working /\ ~Casting /\ v1Work = NoWork  BY DEF Whole, v1_request, V1Idle, Working, Casting
<1>1. AllEnded  BY DEF v1_request, Clean, AllEnded
<1>2. /\ UNCHANGED <<v1Vnf, v1Work, v1Vim, v1Crashes>> /\ Submit(op, 0, 0) /\ Accepted(op, 0, TRUE)
      /\ v1Taint \subseteq v1Taint'
  BY DEF v1_request
<1>3. PICK z \in V1Points : z = 0 /\ z \in Nat  BY DEF V1Points
<1>4. Submit(op, z, z)  BY <1>2, <1>3
<1>5. /\ v1Row'.inst = v1Row.inst /\ v1Row'.stack = v1Row.stack /\ v1Row'.level = v1Row.level
      /\ v1Row'.task = IF TaskOf(op) = "None" THEN v1Row.task ELSE TaskOf(op)
      /\ v1Cast' \in V1CastRow
      /\ v1Cast'.op = op /\ v1Cast'.before = 0 /\ v1Cast'.row = v1Row'
      /\ IF op # "MODIFY_INFO"
         THEN /\ Len(v1Occ') = Len(v1Occ) + 1
              /\ DOMAIN v1Occ' = 1..Len(v1Occ')
              /\ \A x \in DOMAIN v1Occ : v1Occ'[x] = v1Occ[x]
              /\ v1Occ'[Len(v1Occ')].op = op /\ v1Occ'[Len(v1Occ')].state = "STARTING"
              /\ v1Occ'[Len(v1Occ')].ep = IF op \in Scales THEN 1 ELSE 0
         ELSE v1Occ' = v1Occ
  BY <1>0, <1>3, <1>4, SubmitMoves
<1>6. v1Cast' # NoCast
  <2>1. \A r \in V1CastRow : r # NoCast  BY DEF V1CastRow, NoCast, V1Handled, V1Ops, Scales, Heals
  <2>2. QED  BY <1>5, <2>1
<1>7. op # "MODIFY_INFO" => LastOp' = op /\ LastState' = "STARTING"  BY <1>5 DEF LastOp, LastState, Last
<1>8. (Plain' => Plain) /\ (OpPoints => OpPoints')
  <2>1. CASE op = "MODIFY_INFO"  BY <1>5, <2>1 DEF Plain, OpPoints
  <2>2. CASE op # "MODIFY_INFO"
    <3>1. DOMAIN v1Occ = 1..Len(v1Occ) /\ Len(v1Occ) \in Nat  BY <1>0 DEF V1Types
    <3>2. /\ \A x \in DOMAIN v1Occ : x \in DOMAIN v1Occ' /\ v1Occ'[x] = v1Occ[x]
          /\ \A x \in DOMAIN v1Occ' : x \in DOMAIN v1Occ \/ x = Len(v1Occ')
      BY <1>5, <2>2, <3>1
    <3>3. v1Occ'[Len(v1Occ')].ep # 7  BY <1>5, <2>2
    <3>4. Plain' => Plain  BY <3>2 DEF Plain
    <3>5. OpPoints => OpPoints'
      <4>1. SUFFICES ASSUME OpPoints, NEW x \in DOMAIN v1Occ', v1Occ'[x].ep = 7
                     PROVE  v1Occ'[x].op \in {"TERMINATE", "CHANGE_EXT_CONN"}
        BY DEF OpPoints
      <4>2. x \in DOMAIN v1Occ /\ v1Occ'[x] = v1Occ[x]  BY <3>2, <3>3, <4>1
      <4>3. QED  BY <4>1, <4>2 DEF OpPoints
    <3>6. QED  BY <3>4, <3>5
  <2>3. QED  BY <2>1, <2>2
<1>9. /\ op = "INSTANTIATE" => v1Row.inst = "NOT_INSTANTIATED"
      /\ op \in Scales \cup Heals \cup {"CHANGE_EXT_CONN"} => v1Row.inst = "INSTANTIATED"
      /\ LevelAllowed(op)
  BY <1>2 DEF Accepted, check_vnf_state
<1>10. OpParts => OpCast'
  <2>1. SUFFICES ASSUME OpParts PROVE OpCast'  OBVIOUS
  <2>2. Healthy  BY <1>0, <1>1, <2>1 DEF OpParts, OpQuiet
  <2>3. op # "MODIFY_INFO" => OpenInst(LastOp, v1Row.inst)'  BY <1>5, <1>7, <1>9 DEF OpenInst
  <2>4. v1Vnf'.status = Norm(v1Row'.inst) /\ (TaskOf(op) = "None" => v1Row'.task = "None")
    BY <1>2, <1>5, <2>2 DEF Healthy
  <2>5. QED  BY <1>5, <2>3, <2>4 DEF OpCast
<1>11. Faithful' /\ (Faithful => VimParts) => VimCast'
  <2>1. SUFFICES ASSUME VimParts PROVE VimCast'  BY <1>2 DEF Faithful
  <2>2. Agree(v1Row)  BY <1>0, <1>1, <2>1 DEF VimParts, VimQuiet
  <2>3. Agree(v1Row)'  BY <1>2, <1>5, <2>2 DEF Agree
  <2>4. OpenVim(op, 0)'
    <3>1. op = "INSTANTIATE" => ~v1Row'.stack /\ ~v1Vim'.stack /\ v1Row'.inst # "INSTANTIATED"
      BY <1>5, <1>9, <2>3 DEF Agree
    <3>2. op \in Scales \cup Heals =>
             v1Row'.inst = "INSTANTIATED" /\ v1Row'.stack /\ v1Vim'.stack /\ v1Vnf'.cap = v1Row'.level
      BY <1>5, <1>9, <2>3 DEF Agree
    <3>3. v1Vim'.stack => v1Row'.stack  BY <2>3 DEF Agree
    <3>4. QED  BY <2>3, <3>1, <3>2, <3>3 DEF OpenVim, Heals
  <2>5. op # "MODIFY_INFO" => OpenVim(LastOp, v1Cast.before)'  BY <1>5, <1>7, <2>4 DEF OpenVim
  <2>6. LevelAllowed(v1Cast.op)' /\ v1Cast'.before # 4  BY <1>5, <1>9 DEF LevelAllowed
  <2>7. v1Cast'.op # "ROLLBACK"  BY <1>5 DEF V1Ops, Scales, Heals
  <2>8. QED  BY <1>5, <2>3, <2>5, <2>6, <2>7 DEF VimCast
<1>12. op # "MODIFY_INFO" => LastState' \notin V1Ended  BY <1>7 DEF V1Ended
<1>13. v1Work' = NoWork  BY <1>0, <1>2
<1>14. QED  BY <1>0, <1>5, <1>6, <1>8, <1>10, <1>11, <1>12, <1>13, WholeCasts

\* A retry or rollback finds it as the attempt before it left it.
LEMMA WholeRetry == ASSUME Whole, Clean', NEW o \in DOMAIN v1Occ, v1_retry(o) \/ v1_rollback(o) PROVE WholeNext
PROOF
<1>0. V1Types /\ V1Parts /\ CalmParts  BY DEF Whole
<1>1. V1FailedTemp(o)  BY DEF v1_retry, v1_rollback
<1>2. /\ o = Last /\ Last > 0 /\ LastState = "FAILED_TEMP" /\ LastOp = v1Occ[o].op /\ ~Casting
  BY <1>0, <1>1, FailedTempState
<1>3. ~Working /\ v1Work = NoWork
  BY <1>0, <1>1 DEF V1FailedTemp, CalmParts, CalmWork, Working
<1>4. PICK op, ep : op = LastOp /\ ep = LastEp  OBVIOUS
<1>5. op \in V1Ops /\ ep \in V1Points /\ o \in Nat  BY <1>0, <1>2, <1>4, LastIn DEF LastEp
<1>6. /\ UNCHANGED <<v1Vnf, v1Work, v1Vim, v1Crashes>> /\ v1Taint \subseteq v1Taint'
      /\ v1Cast' \in V1CastRow /\ v1Cast'.before = ep /\ v1Cast'.row = v1Row'
      /\ SameRow(v1Row', v1Row)
      /\ v1Occ' = v1Occ
      /\ v1Cast'.op # "MODIFY_INFO"
      /\ ~Fresh(v1Cast)'
      /\ v1Cast'.op = "ROLLBACK" /\ op = "SCALE_OUT" /\ Faithful' => ep <= 4
      /\ v1Cast'.op \in Scales => LevelAllowed(v1Cast.op)' /\ (Faithful' => ep # 4)
  <2>1. CASE v1_retry(o)
    <3>1. /\ UNCHANGED <<v1Vnf, v1Work, v1Vim, v1Crashes>> /\ v1Taint \subseteq v1Taint' /\ op # "MODIFY_INFO"
          /\ ep = 0 => "second" \in v1Taint'
          /\ op \in Scales /\ ep = 4 => "apart" \in v1Taint'
          /\ Submit(op, ep, o) /\ LevelAllowed(op)
      BY <1>2, <1>4, <2>1 DEF v1_retry, LastEp, Accepted
    <3>2. ep # 0  BY <3>1 DEF Clean
    <3>3. /\ v1Cast' \in V1CastRow /\ v1Cast'.op = op /\ v1Cast'.before = ep /\ v1Cast'.row = v1Row'
          /\ v1Row'.inst = v1Row.inst /\ v1Row'.stack = v1Row.stack /\ v1Row'.level = v1Row.level
          /\ v1Occ' = v1Occ
      BY <1>0, <1>5, <3>1, <3>2, SubmitMoves
    <3>4. LevelAllowed(v1Cast.op)'  BY <3>1, <3>3 DEF LevelAllowed
    <3>5. Faithful' /\ op \in Scales => ep # 4  BY <3>1 DEF Faithful
    <3>6. op # "ROLLBACK"  BY <1>5 DEF V1Ops, Scales, Heals
    <3>7. QED  BY <3>1, <3>2, <3>3, <3>4, <3>5, <3>6 DEF Fresh, SameRow
  <2>2. CASE v1_rollback(o)
    <3>1. v1Cast' = [op |-> "ROLLBACK", occ |-> o, before |-> ep, status |-> v1Vnf.status, row |-> v1Row]
      BY <1>2, <1>4, <2>2 DEF v1_rollback, LastEp
    <3>2. v1Row \in V1Row /\ v1Vnf.status \in Statuses  BY <1>0 DEF V1Types, V1VnfRow
    <3>3. v1Cast' \in V1CastRow  BY <1>5, <3>1, <3>2 DEF V1CastRow, V1Handled
    <3>4. v1Cast'.op = "ROLLBACK" /\ v1Cast'.before = ep /\ v1Cast'.row = v1Row  BY <3>1
    <3>5. UNCHANGED <<v1Row, v1Vnf, v1Occ, v1Work, v1Vim, v1Crashes>> /\ v1Taint \subseteq v1Taint'
      BY <2>2 DEF v1_rollback
    <3>6. op = "SCALE_OUT" /\ ep > 4 => "apart" \in v1Taint'  BY <1>2, <1>4, <2>2 DEF v1_rollback, LastEp
    <3>7. op = "SCALE_OUT" /\ Faithful' => ep <= 4  BY <1>5, <3>6 DEF Faithful, V1Points
    <3>8. v1Cast'.op \notin Scales  BY <3>4 DEF Scales
    <3>9. QED  BY <3>4, <3>3, <3>5, <3>7, <3>8 DEF Fresh, SameRow
  <2>3. QED  BY <2>1, <2>2
<1>7. v1Cast' # NoCast
  <2>1. \A r \in V1CastRow : r # NoCast  BY DEF V1CastRow, NoCast, V1Handled, V1Ops, Scales, Heals
  <2>2. QED  BY <1>6, <2>1
<1>8. LastOp' = op /\ LastState' = "FAILED_TEMP" /\ LastEp' = ep
  BY <1>2, <1>4, <1>6 DEF LastOp, LastState, LastEp, Last
<1>9. (Plain' => Plain) /\ (OpPoints => OpPoints')  BY <1>6 DEF Plain, OpPoints
<1>10. OpParts => OpCast'
  <2>1. OpParts => OpenInst(LastOp, v1Row.inst)  BY <1>2, <1>3 DEF OpParts, OpQuiet
  <2>2. OpParts => OpenInst(LastOp, v1Row.inst)'  BY <1>4, <1>6, <1>8, <2>1 DEF OpenInst, SameRow
  <2>3. QED  BY <1>6, <2>2 DEF OpCast
<1>11. Faithful' /\ (Faithful => VimParts) => VimCast'
  <2>1. SUFFICES ASSUME VimParts, Faithful' PROVE VimCast'  BY <1>6 DEF Faithful
  <2>2. OpenVim(op, ep)  BY <1>2, <1>3, <1>4, <2>1 DEF VimParts, VimQuiet
  <2>3. OpenVim(op, ep)'  BY <1>5, <1>6, <2>2, VimKept
  <2>4. OpenVim(LastOp, v1Cast.before)'  BY <1>6, <1>8, <2>3 DEF OpenVim
  <2>5. QED  BY <1>6, <1>8, <2>1, <2>4 DEF VimCast
<1>12. LastState' \notin V1Ended  BY <1>8 DEF V1Ended
<1>13. v1Work' = NoWork  BY <1>3, <1>6
<1>14. QED  BY <1>3, <1>6, <1>7, <1>8, <1>9, <1>10, <1>11, <1>12, <1>13, WholeCasts

\* Nothing is under way any more.
LEMMA WholeQuiet ==
    ASSUME Whole, v1Work' = NoWork, v1Cast' = NoCast, Plain' => Plain, OpPoints => OpPoints',
           OpParts => OpQuiet', Faithful' => VimQuiet'
    PROVE  WholeNext
PROOF
<1>1. ~Working' /\ ~Casting'  BY DEF Working, Casting
<1>2. CalmParts'  BY <1>1 DEF CalmParts, CalmCast, CalmWork
<1>3. ASSUME Plain' PROVE OpParts'  BY <1>1, <1>3 DEF Whole, OpParts, OpCast, OpWork
<1>4. ASSUME Faithful' PROVE VimParts'  BY <1>1, <1>4 DEF VimParts, VimCast, VimWork
<1>5. QED  BY <1>2, <1>3, <1>4 DEF WholeNext

\* The last operation, which is open, is marked by a request or by the grant.
LEMMA WholeMarked ==
    ASSUME Whole, v1Work = NoWork, v1Work' = NoWork, v1Cast' = NoCast, Last > 0, LastState # "COMPLETED",
           NEW s \in {"FAILED", "FAILED_TEMP", "ROLLED_BACK"}, OccBecomes(Last, s, LastEp),
           OpParts /\ s # "FAILED_TEMP" => Healthy',
           OpParts /\ s = "FAILED_TEMP" => OpenInst(LastOp, v1Row'.inst),
           Faithful' => s # "FAILED_TEMP" /\ Agree(v1Row)'
    PROVE  WholeNext
PROOF
<1>0. V1Types /\ V1Parts  BY DEF Whole
<1>1. LastEp \in V1Points /\ Last \in DOMAIN v1Occ  BY <1>0, LastIn DEF LastEp
<1>2. s \in V1States  BY StepValues
<1>3. Last' = Last /\ LastOp' = LastOp /\ LastState' = s
  BY <1>0, <1>1, <1>2, LastMoves DEF V1Parts
<1>4. OpPoints /\ LastEp = 7 => LastOp \in {"TERMINATE", "CHANGE_EXT_CONN"}
  BY <1>1 DEF OpPoints, LastEp, LastOp
<1>5. (Plain' => Plain) /\ (OpPoints => OpPoints')  BY <1>0, <1>4, PlainKept
<1>6. s = "FAILED_TEMP" => ~AllEnded'
  <2>1. Last' \in DOMAIN v1Occ'  BY <1>1, <1>3 DEF OccBecomes
  <2>2. QED  BY <1>3, <2>1 DEF AllEnded, LastState, V1Ended
<1>7. OpParts => OpQuiet'
  <2>1. OpParts /\ s = "FAILED_TEMP" => OpenInst(LastOp, v1Row.inst)'  BY <1>3 DEF OpenInst
  <2>2. QED  BY <1>3, <1>6, <2>1 DEF OpQuiet
<1>8. Faithful' => VimQuiet'  BY <1>3 DEF VimQuiet
<1>9. QED  BY <1>5, <1>7, <1>8, WholeQuiet

\* fail makes the VNF operational, whatever is in Heat.
LEMMA WholeFail == ASSUME Whole, NEW o \in DOMAIN v1Occ, v1_fail(o) PROVE WholeNext
PROOF
<1>0. V1Types /\ V1Parts /\ CalmParts /\ V1FailedTemp(o)  BY DEF Whole, v1_fail
<1>1. o = Last /\ Last > 0 /\ LastState = "FAILED_TEMP" /\ ~Casting  BY <1>0, FailedTempState
<1>2. v1Work = NoWork  BY <1>0 DEF V1FailedTemp, CalmParts, CalmWork, Working
<1>3. v1Row \in V1Row /\ v1Vnf \in V1VnfRow /\ v1Occ \in Seq(V1OccRow)  BY <1>0 DEF V1Types
<1>4. /\ SetStatus(IF v1Row.inst = "INSTANTIATED" THEN "ACTIVE" ELSE "INACTIVE")
      /\ v1Row' = [v1Row EXCEPT !.task = "None"]
      /\ v1Occ' = [v1Occ EXCEPT ![o].state = "FAILED"]
      /\ UNCHANGED <<v1Cast, v1Work>> /\ "apart" \in v1Taint'
  BY DEF v1_fail, SetStatus
<1>5. Healthy'
  <2>1. v1Row'.inst = v1Row.inst /\ v1Row'.task = "None"  BY <1>3, <1>4, TaskMoves
  <2>2. v1Vnf'.status = IF v1Row.inst = "INSTANTIATED" THEN "ACTIVE" ELSE "INACTIVE"
    BY <1>3, <1>4, StatusMoves, StatusValues
  <2>3. QED  BY <2>1, <2>2 DEF Healthy, Norm
<1>6. OccBecomes(Last, "FAILED", LastEp)
  BY <1>0, <1>1, <1>3, <1>4, LastIn, OccMoves, StepValues DEF LastEp
<1>7. ~Faithful'  BY <1>4 DEF Faithful
<1>8. v1Cast' = NoCast /\ v1Work' = NoWork  BY <1>1, <1>2, <1>4 DEF Casting
<1>9. QED  BY <1>1, <1>2, <1>5, <1>6, <1>7, <1>8, WholeMarked

\* cancel of an operation whose handler was lost.
LEMMA WholeCancel == ASSUME Whole, v1Late' = {}, NEW o \in DOMAIN v1Occ, v1_cancel(o) PROVE WholeNext
PROOF
<1>0. V1Types /\ V1Parts /\ CalmParts  BY DEF Whole
<1>1. o = Last /\ Last > 0 /\ LastState = "PROCESSING" /\ ~Casting /\ (Working => v1Work.occ = o)
  BY <1>0, CancelState
<1>2. v1Work.occ # o  BY DEF v1_cancel
<1>3. v1Work = NoWork /\ ~Working  BY <1>1, <1>2 DEF Working
<1>4. v1Row \in V1Row /\ v1Occ \in Seq(V1OccRow)  BY <1>0 DEF V1Types
<1>5. /\ v1Vnf.status \in PENDING_STATUSES
      /\ v1Row' = [v1Row EXCEPT !.task = "None"]
      /\ v1Occ' = [v1Occ EXCEPT ![o].state = "FAILED_TEMP"]
      /\ v1Cast' = v1Cast /\ v1Work' = v1Work /\ "apart" \in v1Taint'
  BY <1>2 DEF v1_cancel
<1>6. v1Row'.inst = v1Row.inst  BY <1>4, <1>5, TaskMoves
<1>7. OpParts => OpenInst(LastOp, v1Row'.inst)  BY <1>1, <1>3, <1>5, <1>6 DEF OpParts, OpQuiet
<1>8. OccBecomes(Last, "FAILED_TEMP", LastEp)
  BY <1>0, <1>1, <1>4, <1>5, LastIn, OccMoves, StepValues DEF LastEp
<1>9. ~Faithful'  BY <1>5 DEF Faithful
<1>10. v1Cast' = NoCast /\ v1Work' = NoWork  BY <1>1, <1>3, <1>5 DEF Casting
<1>11. QED  BY <1>1, <1>3, <1>7, <1>8, <1>9, <1>10, WholeMarked

\* The instance is deleted when nothing is left of it in Heat.
LEMMA WholeRowDeleted == ASSUME Whole, v1_delete PROVE WholeNext
PROOF
<1>0. V1Types /\ V1Parts  BY DEF Whole
<1>1. /\ v1Cast = NoCast /\ v1Work = NoWork /\ ~Working /\ ~Casting /\ v1Row.inst = "NOT_INSTANTIATED"
      /\ v1Row.task = "None" /\ v1Vnf.status = "INACTIVE"
      /\ v1Row' = [v1Row EXCEPT !.inst = "none"]
      /\ UNCHANGED <<v1Vnf, v1Occ, v1Cast, v1Work, v1Vim, v1Crashes, v1Taint>>
  BY DEF v1_delete, V1Idle, Working, Casting
<1>2. v1Row'.inst = "none" /\ v1Row'.task = v1Row.task /\ v1Row'.stack = v1Row.stack /\ v1Row'.level = v1Row.level
  BY <1>0, <1>1, SomeRows DEF V1Types
<1>3. Last' = Last /\ LastState' = LastState /\ (AllEnded' => AllEnded)  BY <1>1 DEF Last, LastState, AllEnded
<1>4. ~(Last > 0 /\ LastState = "FAILED_TEMP")  BY <1>0, <1>1, IdleWork DEF V1Parts, ErrorInv
<1>5. OpQuiet'
  <2>1. Healthy'  BY <1>1, <1>2 DEF Healthy, Norm
  <2>2. v1Vnf'.status \notin PENDING_STATUSES  BY <1>1, StatusValues
  <2>3. QED  BY <1>3, <1>4, <2>1, <2>2 DEF OpQuiet
<1>6. Faithful' => VimQuiet'
  <2>1. SUFFICES ASSUME VimParts PROVE VimQuiet'  BY <1>1 DEF Whole, Faithful
  <2>2. AllEnded => Agree(v1Row)  BY <1>1, <2>1 DEF VimParts, VimQuiet
  <2>3. AllEnded' => Agree(v1Row)'
    <3>1. Agree(v1Row) => ~v1Vim.stack /\ ~v1Row.stack  BY <1>1 DEF Agree
    <3>2. AllEnded' => ~v1Vim'.stack /\ ~v1Row'.stack  BY <1>1, <1>2, <1>3, <2>2, <3>1
    <3>3. QED  BY <1>2, <3>2 DEF Agree
  <2>4. QED  BY <1>3, <1>4, <2>3 DEF VimQuiet
<1>7. (Plain' => Plain) /\ (OpPoints => OpPoints')  BY <1>1 DEF Plain, OpPoints
<1>8. v1Cast' = NoCast /\ v1Work' = NoWork  BY <1>1
<1>9. QED  BY <1>5, <1>6, <1>7, <1>8, WholeQuiet

\* The handler is lost; the operation stays open.
LEMMA WholeCrash == ASSUME Whole, Clean', v1Crashes \in Nat, v1_crash PROVE WholeNext
PROOF
<1>0. V1Types /\ V1Parts /\ CalmParts  BY DEF Whole
<1>1. /\ Working /\ v1Work' = NoWork /\ UNCHANGED <<v1Row, v1Vnf, v1Occ, v1Cast>>
      /\ v1Crashes' = v1Crashes + 1 /\ v1Work.pc # "process"
  BY DEF v1_crash, Working, Clean, At
<1>2. ~Faithful'  BY <1>1 DEF Faithful
<1>3. ~Casting /\ v1Cast' = NoCast  BY <1>0, <1>1 DEF CalmParts, CalmCast, Casting
<1>4. (Plain' => Plain) /\ (OpPoints => OpPoints')  BY <1>1 DEF Plain, OpPoints
<1>5. OpParts => OpQuiet'
  <2>0. SUFFICES ASSUME OpParts PROVE OpQuiet'  OBVIOUS
  <2>1. /\ Last' = Last /\ LastState' = LastState /\ LastOp' = LastOp /\ (AllEnded' => AllEnded)
        /\ (Healthy => Healthy')
    BY <1>1 DEF Last, LastState, LastOp, AllEnded, Healthy
  <2>2. CASE Pre
    <3>1. AllEnded /\ Healthy  BY <1>0, <1>1, <2>0, <2>2 DEF V1Parts, WorkInv, OpParts, OpWork, Pre
    <3>2. Last > 0 => LastState \in V1Ended  BY <1>0, <3>1, LastIn DEF AllEnded, LastState
    <3>3. QED  BY <2>1, <3>1, <3>2 DEF OpQuiet, V1Ended
  <2>3. CASE ~Pre
    <3>1. ~AllEnded /\ Last \in DOMAIN v1Occ /\ v1Work.occ = Last /\ Last > 0
          /\ (LastState # "FAILED_TEMP" \/ v1Work.pc \in {"begin", "process"})
      BY <1>0, <1>1, <2>3, CalmState
    <3>2. CASE v1Work.pc # "complete" \/ v1Work.op = "CHANGE_EXT_CONN"
      <4>1. OpenInst(LastOp, v1Row.inst)  BY <1>1, <2>0, <2>3, <3>2 DEF OpParts, OpWork
      <4>2. OpenInst(LastOp, v1Row.inst)'  BY <1>1, <2>1, <4>1
      <4>3. QED  BY <2>1, <3>1, <4>2 DEF OpQuiet
    <3>3. CASE v1Work.pc = "complete" /\ v1Work.op # "CHANGE_EXT_CONN"
      <4>1. FullOp /\ LastState # "FAILED_TEMP"  BY <1>0, <1>1, <3>1, <3>3 DEF V1Parts, WorkInv
      <4>2. LastOp = v1Work.op  BY <1>0, <1>1, <2>3, <4>1, WorkOcc DEF FullOp
      <4>3. CASE v1Work.before # 7
        <5>1. v1Vnf.status \notin PENDING_STATUSES  BY <1>0, <1>1, <3>3, <4>3 DEF V1Parts, WorkInv
        <5>2. QED  BY <1>1, <2>1, <3>1, <4>1, <5>1 DEF OpQuiet
      <4>4. CASE v1Work.before = 7
        <5>1. LastEp = 7  BY <1>0, <1>1, <4>4 DEF CalmParts, CalmWork
        <5>2. LastOp = "TERMINATE"  BY <2>0, <3>1, <3>3, <4>2, <5>1 DEF OpParts, OpPoints, LastEp, LastOp
        <5>3. OpenInst(LastOp, v1Row.inst)'  BY <2>1, <5>2 DEF OpenInst, Scales, Heals
        <5>4. QED  BY <2>1, <3>1, <5>3 DEF OpQuiet
      <4>5. QED  BY <4>3, <4>4
    <3>4. QED  BY <3>2, <3>3
  <2>4. QED  BY <2>2, <2>3
<1>6. QED  BY <1>1, <1>2, <1>3, <1>4, <1>5, WholeQuiet

\* A handler begins with its cast.
LEMMA WholeBegins ==
    ASSUME Whole, v1_receive,
           v1Work' = [op |-> v1Cast.op, occ |-> v1Cast.occ, before |-> v1Cast.before, status |-> v1Cast.status,
                      base |-> v1Cast.row, obj |-> v1Cast.row, pc |-> "begin", late |-> FALSE],
           UNCHANGED <<v1Row, v1Occ>>
    PROVE  WholeNext
PROOF
<1>0. V1Types /\ V1Parts /\ CalmParts  BY DEF Whole
<1>1. Casting /\ ~Working /\ v1Cast' = NoCast /\ UNCHANGED <<v1Row, v1Vnf, v1Occ, v1Vim, v1Crashes, v1Taint>>
  BY DEF v1_receive, Casting, Working
<1>2. v1Cast \in V1CastRow  BY <1>0, <1>1, CastTyped DEF Casting
<1>3. /\ v1Work' \in V1WorkRow
      /\ v1Work'.op = v1Cast.op /\ v1Work'.before = v1Cast.before
      /\ v1Work'.base = v1Cast.row /\ v1Work'.obj = v1Cast.row /\ v1Work'.pc = "begin" /\ ~v1Work'.late
  BY <1>2, Received
<1>4. Working' /\ ~Casting' /\ Early' /\ (Pre' <=> v1Cast.op = "MODIFY_INFO")
  <2>1. v1Work' # NoWork  BY <1>3, IdleWork
  <2>2. QED  BY <1>1, <1>3, <2>1 DEF Working, Casting, Early, Pre
<1>5. /\ v1Cast.row = v1Row
      /\ v1Cast.before # 0 => LastEp = v1Cast.before
      /\ v1Cast.op # "MODIFY_INFO" => LastState \notin V1Ended
  BY <1>0, <1>1 DEF CalmParts, CalmCast
<1>6. LastEp' = LastEp /\ LastState' = LastState /\ LastOp' = LastOp  BY <1>1 DEF LastEp, LastState, LastOp, Last
<1>7. CalmParts'
  BY <1>1, <1>3, <1>4, <1>5, <1>6 DEF CalmParts, CalmCast, CalmWork
<1>8. /\ v1Cast.op = "MODIFY_INFO" => v1Cast.before = 0
      /\ v1Cast.op \in Scales => v1Row.inst = "INSTANTIATED"
      /\ ~Fresh(v1Cast) => v1Vnf.status = "ERROR"
      /\ v1Cast.op # "MODIFY_INFO" => OccOf(v1Cast)
  BY <1>0, <1>1 DEF V1Parts, CastInv, StatusOf
<1>9. ASSUME Plain' PROVE OpParts'
  <2>1. OpParts  BY <1>1, <1>9 DEF Whole, Plain
  <2>2. OpPoints'  BY <1>1, <2>1 DEF OpParts, OpPoints
  <2>3. /\ v1Cast.op # "MODIFY_INFO" => OpenInst(LastOp, v1Row.inst)
        /\ Fresh(v1Cast) => v1Vnf.status = Norm(v1Row.inst) /\ (TaskOf(v1Cast.op) = "None" => v1Row.task = "None")
    BY <1>1, <2>1 DEF OpParts, OpCast
  <2>4. v1Cast.op # "MODIFY_INFO" => OpenInst(LastOp, v1Row.inst)' /\ OpenInst(LastOp, v1Work.obj.inst)'
    BY <1>1, <1>3, <1>5, <1>6, <2>3 DEF OpenInst
  <2>5. TaskOf("MODIFY_INFO") = "None" /\ TaskOf("CHANGE_EXT_CONN") = "None"  BY DEF TaskOf, Heals, Scales
  <2>6. v1Cast.op = "MODIFY_INFO" => Healthy'
    BY <1>1, <1>8, <2>3, <2>5 DEF Fresh, Healthy
  <2>7. v1Cast.op \in Scales => v1Vnf'.status = IF v1Cast.before = 0 THEN "ACTIVE" ELSE "ERROR"
    BY <1>1, <1>8, <2>3 DEF Fresh, Norm, Scales
  <2>8. v1Cast.op = "CHANGE_EXT_CONN" /\ v1Cast.before = 0 => v1Row'.task = "None" /\ v1Work'.obj.task = "None"
    BY <1>1, <1>3, <1>5, <2>3, <2>5 DEF Fresh
  <2>9. OpWork'  BY <1>3, <1>4, <2>4, <2>6, <2>7, <2>8 DEF OpWork
  <2>10. QED  BY <1>4, <2>2, <2>9 DEF OpParts, OpQuiet, OpCast
<1>10. ASSUME Faithful' PROVE VimParts'
  <2>1. VimParts  BY <1>1, <1>10 DEF Whole, Faithful
  <2>2. /\ v1Cast.op # "MODIFY_INFO" => OpenVim(LastOp, v1Cast.before)
        /\ Fresh(v1Cast) => Agree(v1Row)
        /\ v1Cast.op = "ROLLBACK" /\ LastOp = "SCALE_OUT" => v1Cast.before <= 4
        /\ v1Cast.op \in Scales => LevelAllowed(v1Cast.op) /\ v1Cast.before # 4
    BY <1>1, <2>1 DEF VimParts, VimCast
  <2>3. Agree(v1Row) => Agree(v1Row)'  BY <1>1 DEF Agree
  <2>4. v1Cast.op # "MODIFY_INFO" => OpenVim(LastOp, v1Work.before)'
    BY <1>1, <1>3, <1>6, <2>2, <2>3 DEF OpenVim
  <2>5. v1Cast.op = "MODIFY_INFO" => Agree(v1Row)'  BY <1>8, <2>2, <2>3 DEF Fresh
  <2>6. v1Cast.op \in Scales => LevelAllowed(v1Work.op)' /\ v1Work'.before # 4
    BY <1>1, <1>3, <2>2 DEF LevelAllowed
  <2>7. VimWork'  BY <1>3, <1>4, <1>6, <2>2, <2>4, <2>5, <2>6 DEF VimWork
  <2>8. QED  BY <1>4, <2>7 DEF VimParts, VimQuiet, VimCast
<1>11. QED  BY <1>7, <1>9, <1>10 DEF WholeNext

\* A cast is received, or its grant refused.
LEMMA WholeReceive == ASSUME Whole, v1_receive PROVE WholeNext
PROOF
<1>0. V1Types /\ V1Parts /\ CalmParts  BY DEF Whole
<1>1. Casting /\ v1Work = NoWork /\ v1Cast' = NoCast /\ UNCHANGED <<v1Vnf, v1Vim, v1Crashes, v1Taint>>
  BY DEF v1_receive, Casting
<1>2. CASE /\ v1Work' = [op |-> v1Cast.op, occ |-> v1Cast.occ, before |-> v1Cast.before, status |-> v1Cast.status,
                         base |-> v1Cast.row, obj |-> v1Cast.row, pc |-> "begin", late |-> FALSE]
           /\ UNCHANGED <<v1Row, v1Occ>>
  BY <1>2, WholeBegins
<1>3. CASE v1Cast.before = 0 /\ v1Cast.op \notin {"ROLLBACK", "MODIFY_INFO"} /\ grant_error_common /\ UNCHANGED v1Work
  <2>1. OccOf(v1Cast) /\ Fresh(v1Cast)  BY <1>0, <1>1, <1>3 DEF V1Parts, CastInv, Fresh
  <2>2. v1Cast.occ = Last /\ Last > 0  BY <2>1 DEF OccOf
  <2>3. LastState # "COMPLETED"  BY <1>0, <1>1, <1>3 DEF CalmParts, CalmCast, V1Ended
  <2>4. v1Row \in V1Row /\ v1Occ \in Seq(V1OccRow)  BY <1>0 DEF V1Types
  <2>5. v1Row' = [v1Row EXCEPT !.task = "None"] /\ v1Occ' = [v1Occ EXCEPT ![Last].state = "ROLLED_BACK"]
    BY <1>3, <2>2 DEF grant_error_common
  <2>6. /\ v1Row'.inst = v1Row.inst /\ v1Row'.task = "None" /\ v1Row'.stack = v1Row.stack
        /\ v1Row'.level = v1Row.level
    BY <2>4, <2>5, TaskMoves
  <2>7. OccBecomes(Last, "ROLLED_BACK", LastEp)
    BY <1>0, <2>2, <2>4, <2>5, LastIn, OccMoves, StepValues DEF LastEp
  <2>8. OpParts => Healthy'
    <3>1. OpParts => v1Vnf.status = Norm(v1Row.inst)  BY <1>1, <2>1 DEF OpParts, OpCast
    <3>2. QED  BY <1>1, <2>6, <3>1 DEF Healthy
  <2>9. Faithful' => Agree(v1Row)'
    <3>1. Faithful' => Agree(v1Row)  BY <1>1, <2>1 DEF Whole, Faithful, VimParts, VimCast
    <3>2. QED  BY <1>1, <2>6, <3>1 DEF Agree
  <2>10. v1Work' = NoWork  BY <1>1, <1>3
  <2>11. QED  BY <1>1, <2>2, <2>3, <2>7, <2>8, <2>9, <2>10, WholeMarked
<1>4. QED  BY <1>2, <1>3 DEF v1_receive

\* What the history variables say, and the invariant of a calm history.
V1History == v1Crashes \in Nat /\ (v1Late # {} => "apart" \in v1Taint)
CalmInv == Calm => CalmParts /\ (Plain => OpParts) /\ (Faithful => VimParts)

\* A handler is cancelled by cancel only.
LEMMA HistoryNext == ASSUME V1History, [LcmV1Next]_v1Vars PROVE V1History'
PROOF
<1>1. v1Crashes' \in {v1Crashes, v1Crashes + 1}
  BY DEF LcmV1Next, V1Conductor, V1Driver, v1Vars, v1_request, v1_delete, v1_crash, v1_receive,
         v1_retry, v1_rollback, v1_fail, v1_cancel, FullBegin, FullStatus, FullScript, FullEnd, FullFinal, FullSave,
         FullComplete, ScaleBegin, ScaleProcess, _scale_vnf_pre, _scale_vnf_post, _scale_vnf,
         RollbackBegin, _rollback_vnf_post, _rollback_vnf, UpdateBegin, modify_vnf,
         SkipVim, _instantiate_vnf, _delete_vnf_instance_resources, _heal_vnf, _respawn_vnf, _change_ext_conn_vnf
<1>2. v1Late' = v1Late \/ "apart" \in v1Taint'
  BY DEF LcmV1Next, V1Conductor, V1Driver, v1Vars, v1_request, v1_delete, v1_crash, v1_receive,
         v1_retry, v1_rollback, v1_fail, v1_cancel, FullBegin, FullStatus, FullScript, FullEnd, FullFinal, FullSave,
         FullComplete, ScaleBegin, ScaleProcess, _scale_vnf_pre, _scale_vnf_post, _scale_vnf,
         RollbackBegin, _rollback_vnf_post, _rollback_vnf, UpdateBegin, modify_vnf,
         SkipVim, _instantiate_vnf, _delete_vnf_instance_resources, _heal_vnf, _respawn_vnf, _change_ext_conn_vnf
<1>3. v1Taint \subseteq v1Taint'  BY TaintGrows
<1>4. QED  BY <1>1, <1>2, <1>3 DEF V1History

\* Nothing happens.
LEMMA WholeStutters == ASSUME Whole, UNCHANGED v1Vars PROVE WholeNext
PROOF
<1>1. UNCHANGED <<v1Row, v1Vnf, v1Occ, v1Cast, v1Work, v1Vim, v1Crashes, v1Taint>>  BY DEF v1Vars
<1>2. /\ Last' = Last /\ LastOp' = LastOp /\ LastState' = LastState /\ LastEp' = LastEp
      /\ AllEnded' = AllEnded /\ Casting' = Casting /\ Working' = Working /\ Pre' = Pre /\ Early' = Early
      /\ Plain' = Plain /\ Faithful' = Faithful /\ Healthy' = Healthy /\ OpPoints' = OpPoints
  BY <1>1 DEF Last, LastOp, LastState, LastEp, AllEnded, Casting, Working, Pre, Early, Plain, Faithful, Healthy,
              OpPoints
<1>3. CalmParts'  BY <1>1, <1>2 DEF Whole, CalmParts, CalmCast, CalmWork
<1>4. OpParts => OpParts'
  <2>1. OpQuiet => OpQuiet'  BY <1>1, <1>2 DEF OpQuiet
  <2>2. OpCast => OpCast'  BY <1>1, <1>2 DEF OpCast, Fresh
  <2>3. OpWork => OpWork'  BY <1>1, <1>2 DEF OpWork
  <2>4. QED  BY <1>2, <2>1, <2>2, <2>3 DEF OpParts
<1>5. VimParts => VimParts'
  <2>1. \A op, ep : OpenVim(op, ep) => OpenVim(op, ep)'  BY <1>1 DEF OpenVim, Agree
  <2>2. Agree(v1Row)' = Agree(v1Row) /\ Agree(v1Work.obj)' = Agree(v1Work.obj)  BY <1>1 DEF Agree
  <2>3. VimQuiet => VimQuiet'  BY <1>1, <1>2, <2>1, <2>2 DEF VimQuiet, OpenVim
  <2>4. VimCast => VimCast'  BY <1>1, <1>2, <2>1, <2>2 DEF VimCast, Fresh, LevelAllowed, OpenVim
  <2>5. VimWork => VimWork'  BY <1>1, <1>2, <2>1, <2>2 DEF VimWork, LevelAllowed, OpenVim
  <2>6. QED  BY <2>3, <2>4, <2>5 DEF VimParts
<1>6. QED  BY <1>2, <1>3, <1>4, <1>5 DEF Whole, WholeNext

\* Every step keeps the invariant.
LEMMA CalmInvNext ==
    ASSUME V1Types, V1Inv, V1History, CalmInv, [LcmV1Next]_v1Vars
    PROVE  CalmInv'
PROOF
<1>1. SUFFICES ASSUME Calm' PROVE WholeNext  BY DEF CalmInv, WholeNext
<1>2. Calm /\ Clean' /\ v1Late' = {}  BY <1>1, LateGrows DEF Calm
<1>3. Whole  BY <1>2 DEF CalmInv, V1Inv, Calm, Whole
<1>4. V1MaxLevel \in Nat /\ v1Crashes \in Nat  BY V1Assumption DEF V1History
<1>5. CASE UNCHANGED v1Vars  BY <1>3, <1>5, WholeStutters
<1>6. CASE \E op \in V1Ops : v1_request(op)  BY <1>2, <1>3, <1>6, WholeRequest
<1>7. CASE \E o \in DOMAIN v1Occ : v1_retry(o) \/ v1_rollback(o) \/ v1_fail(o) \/ v1_cancel(o)
  BY <1>2, <1>3, <1>7, WholeRetry, WholeFail, WholeCancel
<1>8. CASE v1_delete \/ v1_receive \/ v1_crash
  BY <1>2, <1>3, <1>4, <1>8, WholeRowDeleted, WholeReceive, WholeCrash
<1>9. CASE FullBegin \/ FullStatus \/ FullScript \/ FullEnd \/ FullFinal \/ FullSave \/ FullComplete
  BY <1>3, <1>9, WholeFullBegin, WholeFullStatus, WholeFullScript, WholeFullEnd, WholeFullFinal, WholeFullSave,
     WholeFullComplete
<1>10. CASE \/ SkipVim \/ _instantiate_vnf \/ _delete_vnf_instance_resources \/ _heal_vnf \/ _respawn_vnf
            \/ _change_ext_conn_vnf
  BY <1>3, <1>10, WholeSkip, WholeInstantiate, WholeDelete, WholeHealVnfc, WholeRespawn, WholeChangeConn
<1>11. CASE ScaleBegin \/ ScaleProcess \/ _scale_vnf_pre \/ _scale_vnf \/ _scale_vnf_post
  BY <1>3, <1>4, <1>11, WholeScaleBegin, WholeScaleProcess, WholeScalePre, WholeScaleVim, WholeScalePost
<1>12. CASE RollbackBegin \/ _rollback_vnf \/ _rollback_vnf_post \/ UpdateBegin \/ modify_vnf
  BY <1>3, <1>12, WholeRollbackBegin, WholeRollbackVim, WholeRollbackPost, WholeUpdateBegin, WholeModify
<1>13. QED
  BY <1>5, <1>6, <1>7, <1>8, <1>9, <1>10, <1>11, <1>12 DEF LcmV1Next, V1Conductor, V1Driver

\* It holds at the start.
LEMMA CalmInvInit == ASSUME LcmV1Init PROVE V1History /\ CalmInv
PROOF
<1>1. /\ v1Cast = NoCast /\ v1Work = NoWork /\ v1Occ = <<>> /\ v1Crashes = 0 /\ v1Late = {}
      /\ v1Row = [inst |-> "NOT_INSTANTIATED", task |-> "None", stack |-> FALSE, level |-> 0]
      /\ v1Vnf = [status |-> "INACTIVE", cap |-> 0] /\ v1Vim = [stack |-> FALSE, level |-> 0]
  BY DEF LcmV1Init
<1>2. DOMAIN v1Occ = {} /\ Last = 0 /\ ~Working /\ ~Casting  BY <1>1 DEF Last, Working, Casting
<1>3. v1Row.inst = "NOT_INSTANTIATED" /\ v1Row.task = "None" /\ v1Vnf.status = "INACTIVE"  BY <1>1
<1>4. ~v1Row.stack /\ ~v1Vim.stack  BY <1>1
<1>5. Healthy /\ Agree(v1Row)  BY <1>3, <1>4 DEF Healthy, Norm, Agree
<1>6. OpParts  BY <1>2, <1>5 DEF OpParts, OpQuiet, OpCast, OpWork, OpPoints
<1>7. VimParts  BY <1>2, <1>5 DEF VimParts, VimQuiet, VimCast, VimWork
<1>8. CalmParts  BY <1>2 DEF CalmParts, CalmCast, CalmWork
<1>9. QED  BY <1>1, <1>6, <1>7, <1>8 DEF CalmInv, V1History

\* The status, task_state, instantiation_state and the stack at every step of
\* every operation, its retries and its rollback, in a calm history.
THEOREM V1CalmInvariant == LcmV1Spec => [](V1Types /\ V1Inv /\ V1History /\ CalmInv)
PROOF
<1>1. LcmV1Init => V1History /\ CalmInv  BY CalmInvInit
<1>2. V1Types /\ V1Inv /\ V1History /\ CalmInv /\ [LcmV1Next]_v1Vars => (V1History /\ CalmInv)'
  BY HistoryNext, CalmInvNext
<1>3. QED  BY <1>1, <1>2, V1Invariant, PTL DEF LcmV1Spec

\* Every operation has ended.
LEMMA SettledState ==
    ASSUME V1Settled
    PROVE  ~Working /\ ~Casting /\ AllEnded
BY DEF V1Settled, V1Quiet, V1Idle, Working, Casting, AllEnded

\* When every operation has ended the VNF can be operated again: status goes
\* with instantiation_state and task_state is None, for any number of operations,
\* failures, retries, rollbacks, fails and crashes (the exceptions are those that
\* Operational names).
THEOREM V1Operational == LcmV1Spec => []Operational
PROOF
<1>1. V1Types /\ V1Inv /\ V1History /\ CalmInv => Operational
  <2>1. SUFFICES ASSUME CalmInv, V1Settled, v1Late = {}, v1Taint \cap {"second", "between"} = {}, Plain
                 PROVE  Healthy
    BY DEF Operational, Plain, Healthy, Norm
  <2>2. Calm  BY <2>1 DEF Calm, Clean
  <2>3. OpQuiet  BY <2>1, <2>2 DEF CalmInv, OpParts
  <2>4. QED  BY <2>1, <2>3, SettledState DEF OpQuiet
<1>2. QED  BY <1>1, V1CalmInvariant, PTL

\* When every operation has ended there is a stack if and only if the VNF is
\* INSTANTIATED, its instance_id is known and it has the level of the row, for
\* any number of operations, failed attempts, retries and rollbacks, and any
\* maxLevel.
THEOREM V1StackMatches == LcmV1Spec => []V1VimMatches
PROOF
<1>1. V1Types /\ V1Inv /\ V1History /\ CalmInv => V1VimMatches
  <2>1. SUFFICES ASSUME V1Types, V1History, CalmInv, V1Settled, v1Taint = {}, v1Crashes = 0
                 PROVE  /\ v1Vim.stack = (v1Row.inst = "INSTANTIATED")
                        /\ v1Row.stack = v1Vim.stack
                        /\ v1Vim.stack => v1Vim.level = v1Row.level
    BY DEF V1VimMatches
  <2>2. v1Late = {}  BY <2>1 DEF V1History
  <2>3. Calm /\ Faithful  BY <2>1, <2>2 DEF Calm, Clean, Faithful
  <2>4. VimQuiet  BY <2>1, <2>3 DEF CalmInv, VimParts
  <2>5. Agree(v1Row)  BY <2>1, <2>4, SettledState DEF VimQuiet
  <2>6. v1Vim.stack \in BOOLEAN /\ v1Row.stack \in BOOLEAN
    BY <2>1 DEF V1Types, V1VimRow, V1Row
  <2>7. QED  BY <2>5, <2>6, Zenon DEF Agree
<1>2. QED  BY <1>1, V1CalmInvariant, PTL

============================================================================
