------------------------------ MODULE LcmTypes ------------------------------
(***************************************************************************)
(* The data of the SOL003 v2 life-cycle management stack, cut down to what *)
(* its control flow tells apart: the operation states and types, the row   *)
(* of a VNF instance, the resources of the VNF in its VIM, and what each   *)
(* operation does to both.  Everything here is a pure operator.            *)
(*                                                                         *)
(* SCALE is split into SCALE_OUT and SCALE_IN; numberOfSteps is its default *)
(* of one; a VNF has one scaling aspect.                                   *)
(***************************************************************************)
EXTENDS Integers

CONSTANTS Occs,       \* identifiers of VnfLcmOpOcc rows
          InitLevel,  \* scale level given by the instantiation level of the VNFD
          MaxLevel    \* maxScaleLevel of the aspect in the VNFD

NoOcc == "noOcc"

ASSUME OccsAssumption == NoOcc \notin Occs
ASSUME LevelAssumption == /\ InitLevel \in Int
                          /\ MaxLevel \in Int
                          /\ 0 <= InitLevel
                          /\ InitLevel <= MaxLevel

----------------------------------------------------------------------------
(* Life-cycle operations and the states of an operation occurrence. *)

IngStates == {"STARTING", "PROCESSING", "ROLLING_BACK"}
EndStates == {"COMPLETED", "FAILED", "ROLLED_BACK"}

\* NONE: no row yet.
OpStates == {"NONE", "FAILED_TEMP"} \cup IngStates \cup EndStates

ScaleOps == {"SCALE_OUT", "SCALE_IN"}
ChangeOps == {"CHANGE_EXT_CONN", "CHANGE_VNFPKG"}
Ops == {"INSTANTIATE", "TERMINATE", "HEAL", "MODIFY_INFO"} \cup ScaleOps \cup ChangeOps

----------------------------------------------------------------------------
(* A VNF instance row.  vimInfo is the vimConnectionInfo attribute: not set *)
(* (never instantiated), an empty dictionary (terminated) or filled.  conf  *)
(* names the operation that last configured the VNF.                       *)

InstStates == {"ABSENT", "NOT_INSTANTIATED", "INSTANTIATED", "DELETED"}

InstRow == [state : InstStates, level : Int,
            vimInfo : {"UNSET", "EMPTY", "SET"}, conf : Occs \cup {NoOcc}]

NewRow == [state |-> "NOT_INSTANTIATED", level |-> 0, vimInfo |-> "UNSET", conf |-> NoOcc]

Exists(row) == row.state \in {"NOT_INSTANTIATED", "INSTANTIATED"}

(* The resources of a VNF in its VIM (heat stack, pods, helm release).     *)
Stack == [up : BOOLEAN, level : Int, conf : Occs \cup {NoOcc}]
NoStack == [up |-> FALSE, level |-> 0, conf |-> NoOcc]

----------------------------------------------------------------------------
(* Checks of a request against the instance row.                           *)

Steps(op) == IF op = "SCALE_OUT" THEN 1 ELSE IF op = "SCALE_IN" THEN -1 ELSE 0

\* Mutant of check_scale_level.
check_scale_level_unchecked(row, op) == TRUE

check_scale_level(row, op) ==
    op \in ScaleOps => /\ row.level + Steps(op) >= 0
                       /\ row.level + Steps(op) <= MaxLevel

InstantiationStateOk(row, op) ==
    IF op = "INSTANTIATE" THEN row.state = "NOT_INSTANTIATED"
    ELSE IF op = "MODIFY_INFO" THEN Exists(row)
    ELSE row.state = "INSTANTIATED"

\* update and instantiate take the instance lock in the API server; scale and
\* heal are the two requests that do not.
Locked(op) == op \notin ScaleOps \cup {"HEAL"}

----------------------------------------------------------------------------
(* What an operation does.                                                 *)

\* scale_grant and change_ext_conn_grant read vnfcResourceInfo, which a
\* terminated instance does not have.
GrantPossible(row, op) ==
    row.state = "INSTANTIATED" \/ op \notin ScaleOps \cup {"CHANGE_EXT_CONN"}

\* instantiate_post_grant fills vimConnectionInfo of the instance in memory.
post_grant(row, op) ==
    IF op = "INSTANTIATE" THEN [row EXCEPT !.vimInfo = "SET"] ELSE row

\* What "<op>_process" leaves in the instance row.
instantiate_process(row, o) ==
    [state |-> "INSTANTIATED", level |-> InitLevel, vimInfo |-> row.vimInfo, conf |-> o]

terminate_process ==
    [state |-> "NOT_INSTANTIATED", level |-> 0, vimInfo |-> "EMPTY", conf |-> NoOcc]

\* The scaleStatus of the row follows from the request, not from the VIM.
AdjustScaleStatus(row, op) == [row EXCEPT !.level = @ + Steps(op)]

Reconfigure(row, o) == [row EXCEPT !.conf = o]

Processed(row, op, o) ==
    CASE op = "INSTANTIATE" -> instantiate_process(row, o)
      [] op = "TERMINATE" -> terminate_process
      [] op \in ScaleOps -> AdjustScaleStatus(row, op)
      [] op \in ChangeOps -> Reconfigure(row, o)
      [] OTHER -> row

\* select_vim_info must find a VIM, and what is to be changed must be there.
ProcessPossible(row, op, s) ==
    \/ op = "MODIFY_INFO"
    \/ /\ row.vimInfo = "SET"
       /\ op \in ScaleOps \cup ChangeOps \cup {"HEAL"} => s.up

\* The infra driver's methods: the VIM resources they leave.  Those of scale
\* are computed from the row, those of the other calls from the request.
vim_instantiate(o) == [up |-> TRUE, level |-> InitLevel, conf |-> o]
vim_instantiate_rollback == NoStack
vim_terminate == NoStack
vim_scale(row, op, s) == [s EXCEPT !.level = row.level + Steps(op)]
vim_scale_rollback(row, s) == [s EXCEPT !.level = row.level]
vim_change(o, s) == [s EXCEPT !.conf = o]
vim_change_rollback(row, s) == [s EXCEPT !.conf = row.conf]

\* The VIM resources after a successful "<op>_process".
ProcessedStack(row, op, o, s) ==
    CASE op = "INSTANTIATE" -> vim_instantiate(o)
      [] op = "TERMINATE" -> vim_terminate
      [] op \in ScaleOps -> vim_scale(row, op, s)
      [] op \in ChangeOps -> vim_change(o, s)
      [] OTHER -> s

\* There is no rollback method for TERMINATE and HEAL, and scale_rollback
\* refuses SCALE_IN.
RollbackPossible(row, op, s) ==
    \/ op = "MODIFY_INFO"
    \/ /\ row.vimInfo = "SET"
       /\ op \in {"INSTANTIATE", "SCALE_OUT"} \cup ChangeOps
       /\ op # "INSTANTIATE" => s.up

\* The VIM resources after a successful "<op>_rollback".
RolledBackStack(row, op, s) ==
    CASE op = "INSTANTIATE" -> vim_instantiate_rollback
      [] op = "SCALE_OUT" -> vim_scale_rollback(row, s)
      [] op \in ChangeOps -> vim_change_rollback(row, s)
      [] OTHER -> s

\* The resources an instance row describes.
StackOf(row) ==
    IF row.state = "INSTANTIATED"
    THEN [up |-> TRUE, level |-> row.level, conf |-> row.conf]
    ELSE NoStack

============================================================================
