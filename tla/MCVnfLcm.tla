------------------------------ MODULE MCVnfLcm ------------------------------
(***************************************************************************)
(* VnfLcmSystem for TLC.  Operation occurrences, request threads and        *)
(* handler threads are interchangeable.                                    *)
(***************************************************************************)
EXTENDS VnfLcmSystem, TLC

Symmetry == Permutations(Occs) \cup Permutations(Apis) \cup Permutations(Workers)

\* Families of operations the configurations choose from.
AllOps == Ops
NoOps == {}
AllButModify == Ops \ {"MODIFY_INFO"}
RaceOps == {"INSTANTIATE", "TERMINATE", "SCALE_OUT", "MODIFY_INFO"}
ScaleOutOnly == {"INSTANTIATE", "SCALE_OUT"}
ModifyOnly == {"MODIFY_INFO"}
CnfOps == {"INSTANTIATE", "SCALE_OUT", "CHANGE_EXT_CONN", "TERMINATE"}
AutoHealScale == {"HEAL", "SCALE_OUT"}

============================================================================
