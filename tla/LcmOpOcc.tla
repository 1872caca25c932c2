------------------------------ MODULE LcmOpOcc ------------------------------
(***************************************************************************)
(* What the v2 stack promises about operation occurrences: the state        *)
(* machine of SOL003 for each of them, and one operation at a time for each *)
(* VNF instance.  Threads, messages, locks, crashes and tables are absent.  *)
(***************************************************************************)
CONSTANTS Occ, Inst, NoneInst

VARIABLE occ  \* [Occ -> [state, op, inst]]

States == {"NONE", "STARTING", "PROCESSING", "COMPLETED", "FAILED_TEMP", "FAILED",
           "ROLLING_BACK", "ROLLED_BACK"}

Open == {"STARTING", "PROCESSING", "FAILED_TEMP", "ROLLING_BACK"}

\* Transitions of an existing occurrence.
Edge == {<<"STARTING", "PROCESSING">>, <<"STARTING", "ROLLED_BACK">>,
         <<"PROCESSING", "COMPLETED">>, <<"PROCESSING", "FAILED_TEMP">>,
         <<"FAILED_TEMP", "PROCESSING">>, <<"FAILED_TEMP", "ROLLING_BACK">>,
         <<"FAILED_TEMP", "FAILED">>,
         <<"ROLLING_BACK", "ROLLED_BACK">>, <<"ROLLING_BACK", "FAILED_TEMP">>}

OccInit == occ = [o \in Occ |-> [state |-> "NONE", op |-> "NONE", inst |-> NoneInst]]

\* MODIFY_INFO needs no grant and has no STARTING state.
Begin(o, i, op) ==
    /\ occ[o].state = "NONE"
    /\ \A p \in Occ : occ[p].inst = i => occ[p].state \notin Open
    /\ occ' = [occ EXCEPT ![o] =
         [state |-> IF op = "MODIFY_INFO" THEN "PROCESSING" ELSE "STARTING", op |-> op, inst |-> i]]

Move(o, s) ==
    /\ <<occ[o].state, s>> \in Edge
    /\ occ' = [occ EXCEPT ![o].state = s]

Ops == {"INSTANTIATE", "TERMINATE", "HEAL", "MODIFY_INFO", "SCALE_OUT", "SCALE_IN",
        "CHANGE_EXT_CONN", "CHANGE_VNFPKG"}

OccNext ==
    \E o \in Occ : \/ \E i \in Inst, op \in Ops : Begin(o, i, op)
                   \/ \E s \in States : Move(o, s)

OccSpec == OccInit /\ [][OccNext]_occ

============================================================================
