--------------------------- MODULE ServerNotifier ---------------------------
(***************************************************************************)
(* ServerNotificationMgmtDriver: the management driver scripts that keep    *)
(* the servers of a VNF registered at an external server notifier, across   *)
(* failed, retried and rolled back operations.  One instance; the lock of   *)
(* the instance keeps its operations apart.                                 *)
(*                                                                         *)
(* A script works on copies of the instance and of the error handling data  *)
(* of the operation.  The instance is saved when the operation completes,   *)
(* the data (userScriptErrHandlingData) when it fails.                      *)
(***************************************************************************)
EXTENDS Naturals, FiniteSets

CONSTANTS Servers,      \* identifiers of servers; bounds how many are made
          MaxSnAlarm,   \* bounds registrations
          MaxSnOps      \* bounds operations

ASSUME ServerNotifierAssumption == MaxSnAlarm \in Nat /\ MaxSnOps \in Nat /\ IsFiniteSet(Servers)

None == 0               \* no alarm
SnOps == {"INSTANTIATE", "SCALE_OUT", "SCALE_IN", "HEAL", "TERMINATE"}

VARIABLES snRow,        \* alarms of vnfcResourceInfo in the row: server -> alarm
          snOcc,        \* the operation: what, which servers it removes, state, error data
          snWork,       \* the copies the conductor works on
          snVim,        \* servers that exist
          snMade,       \* servers that were ever made
          snNotifier,   \* alarms at the notifier: <<server, alarm>>
          snAlarms,     \* number of registrations so far
          snOpsDone,
          snLeak        \* history: an unregistration failed, or an operation was given up

snVars == <<snRow, snOcc, snWork, snVim, snMade, snNotifier, snAlarms, snOpsDone, snLeak>>

SnIdle == [pc |-> "idle"]
NoOcc == [op |-> "none"]
Empty == [s \in {} |-> None]

ServerNotifierTypeOK ==
    /\ snRow \in [DOMAIN snRow -> 0..MaxSnAlarm] /\ DOMAIN snRow \subseteq snMade
    /\ snOcc # NoOcc => snOcc.op \in SnOps /\ snOcc.err \in [DOMAIN snOcc.err -> 0..MaxSnAlarm]
    /\ snWork.pc \in {"idle", "start", "process", "end", "commit"}
    /\ snVim \subseteq snMade /\ snMade \subseteq Servers
    /\ snNotifier \subseteq Servers \X (1..MaxSnAlarm)
    /\ snAlarms \in 0..MaxSnAlarm

ServerNotifierInit ==
    /\ snRow = Empty
    /\ snOcc = NoOcc
    /\ snWork = SnIdle
    /\ snVim = {}
    /\ snMade = {}
    /\ snNotifier = {}
    /\ snAlarms = 0
    /\ snOpsDone = 0
    /\ snLeak = FALSE

Keep(f, ss) == [t \in DOMAIN f \cap ss |-> f[t]]

----------------------------------------------------------------------------
(* The methods of the driver, on a state of inst (server -> alarm), err     *)
(* (likewise), the alarms at the notifier and whether one leaked.           *)

Watched(f) == {s \in DOMAIN f : f[s] # None}

\* Alarms of the servers in ss; error data in which these have none.
Pairs(f, ss) == {<<s, f[s]>> : s \in ss}
Forget(err, ss) == [t \in DOMAIN err \cup ss |-> IF t \in ss THEN None ELSE err[t]]

\* _request_unregister of each server in f; it fails for those in bad, which
\* is only logged.
UnregisterAll(x, f, bad) ==
    [inst |-> x.inst,
     err |-> Forget(x.err, DOMAIN f \ bad),
     notifier |-> x.notifier \ Pairs(f, DOMAIN f \ bad),
     leak |-> x.leak \/ bad # {}]

\* The alarms of the servers in ss: g's, where it has one, or f's.
Updated(f, g, ss) == [s \in ss |-> IF s \in DOMAIN g THEN g[s] ELSE f[s]]

\* The instance with the alarms that the error data knows.
Recent(x) == Updated(x.inst, x.err, DOMAIN x.inst)

\* Mutant of _merge_recent_register: alarms of servers that the instance does
\* not have are forgotten, not unregistered.
MergeForgets(x, bad) ==
    LET strange == DOMAIN x.err \ DOMAIN x.inst IN
    [inst |-> Recent(x), err |-> Keep(x.err, DOMAIN x.err \ strange), notifier |-> x.notifier, leak |-> x.leak]

_merge_recent_register(x, bad) ==
    LET strange == DOMAIN x.err \ DOMAIN x.inst
        y == UnregisterAll(x, Keep(x.err, strange \cap Watched(x.err)), bad)
    IN [inst |-> Recent(x), err |-> Keep(y.err, DOMAIN y.err \ strange), notifier |-> y.notifier, leak |-> y.leak]

request_unregister(x, ss, bad) ==
    LET todo == ss \cap Watched(x.inst)
        y == UnregisterAll(x, Keep(x.inst, todo), bad)
    IN [inst |-> [s \in DOMAIN x.inst |-> IF s \in todo THEN None ELSE x.inst[s]],
        err |-> y.err, notifier |-> y.notifier, leak |-> y.leak]

_instantiate_scale_rollback(x, bad) == UnregisterAll(x, Keep(x.err, Watched(x.err)), bad)

\* An order in which the servers of ss are registered, as alarm numbers.
Numberings(ss) ==
    {f \in [ss -> (snAlarms + 1)..(snAlarms + Cardinality(ss))] : \A s, t \in ss : f[s] = f[t] => s = t}

\* Mutant of Registered: the registrations are not noted in the error data.
RegisteredUnnoted(x, f) ==
    [inst |-> Updated(x.inst, f, DOMAIN x.inst), err |-> x.err,
     notifier |-> x.notifier \cup Pairs(f, DOMAIN f), leak |-> x.leak]

\* _request_register of the servers in the domain of f.
Registered(x, f) ==
    [inst |-> Updated(x.inst, f, DOMAIN x.inst),
     err |-> Updated(x.err, f, DOMAIN x.err \cup DOMAIN f),
     notifier |-> x.notifier \cup Pairs(f, DOMAIN f),
     leak |-> x.leak]

Unwatched(x) == {s \in DOMAIN x.inst : x.inst[s] = None}

\* request_register: all servers without an alarm; or it ends at one, with an
\* error status, which is raised as it is, or with no answer (SolException),
\* which makes request_register_cancel unregister those of this call.
request_register(x, result, f, bad) ==
    CASE result = "ok" -> Registered(x, f)
      [] result = "status" -> Registered(x, f)
      [] result = "noAnswer" -> request_unregister(Registered(x, f), DOMAIN f, bad)

----------------------------------------------------------------------------
(* The conductor. *)

BeginOp(op, targets) ==
    /\ snOcc = NoOcc
    /\ snWork = SnIdle
    /\ snOpsDone < MaxSnOps
    /\ op = "INSTANTIATE" <=> DOMAIN snRow = {}
    /\ targets \subseteq DOMAIN snRow
    /\ (targets # {}) <=> (op \in {"SCALE_IN", "HEAL"})
    /\ op = "SCALE_IN" => targets # DOMAIN snRow
    /\ snOpsDone' = snOpsDone + 1
    /\ snOcc' = [op |-> op, targets |-> targets, state |-> "PROCESSING", err |-> Empty]
    /\ snWork' = [pc |-> "start", inst |-> snRow, err |-> Empty]
    /\ UNCHANGED <<snRow, snVim, snMade, snNotifier, snAlarms, snLeak>>

\* The operation fails: the error data is kept, the copy of the instance is not.
FailedTemp(err) ==
    /\ snOcc' = [snOcc EXCEPT !.state = "FAILED_TEMP", !.err = err]
    /\ snWork' = SnIdle

View == [inst |-> snWork.inst, err |-> snWork.err, notifier |-> snNotifier, leak |-> snLeak]

\* A script ended in state y: well, or with an error.
Scripted(y, ok, pc) ==
    /\ snNotifier' = y.notifier
    /\ snLeak' = y.leak
    /\ IF ok THEN /\ snWork' = [pc |-> pc, inst |-> y.inst, err |-> y.err]
                  /\ UNCHANGED snOcc
             ELSE FailedTemp(y.err)

\* terminate_start, scale_start (SCALE_IN) and heal_start; the others do nothing.
start_script ==
    /\ snWork.pc = "start"
    /\ \E bad, bad2 \in {{}, Servers} :
          LET x == _merge_recent_register(View, bad \cap (DOMAIN snWork.err \ DOMAIN snWork.inst)
                                                     \cap Watched(snWork.err))
              ss == IF snOcc.op = "TERMINATE" THEN DOMAIN x.inst ELSE snOcc.targets
              y == IF snOcc.op \in {"TERMINATE", "SCALE_IN", "HEAL"}
                   THEN request_unregister(x, ss, bad2 \cap ss \cap Watched(x.inst))
                   ELSE View
          IN Scripted(y, TRUE, "process")
    /\ UNCHANGED <<snRow, snVim, snMade, snAlarms, snOpsDone>>

\* The VIM: new servers are those an earlier attempt made, or others.
NewServers ==
    LET extra == snVim \ DOMAIN snRow IN
    {ss \in SUBSET (Servers \ snMade) : Cardinality(ss) \in 1..2} \cup (IF extra = {} THEN {} ELSE {extra})

Wanted(op, new) ==
    CASE op = "INSTANTIATE" -> new
      [] op = "TERMINATE" -> {}
      [] op = "SCALE_IN" -> DOMAIN snRow \ snOcc.targets
      [] op = "SCALE_OUT" -> DOMAIN snRow \cup new
      [] op = "HEAL" -> (DOMAIN snRow \ snOcc.targets) \cup new

\* The main process; the new instance information keeps the alarms of servers
\* that stay.  It may fail, before or after the servers are made.
main_process(ok, done) ==
    \E new \in NewServers \cup {{}} :
        /\ snWork.pc = "process"
        /\ ok => done
        /\ (new = {}) <=> (snOcc.op \in {"TERMINATE", "SCALE_IN"})
        /\ snVim' = IF done THEN Wanted(snOcc.op, new) ELSE snVim
        /\ snMade' = IF done THEN snMade \cup new ELSE snMade
        /\ IF ok
           THEN /\ snWork' = [snWork EXCEPT !.pc = "end",
                                  !.inst = [s \in Wanted(snOcc.op, new) |->
                                                IF s \in DOMAIN @ THEN @[s] ELSE None]]
                /\ UNCHANGED snOcc
           ELSE FailedTemp(snWork.err)
        /\ UNCHANGED <<snRow, snNotifier, snAlarms, snOpsDone, snLeak>>

\* instantiate_end, scale_end (SCALE_OUT) and heal_end; heal_end does not merge.
end_script ==
    /\ snWork.pc = "end"
    /\ snOcc.op \in {"INSTANTIATE", "SCALE_OUT", "HEAL"}
    /\ \E bad \in {{}, Servers}, result \in {"ok", "status", "noAnswer"} :
          LET x == IF snOcc.op = "HEAL" THEN View
                   ELSE _merge_recent_register(View, bad \cap (DOMAIN snWork.err \ DOMAIN snWork.inst)
                                                         \cap Watched(snWork.err))
          IN \E done \in SUBSET Unwatched(x) :
                \E f \in Numberings(done) :
                   /\ (result = "ok") <=> (done = Unwatched(x))
                   /\ snAlarms + Cardinality(done) <= MaxSnAlarm
                   /\ snAlarms' = snAlarms + Cardinality(done)
                   /\ Scripted(request_register(x, result, f, bad \cap done), result = "ok", "commit")
    /\ UNCHANGED <<snRow, snVim, snMade, snOpsDone>>

\* COMPLETED: the instance and the operation are saved together.
commit ==
    /\ \/ snWork.pc = "commit"
       \/ snWork.pc = "end" /\ snOcc.op \in {"TERMINATE", "SCALE_IN"}
    /\ snRow' = snWork.inst
    /\ snOcc' = NoOcc
    /\ snWork' = SnIdle
    /\ UNCHANGED <<snVim, snMade, snNotifier, snAlarms, snOpsDone, snLeak>>

retry ==
    /\ snOcc # NoOcc /\ snOcc.state = "FAILED_TEMP"
    /\ snOcc' = [snOcc EXCEPT !.state = "PROCESSING"]
    /\ snWork' = [pc |-> "start", inst |-> snRow, err |-> snOcc.err]
    /\ UNCHANGED <<snRow, snVim, snMade, snNotifier, snAlarms, snOpsDone, snLeak>>

\* instantiate_rollback_start and scale_rollback_start, then the VIM; what the
\* scripts did to the error data is kept if the VIM fails.
rollback ==
    /\ snOcc # NoOcc /\ snOcc.state = "FAILED_TEMP"
    /\ snOcc.op \in {"INSTANTIATE", "SCALE_OUT"}
    /\ \E bad \in {{}, Servers}, ok \in BOOLEAN :
          LET x == [inst |-> snRow, err |-> snOcc.err, notifier |-> snNotifier, leak |-> snLeak]
              y == _instantiate_scale_rollback(x, bad \cap Watched(x.err))
          IN /\ snNotifier' = y.notifier
             /\ snLeak' = y.leak
             /\ snOcc' = IF ok THEN NoOcc ELSE [snOcc EXCEPT !.err = y.err]
             /\ snVim' = IF ok THEN DOMAIN snRow ELSE snVim
    /\ UNCHANGED <<snRow, snWork, snMade, snAlarms, snOpsDone>>

\* FAILED: the error data goes unused.
fail ==
    /\ snOcc # NoOcc /\ snOcc.state = "FAILED_TEMP"
    /\ snOcc' = NoOcc
    /\ snLeak' = TRUE
    /\ UNCHANGED <<snRow, snWork, snVim, snMade, snNotifier, snAlarms, snOpsDone>>

ServerNotifierNext ==
    \/ \E op \in SnOps, ss \in SUBSET Servers : BeginOp(op, ss)
    \/ start_script \/ end_script \/ commit \/ retry \/ rollback \/ fail
    \/ \E ok, done \in BOOLEAN : main_process(ok, done)

ServerNotifierSpec == ServerNotifierInit /\ [][ServerNotifierNext]_snVars

----------------------------------------------------------------------------
(* Properties *)

\* Between operations the notifier watches exactly the servers of the VNF, each
\* with the alarm that the row names, however often registrations and the
\* operation around them failed before: unless the notifier refused to forget
\* an alarm, or an operation was given up with POST fail.
AlarmsMatch ==
    snOcc = NoOcc /\ ~snLeak =>
        /\ snNotifier = {<<s, snRow[s]>> : s \in DOMAIN snRow}
        /\ DOMAIN snRow = snVim

\* While an operation has failed, every alarm at the notifier is known, to the
\* row or to the error data, so that a retry or a rollback can deal with it.
AlarmsKnown ==
    snOcc # NoOcc /\ snWork = SnIdle /\ ~snLeak =>
        \A p \in snNotifier :
            \/ p[1] \in DOMAIN snRow /\ snRow[p[1]] = p[2]
            \/ p[1] \in DOMAIN snOcc.err /\ snOcc.err[p[1]] = p[2]

============================================================================
