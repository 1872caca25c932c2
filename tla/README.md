# Tacker's life-cycle management in TLA+

Tacker is a VNF manager: clients ask it over a REST API to instantiate, scale,
heal, change, terminate VNF instances, and it does so by driving a VIM
(OpenStack, Kubernetes, Helm, Terraform). The core of this project is the second
API version (`src/tacker/sol_refactored`), where the two processes
`tacker-server` and `tacker-conductor` work on the same VNF instances through a
database, a message queue and a distributed lock. Around it are the services
that share those processes: auto-heal timers, fault and performance management,
the cache of VNF packages, registrations at a server notifier, the package API,
and the first API version with its own conductor and tables. The project checks
with TLC, and partly proves with TLAPS, that their threads do not get in each
other's way and that failures, retries and crashes leave nothing behind.

Paths below are relative to `src/tacker/sol_refactored/` unless they begin with
`src/`.

## 1. Inventory

| component | state | operations | interacts with | what makes it correct |
|---|---|---|---|---|
| VNF LCM API, `controller/vnflcm_v2.py` | none of its own; rows `VnfInstanceV2`, `VnfLcmOpOccV2` | create, delete, update, instantiate, terminate, scale, heal, change_ext_conn, change_vnfpkg; retry, rollback, fail of an operation | takes the instance lock, stores an lcmocc, casts to the conductor | no operation is accepted that cannot be carried out; an instance with an open operation is not deleted |
| conductor handlers, `conductor/conductor_v2.py` | copies of rows in memory | start_lcm_op, retry_lcm_op, rollback_lcm_op, modify_vnfinfo | lock (10 s wait), NFVO (grant), VIM, database | exclusive work on an instance, no lost update, VIM called only under a grant, SOL003 state machine |
| automatic operations, `conductor/vnflcm_auto.py` | - | auto_heal, auto_scale | lock, then the start_lcm_op handler without a message | as above |
| recovery at start, `ConductorV2._change_lcm_op_state` | list of transient lcmoccs | STARTING -> ROLLED_BACK, PROCESSING and ROLLING_BACK -> FAILED_TEMP | database, notification | every operation settles, the service comes up |
| database synchronization, `_sync_db` | list of instances | copy the pods of a CNF into the row | non-blocking lock, Kubernetes | no lost update; catches up |
| instance lock, `common/coordinate.py` | tooz lock per instance | lock_vnf_instance | both processes | mutual exclusion |
| LCM driver, `conductor/vnflcm_driver_v2.py`, and infra drivers | VIM resources | `<op>_grant`, `<op>_process`, `<op>_rollback` | NFVO, VIM | row and VIM agree when an operation is over |
| persistence, `objects/base.py` | tables | create, update, delete | SQLAlchemy sessions | what is written together commits together |
| auto-heal timers, `conductor/prometheus_plugin_driver.py`, `server_notification_driver.py` | `timer_map`, queue of each timer | enqueue, dequeue, expire | timer threads, RPC threads | no notified VNFC is forgotten, no timer in the map is dead |
| NFVO client, `nfvo/nfvo_client.py` | CSAR cache directories | get_vnfd, grant, notifications | lock_resources, NFVO | a cached package is complete, and stays while it is used |
| built-in NFVO, `nfvo/local_nfvo.py` | usage state of packages | grant, recv_*_notification | database | a package in use is IN_USE |
| fault management, `controller/vnffm_v1.py`, `conductor/vnffm_driver_v1.py` | alarm rows | alerts, store_alarm_info, acknowledgement | API server looks up, conductor stores | one open alarm per alert, cleared for good |
| performance management, `controller/vnfpm_v2.py`, `conductor/vnfpm_driver_v2.py` | jobs, reports, thresholds, their states | create, update, delete, report, crossing | lock_resources, but not where reports are stored; rule files at Prometheus hosts | a job lists its reports, deleted means gone, a crossing is real |
| server notification script, `mgmt_drivers/server_notification.py` | alarm ids in the row, error data in the lcmocc | register, unregister, merge, roll back | notifier, LCM operation around it | the notifier watches the servers there are |
| VNF packages, `src/tacker/api/vnfpkgm/v1/controller.py`, `src/tacker/conductor/conductor_server.py` | package, VNFD and flavour rows, CSAR store, directory at each conductor | create, upload, patch, delete, onboard, revert | cast to one and to all conductors, usage state from both APIs | ONBOARDED is complete, a failed upload can be repeated |
| v1 stack, `src/tacker/api/vnflcm/v1/controller.py`, `src/tacker/conductor/conductor_server.py`, `src/tacker/vnflcm/vnflcm_driver.py` | instantiation_state, task_state, status, occurrences with error points | nine operations, retry, rollback, fail, cancel | Heat | a failed operation can be ended, an ended one leaves the VNF operable |
| subscriptions, VNFD utilities, API framework | | | | see PROJECT.json |

What is hard: a request reads, locks, checks, stores and casts in steps that
other threads interleave with; a handler starts from a message that may be old;
rows are read at the beginning of a handler and written back whole at its end,
minutes later; the conductor may die between any two steps and repairs at the
next start what it finds; a VIM call may raise after it has taken effect; a
handler that waits too long for the lock drops its message. The services have no
such lock, or take it in the API server only: the conductor stores what the API
server looked up a while ago, conductors count each other in a column, timers
expire while their queue is filled. v1 decides what a retry or a rollback does
from an error point and three status columns. PROJECT.json lists these hazards at
their lines.

## 2. Modules

| module | models |
|---|---|
| `LcmTypes` | operation states and types, the instance row, the VIM resources, and what each operation does to both (`check_scale_level`, `post_grant`, `Processed`, `ProcessedStack`, `RolledBackStack`, ...), as pure operators |
| `LcmState` | the shared variables, `TypeOK`, `Init`, and helpers of both processes (`check_lcmocc_in_progress`, `new_lcmocc`, `update_lcmocc_status`, `Acquire`, `Release`) |
| `VnfLcmController` | request threads of the API server |
| `ConductorV2` | RPC handlers and automatic operations of the conductor |
| `ConductorRecovery` | crash, restart and `_change_lcm_op_state` |
| `DbSync` | `_sync_db` and the VIM changing pods by itself |
| `VnfLcmSystem` | the composition (`Next`, `Spec`, `Fairness`) and every property |
| `LcmOpOcc` | abstract specification: SOL003's operation state machine, one operation at a time per instance |
| `MCVnfLcm` | instantiation for TLC: symmetry, families of operations |
| `VnfLcmSystem_proofs` | theorems and proofs about `VnfLcmSystem`: locks, rows, grants |
| `LcmOwner_proofs` | who writes an operation's state, and when its grant is deleted |
| `LcmSerial_proofs` | a waiting client: the refinement of `LcmOpOcc`, and that row and VIM agree |
| `AutoHealTimer` | `timer_map` and the timers of both monitoring drivers, the threads that fill, expire and cancel them |
| `FaultManagement` | alerts in the API server, alarms stored by the conductor, acknowledgements |
| `PrometheusRules` | rule files on the hosts of a job or threshold: outcomes of an upload or a deletion that fails half way, as operators |
| `PmJob`, `PmThreshold` | requests on jobs and thresholds, alerts, and the conductor that stores reports and crossings |
| `CsarCache` | cached package directories, requests and operations that read, make and delete them |
| `ServerNotifier` | registrations at a server notifier across operations that fail, are retried, rolled back or given up |
| `VnfPackages` | package requests, onboarding by several conductors, usage state |
| `LcmV1` | one v1 VNF instance, its requests, the conductor's handlers step by step, a Heat stack |
| `MCServices` | the eight modules above for TLC, one at a time |
| `Monitoring_proofs` | theorems and proofs about `AutoHealTimer` and `ServerNotifier` |
| `FaultManagement_proofs`, `Pm_proofs` | about alarms, jobs and thresholds |
| `Packages_proofs` | about `CsarCache` and `VnfPackages` |
| `LcmV1_proofs` | about `LcmV1` |

### State

`inst`, `lcmocc`, `grants` are the tables (GrantRequestV1 and GrantV1 of an
operation are written and deleted one after the other, and are one set here).
`lock[i]` is the holder of an instance's lock. `queue[m][o]` counts the casts of
RPC method `m` for operation `o` that no handler has received. `stack[i]` is the
VNF in the VIM. `api[a]`, `wk[w]`, `sync` are threads with a program counter and
the local data the code keeps across steps: the lcmocc state a handler read
before it got the lock (`seen`) and the instance row it will write back (`row`).
`conductor` and `boot` are the life of the conductor process and the recovery's
progress. `spent` counts what is bounded.

An instance row keeps its state, one scale level, whether vimConnectionInfo is
set, and which operation configured it last (`conf`); the VIM resources keep
their existence, level and configuration. So a property can tell whether the two
agree, which is all that the properties need from a heat stack or a manifest.
SCALE is split in SCALE_OUT and SCALE_IN with one step.

### Actions and code

A step of the model ends where another thread can see a difference: at a row
write, at taking or releasing a lock, at sending or receiving a message, at the
call to the VIM.

* `RequestAccept` is a request up to its last check, with the lock where the
  code takes it (`Locked`: not for scale and heal); `RequestCreate` stores the
  lcmocc; `RequestCast` sends; `RequestRelease` is the `finally` of the lock.
* `ErrRead` reads the lcmocc of a retry, rollback or fail request; `ErrLock`
  takes the lock and checks, on what was read; `ErrReject` is its refusal.
  `FailCommit`, `FailGrants` are the end of `_lcm_op_occ_fail`.
* `ReceiveCast` is `get_lcmocc` of an RPC method, before the lock. `HandlerBegin`
  takes the lock, checks `seen`, reads the instance, and for retry and rollback
  stores PROCESSING or ROLLING_BACK. `HandlerDrop` is the early return,
  `HandlerTimeout` the ten seconds.
* `GrantSave`, `GrantProcessing`, `GrantFail`; `Regrant`, `RegrantFail`;
  `VimOk`, `VimFail` (with or without effect); `Commit` or `CommitRow`; `Abort`
  (the `except` branch) follow the handlers line by line.
* `RecoverOcc` repairs one lcmocc and notifies; `RecoverAbort` is `get_inst`
  raising; `RecoverNext` is the next pass, and at the last one the service is up.
* `SyncList`, `SyncLock`, `SyncSkip`, `SyncCommit` are `_sync_db`.

### The services

They share no row with the core model or with each other, so `MCServices` runs
one per behaviour: the state spaces add up. What couples them to the LCM appears
as an action of their environment: `PodGone`, `terminate_vnf`, `create_inst` and
`delete_inst` of the cache, the main process of an operation in `ServerNotifier`.

Several services break their own promises in narrow races that the code knows
nothing about: two alerts before the cast of the first, a report stored during a
request, two conductors that both read `downloading` 0. Such a race is recorded
in a history variable when it happens (`crowded`, `ackRaced`, `jobRaced`,
`hasty`, `swept`, `damaged`, `snLeak`, `pkgSplit`, `pkgCut`, `usageRaced`,
`v1Late`, `v1Taint`), and the property is stated for what was not in one. So a
property says how much holds, its comment says exactly when it does not, and
the corresponding hazard in PROJECT.json says at which line. The history
variables are read by no guard.

* `AutoHealTimer`: both drivers have the same shape and are told apart by
  `Drivers`. A timer is created (`notify`, `enqueue_heal`), stored and appended
  to (`StoreTimer`) in two steps; `Expire` takes the queue and removes whatever
  timer the map holds then, as the code does.
* `PmJob`, `PmThreshold`: a request holds its lock from its first step to its
  last and is refused if it is taken. The conductor takes it for a threshold
  (`update_threshold_state_data`) and not for a job (`_store_report`,
  `update_report`, `_update_job_reports`). Time is a bounded counter.
* `CsarCache`: a directory is absent, partial or whole.
* `ServerNotifier`: an alarm is a number, so that an alarm registered twice and
  one that is forgotten can be told apart.
* `VnfPackages`: an upload passes through a request, a cast to one conductor and
  a cast to all; `downloading` is counted up, the CSAR extracted, `downloading`
  counted down, looked at, the rows made and the state saved, in six steps of
  each conductor. `revert_upload_vnf_package` is the decorator around them. All
  packages have the same VNFD, of which one at a time is in the table; the deletion of a v1 instance
  and the built-in NFVO look up the package that has the VNFD now, which need not
  be the one the instance was created from (`usageRaced`).
* `LcmV1`: the client is patient: it sends a request when the last one was
  served or was cancelled. A handler is a chain of steps between two writes that
  others see; its copy of the row is saved as the code saves it, with or without
  the fields that `save` leaves out. `ep` is the error point, which the retry
  skips to and the rollback goes back from. `v1Taint` has "apart" once an attempt
  has forgotten something about the stack that the row or scale_group still has.

### Transactions

The code writes inst, lcmocc and grants inside
`with context.session.begin(nested=True)`. But `_save` and `delete` of
`objects/base.py:335-360` run in their own `context_manager.writer` scope, on a
session of their own, and commit when they return. The constant `TxAtomic`
chooses: FALSE is what the code does (each row is one transaction), TRUE is what
the blocks intend. Properties that need the blocks to be atomic are checked with
TRUE, and `split_update` shows that FALSE breaks one.

### Clients

`SerialClient` restricts clients to those that wait: no new request for an
instance while one of their requests, casts or transient operations is under
way. A client that does not wait is what the API permits; a client that waits is
what the comment in `check_lcmocc_in_progress` and the lock's own comment count
on ("race condition of very short time is not considered").

## 3. Runs

| run | setting | shows |
|---|---|---|
| `races` | 3 operations, 2 request threads, 2 handlers, any client, failing writes and VIM calls, row-by-row commits | `TypeOK`, `ExclusiveAccess`, `HandlerOwnsOcc`, `NoLostUpdate`, `VimUnderGrant` |
| `crashes` | all operation types, crashes of both processes, transactions | `GrantOnlyWhileOpen`, `HandlerOwnsOcc` |
| `serial` | waiting client, crashes, row-by-row commits | `FailedTempHasGrant`, `OpenOccHasInst`, and `OpOccProtocol`: the lcmocc rows implement `LcmOpOcc` |
| `serial_tx` | waiting client, two conductor crashes, transactions | `VimMatchesDb`, `ScaleWithinLimits` |
| `liveness` | waiting client on a CNF, a crash, a pod change, fairness | `OpSettles`, `StartupCompletes`, `SyncCatchesUp` |
| `dbsync` | CNF, automatic operations, synchronization, a crash | `NoLostUpdate` |
| `scale_race` | any client | `ScaleWithinLimits` is violated |
| `double_retry` | any client | `FailedTempHasGrant` is violated |
| `startup_blocked` | any client, fairness | `StartupCompletes` is violated |
| `split_update` | waiting client, row-by-row commits | `UpdatedTogether` is violated |
| `services` | each service on its own, with fairness of timers and of the v1 conductor | `NoDeadTimer`, `HealsNamedVnfcs`, `NotifiedHealed`; `OneOpenAlarm`, `AlarmTracksAlert`, `AckConsistent`, `ClearedForGood`; `JobComplete`, `OneReportPerPeriod`; `ThresholdKept`, `CrossingIsReal`; `OwnPackageStays`, `NoPartialCache`; `AlarmsMatch`, `AlarmsKnown`; `FailedTempIsError`, `Operational`, `V1VimMatches`, `CancelHolds`, `V1Settles`; `OnboardedComplete`, `UploadRetryable`, `DeletedClean`, `UsageTrue` |
| `v1_retry` | patient v1 client | `RetriedOperational` is violated |

What the violations mean:

* `scale_race`: two scale-outs accepted before either has run are both checked
  against the same level (`scale` takes no lock), and nobody checks again.
* `double_retry`: the conductor checks operationState on the row it read before
  it waited for the lock. A second retry therefore runs after the first has
  completed, does not find the grant, and turns COMPLETED into FAILED_TEMP.
* `startup_blocked`: an instance can be deleted while its MODIFY_INFO is in
  PROCESSING and the cast is still in the queue. If the conductor dies then, its
  recovery raises at `get_inst` and so does every later start.
* `split_update`: a crash after `inst.update` and before `lcmocc.update` leaves
  an instance that carries an operation which the recovery puts in FAILED_TEMP;
  retried, a scale is applied twice.
* `v1_retry`: a CHANGE_EXT_CONN that failed leaves task_state ERROR, and the
  retry that completes it does not set it back; terminate, scale and heal are then
  refused, although the user guide says that after a successful retry another
  operation is possible.

### Bounds

One instance: no row, lock or message is shared between instances, so a second
one adds interleavings only (the proofs cover any number). Two or three
operations: two race, the third is the INSTANTIATE before them. Two threads of
each kind race; a third would wait on the same lock. MaxLevel is 1 and InitLevel
0, so that both limits are one step away. `MaxErr` (retry, rollback and fail
requests) is 2, so an operation can be retried and rolled back, or retried twice.
Crashes are 1, or 2 in `serial_tx`, so that the recovery itself is interrupted.
The runs end when identifiers and budgets are used up, hence no deadlock check.
Threads, operations and handlers are interchangeable; symmetry is used for the
invariants and for the safety refinement, not for liveness.

In `services` each bound is the smallest at which the race in question happens:
two timers of an instance at a time and a third to replace them, three alerts;
two fingerprints in a body, so that one entry can end the loop before the other;
two hosts for rule files, so that one can fail; two request threads and two
workers of a job or threshold; time 0..3 with a period of 1 and a boundary of 2;
values on, between and outside both limits of a threshold and 0, which the code
takes for none; two VNFDs and two instances, so that one moves to the other's
package; three servers, so that a registration fails after one and before another;
two operations of a v1 VNF with two retries or rollbacks and a crash, levels 0 to
2; two conductors, two request threads and one upload of a package. (Two uploads
make the state space of `VnfPackages` some sixty times larger.)

### Fairness

In the core model request threads, handlers, recovery and synchronization are weakly fair: their
calls end by themselves or by timeout. A handler that waits for a lock is
strongly fair, because it waits ten seconds and the synchronization takes the
lock once per interval. The queue delivers every cast to an idle handler of a
running conductor. A conductor that is down is started again, by its supervisor.
Clients, crashes, VIM changes and the failure of calls are not fair. `OpSettles`
is checked without `SlowSteps` and without crashes of the API server: a handler
whose ten seconds pass, or a request that dies before its cast, leaves the
lcmocc in STARTING until the conductor is restarted, and nothing in the code
repairs it earlier.

In the services only what the code itself runs on is fair: the threads of an RPC
server that have begun and the timers (`HealFairness`; a started green thread or
`threading.Timer` is always served in the end), and the v1 conductor with its
queue (`LcmV1Fairness`). Clients, alerts, failures and crashes are not.
`NotifiedHealed` therefore assumes no further alert, only that an expired timer
runs, and `V1Settles` no particular outcome of a call to Heat.

## 4. Proofs

### The LCM core

`VnfLcmSystem_proofs` proves, for any sets of instances, operations and threads,
any bounds and any setting of the switches:

* `TypeCorrect`: `Spec => []TypeOK`;
* `Exclusion`: `Spec => []ExclusiveAccess`;
* `NoLostUpdates`: `Spec => []NoLostUpdate`;
* `GrantBeforeVim`: `Spec => []VimUnderGrant`.

They rest on the assumptions of `LcmTypes` and `LcmState`: names of threads and
null values are distinct, levels are ordered, operation families are operations,
bounds are naturals. All follow from `Inductive`: `Spec => []IInv`, where

    IInv == TypeOK /\ RefInv /\ LockInv /\ RowInv /\ GrantInv

None of the four properties is inductive alone.

* `RefInv`: an lcmocc that a thread, a message or the recovery refers to is
  stored, and names an instance. Needed to know which lock a thread means: an
  lcmocc never changes its instance (`OccKept`), and an identifier that a
  request has chosen and not stored yet is used by nobody else (`OccApart`).
* `LockInv`: who is at work on an instance holds its lock. The key lemma is
  `LockMoves`: a lock that is held changes only if its holder goes idle, which
  covers release, crash of a request thread and crash of the conductor.
* `RowInv`: a handler's or the synchronization's copy of a row is the row.
  `InstMoves`: a row is written by `create`, or by the lock's holder, who has no
  copy left to write afterwards. A handler's copy may differ from the row by what
  `instantiate_post_grant` filled in, which is idempotent (`PostGrantTwice`).
* `GrantInv`: past the grant, the grant is on record. `GrantMoves`: grants are
  deleted by the handler of that operation as it ends, or by a fail request that
  holds the lock of its instance; neither can happen under another handler.

`LcmOwner_proofs` goes on from there, under the same assumptions:

* `OwnedByHandler`: `Spec => []HandlerOwnsOcc`;
* `GrantsClosed`: `TxAtomic => (Spec => []GrantOnlyWhileOpen)`.

`OwnerInductive` is `Spec => []FullInv`, `FullInv == IInv /\ OInv`. The lock is
not enough here, because operationState is checked on what was read before the
lock. `OInv` says instead who can still write to an lcmocc:

* `StartInv`: of an lcmocc there is at most one request about to send start_lcm_op,
  message or handler of it, and what that handler read before it waited is still
  true;
* `PastInv`: what a retry, rollback or fail request, its message and its handler
  refer to has left STARTING, for good;
* `ProcInv`: handlers run while the conductor is up, the recovery while it starts;
* `FlowInv`: each handler stays on the path of its method.

`GrantsClosed` needs the blocks to be atomic: with rows committed one by one, a
crash between lcmocc and grant leaves the grant of an operation that is over.

### A client that waits

`LcmSerial_proofs` is about

    Serial == SerialClient /\ AutoOps = {} /\ ~DbFaults /\ "MODIFY_INFO" \notin ClientOps

a client that waits for what it started, no operation by monitoring, no failing
write, no MODIFY_INFO (whose cast may outlive its operation). Crashes, failing
grants and VIM calls, slow steps, and rows committed one by one are in it, as are
any number of instances, operations and threads.

* `FailedTempRetryable`: `Serial => (Spec => []FailedTempHasGrant)`;
* `OpenOccsHaveInst`: `Serial => (Spec => []OpenOccHasInst)`;
* `ImplementsSol003`: `Serial => (Spec => OpOccProtocol)`, the refinement: every
  step is an edge of SOL003's state machine, or leaves the occurrences alone.

`SerialInductive` has the invariant, `SerialInv == FullInv /\ SInv`. Its parts say
that an instance has one request under way (`RequestInv`); that a retry, rollback
or fail which is under way is the only one of its lcmocc, and the lcmocc is in
FAILED_TEMP until it acts (`ErrInv`: this is what `double_retry` breaks); that the
recovery's list is not stale (`BootInv`); and that an open operation has its grant
and its instance (`GrantKept`, `OpenOccHasInst`, `RowExists`).

* `LevelBounded`: `Controlled => (Spec => []ScaleWithinLimits)`;
* `VimAgrees`: `Controlled => (Spec => []VimMatchesDb)`,

where `Controlled == Serial /\ TxAtomic /\ CnfInsts = {}`. Both conditions are
needed: `split_update` is the counterexample without the first, and the pods of a
CNF change by themselves. `VimInv == SerialInv /\ VInv` adds that one operation is
open on an instance (`OneOpen`), that what its request was checked for still holds
when the conductor acts on it (`AllowedInv`), and that the VIM holds what the row
says, or what the open operation or its rollback makes of it (`StackInv`,
`CommitInv`). The lemmas of `StackAlgebra` say why a retry is harmless: an
operation done twice, done after it failed with effect, or undone, gives the same
stack.

`SerialInv` and `VimInv` were checked by TLC with the constants of `serial_tx`
before they were proved.

### Services

* `Monitoring_proofs`, `NoTimerIsDead`: `HealSpec => []NoDeadTimer`, from
  `HealIInv == HealTypeOK /\ NoDeadTimer /\ Filed /\ Unfiled`. `NoDeadTimer` alone
  does not survive `StoreTimer`: `Unfiled` says that a timer which a thread has
  made and not stored yet is running, is in no map and is no other thread's;
  `Filed` that the timer in the map of a driver for an instance is that driver's
  and that instance's, so that a timer which expires, and removes the entry of its
  instance, cannot stay in the map under another one. `HealsAreNamed`:
  `HealSpec => []HealsNamedVnfcs`, from `Named`, which says so of the casts, of the
  threads and of the queues of the timers that a heal is made from.
* `FaultManagement_proofs`, `ClearedStays`: `FmSpec => ClearedForGood`, an action
  property. `FmIInv` adds to the types that an alarm in a cast has been given its
  identifier (`CastsMinted`): without it `store_alarm_info` could create an alarm
  over a cleared one. What makes it true is that `_save` merges only the fields
  that are set, and that the copies in requests and casts never set
  alarmClearedTime to none. `AcksAgree` (`AckConsistent`) needs that the copy in a
  cast or a request still agrees with the row (`AckInv`). `OneAlarmPerAlert` and
  `AlarmsTrackAlerts` follow from `FingerprintsTracked`, `FmSpec => []TrackInv`: a
  fingerprint has at most one cast under way, and the open alarm, if there is one,
  is the one of the alert that fires or that the cast is about to clear.
* `Pm_proofs`, `JobsComplete` and `ReportsApart`: `PmJobSpec => []JobComplete` and
  `[]OneReportPerPeriod`, from `JobInv`. A job in use by nobody is described by
  `CleanJob`: what the row lacks is in the hands of the one thread that works on
  it. `CastsApart` orders the reports in casts and in the table; `BlankJob` says
  that an identifier which has not been used yet appears nowhere.
* `Pm_proofs`, `ThresholdsKept`: `PmThresholdSpec => []ThresholdKept`.
  `ThrIInv` has the lock of a request that is under way (`ThrLockInv`), the copy it
  will write back (`ThrCopyInv`) and that nothing is known of a threshold whose row
  is still to be created (`ThrNewInv`), each for any number of clients and workers.
  `ThrLockInv` says that at most one client or worker is past the lock of a
  threshold; the copy that it writes back as a whole row therefore still has what
  the others set last. `CrossingsAreReal` (`CrossingIsReal`) adds that the value a
  worker compares with is the one notified last (`ComparedInv`) and that one alert
  of a threshold is under way (`OneUnderWay`).
* `Packages_proofs`, `PackageStays` and `NoPartialLeft`: `CsarCacheSpec =>
  []OwnPackageStays` and `[]NoPartialCache`, from `CacheInv`: a directory that was
  not deleted in use is whole while an operation uses it, and otherwise in one pair
  of hands (`DirOk`); an incomplete one has somebody who completes or deletes it
  (`Attended`); the instance of an operation has its row (`OpRows`).
* `Monitoring_proofs`, `AlarmsFollow` and `AlarmsRemembered`:
  `ServerNotifierSpec => []AlarmsMatch` and `[]AlarmsKnown`, from `SnInv`. The
  argument is one equation (`Told`): the notifier has for each server the alarm
  that the error data names, and where that is silent, the alarm of the row. It
  survives a step that fails at any server, because a registration and an
  unregistration are noted as they happen (`RegisteredIs`, `UnregisterTold`), and a
  merge changes only what neither the row nor the instance in hand has
  (`MergeTold`). `WorkOk` says what the copy of the instance is at each step.
  The set of servers is assumed to be finite.

* `Packages_proofs`, `OnboardedIsComplete`, `UploadIsRetryable`, `DeletedIsClean`:
  `VnfPackagesSpec => []OnboardedComplete`, `[]UploadRetryable`, `[]DeletedClean`,
  from `PkgInv`, for any number of packages, requests, uploads and instances; the
  conductors are assumed to be finitely many (they are counted) and both sets not
  to be empty. `PkgInv` describes a package in each of its onboarding states: what
  is in the store, in the tables, in the casts and at each conductor. PROCESSING is
  the hard one. Either `Racing` holds: `downloading` is the number of conductors
  that are counted in and not out; or `Won`: one of them found 0, all the others
  are through, and it is alone with the rows and the state. `Same` carries
  the invariant of a package over every step of another one.
  `UploadRetryable` was first stated for a package that no conductor is at work on
  any more; the proof shows that it does not need this, and it is now stated, checked
  and proved without. `UsageIsTrue` (`UsageTrue`) adds `UsagesInv`: outside of a race
  there is one request on an instance, and what it read about the instances is
  still so when it writes the usage state.
* `LcmV1_proofs`, `FailedTempInError`, `CancelIsKept`, `V1Operational` and
  `V1StackMatches`: `LcmV1Spec => []FailedTempIsError`, `CancelHolds` (an action
  property), `[]Operational` and `[]V1VimMatches`, for any number of operations,
  retries and crashes and any level, from bounds that are naturals. The invariant
  has layers, each under the condition that its properties have:
  `V1Parts` (no second operation): only the last operation is open, and its cast and
  its handler know the state it is in, so that FAILED_TEMP goes with ERROR;
  `CalmParts` (no handler was cancelled): the row copies that a handler will save are
  the row, up to the fields it has set; `OpParts` (`Plain`: no operation COMPLETED
  by a retry past its last step): status, task_state and instantiation_state at each
  step; `VimParts` (`Faithful`: no taint and no crash): what is known of the stack
  at each error point (`OpenVim`), which is what a retry and a rollback rely on.

Two attempts failed for a reason. A HEAL that fails after it has forgotten the
scale level leaves scale_group with that level, so row and stack part beyond the
bounds of the run; this is now a taint ("apart"), as for the other attempts that
forget. And `CancelHolds` was false as first stated, for any cancelled operation.
The run does not reach the counterexample: a SCALE is retried, cancelled and failed;
its late handler writes PENDING_SCALE_OUT and the conductor dies; a CHANGE_EXT_CONN,
which checks no status, is cancelled at its first step and failed, and its handler
completes it. The property now speaks of an operation that is still in FAILED_TEMP,
which a client may retry, roll back or fail. In `VnfPackages` the same happened with
`UsageTrue`, which led to the lookup of the package that has the VNFD now.

Every safety property of the passing runs is proved. Only model-checked: liveness
(`OpSettles`, `StartupCompletes`, `SyncCatchesUp`, `NotifiedHealed`, `V1Settles`),
whose fairness is out of the prover's reach.

## 5. Not modelled

Subscriptions; contents of grants, templates and manifests; scripts other than
the server notification driver; policies, validation and routing; HTTP to an
external NFVO; parsing of packages. Notifications are left out of the handlers,
where they run in threads of their own and change no row; at the recovery the
built-in NFVO's exception is modelled. There is one v2 conductor process:
`_change_lcm_op_state` of a second one would repair the operations that the first
is working on. A crash of a conductor is modelled in the LCM of both versions and
in the CSAR cache; in `VnfPackages` and `ServerNotifier` it is not, because nothing
in the code picks up what it leaves. v1 requests that overlap are not modelled.

Most of the repository's lines are of a kind that a state machine says nothing
about: sample packages and their management scripts (`src/samples`), infra drivers
that translate requests to Heat, Kubernetes, Helm, Ansible and Terraform calls, object and
schema declarations, database migrations, views, policies, and the legacy NFVO and
NS plugins. Their control appears in the models as the outcome of a call. The
share of lines the modules translate is therefore small, and is where the state
and the concurrency are. PROJECT.json gives the reason for each component.

## 6. Plan

1. done: the LCM core, its runs, the inductive invariant and four theorems.
2. done: the services, v1 and packages; theorems about timers, alarms and
   thresholds.
3. done: proofs that a handler owns its operation, of the refinement of `LcmOpOcc`
   and of `VimMatchesDb` for a waiting client, and of the timers, alarms, jobs,
   thresholds, cache and registrations.
4. done: proofs for `VnfPackages` and `LcmV1`.
5. resourceChanges, the VNFC list of `_make_inst_info_common`, and the selection
   of VNFCs for scale-in and heal, as pure algorithms against reference definitions.
6. v1 on Kubernetes, where scale and rollback take other paths; the vnffm and vnfpm
   subscriptions; overlapping v1 requests.
