# Volcano in TLA+

Volcano is a batch system for Kubernetes. A user creates a *Job*; the controller
manager turns it into pods and a *PodGroup*; the scheduler admits PodGroups to
*queues* and places their pods on nodes; admission webhooks check what users
write. All parts talk through the API server and see it through informers,
that is, late. This directory models the parts whose logic is the program's
own, checks them with TLC on small instances and proves the central results
with TLAPS for every instance.

Modelled are the job controller with its state machine and cache, the queue,
PodGroup and garbage collecting controllers, the admission webhooks, the
scheduler's cache, its sessions with their actions and plugins, and the way of a
task's volumes and devices. The theorems are about the job controller, the
scheduler cache, the controller manager with its webhooks and the binding of
volumes.

## 1. Inventory

### Controller manager

| part | source | state | operations | what is hard | what makes it correct |
|---|---|---|---|---|---|
| job controller | `pkg/controllers/job` | work queues (one per worker, a Job always hashes to the same one), `errTasks`, `commandQueue`, informers' listers | `processNextReq`, `killJob`, `syncJob`, `initiateJob`, `createOrUpdatePodGroup`, `waitDependsOnTaskMeetCondition`, handlers for Jobs, pods, PodGroups, Commands, `processResyncTask` | a request works on a copy of the cache while handlers, users and nodes go on; every API call may fail half-way; requests are retried; restarts | the status follows its life cycle; restarts are bounded; no pod of a discarded generation triggers a policy; pods exist only for live Jobs; kills end |
| job state machine | `pkg/controllers/job/state` | none (functions of phase, action and counters) | `Execute` of nine states | counters come from a cache that forgets pods early | each phase has the right successors |
| job cache | `pkg/controllers/cache`, `pkg/controllers/apis` | `jobs`: Job and pods by task; `deletedJobs` queue | `Add`, `Update` (refuses older resource versions), `Delete`, `AddPod`, `UpdatePod`, `DeletePod`, `TaskCompleted`, `TaskFailed`, `processCleanupJob` | two writers (worker and informer); delayed clean-up by key while the Job is created again | never goes back to an older Job; clean-up removes only what was deleted |
| job plugins | `pkg/controllers/job/plugins` | objects (Services, ConfigMaps, Secrets) and `Status.ControlledResources` | `OnJobAdd`, `OnPodCreate`, `OnJobDelete`, `OnJobUpdate` | idempotence | objects exist before pods do |
| queue controller | `pkg/controllers/queue` | PodGroups per queue, request and command queues | `syncQueue`, `openQueue`, `closeQueue` for states Open, Closing, Closed, Unknown | state computed from listers; several requests about one queue at once; two writes (spec state, then status) | a Closed queue has no PodGroups left; an accepted command takes effect |
| podgroup controller | `pkg/controllers/podgroup` | pod queue | `createNormalPodPGIfNotExist`, `updatePodAnnotations` | two writes, retried | a bare pod gets one PodGroup |
| garbage collector | `pkg/controllers/garbagecollector` | delayed queue of Job keys | `processJob`, `processTTL` | a Job that is replaced or edited while its TTL runs | only a finished, expired Job is deleted, and by UID |

### Scheduler

| part | source | state | operations | what is hard | what makes it correct |
|---|---|---|---|---|---|
| scheduler cache | `pkg/scheduler/cache` | `Jobs`, `Nodes`, `Queues`, `errTasks`, `DeletedJobs`, `BindFlowChannel` | event handlers, `AddBindTask`, `BindTask`, `Evict`, `Snapshot`, `processResyncTask`, `processCleanupJob` | binding is asynchronous and fails late; handlers and resync overwrite each other | accounting equals the tasks held; a failed bind is undone |
| scheduler api | `pkg/scheduler/api` | `NodeInfo` (Idle, Used, Releasing, Pipelined), `JobInfo` (tasks by status) | `AddTask`, `RemoveTask`, `UpdateTask`, `UpdateTaskStatus` | arithmetic over task states | Idle + Used = Allocatable, Used = sum of tasks |
| session and statement | `pkg/scheduler/framework` | a snapshot; operations of a Statement | `Allocate`, `Pipeline`, `Evict`, `Commit`, `Discard` | undo in reverse, with errors | Discard restores the session; Commit sends what was done |
| actions | `pkg/scheduler/actions` | none of their own | enqueue, allocate, backfill, preempt, reclaim, shuffle | order of queues, jobs and tasks; all-or-nothing gangs | no partial gang is bound; no over-allocation |
| plugins | `pkg/scheduler/plugins` | shares, per session | gang, proportion, drf, predicates, ... | numeric fixpoints | deserved shares within capability |
| volume binding | `pkg/scheduler/capabilities/volumebinding` | assume caches of volumes and claims | `FindPodVolumes`, `AssumePodVolumes`, `RevertAssumedPodVolumes`, `BindPodVolumes`, `checkBindings` | choice, assumption and binding are far apart; informers and the PV controller write in between | a bound pod reaches its volumes |
| device sharing | `pkg/scheduler/api/devices` | card usage per node (shared by cache and sessions), annotations of pods, node locks, handshakes | `FilterNode`, `Allocate`, `Release`, `AddResource`, `SubResource` | counts are kept twice and rebuilt at any node update; unsigned arithmetic | no card is sold twice; counts come right |
| scheduler loop, metrics | `scheduler.go`, `metrics` | configuration; counters | `Run`, `runOnce`, `loadSchedulerConf` | a panic ends the process | every session ends |

### The rest

Admission webhooks (`pkg/webhooks`) check and default single objects and keep no
state, but the controllers rely on what they refuse; the command line (`pkg/cli`, `cmd/cli`) makes one API call per command;
`cmd/*` starts the servers, with leader election so that one controller manager
is active.

### How the parts meet

The job controller creates a PodGroup with `minMember`; the scheduler's
*enqueue* action moves it from Pending to Inqueue; only then does the job
controller create pods (`syncTask`); the scheduler binds them when the gang
fits; kubelets run them; their events come back to the job controller through
the pod informer, which updates the cache and queues a request; a lifecycle
policy may turn that request into a restart, and a kill raises
`Status.Version` so that requests of older pods no longer count. Users act
through the Job's spec and through bus Commands, which the controller deletes
before it obeys them.

## 2. Modules

| module | what it is |
|---|---|
| `JobPhase` | the abstract specification: what the status of a Job (phase, retry count, version) may do |
| `JobController` | the job controller, its state package, its cache and its surroundings, for one Job |
| `JobController_proofs` | theorems about `JobController`: types, refinement of `JobPhase`, retries |
| `JobGenerations_proofs` | theorems about `JobController`: the generations of pods |
| `ApiServer` | what the other controllers share: objects, and for every informer its feed, its store and the handler calls still due |
| `Webhooks` | defaulting and validation of Jobs, queues, PodGroups and pods, as operators |
| `QueueController`, `PodGroupController`, `GarbageCollector`, `JobCache` | one component each |
| `ControllerManager` | their composition on one API server behind the webhooks, with users, the scheduler and Kubernetes' controllers |
| `ControllerManager_proofs` | theorems about `ControllerManager`: types, what is admitted, what is collected |
| `JobCache_proofs` | theorem about `ControllerManager`: what the job controller's cache shows |
| `SchedulerApi` | `NodeInfo` and the status of a task, as operators |
| `SchedulerCache` | the scheduler's cache with its goroutines; sessions are abstract here |
| `SchedulerCache_proofs` | theorems about `SchedulerCache`: types, the accounting of nodes; first the lemmas about sums over pods and about `NodeInfo` |
| `SchedulerPlaces_proofs` | theorem about `SchedulerCache`: what is bound fits |
| `SchedulerMirror_proofs` | theorem about `SchedulerCache`: what the cache shows when all has settled |
| `SchedulerPlugins` | the answers of the plugins and how a session puts them together, as operators |
| `Session` | the scheduler loop: sessions, statements and actions; the cache is abstract here |
| `VolumeBinding` | the volume binder and its assume caches |
| `DeviceSharing` | gpushare and vgpu: what fits, what is counted, as operators |
| `TaskBinding` | the way of a task with volumes or cards from a session's choice to the bound pod; extends the two before |
| `TaskBinding_proofs` | theorems about `TaskBinding`: what volumes and claims keep, what a bound pod has |
| `MCJobController`, `MCControllers`, `MCSchedulerCache`, `MCSession`, `MCTaskBinding` | the instances TLC runs |

### JobController

One Job, because requests about one Job are handled by one worker
(`getWorkerQueue` hashes the key) and the cache has one entry per Job; workers of
different Jobs share nothing the properties speak of.

*API server.* `job` (status and the part of the spec that may change, with its
resource version), `pod`, `pg` and `cmds`. Status counters are not stored as
numbers: `obs` says under which heading the controller last counted each pod and
`Count`, `TaskCount`, `HasTaskStatus` read the counters and `TaskStatusCount`
from it, so several counters can never disagree by accident of the model.
`StoreJob` refuses nothing itself; `Conflict` is the resource version check of
`UpdateStatus`. A write that changes nothing does not raise the version, as in
etcd.

*Informers.* `jobWatch`, `podWatch`, `pgWatch` are the events in flight, one
ordered stream for each kind and no order between streams; `jobSeen`,
`podSeen`, `pgSeen` are the objects last delivered, that is, the `oldObj` of the
next update and what the listers return. The handlers run directly after the
store is updated; the delay between the two is part of the delay of the stream.

*Controller.* `cjob` and `cpod` are the cache entry; `reqs`, `again`, `delayed`
and `tries` the rate limiting work queue (deduplicated, with the dirty and
processing sets of client-go); `w` the worker; `errTasks` and `rs` the resync
loop. The worker's steps are cut at its API calls: between two calls nothing
else can observe it, between two calls anything else may happen. Pod creations
and deletions run in goroutines in the code and in any order in the model.

| code | action or operator |
|---|---|
| `processNextReq`, `state.NewState(...).Execute` | `processNextReq`, `Execute`, `IsKill`, `killStatus`, `syncStatus`; the error path with `maxRequeueNum` is `Requeue` |
| `killJob` | `killJob` (what it counts and decides at once), `deleteJobPod`, `podCallsFailed`, `UpdateStatus`, `cacheUpdate` with `deletePodGroup` |
| `syncJob`, `initiateJob`, `initJobStatus` | `syncJob`, `UpdateStatus` (pc "init"), `createOrUpdatePodGroup`, `readPodGroup` with `classifyPods`, `waitDependsOnTaskMeetCondition`, `createPod`, `deleteJobPod`, `UpdateStatus` (pc "sync"), `cacheUpdate` |
| `state/*.go` | `liveKill`, `pendingSync`, `runningSync`, `restartingState`, `abortingState`, `abortedState`, `completingState`, `terminatingState`, `finishedState` |
| `applyPolicies` | `applyPolicies` |
| handlers | `addJob`, `updateJob`, `addPod`, `updatePod`, `deletePod`, `updatePodGroup`, `processNextCommand` |
| `processResyncTask`, `syncTask` | `resyncGet`, `resyncApply` |
| restart of the process | `Crash` |
| scheduler, kubelet, users | `PodGroupChanges`, `PodChanges`, `EvictPod`, `RestartContainer`, `ScaleTask`, `DeleteJob`, `IssueCommand` |

`Scenarios` is the set of Jobs users create, each with a budget of disturbances:
how often an API call is refused (`err`) or stored with its reply lost (`lost`),
the controller restarts (`crash`), a user edits (`scale`), deletes (`delete`) or
commands (`cmd`), the reply to a Command's deletion is lost (`drop`), a pod is
evicted (`evict`) or a container restarts (`restart`). The proofs hold for
every such set. `unanswered` is a history: the reply to a status write was lost
and the controller has not restarted since.

Left out of `JobController`, and why:

* all pod templates are alike, so the only part of the PodGroup's spec that
  varies is `minMember`; the phases "" and Pending of a PodGroup are one;
* volumes, plugins, extended clusters and the queue lookup of `initiateJob` and
  `initOnJobUpdate` are idempotent and appear as calls that may fail (the `err`
  disjunct of `createOrUpdatePodGroup`);
* exit codes of policies: another key for the lookup that `applyPolicies` models;
* readiness of containers in `isDependsOnPodsReady` only delays that step;
* the "10 times" limit of the resync loop is a choice to give up at any time;
* the delay of a requeued request is any delay;
* `TaskMinAvailable` is always set, as the mutating webhook does; `minSuccess`
  may be unset;
* lost replies are modelled where the object is written by version
  (`UpdateStatus`) and where a command may vanish (the Command's deletion); for
  pods a lost reply is a success followed by AlreadyExists or NotFound;
* removal of the Job object and its re-creation under the same name.

Bounds named in the model: `MaxReplicas` (pod names in use), `Lag` (events in
flight per informer), the budgets of `Scenarios`. `Lag` only delays writers; a
larger value lets more events queue up.

### ControllerManager

`api` holds the objects by kind and name, each with `uid` and `rv`; a write
appends to the `feed` of every informer of that kind. An informer first changes
its `store`, which listers read, and later calls the handlers (`note`), so a
handler or worker may read a store that is ahead of the call it is in. A restart
empties the stores and queues.

| code | action or operator |
|---|---|
| queue handlers, `handleQueue`, `handleQueueErr`, `handleCommand` | `OnQueue`, `OnGroup`, `OnCommand`, `QueueWorker`, `handleCommand`; the retries of the rate limiting queue come back in any order (fairness of `QueueOldestBack` says that none waits for ever) |
| `syncQueue`, `openQueue`, `closeQueue` | `QueueUpdate`, `QueueGet`, `QueueUpdateStatus`, one for each API call |
| `state/*.go` | `openState`, `closingState`, `closedState`, `unknownState` |
| `addPod`, `addReplicaSet`, `createNormalPodPGIfNotExist`, `updatePodAnnotations` | actions of the same names, with `PgAdd`, `PgRetry`, `PgDone` as the work queue; several workers |
| `processJob`, `processTTL` | `processJob` (the lister's copy is judged), `GcGet` (the fresh one), `GcDelete` |
| `jobCache` | `Add`, `Update`, `Delete`, `AddPod`, `UpdatePod`, `DeletePod`, `processCleanupJob` |
| `AdmitJobs`, `AdmitQueues`, `AdmitPods`, the mutations | `validateJobCreate`, `validateJobUpdate`, `topoSort`, `createJobPatch`, `validateQueue`, `createQueuePatch`, `validatePod`, `createPodPatch`, `createPodGroupPatch` |

`blind` is a history of what a controller has lost sight of; each member stands
for a situation described below under *Observations*, and the properties name the
ones they leave out. `opt.on` says which informers an instance has: components
that do not interact are not multiplied with each other.

### SchedulerCache

A pod is known by name to nodes and by uid to jobs, as in the code, so a pod
re-created under its name is another task of the job and the same entry of the
node. The mutex is `Free`: it is held over one event handler, one snapshot, one
`AddBindTask` (which may block at the channel with it, `sending`), one part of
`syncTask`; never over an API call. `binds` and `evictions` are the goroutines
of `Bind` and `Evict`. The two halves of `syncTask` after its `Get` are separate
steps, because the deletion path runs without the lock. `overtaken`,
`displaced`, `crashed` and `orphans` are histories for the cases below.

### SchedulerPlugins and Session

A session is one thread on its own copy (`ssn`), so its rounds are atomic and
the interleaving is with the cluster: `cl`, which pods that vanish, nodes that
go and the kubelet change, and which `AddBindTask` and `Evict` meet when a
statement is committed. One action per round of a loop: `AllocateTask` is one
pass of the loop over tasks in `allocate.go`, `PreemptNode` one node in
`preempt`. Heaps are sets from which a first element by priority is taken; ties
and the order of maps are any order, and among the nodes that pass the
predicates any is taken, where the code takes the best score. `w` has the local
variables of the action, `st` the statement with the session as it was when the
statement was opened (`base`), `done` what was sent to the cache.

Plugins are operators of the session: `gang`, `priority`, `proportion`, `drf`,
`conformance`, `overcommit`, `sla`, `cdp`, `resourcequota`, `tdm`,
`rescheduling`. `Preemptable`, `Reclaimable`, `JobPipelined`, `JobStarving`,
`JobEnqueueable` and `VictimTasks` are the rules by which `session_plugins.go`
lets tiers decide: the first tier with an opinion, and within a tier everybody's
consent, or a vote. Resources have one dimension. `Panic` is the assertion of
`Resource.Sub` and ends the process.

### VolumeBinding, DeviceSharing, TaskBinding

A volume is a class, a size and the set of nodes that reach it; the assume caches
keep, per object, what the API server sent last and what is assumed. Cards are
counted as in the code: sets of pods for gpushare, unsigned counters modulo
`Word` for vgpu; the counters belong to the node, shared by the cache and all
sessions. `TaskBinding` has the session's `Allocate` (with its event handler
that calls `Devices.Allocate`), commit and discard, `ssn.Allocate` for gangs,
the binder with its waiting and its timeout, resync, node updates that replace
the devices, the node lock and the vgpu handshake. A node whose vgpu devices are
gone makes the scheduler panic, at the predicate (`FilterPanics`) or, if they go
after it, in the event handler (`AllocatePanics`); it then starts again. A patch of
a pod's annotations may be refused, or stored and its answer lost. `astray` is a
history of the two cases in which a claim is bound to something the scheduler did not choose.

## 3. Runs

Every `jc_` run uses one Job with one task or up to three, one or two pods, so that
each single interleaving of worker, handlers and environment is explored to the
end. One pod is enough for the races between a copy, the cache and the stored
object; the second pod and the other tasks are there for order and counting.
`CHECK_DEADLOCK FALSE`: a finished, undisturbed Job has nothing left to do.

| run | properties | what it shows |
|---|---|---|
| `jc_restart` | `TypeOK`, `PodGenerations`, `NoStalePolicy` | failures and an eviction under the restart policy, up to the last retry: a late event of a discarded pod never triggers a policy, because no request or pod anywhere is ahead of the stored version and older ones are recognised |
| `jc_disturbed` | `RetryBounded`, `ImplementsJobPhase`, `PodsOfLiveJob` | commands, restart of the controller, refused and half-successful writes, edits and deletion, one at a time, with both limits (`maxRetry`, `maxRequeueNum`) at 1 |
| `jc_tasks` | `DependsOnOrder`, `CompletedTruthfully`, `ImplementsJobPhase` | several tasks, order of creation, `minSuccess`, task policies, PodGroup Unknown |
| `jc_live` | `KillEnds`, `PodsConverge`, `PodGroupFollows` | progress under fairness, with a command, an edit, a restart of the controller or a refused call |
| `jc_gang` | `FailureNoticed` | two pods that need each other: a failed one is acted on although the other may run for ever (with one pod the Job would end by itself) |
| `jc_commands_once` | `CommandsOnce` violated | finding 1 |
| `jc_none_alive` | `NoneAliveAtEnd` violated | finding 2 |
| `jc_podgroup_exists` | `PodGroupExists` violated | finding 3 |
| `ctl` | `TypeOK`, `AdmittedJobsRun`, `JobsCached`, `CollectsExpired`, `Collected`, `QueueStatusSettles`, `PodsGrouped` | fifteen situations of the controllers around one API server |
| `sc_cache` | `TypeOK`, `NodeAccounting`, `NoOvercommit`, `AgreesWhenSettled`, `BindSettles` | eighteen situations of the scheduler cache |
| `sc_session` | `TypeOK`, `SessionAccounting`, `PromisesCovered`, `DiscardRestores`, `GangDispatch`, `GangSpared`, `DeservedKept`, `SessionEnds` | ten situations of sessions, actions and plugins; deadlock is checked, as the scheduler never stops |
| `sc_bind` | `TypeOK`, `BoundReachable`, `CardsFit`, `CardsSettle` | eleven situations of volumes and cards |

*Bounds.* The newer runs start from a set of scenarios, each a small world with
a budget of disturbances; TLC explores all interleavings within each.

* `ctl`: one or two objects of the kinds a scenario is about; `Behind` = 3 changes
  an informer may not have received and `Lag` = 1 handler call it is behind its
  store, enough for a worker to read a store older than the object and one newer
  than the event it handles; `MaxClock` = 3 with times to live of 1 and 3, so one
  Job expires and an edited one does not.
* `sc_cache`: one node with room for one pod, two pods that compete for it and one
  of another scheduler; names used twice (`MaxUid`), a channel of one and batches
  of two, so that the channel is full and a batch is cut short.
* `sc_session`: seven pods of three jobs in two queues on two nodes; gangs of
  one and two, a role with a minimum of its own, a pod that needs nothing, a
  queue with a guarantee and one with a capability.
* `sc_bind`: two pods, two nodes, one or two volumes and claims; or two pods and a
  node with two cards, `Word` = 256.

`CHECK_DEADLOCK FALSE` in `ctl`, `sc_cache` and `sc_bind`: once the budget is used
and everything has been handled nothing is left to do.

*Fairness* of `JobController` (`Fairness`): weak fairness of the worker, of each informer's
handlers, of delayed requests, of the command queue and of the resync loop,
because each is a goroutine in an endless loop (`wait.Until`); of the kubelet
removing a pod that is marked for deletion; and of the scheduler admitting a
PodGroup. Nothing is assumed of users, failures, pods finishing or evictions.
Fairness of admission is the one assumption about capacity: a Job that is never
admitted stays Pending, rightly.

Fairness of the others: in `ctl`, weak fairness of each informer, of the
handlers, of each controller's workers and of the delayed retries; in `sc_cache`,
of the handlers, the bind worker, the goroutines of API calls, the kubelet
removing a pod marked for deletion, and strong fairness of the resync worker,
because it needs the mutex, which Go gives to whoever waits longest; in
`sc_session`, of the scheduler's thread alone; in `sc_bind`, of the pod informer,
the session, the binder, resync, node updates and the periodic report of each
node. Nothing is assumed of users, of failures, or of pods finishing.

### Findings

1. *A command may be executed twice.* `processNextCommand` deletes the Command
   "to make sure executed not more than once" and queues its action. When
   `killJob` fails after `UpdateStatus`, because deleting the PodGroup is refused
   or the cache already holds a newer Job, the same request is put back and its
   action applied to the new phase: one Restart command, two restarts.
2. *A kill may end while pods run.* `abortingState` and its relatives stay "if
   any alive pods", but count pods of the cache, and `deletePod` removes a pod
   from the cache at its deletion timestamp.
3. *A live Job may stay without a PodGroup.* After a restart the lister may
   still show the PodGroup that `killJob` deleted; nothing is created, and its
   later deletion event queues no request.

Five observations of the same kind come with the hazards in `PROJECT.json`: a
refused PodGroup update is not sent again because the lister's object was
changed first; a worker that polls for a dependency never reaches the failure
behind it in its own queue; after a status write of `killJob` whose reply was
lost, the next request works on the cache's old copy, and a sync creates pods of
the generation that the kill has ended (`PodsOfLiveJob` is claimed for
`~unanswered`); terminating pods of the last generation count as
ready dependencies after a restart; a sync may end a Job Failed before the
restart its policy asks for. The instances of section 3 keep these situations
out of the properties they would falsify (a single task in `jc_gang`, no restart
to Pending in `jc_live`, where `MaxRetry` is 1, no edit with a refused call, no restart
policy together with dependencies in `jc_tasks`).

### Observations

What the modelling of the other parts met, with the code that does it; the
properties above are claimed around these, and each is either an action of a
model or a history that a property names.

*Scheduler cache.* `syncTask` reads the pod before it takes the lock and by name, so
an event handled in between is overwritten, and the pod may be another of that
name (`event_handlers.go:108`). `processCleanupJob` may take out a `JobInfo` that
has become alive again; the copy that handlers still hold is then an orphan. After
a restart the first session may run before the handlers have caught up
(`cache.go:693`), and then gives away places that pods already have. `updatePod`
leaves an allocated task alone when the event has no node yet, but not one that is
Releasing: an event older than the resync worker's reading takes a pod that is
being deleted off its node while it still runs there. With a second node such a pod
can then be bound again, which the API server refuses; the two failed calls name two
nodes, the resynchronisation of the second one fails for ever because the name is
taken on the first, and the first keeps a pod that is gone. An eviction whose deletion failed is not sent again, because
the condition is already there (`cache.go:210`), and the deletion is by name.

*Sessions.* A victim refused at commit takes its place back while the preemptor
keeps its promise; the next `FutureIdle` panics. `unevict` makes every task
Running. In several tiers the first tier that names victims decides alone, so
gang or proportion in a later tier are not asked. `isContinueEvictPods` stops at
exactly zero room, so rescheduling may evict more than fits
(`low_node_utilization.go:202`); tdm's budget of victims is applied to each zone
separately. The errors of predicates are kept by role of the task, so a node
that failed for one task is not tried for a smaller one of the same role.
`proportion` panics at open when the guarantees exceed the cluster. A job that
`proportion` or `resourcequota` agreed to and another plugin refused stays in their
sums for the session.

*Volumes and cards.* `Session.Allocate` reverts the volumes of a task whose job is
not ready and dispatches the task later with nothing assumed (`session.go:406`). A
claim bound between `FindPodVolumes` and `AssumePodVolumes` counts as done
wherever its volume is. `checkBindings` does not compare the claim's volume with
the one reserved. A vgpu card counted beyond its size has almost 2^64 left
(`vgpu/utils.go:361`); a memory percentage below 100 is divided to zero (line
359); a single type not to be used excludes nothing. A node update between a
session's `Allocate` and the bound pod's event forgets the cards until the next
update; one that takes the vgpu devices away between the predicate and `Allocate`
ends in a nil dereference (`vgpu/utils.go:347`). The event handlers of `predicates`
run for `Evict`, `Pipeline` and their undoing too (see *Not modelled*). `setNodeLock` looks at the lock only before the first attempt. Cards given
by number are never counted again after a restart.

*Controllers.* `syncQueue` compares the new status with the lister's old copy and
writes nothing when they happen to agree, though the stored one differs.
`deleteQueue` forgets the PodGroups of a queue that may be made again. A request
dropped after `maxRequeueNum` attempts leaves the status as it is. A PodGroup that
the lister still shows is not made again; the event of a ReplicaSet scaled to zero
removes the group of the pods that are still there and, when it is late, of newer
ones, until a new pod makes it again; the patch of a pod goes by name. The webhook
refuses every update of a Closing queue, so it cannot be opened before it is
Closed.

## 4. Proofs

| module | theorem | states, for every value of the constants |
|---|---|---|
| `JobController_proofs` | `TypeCorrect` | `TypeOK` |
| | `Refinement` | `ImplementsJobPhase`: `Spec` implements `JobPhase!Spec` under the mapping of `job.phase`, `job.retry`, `job.version` |
| | `RetriesBounded` | `RetryBounded` |
| `JobGenerations_proofs` | `GenerationsReached` | `PodGenerations` |
| | `PoliciesCurrent` | `NoStalePolicy` |
| | `CreatesForLiveJob` | `PodsOfLiveJob` |
| `SchedulerCache_proofs` | `TypeCorrect` | `TypeOK` |
| | `NodesAccounted` | `NodeAccounting` |
| `SchedulerPlaces_proofs` | `NeverOvercommitted` | `NoOvercommit` |
| `SchedulerMirror_proofs` | `CacheMirrorsApi` | `AgreesWhenSettled` |
| `ControllerManager_proofs` | `TypeCorrect` | `TypeOK` |
| | `JobsCanRun` | `AdmittedJobsRun` |
| | `OnlyExpired` | `CollectsExpired` |
| `JobCache_proofs` | `JobsFound` | `JobsCached` |
| `TaskBinding_proofs` | `BindingInvariant` | `BindingInv`, the inductive invariant of the binding of volumes |
| | `BoundReachableAlways` | `BoundReachable` |

The invariants the proofs need were checked by TLC before they were proved:
`Below` and `Known` of `JobGenerations_proofs` on the scenarios of the `jc_` runs
(the largest instance explored to the end has 4 011 121 states), `Calm => Kept`
of `SchedulerPlaces_proofs` on three instances of 191 699, 796 764 and 89 345
states, `MirrorInv` of `SchedulerMirror_proofs` on five of 62 188 to 818 912
states, each with another mix of failed and lost calls, evictions, deletions, new
pods, relists and restarts, `ManagerInv` of `ControllerManager_proofs` on the instance of `ctl`
(335 864 states), and `CacheInv` of `JobCache_proofs`, its quantifiers
over names bounded by the names in use, on two scenarios of `ctl` and one with
more deletions and a restart (181 949 states), and `BindingInv` of
`TaskBinding_proofs` on the instance of `sc_bind` (383 860 states).

### Assumptions

* `ConstantsAssumption` (`JobController`): the constants have their types, there
  are finitely many tasks, `MaxRetry` is positive (the webhook defaults and
  validates it).
* `ApiAssumption`, `CacheAssumption` (the scheduler): finitely many pods, nodes and
  jobs; requests and capacities are natural numbers; the empty string, which
  stands for "no node" and "no job", is not the name of one; channel and batch
  have room for something (`NewSchedulerCache` makes them with fixed sizes).
* `ManagerAssumption` (`ControllerManager`): objects have the fields of their kind,
  in every world there are finitely many, and each has a uid that is not after its
  resource version, as etcd numbers them; the Jobs there already are have been
  admitted before (`CanRun`); what users may still submit is well typed and
  otherwise arbitrary, queues, Jobs and edits alike; a controller that runs has all
  its informers, as `Initialize` starts them together; Commands that exist and
  Commands still to be issued have different names; a Job has a name, and a pod
  has a `job`, empty if it belongs to none.
* `ScenarioAssumption` (`TaskBinding`): volumes and claims have their fields and
  there are finitely many at the start; a claim that is bound then has a volume
  that is reserved for it, as the PV controller leaves them; no volume has the name
  of a claim, because the provisioner names those it makes after the claim's uid;
  a pod lists its volumes in order. Pods, nodes, classes, sizes, budgets and
  devices are arbitrary.

### The job controller

`TypeOK` says too little to be inductive for the refinement: the worker writes
a status computed from a copy taken long ago. The inductive invariant `Inv` adds
`Copy(j, job)` for every copy `j` of the Job, in flight, in the cache and in the
worker: its resource version is at most the stored one, and if it is equal so
are phase, retry count and version. `WorkerOK` adds what `killJob` and `syncJob`
have done to theirs: in a kill the status being prepared differs from the copy
only in the version, raised by one; in a sync it does not differ. So when the API
server accepts a write, it was computed from exactly the stored phase, retry
count and version (`NewStatusFollows`), and the lemmas on the state package
(`KillStatusResult`, `SyncStatusResult`) say that the result is a step of
`JobPhase`. A refused write changes nothing; a lost reply is a write like any
other; a crash leaves only the API objects. One lemma for each action shows that
it keeps `Inv`; `NextOK` puts them together. `RetryBounded` is an invariant of
`JobPhase`, inductive there, and is carried over by the same lemma.

*Generations.* A version travels from the Job to pods, from pods to events,
from events to requests and into the worker. `Below` says that none of them is
ahead of the stored version, and is inductive beside `Inv`, because
`job.version` never falls. `PolicyOK` says that a request which `applyPolicies`
has let through to a policy is not older than the worker's copy. An accepted
write is of the current copy, so the request is neither older nor newer than the
stored Job: `NoStalePolicy`. `PodsOfLiveJob` is about a write that has no version
check: creating a pod. It needs `Known`: as long as no reply was lost, each copy
in the informer's stream and in the cache has the current phase and version, or
is older than what the cache will hold before the next request is taken, and the
cache refuses what is older than what it holds. A lost reply breaks exactly
this, which is why `unanswered` is in the property.

### The scheduler cache

*Accounting.* `NodeAccounting` with the types is inductive. The totals of a
node are sums over finite sets of pods, folds in the model; the first lemmas of
`SchedulerCache_proofs` show that a sum is the number of *units* its pods ask for (`SumIsCount`), from
which the laws for one pod more or less follow by counting. With these, each of
`AddTask`, `RemoveTask`, `UpdateTask`, `SetNode` keeps the totals right, and so do
handlers, bind, eviction and resync, which are made of them.

*Places.* That the pods on a node fit does not follow from the accounting: a
pod that the API server has bound must still be counted. The invariant is
`Types /\ (Calm => Kept)`, and `Kept` has ten conjuncts. Two say what the
property needs: every bound pod that has not ended holds a place on its node
(`BoundHeld`), and so does every binding under way (`BindingsHeld`), which is in
one place only on its way from `AddBindTask` through channel, batch and goroutine
to `errTasks` and the resync worker (`Once`). The others say which states may
still arrive to take a place away: events are states of the past in their order
(`EventsPast`), what the resync worker has read is one as well and, if it had no
node, the pod has not been bound meanwhile by the binding it is to undo
(`ResyncKnown`), and what the cache, a session and an eviction know of a pod is
true of the pod there is, or the pod is gone. `Calm` is the hypothesis of
`NoOvercommit`.

*Mirror.* `AgreesWhenSettled` speaks only of the states in which nothing is on
its way, so the invariant has to say what is wrong in all the others, and why it
will come right. `MirrorInv` has two parts. `World` holds as long as only this
scheduler binds pods, restarts included: nodes come once and stay, the events of a
pod are its states of the past in their order with the last one as it is now
(`EventsOrdered`), and what runs, for the cache, a session, an eviction or the
resync worker, has been bound (`RunningBound`). `Mirror` holds as long as the
hypothesis of the property does (`Clear`), and says for each pod that a difference
has an *excuse*: an event not delivered yet, a binding or a resynchronisation
under way, an eviction that will still answer (`Agrees`, `Excused`), or the
condition of an eviction on the pod. The other conjuncts make this inductive:
where the cache has a pod whatever has become of it (`TaskPlace`, `NodeOfTask`),
that a pod without a node has one thing under way at most, and to the node the
cache has it on (`Unsettled`), that nothing under way is of a pod the informer
has still to show (`AllSeen`), what the cache may believe of a pod (`TaskOf`), and
what the resync worker has read (`Reading`). For every step but a restart one lemma
(`...Mirrors`) shows that `World` and `Mirror` are kept; a restart empties the
cache and makes every pod an event to come (`StartedMirrors`). Settled means that
no excuse is left (`NoExcuse`).

The hypothesis is not decoration: without `~overtaken`, `~displaced` or `orphans =
{}` the property is false, by the three cases under Observations, and a node that is
out of sync (`~ready`) has refused a task it should hold.

### The controller manager

`ManagerInv` has a part for each controller and two that they share. `Shared`: a
copy of an object, in a feed or in a store, is well formed and never newer than
the last version of its name, and versions and uids only grow. Therefore a write
that carries a resource version is accepted only if it comes from the stored
object, and a uid belongs to one object for ever.

*Admitted Jobs.* `AdmittedJobsRun` rests on what `validateJobCreate` and
`validateJobUpdate` refuse, and so on `topoSort`: the lemmas from `TakeOne` to
`Sorted` prove Kahn's algorithm for any number of tasks, that is, if the sort
takes all tasks they can be started in its order, each after those it depends
on. Afterwards no write of a controller changes a spec, and edits pass the
webhook again.

*Garbage.* Between the collector's fresh read and its deletion the Job may be
edited, deleted and made again. `Judgement` says that a Job it has judged is
`Ripe`: the Job of that uid is gone for good, or it is finished and expired and
will stay so, because a finished Job keeps its phase and its time of finishing,
the webhook lets no edit change the time to live, and the clock does not go
back. The deletion carries the uid as a precondition; without it the theorem
would fail at the second case.

*The job cache.* `JobsCached` speaks of quiet states only; the invariant must say
what the cache shows in between. `CacheInv` follows an object through the three
places where its changes wait: those not yet received lead from the informer's
store to the API server (`FeedLinked`), those received and not yet handled lead
to the store (`NoteLinked`), and the cache shows every object as it was before
the first change still to be handled (`Shows`), the Job in that version and the
pods that were alive in it. Each of these needs that changes of one name stay in
order, that a Job's version does not fall (`Update` refuses an older one, and is
right to only for that reason), that a pod keeps its Job and that a deletion is
not taken back (`Follows`); the latter are facts about every write of every
actor (`Careful`). Names lead to entries of their own and a new entry is none of
the old (`Good`), so a handler changes one name only, and the clean-up of an
entry that has neither Job nor pods changes nothing that is shown, except for
the name it may sweep by mistake, which `swept` records and the property excepts.

### The binding of volumes

Between a session's choice of volumes and the bound pod lie an assumption in a
cache, a queue, two API calls for each claim and a wait; all of them work on
copies, and the PV controller, the provisioner, users and other pods write in
between. `BoundReachable` says nothing of this, so `BindingInv` does.

*Copies.* Every copy of a volume or a claim, in an assume cache (what is known and
what is assumed), in an event on its way and in a task's choice, is `VolumeCopy` or
`ClaimCopy`: not newer than the object, reaching the same nodes, and if it is of
the stored version it differs from the object only in what the scheduler has
assumed. A copy that shows a claim fully bound is right about it for ever. `Kept`
collects what one write by anyone must leave: versions grow and an equal version
is an equal object, the reach of a volume does not change, a claim's volume is
chosen once, the volume of a bound claim stays and stays the claim's. `Kept`
carries every copy, task and bound pod over the step (`VolumeCopyKept` to
`TaskKept`), and each write of the model is shown to be one (`Replaces` and the
lemmas after it): for the scheduler's own because the resource version lets a
write pass only if it comes from the newest copy, which was free or reserved for
the same claim.

*Tasks.* `TaskOK` says of a task on its way that each claim is `Settled` (bound to
a volume that is its own and that the task's node reaches) or is still among the
bindings and provisions of its choice. The choice starts that way
(`FindPodVolumes` covers every claim of the pod, `Sorted` and `Ways` for any
number of claims), what `AssumePodVolumes` assumes and `bindAPIUpdate` writes
keeps it, and when `checkBindings` calls everything bound, no claim is left in the
second case: a binding by `BindingBound`, a provisioned claim by
`ProvisionBound`, except where the claim was given something else, which `astray`
records. `QueuesOK` says that a task is with the session or in the binder's queue
once; without it a task that was reverted could be bound from an older place in
the queue. `none` marks the tasks that were dispatched with nothing assumed
(see *Observations*): the binder panics at such a task, so it is never bound.

### Induction

The provers cannot instantiate the library's induction schemes. Where a fact
about a fold or a recursive function is needed for every size, it is proved from
a smallest counterexample instead: `SmallestSubset` for finite sets, `Least` for
numbers, both from the library's well-foundedness theorems, and `Iterates` for
the existence of functions given step by step.

### Only model-checked

* Liveness, which the prover cannot express: `KillEnds`, `PodsConverge`,
  `PodGroupFollows`, `FailureNoticed`, `Collected`, `QueueStatusSettles`,
  `PodsGrouped`, `BindSettles`, `SessionEnds`, `CardsSettle`.
* Not yet attempted: `DependsOnOrder`, `CompletedTruthfully`, and the safety
  properties of `sc_session`.
* `TypeOK` and `CardsFit` of `TaskBinding`: the counters of cards are folds over
  sequences and sets with operators as arguments, which the provers do not expand;
  the part of `TypeOK` that is about tasks follows from `BindingInv`.

## 5. Plan

1. *Cards*: `TypeOK` and `CardsFit` of `TaskBinding`, with the counters of
   `DeviceSharing` as recursive functions.
2. *Sessions*: `TypeOK`, `SessionAccounting` and `PromisesCovered` of `Session`, with
   the lemmas on sums of `SchedulerCache_proofs`, then its action properties.

### Not modelled

* Tombstones: the informers of `ctl` miss no deletion. With one
  (`DeletedFinalStateUnknown`) `deletePodGroup` of the queue controller computes the
  key from the tombstone and not from the group it holds
  (`queue_controller_handler.go:117`), which fails, so the group stays in
  `podGroups`: the queue's next syncs fail at the lister and its request is dropped
  in the end, as `QueueStatusSettles` leaves out.
* The handlers of `predicates` for `Evict`, `Pipeline`, `unevict` and `unpipeline`
  (`predicates.go:183-244`): `TaskBinding` has them for `Allocate` and `unallocate`
  only. An eviction of a running gpushare pod therefore keeps its annotation in the
  model where the code removes it before the pod is gone, and a pipelined pod is
  given no cards where the code gives it some.
* A node that is not ready: `SetNode` returns before it touches the devices
  (`node_info.go:324`) and the node is left out of the next snapshot; the node
  updates of `TaskBinding` are those of ready nodes.
* The name of the node that `Allocate` writes into the pod's copy
  (`statement.go:244`) and `unallocate` leaves there: the actions and plugins of the
  model go by the task's node.
* An update of a volume or claim by `bindAPIUpdate` that is stored and whose answer is
  lost; refused ones are modelled.
* Prefixes of queue paths within a segment (`root/sci` of `root/science`), which
  `validateHierarchicalAttributes` takes for parents: paths are sequences of segments
  and none of the names used begins another.
* Of several volumes reserved for one claim the library's `FindMatchingVolume` looks at
  the first only, and finds none if the node does not reach it; the model finds one
  that is reached.
* Scores of nodes (`nodeorder`, `binpack`, `usage`, `task-topology`): they choose among
  the nodes that pass, and the models take any of those; `numaaware` and `extender`
  add predicates of their own and are left out.
* Resources of several dimensions: every comparison in the code is made for each
  dimension; mixed comparisons (`LessPartly` and its relatives) are where one
  dimension says too little.
* The job plugins, the command line, metrics, flags, leader election: objects
  written once, one call per command, counters and start-up.
* Parsing and formatting of annotations, quantities and configuration files.
