--------------------------- MODULE JobController ---------------------------
(***************************************************************************)
(* The job controller of the Volcano controller manager, for one Job.      *)
(*                                                                         *)
(* Three kinds of state meet here.  The API server holds the Job, its pods *)
(* and its PodGroup.  Informers carry every change to the controller, one  *)
(* ordered stream per kind of object and no order between the streams.     *)
(* The controller keeps a cache of what its event handlers have seen, a    *)
(* work queue of requests, and one worker that takes a request, copies the *)
(* cache and runs killJob or syncJob on the copy, one API call at a time,  *)
(* while everything else goes on changing.                                 *)
(***************************************************************************)
EXTENDS Integers, Sequences, FiniteSets, SequencesExt

CONSTANTS
    Tasks,              \* names of job.Spec.Tasks
    MaxReplicas,        \* bound: no task is ever scaled beyond this
    TaskMinAvailable,   \* [Tasks -> Nat], task.MinAvailable
    MinSuccess,         \* job.Spec.MinSuccess, -1 when it is not set
    MaxRetry,           \* job.Spec.MaxRetry
    TaskMaxRetry,       \* task.MaxRetry, -1 for no limit
    DependsOn,          \* [Tasks -> Seq(Tasks)], task.DependsOn.Name
    IterationAny,       \* the tasks whose DependsOn.Iteration is "any"
    TaskPolicy,         \* [Tasks -> [Events -> Actions \cup {"None"}]]
    JobPolicy,          \* [Events -> Actions \cup {"None"}]
    Commands,           \* actions users ask for with a bus Command
    MaxRequeueNum,      \* --max-requeue-num, -1 for no limit
    Lag,                \* bound: unhandled events per informer
    Scenarios           \* the Jobs users create, each with what may disturb it

Events == {"OutOfSync", "PodFailed", "PodEvicted", "TaskCompleted",
           "TaskFailed", "Unknown", "CommandIssued", "None"}  \* "": no event

Actions == {"Sync", "Restart", "Abort", "Terminate", "Complete", "Resume"}

(***************************************************************************)
(* err: an API call is refused; lost: it succeeds but the reply is lost;   *)
(* crash: the controller restarts; scale: a user edits replicas; delete: a *)
(* user deletes the Job; evict: a pod is deleted by somebody else; cmd: a  *)
(* user issues a command; drop: the reply to its deletion is lost;         *)
(* restart: a container of a pod restarts.  The budget of a scenario bounds*)
(* how often each of them happens.                                         *)
(***************************************************************************)
Disturbances ==
    {"err", "lost", "crash", "scale", "delete", "evict", "cmd", "drop",
     "restart"}

Pods == Tasks \X (0 .. MaxReplicas - 1)

PodPhases == {"Pending", "Running", "Succeeded", "Failed"}

\* How a pod was counted in the status the controller last wrote.
Counted == PodPhases \cup {"Terminating", "Unknown", "Absent"}

NoPod == [phase |-> "Absent", deleting |-> FALSE, ver |-> 0, restarts |-> 0]
NoJob == [phase |-> "Absent", rv |-> 0]
NoPG == [phase |-> "Absent", min |-> 0]

ASSUME ConstantsAssumption ==
    /\ IsFiniteSet(Tasks)
    /\ MaxReplicas \in Nat
    /\ TaskMinAvailable \in [Tasks -> Nat]
    /\ MinSuccess \in (Nat \ {0}) \cup {-1}
    /\ MaxRetry \in Nat \ {0}
    /\ TaskMaxRetry \in Nat \cup {-1}
    /\ DependsOn \in [Tasks -> Seq(Tasks)]
    /\ IterationAny \subseteq Tasks
    /\ TaskPolicy \in [Tasks -> [Events -> Actions \cup {"None"}]]
    /\ JobPolicy \in [Events -> Actions \cup {"None"}]
    /\ Commands \subseteq Actions
    /\ MaxRequeueNum \in Nat \cup {-1}
    /\ Lag \in Nat \ {0}
    /\ Scenarios \subseteq [replicas : [Tasks -> 0 .. MaxReplicas], min : Nat,
                            budget : [Disturbances -> Nat]]

VARIABLES
    job,        \* the Job in the API server
    pod,        \* the pods in the API server, NoPod for a name not in use
    pg,         \* the PodGroup in the API server, or NoPG
    cmds,       \* Command objects in the API server
    jobWatch,   \* job events not yet handled
    podWatch,   \* pod events not yet handled
    pgWatch,    \* PodGroup events not yet seen by the informer
    jobSeen,    \* the Job the informer delivered last
    podSeen,    \* the pods the informer delivered last
    pgSeen,     \* the PodGroup in the informer's lister
    cjob,       \* the job cache: jobInfo.Job
    cpod,       \* the job cache: jobInfo.Pods
    reqs,       \* the worker's queue of requests, without duplicates
    again,      \* the request in work was added again meanwhile (dirty)
    delayed,    \* requests put back with AddRateLimited, not yet due
    tries,      \* how often each request has been put back (NumRequeues)
    w,          \* the worker
    errTasks,   \* pods whose deletion failed, to be read again
    rs,         \* the resync goroutine: what it has read and not yet applied
    left,       \* what remains of each bound
    unanswered  \* history: a reply to a status write was lost since the start

api   == <<job, pod, pg, cmds>>
watch == <<jobWatch, podWatch, pgWatch, jobSeen, podSeen, pgSeen>>
queue == <<reqs, again, delayed, tries>>
ctl   == <<cjob, cpod, queue, w, errTasks, rs>>
vars  == <<job, pod, pg, cmds, jobWatch, podWatch, pgWatch, jobSeen, podSeen,
           pgSeen, cjob, cpod, reqs, again, delayed, tries, w, errTasks, rs,
           left, unanswered>>

P == INSTANCE JobPhase
     WITH phase <- job.phase, retry <- job.retry, version <- job.version

budget == <<left, unanswered>>

Spend(d) ==
    /\ left[d] > 0
    /\ left' = [left EXCEPT ![d] = @ - 1]
    /\ unanswered' = (d = "lost" \/ (unanswered /\ d # "crash"))

RequestType == [event : Events, task : Tasks \cup {"None"}, ver : Nat,
                action : Actions \cup {"None"}]

Request(event, task, ver, action) ==
    [event |-> event, task |-> task, ver |-> ver, action |-> action]

OutOfSync(ver) == Request("OutOfSync", "None", ver, "None")

-----------------------------------------------------------------------------
(***************************************************************************)
(* The status of a Job.  obs records under which heading each pod was      *)
(* counted; every counter of the status is the number of pods under it.    *)
(* min is Spec.MinAvailable, smin the Status.MinAvailable last written.    *)
(***************************************************************************)
JobType == [phase : P!Phases, retry : Nat, version : Nat,
            obs : [Pods -> Counted], replicas : [Tasks -> 0 .. MaxReplicas],
            min : Nat, smin : Nat, deleting : BOOLEAN, rv : Nat \ {0}]

PodType == [phase : PodPhases \cup {"Absent"}, deleting : BOOLEAN,
            ver : Nat, restarts : Nat]

NewJob(replicas, min) ==
    [phase |-> "New", retry |-> 0, version |-> 0,
     obs |-> [p \in Pods |-> "Absent"], replicas |-> replicas, min |-> min,
     smin |-> 0, deleting |-> FALSE, rv |-> 1]

EmptyJob == NewJob([t \in Tasks |-> 0], 0)

\* The pod names the specification of the Job calls for.
Expected(j) == {p \in Pods : p[2] < j.replicas[p[1]]}

TotalTasks(j) == Cardinality(Expected(j))

TotalTaskMinAvailable == MapThenSumSet(LAMBDA t : TaskMinAvailable[t], Tasks)

Count(s, headings) == Cardinality({p \in Pods : s.obs[p] \in headings})

TaskCount(s, t, heading) ==
    Cardinality({p \in Pods : p[1] = t /\ s.obs[p] = heading})

\* A task has an entry in TaskStatusCount once one of its pods was counted.
HasTaskStatus(s, t) ==
    \E p \in Pods : p[1] = t /\ s.obs[p] \notin {"Absent", "Terminating"}

-----------------------------------------------------------------------------
(***************************************************************************)
(* The state machine: what each phase makes of an action.  s is the status *)
(* with the counters of this round; the result has the new phase.          *)
(***************************************************************************)
KillActions == {"Restart", "Abort", "Terminate", "Complete"}

\* Mutant: only finished Jobs are told apart from live ones.
MutIsKill(phase, act) == phase \in P!Finished \/ act \in KillActions

\* SyncJob in the states that have one, KillJob otherwise.
IsKill(phase, act) == phase \notin P!Live \/ act \in KillActions

\* PodRetainPhaseNone for a restart, PodRetainPhaseSoft for the others.
podRetainPhase(phase, act) ==
    IF phase = "Restarting" \/ (phase \in P!Live /\ act = "Restart")
    THEN {} ELSE {"Succeeded", "Failed"}

\* Mutant: the name of the action is written where the phase belongs.
MutLiveKill(s, act) == [s EXCEPT !.phase = act]

\* pendingState and runningState agree on the actions that kill.
liveKill(s, act) ==
    CASE act = "Restart"   -> [s EXCEPT !.phase = "Restarting", !.retry = @ + 1]
      [] act = "Abort"     -> [s EXCEPT !.phase = "Aborting"]
      [] act = "Terminate" -> [s EXCEPT !.phase = "Terminating"]
      [] act = "Complete"  -> [s EXCEPT !.phase = "Completing"]

pendingSync(s) ==
    IF s.min <= Count(s, {"Running", "Succeeded", "Failed"})
    THEN [s EXCEPT !.phase = "Running"] ELSE s

\* Some task has finished with fewer successes than it needs.
TaskFellShort(s) ==
    /\ s.min >= TotalTaskMinAvailable
    /\ \E t \in Tasks : /\ HasTaskStatus(s, t)
                        /\ TaskCount(s, t, "Succeeded") < TaskMinAvailable[t]

\* Mutant: finished pods count, however they finished.
MutRunningSync(s, replicas) ==
    IF replicas # 0 /\ Count(s, {"Succeeded", "Failed"}) = replicas
    THEN [s EXCEPT !.phase = "Completed"] ELSE s

runningSync(s, replicas) ==
    LET succeeded == Count(s, {"Succeeded"})
        finished  == Count(s, {"Succeeded", "Failed"})
    IN  CASE replicas = 0 -> s
          [] replicas # 0 /\ MinSuccess # -1 /\ succeeded >= MinSuccess ->
               [s EXCEPT !.phase = "Completed"]
          [] OTHER ->
               IF finished # replicas THEN s
               ELSE IF \/ TaskFellShort(s)
                       \/ MinSuccess # -1
                       \/ MinSuccess = -1 /\ succeeded < s.min
                    THEN [s EXCEPT !.phase = "Failed"]
                    ELSE [s EXCEPT !.phase = "Completed"]

\* Mutant: one restart too many.
MutRestartingState(s) ==
    IF s.retry > MaxRetry THEN [s EXCEPT !.phase = "Failed"]
    ELSE [s EXCEPT !.phase = "Pending"]

restartingState(s) ==
    CASE s.retry >= MaxRetry -> [s EXCEPT !.phase = "Failed"]
      [] s.retry < MaxRetry
         /\ TotalTasks(s) - Count(s, {"Terminating"}) >= s.smin ->
           [s EXCEPT !.phase = "Pending"]
      [] OTHER -> s

\* Mutant: the finished pods a kill keeps count as alive.
MutWhenNoneAlive(s, next) ==
    IF Count(s, Counted \ {"Absent"}) # 0 THEN s ELSE [s EXCEPT !.phase = next]

\* "If any alive pods, still in" the phase; otherwise on to the next one.
WhenNoneAlive(s, next) ==
    IF Count(s, {"Terminating", "Pending", "Running"}) # 0
    THEN s ELSE [s EXCEPT !.phase = next]

\* Mutant: a resumed Job goes back to Pending at once.
MutResume(s) == [s EXCEPT !.phase = "Pending"]

resume(s) == [s EXCEPT !.phase = "Restarting", !.retry = @ + 1]

abortingState(s, act) ==
    IF act = "Resume" THEN resume(s) ELSE WhenNoneAlive(s, "Aborted")

abortedState(s, act) == IF act = "Resume" THEN resume(s) ELSE s

completingState(s) == WhenNoneAlive(s, "Completed")

\* Mutant: copied from completingState.
MutTerminatingState(s) == WhenNoneAlive(s, "Completed")

terminatingState(s) == WhenNoneAlive(s, "Terminated")

finishedState(s) == s

killStatus(s, act) ==
    CASE s.phase \in P!Live      -> liveKill(s, act)
      [] s.phase = "Restarting"  -> restartingState(s)
      [] s.phase = "Aborting"    -> abortingState(s, act)
      [] s.phase = "Aborted"     -> abortedState(s, act)
      [] s.phase = "Completing"  -> completingState(s)
      [] s.phase = "Terminating" -> terminatingState(s)
      [] s.phase \in P!Finished  -> finishedState(s)

\* state is the one the request started in; initJobStatus may have moved on.
syncStatus(state, s) ==
    IF state.phase = "Running" THEN runningSync(s, TotalTasks(state))
    ELSE pendingSync(s)

\* Mutant: requests of discarded pods are not told from current ones.
MutApplyPolicies(j, r) ==
    IF r.action # "None" THEN r.action
    ELSE IF r.event \notin {"OutOfSync", "None"} /\ JobPolicy[r.event] # "None"
         THEN JobPolicy[r.event] ELSE "Sync"

applyPolicies(j, r) ==
    CASE r.action # "None" -> r.action
      [] r.action = "None" /\ (r.event \in {"OutOfSync", "None"} \/ r.ver < j.version) ->
           "Sync"
      [] OTHER ->
           IF r.task \in Tasks /\ TaskPolicy[r.task][r.event] # "None"
           THEN TaskPolicy[r.task][r.event]
           ELSE IF JobPolicy[r.event] # "None" THEN JobPolicy[r.event]
                ELSE "Sync"

-----------------------------------------------------------------------------
(***************************************************************************)
(* The worker.  job and pods are its copy of the cache (jobInfo), new the  *)
(* copy of the Job it is changing, todo the pods whose creation (deletion, *)
(* in killJob) is still out, extra the pods to delete after a scale-down,  *)
(* met how many of the tasks it depends on each task has waited for.       *)
(***************************************************************************)
WorkerType ==
    [pc : {"idle", "kill", "init", "podgroup", "listed", "sync",
           "killed", "inited", "synced"},
     req : RequestType, act : Actions, job : JobType, pods : [Pods -> PodType],
     new : JobType, todo : SUBSET Pods, extra : SUBSET Pods,
     met : [Tasks -> Nat], err : BOOLEAN, last : BOOLEAN]

Idle == [pc |-> "idle", req |-> OutOfSync(0), act |-> "Sync",
         job |-> EmptyJob, pods |-> [p \in Pods |-> NoPod], new |-> EmptyJob,
         todo |-> {}, extra |-> {}, met |-> [t \in Tasks |-> 0],
         err |-> FALSE, last |-> FALSE]

\* job.Status.RetryCount >= maxRetry-1: the finished pods are kept.
lastRetry(j) == j.retry >= MaxRetry - 1

\* killJob up to its first API call: what is counted at once, what to delete.
killJob(j, pods, r, act, last) ==
    LET retain == IF lastRetry(j) THEN {"Succeeded", "Failed"}
                  ELSE podRetainPhase(j.phase, act)
        kept(p) == pods[p].deleting \/ pods[p].phase \in retain \cup {"Absent"}
        count == [p \in Pods |-> IF pods[p].deleting THEN "Terminating"
                                 ELSE pods[p].phase]
    IN  [pc |-> "kill", req |-> r, act |-> act, job |-> j, pods |-> pods,
         new |-> [j EXCEPT !.version = @ + 1, !.obs = count],
         todo |-> {p \in Pods : ~kept(p)}, extra |-> {}, met |-> Idle.met,
         err |-> FALSE, last |-> last]

syncJob(j, pods, r, act, last) ==
    [pc |-> IF j.phase = "New" THEN "init" ELSE "podgroup", req |-> r,
     act |-> act, job |-> j, pods |-> pods, new |-> j,
     todo |-> {}, extra |-> {}, met |-> Idle.met, err |-> FALSE,
     last |-> last]

Execute(j, pods, r, act, last) ==
    IF IsKill(j.phase, act) THEN killJob(j, pods, r, act, last)
    ELSE syncJob(j, pods, r, act, last)

(***************************************************************************)
(* The rate limiting work queue.  A request that is queued already is not  *)
(* queued twice; one that is in work is queued when that work is done.     *)
(***************************************************************************)
Add(r) ==
    \/ /\ w.pc # "idle" /\ r = w.req
       /\ again' = TRUE
       /\ UNCHANGED reqs
    \/ /\ w.pc = "idle" \/ r # w.req
       /\ reqs' = IF r \in ToSet(reqs) THEN reqs ELSE Append(reqs, r)
       /\ UNCHANGED again

Done ==
    /\ w' = Idle
    /\ reqs' = IF again THEN Append(reqs, w.req) ELSE reqs
    /\ again' = FALSE

NumRequeues(r) == IF r \in DOMAIN tries THEN tries[r] ELSE 0

CountRequeue(r) ==
    tries' = [x \in DOMAIN tries \cup {r} |->
                IF x = r THEN NumRequeues(r) + 1 ELSE tries[x]]

Forget(r) == tries' = [x \in DOMAIN tries \ {r} |-> tries[x]]

\* Execute returned nil, or the last attempt is over: the request is dropped.
Succeed ==
    /\ Done
    /\ Forget(w.req)
    /\ UNCHANGED delayed

\* Execute returned an error: put the request back, or terminate the Job.
Requeue ==
    \/ /\ ~w.last
       /\ MaxRequeueNum = -1 \/ NumRequeues(w.req) < MaxRequeueNum
       /\ Done
       /\ delayed' = delayed \cup {w.req}
       /\ IF MaxRequeueNum = -1 THEN UNCHANGED tries ELSE CountRequeue(w.req)
    \/ /\ ~w.last
       /\ MaxRequeueNum # -1 /\ NumRequeues(w.req) >= MaxRequeueNum
       /\ w' = Execute(w.job, w.pods, w.req, "Terminate", TRUE)
       /\ UNCHANGED queue
    \/ w.last /\ Succeed

\* The delay of AddRateLimited is over.
AddDelayed(r) ==
    /\ r \in delayed
    /\ delayed' = delayed \ {r}
    /\ Add(r)
    /\ UNCHANGED <<api, watch, cjob, cpod, tries, w, errTasks, rs, budget>>

processNextReq ==
    /\ w.pc = "idle"
    /\ reqs # <<>>
    /\ reqs' = Tail(reqs)
    /\ \/ /\ cjob = NoJob                        \* not ready: the request is lost
          /\ UNCHANGED <<tries, w>>
       \/ /\ cjob # NoJob /\ cjob.deleting       \* "skip management process"
          /\ Forget(Head(reqs))
          /\ UNCHANGED w
       \/ /\ cjob # NoJob /\ ~cjob.deleting
          /\ w' = Execute(cjob, cpod, Head(reqs),
                          applyPolicies(cjob, Head(reqs)), FALSE)
          /\ UNCHANGED tries
    /\ UNCHANGED <<api, watch, cjob, cpod, again, delayed, errTasks, rs, budget>>

-----------------------------------------------------------------------------
(***************************************************************************)
(* The API server.  A write is refused when it is based on an older        *)
(* resource version, and changes nothing when it would write what is there.*)
(***************************************************************************)
Conflict == w.new.rv # job.rv

StoreJob(j) ==
    IF j = job THEN UNCHANGED <<job, jobWatch>>
    ELSE /\ Len(jobWatch) < Lag
         /\ job' = [j EXCEPT !.rv = job.rv + 1]
         /\ jobWatch' = Append(jobWatch, job')

StorePod(p, x) ==
    /\ Len(podWatch) < Lag
    /\ pod' = [pod EXCEPT ![p] = x]
    /\ podWatch' = Append(podWatch, [name |-> p, obj |-> x])

StorePG(x) ==
    /\ Len(pgWatch) < Lag
    /\ pg' = x /\ pgWatch' = Append(pgWatch, x)

\* Graceful deletion: the pod stays, marked, until its node has stopped it.
DeleteByName(p) ==
    IF pod[p] = NoPod \/ pod[p].deleting THEN UNCHANGED <<pod, podWatch>>
    ELSE StorePod(p, [pod[p] EXCEPT !.deleting = TRUE])

-----------------------------------------------------------------------------
(***************************************************************************)
(* The worker's steps, each around one API call.                           *)
(***************************************************************************)

\* deleteJobPod for one pod of killJob, or of the scale-down in syncJob.
deleteJobPod(p) ==
    /\ \/ w.pc = "kill" /\ p \in w.todo
       \/ w.pc = "sync" /\ p \in w.extra /\ w.todo = {}
    /\ \/ /\ DeleteByName(p)
          /\ w' = [w EXCEPT !.todo = @ \ {p}, !.extra = @ \ {p},
                            !.new.obs[p] = "Terminating"]
          /\ UNCHANGED <<errTasks, budget>>
       \/ /\ Spend("err")
          /\ w' = [w EXCEPT !.todo = @ \ {p}, !.extra = @ \ {p}, !.err = TRUE]
          /\ errTasks' = errTasks \cup {p}
          /\ UNCHANGED <<pod, podWatch>>
    /\ UNCHANGED <<job, pg, cmds, jobWatch, pgWatch, jobSeen, podSeen, pgSeen,
                   cjob, cpod, queue, rs>>

\* Every call about pods is back (waitCreationGroup, waitDeletionGroup).
CallsDone == w.pc \in {"kill", "sync"} /\ w.todo = {} /\ w.extra = {}

\* "failed to kill/create/delete %d pods": nothing is written.
podCallsFailed ==
    /\ CallsDone /\ w.err
    /\ Requeue
    /\ UNCHANGED <<api, watch, cjob, cpod, errTasks, rs, budget>>

\* The status about to be written.  initJobStatus makes a new Job Pending.
NewStatus ==
    CASE w.pc = "kill" -> killStatus(w.new, w.act)
      [] w.pc = "init" -> [w.new EXCEPT !.phase = "Pending", !.smin = w.new.min]
      [] w.pc = "sync" -> syncStatus(w.job, w.new)

\* Jobs().UpdateStatus: stored, refused, or stored with the reply lost.
UpdateStatus ==
    /\ w.pc = "init" \/ (CallsDone /\ ~w.err)
    /\ \/ /\ ~Conflict
          /\ StoreJob(NewStatus)
          /\ w' = [w EXCEPT !.new = job',
                            !.pc = CASE @ = "kill" -> "killed"
                                     [] @ = "init" -> "inited"
                                     [] @ = "sync" -> "synced"]
          /\ UNCHANGED <<queue, budget>>
       \/ /\ Conflict
          /\ Requeue
          /\ UNCHANGED <<job, jobWatch, budget>>
       \/ /\ Spend("err")
          /\ Requeue
          /\ UNCHANGED <<job, jobWatch>>
       \/ /\ ~Conflict
          /\ Spend("lost")
          /\ StoreJob(NewStatus)
          /\ Requeue
    /\ UNCHANGED <<pod, pg, cmds, podWatch, pgWatch, jobSeen, podSeen, pgSeen,
                   cjob, cpod, errTasks, rs>>

\* The end of killJob: the PodGroup goes, whatever the informer knows of it.
deletePodGroup ==
    \/ /\ IF pg = NoPG THEN UNCHANGED <<pg, pgWatch>> ELSE StorePG(NoPG)
       /\ Succeed
       /\ UNCHANGED budget
    \/ /\ Spend("err")
       /\ Requeue
       /\ UNCHANGED <<pg, pgWatch>>

\* cache.Update with the reply; an older resource version is an error.
cacheUpdate ==
    /\ w.pc \in {"killed", "inited", "synced"}
    /\ \/ /\ w.new.rv < cjob.rv
          /\ Requeue
          /\ UNCHANGED <<cjob, pg, pgWatch, budget>>
       \/ /\ w.new.rv >= cjob.rv
          /\ cjob' = w.new
          /\ \/ w.pc = "killed" /\ deletePodGroup
             \/ /\ w.pc = "inited"
                /\ w' = [w EXCEPT !.pc = "podgroup"]
                /\ UNCHANGED <<queue, pg, pgWatch, budget>>
             \/ /\ w.pc = "synced"
                /\ Succeed
                /\ UNCHANGED <<pg, pgWatch, budget>>
    /\ UNCHANGED <<job, pod, cmds, jobWatch, podWatch, jobSeen, podSeen,
                   pgSeen, cpod, errTasks, rs>>

(***************************************************************************)
(* createOrUpdatePodGroup, then the first look at the pods.  The lister is *)
(* read twice: whether a PodGroup is created or updated and, after that    *)
(* call, whether the scheduler has admitted it (syncTask), which a handler *)
(* may have changed meanwhile.  The pods the copy of the cache already     *)
(* holds are taken out of it on the way, so that what is left in w.pods    *)
(* are the pods to remove.                                                 *)
(***************************************************************************)
syncTask == pgSeen.phase \notin {"Absent", "Pending"}

\* Mutant: a PodGroup is created and then left alone.
MutPgShouldUpdate == FALSE

pgShouldUpdate == pgSeen # NoPG /\ pgSeen.min # w.new.min

\* An update is refused when the lister is behind the API server.
PGConflict == pgWatch # <<>>

createPodGroup ==
    IF pgSeen = NoPG /\ pg = NoPG
    THEN StorePG([phase |-> "Pending", min |-> w.new.min])
    ELSE UNCHANGED <<pg, pgWatch>>

\* The object is changed where it lies, in the informer's store, and then sent.
MutateLister == pgSeen' = [pgSeen EXCEPT !.min = w.new.min]

classifyPods ==
    LET want    == Expected(w.new)
        present == {p \in Pods : w.pods[p] # NoPod}
        count   == [p \in Pods |->
                      CASE p \notin want \cap present -> "Absent"
                        [] p \in want \cap present /\ w.pods[p].deleting ->
                             "Terminating"
                        [] OTHER -> w.pods[p].phase]
    IN  w' = [w EXCEPT !.pc = "sync",
                       !.todo = want \ present,
                       !.extra = present \ want,
                       !.new.obs = count, !.new.smin = w.new.min,
                       !.pods = [p \in Pods |-> IF p \in want THEN NoPod
                                                ELSE w.pods[p]]]

PodGroupDone == w' = [w EXCEPT !.pc = "listed"] /\ UNCHANGED queue

createOrUpdatePodGroup ==
    /\ w.pc = "podgroup"
    /\ \/ /\ ~pgShouldUpdate
          /\ createPodGroup
          /\ PodGroupDone
          /\ UNCHANGED <<pgSeen, budget>>
       \/ /\ pgShouldUpdate /\ ~PGConflict
          /\ MutateLister
          /\ StorePG([pg EXCEPT !.min = w.new.min])
          /\ PodGroupDone
          /\ UNCHANGED budget
       \/ /\ pgShouldUpdate /\ PGConflict
          /\ MutateLister
          /\ Requeue
          /\ UNCHANGED <<pg, pgWatch, budget>>
       \/ /\ Spend("err")          \* the queue, a plugin, a volume, the PodGroup
          /\ pgSeen' = pgSeen \/ (pgShouldUpdate /\ MutateLister)
          /\ Requeue
          /\ UNCHANGED <<pg, pgWatch>>
    /\ UNCHANGED <<job, pod, cmds, jobWatch, podWatch, jobSeen, podSeen,
                   cjob, cpod, errTasks, rs>>

\* The lister is asked once more, after the call: until it shows a PodGroup
\* that is admitted, no pod is created, deleted or counted.
readPodGroup ==
    /\ w.pc = "listed"
    /\ \/ syncTask /\ classifyPods
       \/ ~syncTask /\ w' = [w EXCEPT !.pc = "sync"]
    /\ UNCHANGED <<api, watch, cjob, cpod, queue, errTasks, rs, budget>>

\* Mutant: pods that are only created count.
MutIsDependsOnPodsReady(t) ==
    Cardinality({p \in Expected(w.new) : p[1] = t /\ podSeen[p] # NoPod})
      >= TaskMinAvailable[t]

\* A task with minAvailable set is ready when that many pods run or are done.
\* Containers that are not ready yet only delay the step that waits for this.
isDependsOnPodsReady(t) ==
    Cardinality({p \in Expected(w.new) :
                   p[1] = t /\ podSeen[p].phase \in {"Running", "Succeeded"}})
      >= TaskMinAvailable[t]

(***************************************************************************)
(* The goroutine of a task with pods to create polls for the tasks it      *)
(* depends on, one after the other, or for any of them.  It never gives up.*)
(***************************************************************************)
waitDependsOnTaskMeetCondition(t) ==
    LET deps == DependsOn[t]
    IN  /\ w.pc = "sync"
        /\ \E p \in w.todo : p[1] = t
        /\ w.met[t] < Len(deps)
        /\ \/ /\ t \in IterationAny /\ Len(deps) > 1
              /\ \E i \in DOMAIN deps : isDependsOnPodsReady(deps[i])
              /\ w' = [w EXCEPT !.met[t] = Len(deps)]
           \/ /\ ~(t \in IterationAny /\ Len(deps) > 1)
              /\ isDependsOnPodsReady(deps[w.met[t] + 1])
              /\ w' = [w EXCEPT !.met[t] = @ + 1]
        /\ UNCHANGED <<api, watch, cjob, cpod, queue, errTasks, rs, budget>>

\* Mutant: the pods of the next generation.
MutCreateJobPod(j) ==
    [phase |-> "Pending", deleting |-> FALSE, ver |-> j.version + 1,
     restarts |-> 0]

\* A pod of a Job is annotated with the version of the Job.
createJobPod(j) ==
    [phase |-> "Pending", deleting |-> FALSE, ver |-> j.version, restarts |-> 0]

\* One goroutine of syncJob: an existing pod of that name counts as created.
\* After a failure the other creations still run, and no pod is deleted.
createPod(p) ==
    /\ w.pc = "sync"
    /\ p \in w.todo
    /\ w.met[p[1]] = Len(DependsOn[p[1]])
    /\ \/ /\ pod[p] = NoPod
          /\ StorePod(p, createJobPod(w.new))
          /\ w' = [w EXCEPT !.todo = @ \ {p}, !.new.obs[p] = "Pending"]
          /\ UNCHANGED budget
       \/ /\ pod[p] # NoPod
          /\ w' = [w EXCEPT !.todo = @ \ {p}, !.new.obs[p] = "Unknown"]
          /\ UNCHANGED <<pod, podWatch, budget>>
       \/ /\ Spend("err")
          /\ w' = [w EXCEPT !.todo = @ \ {p}, !.extra = {}, !.err = TRUE]
          /\ UNCHANGED <<pod, podWatch>>
    /\ UNCHANGED <<job, pg, cmds, jobWatch, pgWatch, jobSeen, podSeen, pgSeen,
                   cjob, cpod, queue, errTasks, rs>>

-----------------------------------------------------------------------------
(***************************************************************************)
(* The event handlers.  Each takes the oldest event of its informer.       *)
(***************************************************************************)
addJob ==
    /\ jobWatch # <<>> /\ jobSeen = NoJob
    /\ cjob' = IF cjob = NoJob THEN Head(jobWatch) ELSE cjob
    /\ Add(OutOfSync(0))
    /\ jobSeen' = Head(jobWatch) /\ jobWatch' = Tail(jobWatch)
    /\ UNCHANGED <<api, podWatch, pgWatch, podSeen, pgSeen, cpod, delayed, tries, w,
                   errTasks, rs, budget>>

\* Mutant: an edit of the specification is not noticed.
MutJobChanged(new, old) == new.phase # old.phase

\* Other attributes are ignored: the controller writes the status itself.
JobChanged(new, old) ==
    <<new.replicas, new.min, new.phase>> # <<old.replicas, old.min, old.phase>>

updateJob ==
    /\ jobWatch # <<>> /\ jobSeen # NoJob
    /\ LET new == Head(jobWatch)
       IN  /\ cjob' = IF new.rv < cjob.rv THEN cjob ELSE new
           /\ IF JobChanged(new, jobSeen) THEN Add(OutOfSync(0))
              ELSE UNCHANGED <<reqs, again>>
           /\ jobSeen' = new
    /\ jobWatch' = Tail(jobWatch)
    /\ UNCHANGED <<api, podWatch, pgWatch, podSeen, pgSeen, cpod, delayed, tries, w,
                   errTasks, rs, budget>>

\* What every pod handler does with the head of the stream.
PodEvent == Head(podWatch)

NextPodEvent ==
    /\ podWatch' = Tail(podWatch)
    /\ podSeen' = [podSeen EXCEPT ![PodEvent.name] = PodEvent.obj]
    /\ UNCHANGED <<api, jobWatch, pgWatch, jobSeen, pgSeen, cjob, delayed,
                   tries, w, errTasks, rs, budget>>

addPod ==
    /\ podWatch # <<>>
    /\ PodEvent.obj # NoPod /\ ~PodEvent.obj.deleting
    /\ podSeen[PodEvent.name] = NoPod
    /\ cpod' = IF cpod[PodEvent.name] # NoPod THEN cpod      \* "duplicated pod"
               ELSE [cpod EXCEPT ![PodEvent.name] = PodEvent.obj]
    /\ Add(OutOfSync(PodEvent.obj.ver))
    /\ NextPodEvent

\* cache.UpdatePod: a pod the cache does not hold is an error, and is left out.
UpdatePodIn(pods, p, x) ==
    IF pods[p] = NoPod THEN pods ELSE [pods EXCEPT ![p] = x]

TaskCompleted(pods, t) ==
    /\ cjob # NoJob
    /\ cjob.replicas[t] > 0
    /\ Cardinality({p \in Pods : p[1] = t /\ pods[p].phase = "Succeeded"})
         >= cjob.replicas[t]

TaskFailed(pods, t) ==
    LET running == {p \in Pods : /\ p[1] = t
                                 /\ pods[p].phase \in {"Pending", "Running"}}
        limit   == IF TaskMaxRetry = 0 THEN 3 ELSE TaskMaxRetry
    IN  /\ cjob # NoJob
        /\ \E p \in Pods : p[1] = t /\ pods[p] # NoPod
        /\ cjob.replicas[t] # 0 /\ TaskMaxRetry # -1
        /\ MapThenSumSet(LAMBDA p : pods[p].restarts, running) >= limit

\* Mutant: a failure is like any other change.
MutPodUpdateEvent(pods, p, old, x) == "OutOfSync"

\* The event an update of pod p to x stands for, old being its former phase.
PodUpdateEvent(pods, p, old, x) ==
    CASE x.phase = "Failed" /\ old # "Failed" -> "PodFailed"
      [] x.phase = "Succeeded" /\ old # "Succeeded"
         /\ TaskCompleted(pods, p[1]) -> "TaskCompleted"
      [] x.phase \in {"Pending", "Running"} /\ TaskFailed(pods, p[1]) ->
           "TaskFailed"
      [] OTHER -> "OutOfSync"

updatePod ==
    /\ podWatch # <<>>
    /\ PodEvent.obj # NoPod /\ ~PodEvent.obj.deleting
    /\ podSeen[PodEvent.name] # NoPod
    /\ LET p == PodEvent.name
           x == PodEvent.obj
       IN  /\ cpod' = UpdatePodIn(cpod, p, x)
           /\ Add(Request(PodUpdateEvent(cpod', p, podSeen[p].phase, x),
                          p[1], x.ver, "None"))
    /\ NextPodEvent

\* A pod marked for deletion leaves the cache as one that is gone does.
deletePod ==
    /\ podWatch # <<>>
    /\ PodEvent.obj = NoPod \/ PodEvent.obj.deleting
    /\ LET p == PodEvent.name
           x == IF PodEvent.obj = NoPod THEN podSeen[p] ELSE PodEvent.obj
       IN  /\ cpod' = [cpod EXCEPT ![p] = NoPod]
           /\ Add(Request("PodEvicted", p[1], x.ver, "None"))
    /\ NextPodEvent

updatePodGroup ==
    /\ pgWatch # <<>>
    /\ pgSeen' = Head(pgWatch) /\ pgWatch' = Tail(pgWatch)
    /\ IF NoPG \in {pgSeen, pgSeen'} \/ pgSeen'.phase = pgSeen.phase
       THEN UNCHANGED <<reqs, again>>
       ELSE Add(Request(IF pgSeen'.phase = "Unknown" THEN "Unknown" ELSE "None",
                        "None", 0, "None"))
    /\ UNCHANGED <<api, jobWatch, podWatch, jobSeen, podSeen, cjob, cpod,
                   delayed, tries, w, errTasks, rs, budget>>

\* The Command object is deleted first; only then is the request queued.
processNextCommand(c) ==
    /\ c \in cmds
    /\ \/ /\ cmds' = cmds \ {c}
          /\ Add(Request("CommandIssued", "None", 0, c))
          /\ UNCHANGED budget
       \/ /\ Spend("drop")              \* retried, not found, dropped
          /\ cmds' = cmds \ {c}
          /\ UNCHANGED <<reqs, again>>
    /\ UNCHANGED <<job, pod, pg, watch, cjob, cpod, delayed, tries, w,
                   errTasks, rs>>

(***************************************************************************)
(* syncTask of job_controller_resync.go: read the pod, then fix the cache. *)
(* A pod the cache does not hold is tried again, "only ... 10 times".      *)
(***************************************************************************)
resyncGet(p) ==
    /\ rs = <<>> /\ p \in errTasks
    /\ errTasks' = errTasks \ {p}
    /\ rs' = <<[name |-> p, obj |-> pod[p]]>>
    /\ UNCHANGED <<api, watch, cjob, cpod, queue, w, budget>>

resyncApply ==
    /\ rs # <<>>
    /\ LET p == Head(rs).name
           x == Head(rs).obj
       IN  /\ cpod' = IF x = NoPod THEN [cpod EXCEPT ![p] = NoPod]
                      ELSE UpdatePodIn(cpod, p, x)
           /\ \/ UNCHANGED errTasks
              \/ /\ x # NoPod /\ cpod[p] = NoPod
                 /\ errTasks' = errTasks \cup {p}
    /\ rs' = <<>>
    /\ UNCHANGED <<api, watch, cjob, queue, w, budget>>

-----------------------------------------------------------------------------
(***************************************************************************)
(* The world outside the controller: the scheduler admits the PodGroup,    *)
(* nodes run, finish and remove pods, users edit, delete and command.      *)
(***************************************************************************)
AdmitPodGroup ==
    /\ pg.phase = "Pending"
    /\ StorePG([pg EXCEPT !.phase = "Inqueue"])

\* Some pods of a gang that ran are gone: the scheduler reports it unknown.
LosePodGroup ==
    /\ pg.phase = "Inqueue"
    /\ \E p \in Pods : pod[p].phase = "Running"
    /\ \E p \in Pods : pod[p].phase = "Failed"
    /\ StorePG([pg EXCEPT !.phase = "Unknown"])

PodGroupChanges ==
    /\ AdmitPodGroup \/ LosePodGroup
    /\ UNCHANGED <<job, pod, cmds, jobWatch, podWatch, jobSeen, podSeen,
                   pgSeen, ctl, budget>>

\* Only pods of an admitted PodGroup are bound to a node.
RunPod(p) ==
    /\ pod[p].phase = "Pending" /\ ~pod[p].deleting
    /\ pg.phase \notin {"Absent", "Pending"}
    /\ StorePod(p, [pod[p] EXCEPT !.phase = "Running"])

FinishPod(p) ==
    /\ pod[p].phase = "Running" /\ ~pod[p].deleting
    /\ \E x \in {"Succeeded", "Failed"} :
         StorePod(p, [pod[p] EXCEPT !.phase = x])

RemovePod(p) == pod[p].deleting /\ StorePod(p, NoPod)

PodChanges(p) ==
    /\ RunPod(p) \/ FinishPod(p) \/ RemovePod(p)
    /\ UNCHANGED <<job, pg, cmds, jobWatch, pgWatch, jobSeen, podSeen, pgSeen,
                   ctl, budget>>

EvictPod(p) ==
    /\ pod[p] # NoPod /\ ~pod[p].deleting
    /\ Spend("evict")
    /\ DeleteByName(p)
    /\ UNCHANGED <<job, pg, cmds, jobWatch, pgWatch, jobSeen, podSeen, pgSeen,
                   ctl>>

RestartContainer(p) ==
    /\ pod[p].phase = "Running" /\ ~pod[p].deleting
    /\ Spend("restart")
    /\ StorePod(p, [pod[p] EXCEPT !.restarts = @ + 1])
    /\ UNCHANGED <<job, pg, cmds, jobWatch, pgWatch, jobSeen, podSeen, pgSeen,
                   ctl>>

\* validateJobUpdate lets users change replicas and minAvailable.
ScaleTask(t) ==
    /\ ~job.deleting
    /\ Spend("scale")
    /\ \E n \in TaskMinAvailable[t] .. MaxReplicas, m \in 0 .. Cardinality(Pods) :
         LET new == [job EXCEPT !.replicas[t] = n, !.min = m]
         IN  m <= TotalTasks(new) /\ new # job /\ StoreJob(new)
    /\ UNCHANGED <<pod, pg, cmds, podWatch, pgWatch, jobSeen, podSeen, pgSeen,
                   ctl>>

DeleteJob ==
    /\ ~job.deleting
    /\ Spend("delete")
    /\ StoreJob([job EXCEPT !.deleting = TRUE])
    /\ UNCHANGED <<pod, pg, cmds, podWatch, pgWatch, jobSeen, podSeen, pgSeen,
                   ctl>>

IssueCommand(c) ==
    /\ c \notin cmds
    /\ Spend("cmd")
    /\ cmds' = cmds \cup {c}
    /\ UNCHANGED <<job, pod, pg, watch, ctl>>

(***************************************************************************)
(* The controller restarts.  Caches and queues are lost; the listers are   *)
(* filled before the workers start (WaitForCacheSync), the event handlers  *)
(* are told of every object again.                                         *)
(***************************************************************************)
Crash ==
    /\ Spend("crash")
    /\ w' = Idle /\ rs' = <<>> /\ errTasks' = {}
    /\ reqs' = <<>> /\ again' = FALSE /\ delayed' = {} /\ tries' = <<>>
    /\ cjob' = NoJob /\ cpod' = [p \in Pods |-> NoPod]
    /\ jobSeen' = NoJob /\ jobWatch' = <<job>>
    /\ podSeen' = [p \in Pods |-> NoPod]
    /\ \E s \in SetToSeqs({p \in Pods : pod[p] # NoPod}) :
         podWatch' = [i \in DOMAIN s |-> [name |-> s[i], obj |-> pod[s[i]]]]
    /\ pgSeen' = pg /\ pgWatch' = <<>>
    /\ UNCHANGED api

-----------------------------------------------------------------------------
Init ==
    /\ \E s \in Scenarios :
         job = NewJob(s.replicas, s.min) /\ left = s.budget
    /\ unanswered = FALSE
    /\ jobSeen = NoJob /\ jobWatch = <<job>>
    /\ pod = [p \in Pods |-> NoPod] /\ podSeen = pod /\ podWatch = <<>>
    /\ pg = NoPG /\ pgSeen = pg /\ pgWatch = <<>>
    /\ cmds = {}
    /\ cjob = NoJob /\ cpod = pod
    /\ reqs = <<>> /\ again = FALSE /\ delayed = {} /\ tries = <<>>
    /\ w = Idle /\ errTasks = {} /\ rs = <<>>

Worker ==
    \/ processNextReq
    \/ \E p \in Pods : deleteJobPod(p) \/ createPod(p)
    \/ \E t \in Tasks : waitDependsOnTaskMeetCondition(t)
    \/ podCallsFailed \/ UpdateStatus \/ cacheUpdate \/ createOrUpdatePodGroup
    \/ readPodGroup

Handlers ==
    \/ addJob \/ updateJob \/ addPod \/ updatePod \/ deletePod
    \/ updatePodGroup
    \/ \E r \in delayed : AddDelayed(r)
    \/ \E c \in cmds : processNextCommand(c)
    \/ \E p \in errTasks : resyncGet(p)
    \/ resyncApply

Environment ==
    \/ PodGroupChanges
    \/ \E p \in Pods : PodChanges(p) \/ EvictPod(p) \/ RestartContainer(p)
    \/ \E t \in Tasks : ScaleTask(t)
    \/ DeleteJob
    \/ \E c \in Commands : IssueCommand(c)
    \/ Crash

Next == Worker \/ Handlers \/ Environment

Spec == Init /\ [][Next]_vars

(***************************************************************************)
(* Fairness: workers, handlers and the resync loop run for ever; nodes     *)
(* remove the pods that are marked; the scheduler admits PodGroups.  What  *)
(* users and failures do is never owed.                                    *)
(***************************************************************************)
Fairness ==
    /\ WF_vars(Worker)
    /\ WF_vars(addJob \/ updateJob)
    /\ WF_vars(addPod \/ updatePod \/ deletePod)
    /\ WF_vars(updatePodGroup)
    /\ WF_vars(\E r \in delayed : AddDelayed(r))
    /\ \A c \in Commands : WF_vars(processNextCommand(c))
    /\ WF_vars(resyncApply \/ \E p \in Pods : resyncGet(p))
    /\ WF_vars(AdmitPodGroup /\ PodGroupChanges)
    /\ \A p \in Pods : WF_vars(RemovePod(p) /\ PodChanges(p))

FairSpec == Spec /\ Fairness

-----------------------------------------------------------------------------
(***************************************************************************)
(* Properties                                                              *)
(***************************************************************************)
PodEventType == [name : Pods, obj : PodType]

PGType == [phase : {"Absent", "Pending", "Inqueue", "Unknown"}, min : Nat]

\* Type correctness of the API objects, the informers and the controller.
TypeOK ==
    /\ job \in JobType
    /\ pod \in [Pods -> PodType] /\ podSeen \in [Pods -> PodType]
    /\ cpod \in [Pods -> PodType]
    /\ pg \in PGType /\ pgSeen \in PGType
    /\ jobSeen \in JobType \cup {NoJob} /\ cjob \in JobType \cup {NoJob}
    /\ jobWatch \in Seq(JobType) /\ podWatch \in Seq(PodEventType)
    /\ pgWatch \in Seq(PGType) /\ rs \in Seq(PodEventType)
    /\ cmds \subseteq Commands
    /\ reqs \in Seq(RequestType) /\ again \in BOOLEAN
    /\ delayed \subseteq RequestType
    /\ DOMAIN tries \subseteq RequestType
    /\ \A r \in DOMAIN tries : tries[r] \in Nat
    /\ w \in WorkerType
    /\ errTasks \subseteq Pods
    /\ left \in [Disturbances -> Nat] /\ unanswered \in BOOLEAN

(***************************************************************************)
(* The status the API server shows goes through the life cycle of JobPhase *)
(* and no other, whatever copies the worker and the cache work from:       *)
(* UpdateStatus in killJob, syncJob and initJobStatus never writes a phase,*)
(* a retry count or a version that does not follow from the stored one.    *)
(***************************************************************************)
ImplementsJobPhase == P!Spec

(***************************************************************************)
(* A Job never uses more restarts than job.Spec.MaxRetry, and one that has *)
(* used them all is on its way to Failed: resume and restart count alike,  *)
(* and neither a stale copy nor a repeated request adds one.               *)
(***************************************************************************)
RetryBounded ==
    /\ job.retry <= MaxRetry
    /\ job.retry = MaxRetry => job.phase \in {"Restarting", "Failed"}

(***************************************************************************)
(* No pod carries a generation the Job has not reached, in the API server  *)
(* or anywhere on the way to the cache; applyPolicies relies on it to tell *)
(* the requests of discarded pods from current ones.                       *)
(***************************************************************************)
PodGenerations ==
    /\ \A p \in Pods : /\ pod[p].ver <= job.version
                       /\ cpod[p].ver <= job.version
    /\ \A i \in DOMAIN podWatch : podWatch[i].obj.ver <= job.version
    /\ \A r \in ToSet(reqs) \cup delayed : r.ver <= job.version

(***************************************************************************)
(* A lifecycle policy acts only on what happened to the current pods: when *)
(* a Job leaves a live phase because of an event of a pod, the generation  *)
(* of that pod is the generation the API server holds at that moment       *)
(* (applyPolicies: "Request is outdated, will perform sync instead").      *)
(***************************************************************************)
NoStalePolicy ==
    [][( /\ job.phase \in P!Live
         /\ job'.phase \in {"Restarting", "Aborting", "Completing", "Terminating"}
         /\ w.req.action = "None" /\ ~w.last )
       => w.req.ver = job.version]_vars

(***************************************************************************)
(* syncJob creates pods only for a Job that the API server has in Pending  *)
(* or Running, and gives them its current generation: cache.Update with    *)
(* the reply keeps the worker from starting on a status it has replaced.   *)
(* Until the informer has caught up with a write whose reply was lost,     *)
(* nothing does, and syncJob creates pods of the generation before.        *)
(***************************************************************************)
PodsOfLiveJob ==
    [][\A p \in Pods :
         ~unanswered /\ pod[p] = NoPod /\ pod'[p] # NoPod =>
           /\ job.phase \in {"Pending", "Running"}
           /\ pod'[p].ver = job.version]_vars

(***************************************************************************)
(* A Job that was never restarted goes from Running to Completed only when *)
(* MinAvailable pods (MinSuccess, if set) are counted as succeeded that    *)
(* really have succeeded, those removed since included: runningState works *)
(* from counters that a crash, a failed kill or a scale may leave behind.  *)
(***************************************************************************)
CompletedTruthfully ==
    [][job.retry = 0 /\ job.phase = "Running" /\ job'.phase = "Completed" =>
         Cardinality({p \in Pods : /\ job'.obs[p] = "Succeeded"
                                   /\ pod[p].phase \in {"Succeeded", "Absent"}})
           >= (IF MinSuccess = -1 THEN job.min ELSE MinSuccess)]_vars

(***************************************************************************)
(* "dependsOn": a pod of a task is created only when enough pods of the    *)
(* same generation of each task it depends on (of one of them, for the     *)
(* iteration "any") have started.  The informer the goroutine of syncJob   *)
(* polls may show pods that have since moved on.                           *)
(***************************************************************************)
Started(d, ver) ==
    Cardinality({p \in Pods : /\ p[1] = d /\ pod[p].ver = ver
                              /\ pod[p].phase \in {"Running", "Succeeded", "Failed"}})
      >= TaskMinAvailable[d]

DependsOnOrder ==
    [][\A p \in Pods :
         pod[p] = NoPod /\ pod'[p] # NoPod =>
           LET deps == ToSet(DependsOn[p[1]])
           IN  IF p[1] \in IterationAny /\ Cardinality(deps) > 1
               THEN \E d \in deps : Started(d, pod'[p].ver)
               ELSE \A d \in deps : Started(d, pod'[p].ver)]_vars

(***************************************************************************)
(* A kill comes to its end: a Job that is aborting, completing, terminating*)
(* or restarting leaves that phase, unless it is deleted first.            *)
(***************************************************************************)
KillEnds ==
    \A ph \in {"Aborting", "Completing", "Terminating", "Restarting"} :
      (job.phase = ph) ~> (job.phase # ph \/ job.deleting)

(***************************************************************************)
(* When everything has settled, the pods of a live Job are the ones its    *)
(* specification asks for.                                                 *)
(***************************************************************************)
PodsConverge ==
    <>[](job.phase \in {"Pending", "Running"} /\ ~job.deleting =>
           {p \in Pods : pod[p] # NoPod} = Expected(job))

(***************************************************************************)
(* "clean it up to make sure executed not more than once": where nothing   *)
(* but commands restarts the Job, it is not restarted more often than      *)
(* commands were issued.                                                   *)
(***************************************************************************)
CommandsOnce ==
    \A s \in Scenarios : job.retry <= s.budget["cmd"] - left["cmd"]

(***************************************************************************)
(* "If any alive pods, still in Aborting phase", and the same for the      *)
(* Completing and Terminating phases: a Job reaches the end of a kill only *)
(* when its pods have stopped.                                             *)
(***************************************************************************)
NoneAliveAtEnd ==
    [][( \/ job.phase = "Aborting" /\ job'.phase = "Aborted"
         \/ job.phase = "Completing" /\ job'.phase = "Completed"
         \/ job.phase = "Terminating" /\ job'.phase = "Terminated" )
       => \A p \in Pods : ~pod[p].deleting
                          /\ pod[p].phase \notin {"Pending", "Running"}]_vars

(***************************************************************************)
(* "If PodGroup does not exist, create one for Job": a live Job gets a     *)
(* PodGroup.                                                               *)
(***************************************************************************)
PodGroupExists ==
    [](job.phase \in {"Pending", "Running"} =>
         <>(\/ pg # NoPG \/ job.deleting
            \/ job.phase \notin {"Pending", "Running"}))

(***************************************************************************)
(* "update PodGroup for the job if necessary": once users and failures     *)
(* leave it alone, the PodGroup of a live Job asks for as many pods as the *)
(* Job does.                                                               *)
(***************************************************************************)
PodGroupFollows ==
    <>[](job.phase \in {"Pending", "Running"} /\ ~job.deleting /\ pg # NoPG =>
           pg.min = job.min)

(***************************************************************************)
(* "the whole job should be restarted if any task was failed or evicted":  *)
(* where the policies say so, a Job does not stay Pending or Running with  *)
(* a failed pod of its current generation (updatePod queues PodFailed, and *)
(* the worker comes to it).                                                *)
(***************************************************************************)
FailureNoticed ==
    (/\ job.phase \in {"Pending", "Running"}
     /\ \E p \in Pods : pod[p].phase = "Failed" /\ pod[p].ver = job.version)
      ~> (job.phase \notin {"Pending", "Running"} \/ job.deleting)
=============================================================================
