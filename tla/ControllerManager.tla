-------------------------- MODULE ControllerManager --------------------------
(***************************************************************************)
(* vc-controller-manager at work: the queue controller, the podgroup       *)
(* controller, the garbage collector and the job controller's cache, each  *)
(* with its own informers, on one API server that asks the webhooks; and   *)
(* the others that write there: users with vcctl, the scheduler, the job   *)
(* controller, Kubernetes' own controllers.                                *)
(***************************************************************************)
EXTENDS QueueController, PodGroupController, GarbageCollector, JobCache

CONSTANTS
    Scenarios,   \* set of [opt, left, api]: how an instance is set up
    NewQueues,   \* name -> the queue a user may create under it
    NewJobs,     \* name -> set of Job specifications users may submit
    NewPods,     \* name -> the pod that may be created under it
                 \* (opt.names are the names an instance uses)
    Edits        \* set of functions' inputs: <<min, replicas, taskMin, ttl>>

vars == <<apiVars, qc, pgc, gcc, jcc>>

Init ==
    \E s \in Scenarios :
      /\ opt = s.opt /\ left = s.left /\ api = s.api
      /\ vers = [k \in Kinds |-> [x \in DOMAIN s.api[k] |-> s.api[k][x].rv]]
      /\ store = [w \in s.opt.on |-> <<>>]
      /\ note = [w \in s.opt.on |-> <<>>]
      /\ feed = [w \in s.opt.on |->
                   LET kind == s.api[KindOf[w]]
                       names == SetToSeq(DOMAIN kind)
                   IN [i \in DOMAIN names |-> [name |-> names[i], obj |-> kind[names[i]]]]]
      /\ clock = 1 /\ blind = {}
      /\ qc = InitQC /\ pgc = InitPGC /\ gcc = InitGCC /\ jcc = InitJCC

(***************************************************************************)
(* The others.  Whatever may happen only so often costs one of `left`.     *)
(***************************************************************************)
Outside == UNCHANGED <<store, note, clock, opt, blind, qc, pgc, gcc, jcc>>

CreateQueue(q) ==
    /\ Outside /\ Disturb("queue")
    /\ q \in opt.names \ DOMAIN api["queue"]
    /\ LET new == createQueuePatch(NewQueues[q])
       IN /\ validateQueue(q, new, api["queue"])
          /\ Write("queue", q, [new EXCEPT !.state = ""])

DeleteQueue(q) ==
    /\ Outside /\ Disturb("unqueue")
    /\ validateQueueDeleting(q, api["queue"])
    /\ Write("queue", q, Gone)

\* vcctl queue operate: commands are named by their number.
createQueueCommand(q, action) ==
    Write("command", left.operate,
          [uid |-> 0, rv |-> 0, kind |-> "Queue", target |-> q, action |-> action])

OperateQueue(q) ==
    /\ Outside /\ Disturb("operate")
    /\ q \in DOMAIN api["queue"]
    /\ \/ \E action \in opt.actions : createQueueCommand(q, action)
       \/ /\ opt.actions = {}
          /\ \E weight \in {0, 2} :
               LET new == [api["queue"][q] EXCEPT !.weight = weight]
               IN validateQueue(q, new, api["queue"]) /\ Write("queue", q, new)

\* The scheduler reports what a queue has been allocated.
UpdateQueueStatus(q) ==
    /\ Outside /\ Disturb("report")
    /\ q \in DOMAIN api["queue"]
    /\ Write("queue", q, [api["queue"][q] EXCEPT !.allocated = @ + 1])

\* The scheduler moves a PodGroup on.
UpdatePodGroup(g) ==
    /\ Outside /\ Disturb("phase")
    /\ g \in DOMAIN api["group"]
    /\ \E p \in {"Inqueue", "Running", "Completed"} \ {api["group"][g].phase} :
         Write("group", g, [api["group"][g] EXCEPT !.phase = p])

RunJob(j) ==
    /\ Outside /\ Disturb("job")
    /\ j \in opt.names \ DOMAIN api["job"]
    /\ \E spec \in NewJobs[j] :
         LET new == createJobPatch(spec)
         IN /\ AdmitJobs("Create", new, new, api["queue"])
            /\ Write("job", j, [uid |-> 0, rv |-> 0, spec |-> new, phase |-> "Pending",
                                at |-> clock, deleting |-> FALSE])

DeleteJob(j) ==
    /\ Outside /\ Disturb("unjob")
    /\ j \in DOMAIN api["job"]
    /\ Write("job", j, Gone)

\* kubectl edit: minAvailable, the first task's replicas and minAvailable, and
\* the time to live.
EditJob(j) ==
    /\ Outside /\ Disturb("edit")
    /\ j \in DOMAIN api["job"]
    /\ \E e \in Edits :
         LET job == api["job"][j]
             new == [job.spec EXCEPT !.min = e[1], !.tasks[1].replicas = e[2],
                                     !.tasks[1].min = e[3], !.ttl = e[4]]
         IN /\ AdmitJobs("Update", job.spec, new, api["queue"])
            /\ Write("job", j, [job EXCEPT !.spec = new])

\* The job controller: the group of a Job, its pods, its end.
GroupOf(j) == <<"job", j, api["job"][j].uid>>

JobGroup(j) ==
    /\ Outside /\ Disturb("group")
    /\ j \in DOMAIN api["job"] /\ GroupOf(j) \notin DOMAIN api["group"]
    /\ Write("group", GroupOf(j),
             createPodGroupPatch([uid |-> 0, rv |-> 0, queue |-> api["job"][j].spec.queue,
                                  phase |-> "", owner |-> GroupOf(j), preemptable |-> ""],
                                 opt.nsQueue))

JobPod(j, p) ==
    /\ Outside /\ Disturb("pod")
    /\ j \in DOMAIN api["job"] /\ ~isJobFinished(api["job"][j])
    /\ p \in opt.names \ DOMAIN api["pod"] /\ NewPods[p].job = j
    /\ LET new == createPodPatch([NewPods[p] EXCEPT !.group = GroupOf(j), !.owner = GroupOf(j)])
       IN /\ validatePod(new, api["group"], api["queue"])
          /\ Write("pod", p, new)

JobEnds(j) ==
    /\ Outside /\ Disturb("end")
    /\ j \in DOMAIN api["job"] /\ ~isJobFinished(api["job"][j])
    /\ Write("job", j, [api["job"][j] EXCEPT !.phase = "Completed", !.at = clock])

\* A user's own pod, a ReplicaSet's, and the size of the set.
CreatePod(p) ==
    /\ Outside /\ Disturb("pod")
    /\ p \in opt.names \ DOMAIN api["pod"] /\ NewPods[p].job = ""
    /\ LET set == NewPods[p].owner
           new == createPodPatch([NewPods[p] EXCEPT
                    !.owner = IF set = <<>> THEN <<>> ELSE <<"rs", set[2], api["rs"][set[2]].uid>>])
       IN /\ set # <<>> => set[2] \in DOMAIN api["rs"] /\ api["rs"][set[2]].replicas > 0
          /\ validatePod(new, api["group"], api["queue"])
          /\ Write("pod", p, new)

ScaleSet(r) ==
    /\ Outside /\ Disturb("scale")
    /\ r \in DOMAIN api["rs"]
    /\ Write("rs", r, [api["rs"][r] EXCEPT !.replicas = 1 - @])

\* A pod is deleted: marked, and gone when the kubelet has stopped it.
OwnerGone(owner) ==
    /\ owner # <<>>
    /\ LET kind == CASE owner[1] = "rs" -> "rs" [] owner[1] = "pod" -> "pod"
                     [] owner[1] = "job" -> "job"
           o == Lookup(api[kind], owner[2])
       IN IF o = Gone THEN TRUE
          ELSE o.uid # owner[3] \/ (owner[1] = "job" /\ o.deleting)

Unwanted(p) ==
    LET pod == api["pod"][p]
    IN OwnerGone(pod.owner)
         \/ (pod.owner # <<>> /\ pod.owner[1] = "rs" /\ api["rs"][pod.owner[2]].replicas = 0)

DeletePodOf(p) ==
    /\ Outside /\ UNCHANGED left
    /\ p \in DOMAIN api["pod"] /\ ~api["pod"][p].deleting /\ Unwanted(p)
    /\ Write("pod", p, [api["pod"][p] EXCEPT !.deleting = TRUE])

UserDeletesPod(p) ==
    /\ Outside /\ Disturb("unpod")
    /\ p \in DOMAIN api["pod"] /\ ~api["pod"][p].deleting
    /\ Write("pod", p, [api["pod"][p] EXCEPT !.deleting = TRUE])

PodStops(p) ==
    /\ Outside /\ UNCHANGED left
    /\ p \in DOMAIN api["pod"] /\ api["pod"][p].deleting
    /\ Write("pod", p, Gone)

\* Kubernetes' garbage collector: dependents of what is gone or going, and a
\* Job that only waited for them.
GroupGoes(g) ==
    /\ Outside /\ UNCHANGED left
    /\ g \in DOMAIN api["group"] /\ OwnerGone(api["group"][g].owner)
    /\ Write("group", g, Gone)

JobGoes(j) ==
    /\ Outside /\ UNCHANGED left
    /\ j \in DOMAIN api["job"] /\ api["job"][j].deleting
    /\ \A p \in DOMAIN api["pod"] : api["pod"][p].owner # GroupOf(j)
    /\ \A g \in DOMAIN api["group"] : api["group"][g].owner # GroupOf(j)
    /\ Write("job", j, Gone)

\* The controller manager dies and is started again.
Restart ==
    /\ Disturb("restart") /\ UNCHANGED <<api, vers, clock, opt, blind>>
    /\ Listed
    /\ qc' = InitQC /\ pgc' = InitPGC /\ gcc' = InitGCC /\ jcc' = InitJCC

(***************************************************************************)
(* The specification.                                                      *)
(***************************************************************************)
Others ==
    \/ \E q \in opt.names \cap DOMAIN NewQueues :
         CreateQueue(q) \/ DeleteQueue(q) \/ OperateQueue(q) \/ UpdateQueueStatus(q)
    \/ \E g \in DOMAIN api["group"] : UpdatePodGroup(g)
    \/ \E j \in opt.names \cap DOMAIN NewJobs : RunJob(j) \/ DeleteJob(j) \/ EditJob(j) \/ JobGroup(j) \/ JobEnds(j)
    \/ \E j \in opt.names \cap DOMAIN NewJobs, p \in opt.names \cap DOMAIN NewPods :
         JobPod(j, p)
    \/ \E p \in opt.names \cap DOMAIN NewPods : CreatePod(p) \/ UserDeletesPod(p)
    \/ \E r \in DOMAIN api["rs"] : ScaleSet(r)

Informers ==
    /\ \E w \in DOMAIN feed : Deliver(w)
    /\ UNCHANGED <<qc, pgc, gcc, jcc>>

PodInformer ==
    /\ "pgPod" \in DOMAIN feed /\ Deliver("pgPod")
    /\ UNCHANGED <<qc, pgc, gcc, jcc>>

QueueHandlers == (OnQueue \/ OnGroup \/ OnCommand) /\ UNCHANGED <<pgc, gcc, jcc>>
QueueCommands ==
    (handleCommand \/ CommandEnqueue \/ CommandLater) /\ UNCHANGED <<pgc, gcc, jcc>>
QueueWorks == QueueWorker /\ UNCHANGED <<pgc, gcc, jcc>>
QueueBack == QueueLater /\ UNCHANGED <<pgc, gcc, jcc>>
QueueOldestBack == QueueLaterOldest /\ UNCHANGED <<pgc, gcc, jcc>>

GroupHandlers == (PgOnPod \/ addReplicaSet) /\ UNCHANGED <<qc, gcc, jcc>>
GroupWorks ==
    /\ \/ processNextReq \/ PgLater
       \/ \E p \in DOMAIN pgc.workers : createNormalPodPGIfNotExist(p) \/ updatePodAnnotations(p)
    /\ UNCHANGED <<qc, gcc, jcc>>

GarbageHandlers == GcOnJob /\ UNCHANGED <<qc, pgc, jcc>>
GarbageWorks == (processJob \/ GcGet \/ GcDelete \/ GcLater) /\ UNCHANGED <<qc, pgc, jcc>>

CacheHandlers == (JcOnJob \/ JcOnPod) /\ UNCHANGED <<qc, pgc, gcc>>
CacheWorks == (processCleanupJob \/ JcDelayOver) /\ UNCHANGED <<qc, pgc, gcc>>

Kubernetes ==
    \/ \E p \in DOMAIN api["pod"] : DeletePodOf(p) \/ PodStops(p)
    \/ \E g \in DOMAIN api["group"] : GroupGoes(g)
    \/ \E j \in DOMAIN api["job"] : JobGoes(j)

Time == Tick /\ UNCHANGED <<qc, pgc, gcc, jcc>>

\* Most of these steps use up a change or an event, so that together they end;
\* but a PodGroup made for a pod that is gone may be collected and made again
\* as long as the pods' informer is behind.
Passing == Informers \/ QueueHandlers \/ QueueCommands \/ GroupHandlers
             \/ GarbageHandlers \/ CacheHandlers \/ Kubernetes \/ Time

Next == Others \/ Restart \/ Informers \/ QueueHandlers \/ QueueCommands \/ QueueWorks
          \/ QueueBack \/ GroupHandlers \/ GroupWorks \/ GarbageHandlers \/ GarbageWorks
          \/ CacheHandlers \/ CacheWorks \/ Kubernetes \/ Time

Spec == Init /\ [][Next]_vars

FairSpec ==
    /\ Spec
    /\ WF_vars(Passing) /\ WF_vars(QueueWorks) /\ WF_vars(QueueOldestBack)
    /\ WF_vars(PodInformer) /\ WF_vars(GroupWorks) /\ WF_vars(GarbageWorks)

(***************************************************************************)
(* Properties.                                                             *)
(***************************************************************************)

\* Objects have their versions in order, queues their states, workers their
\* requests (the shapes of qc, pgc, gcc and jcc).
TypeOK ==
    /\ \A k \in Kinds : \A x \in DOMAIN api[k] :
          0 < api[k][x].uid /\ api[k][x].uid <= api[k][x].rv /\ api[k][x].rv = vers[k][x]
    /\ \A q \in DOMAIN api["queue"] :
          /\ api["queue"][q].state \in {"", "Open", "Closed", "Closing", "Unknown"}
          /\ api["queue"][q].weight > 0
    /\ \A w \in DOMAIN feed : \A x \in DOMAIN store[w] : store[w][x].rv <= vers[KindOf[w]][x]
    /\ qc.worker.step \in {"idle", "update", "get", "status"}
    /\ qc.worker # Idle => qc.queue # <<>> /\ Head(qc.queue) = qc.worker.req
    /\ Cardinality(DOMAIN pgc.workers) <= opt.workers
    /\ Range(pgc.queue) \cap DOMAIN pgc.workers = {}
    /\ gcc.worker.step \in {"idle", "get", "delete"}
    /\ gcc.worker # NoWork => gcc.queue # <<>> /\ Head(gcc.queue) = gcc.worker.job
    /\ Range(jcc.jobs) \cup jcc.waiting \cup Range(jcc.queue) \subseteq DOMAIN jcc.entries

(***************************************************************************)
(* Whatever users submit and edit, in whatever order, a Job in the API     *)
(* server can be run: its pods suffice for its gang, every task's for the  *)
(* task's, and the tasks can be started in an order in which each comes    *)
(* after those it depends on (validateJobCreate with topoSort and          *)
(* createPatch, validateJobUpdate).                                        *)
(***************************************************************************)
CanRun(spec) ==
    LET names == TaskNames(spec.tasks)
    IN /\ spec.min <= TotalReplicas(spec.tasks)
       /\ \A i \in DOMAIN spec.tasks : \A m \in spec.tasks[i].min : m <= spec.tasks[i].replicas
       /\ Cardinality(names) = Len(spec.tasks)
       /\ \E rank \in [names -> 1..Len(spec.tasks)] :
            \A i \in DOMAIN spec.tasks : \A d \in Needs(spec.tasks[i]) :
              d \in names /\ rank[d] < rank[spec.tasks[i].name]
AdmittedJobsRun == \A j \in DOMAIN api["job"] : CanRun(api["job"][j].spec)

(***************************************************************************)
(* The garbage collector deletes a Job only if that Job has finished and   *)
(* its time to live is over at that moment, however old the copies were    *)
(* it judged: the second look, the precondition on the uid and the webhook *)
(* that keeps the time to live fixed leave no gap (processJob).            *)
(***************************************************************************)
CollectsExpired ==
    [][\A j \in DOMAIN api["job"] :
         (/\ j \in DOMAIN api'["job"] /\ api'["job"][j].deleting
          /\ ~api["job"][j].deleting) =>
           needsCleanup(api["job"][j]) /\ ExpireAt(api["job"][j]) <= clock]_vars

(***************************************************************************)
(* A finished Job with a time to live is gone in the end, if there is time *)
(* enough (enqueueAfter, handleErr).                                       *)
(***************************************************************************)
Collected ==
    <>[](\A j \in DOMAIN api["job"] :
           "gcJob" \in opt.on /\ needsCleanup(api["job"][j]) =>
             ExpireAt(api["job"][j]) > MaxClock)

(***************************************************************************)
(* In the end the status of a queue says what is in it and a Closing queue *)
(* without PodGroups is Closed, unless the controller is known to have     *)
(* lost sight of it: its last look was at an old copy of the queue that    *)
(* happened to say the same, a request was dropped after too many          *)
(* attempts, or the queue was deleted while PodGroups were in it           *)
(* (syncQueue, handleQueueErr, deleteQueue).                               *)
(***************************************************************************)
QueueStatusSettles ==
    <>[](\A q \in DOMAIN api["queue"] :
           "qcQueue" \in opt.on =>
             StatusRight(q) \/ blind \cap {<<c, q>> : c \in {"skipped", "dropped", "forgot"}} # {})

(***************************************************************************)
(* In the end every pod of this scheduler names a PodGroup that exists,    *)
(* unless since the group was last made it is known to have gone astray:   *)
(* the lister still showed it when it was gone, the pod was another one    *)
(* when it was patched, or the group was deleted for a scaling to zero     *)
(* while there were pods of it, on their way out or of a set scaled up     *)
(* again (createNormalPodPGIfNotExist, updatePodAnnotations,               *)
(* addReplicaSet).                                                         *)
(***************************************************************************)
PodsGrouped ==
    <>[](\A p \in DOMAIN api["pod"] :
           LET pod == api["pod"][p]
           IN "pgPod" \in opt.on /\ pod.scheduler \in Schedulers =>
                /\ pod.group # <<>>
                /\ pod.group \in DOMAIN api["group"] \/ <<"stray", pod.group>> \in blind)

(***************************************************************************)
(* When every event has been handled the job controller finds each Job and *)
(* its pods under the Job's name, unless a clean-up of an earlier entry    *)
(* took the new one away (jobCache.Add, Update, Delete, AddPod, DeletePod, *)
(* processCleanupJob).                                                     *)
(***************************************************************************)
JobsCached ==
    Quiet /\ "jcJob" \in opt.on =>
      \A j \in DOMAIN api["job"] : Cached(j) \/ <<"swept", j>> \in blind

(***************************************************************************)
(* What the instances are made of: objects with the fields that their      *)
(* types have, each at a version of its own, and Jobs that the webhooks    *)
(* would have let in.                                                      *)
(***************************************************************************)
QueueStates == {"", "Open", "Closed", "Closing", "Unknown"}

IsQueue(q) ==
    /\ DOMAIN q = DOMAIN [uid |-> 0, rv |-> 0, weight |-> 0, path |-> 0, weights |-> 0,
                          reclaimable |-> 0, state |-> 0, count |-> 0, allocated |-> 0]
    /\ q.state \in QueueStates /\ q.weight \in Nat

IsTask(task) ==
    /\ {"name", "replicas", "min", "dependsOn"} \subseteq DOMAIN task
    /\ task.dependsOn \in SUBSET Seq(STRING) /\ \A d, e \in task.dependsOn : d = e

IsSpec(spec) ==
    /\ {"min", "priority", "ttl", "tasks", "volumes"} \subseteq DOMAIN spec
    /\ spec.ttl \in SUBSET Int
    /\ spec.tasks \in Seq(Range(spec.tasks))
    /\ \A i \in DOMAIN spec.tasks : IsTask(spec.tasks[i])

IsJob(job) ==
    /\ {"uid", "rv", "spec", "phase", "at", "deleting"} \subseteq DOMAIN job
    /\ IsSpec(job.spec) /\ job.at \in Int

IsObject(kind, obj) ==
    /\ {"uid", "rv"} \subseteq DOMAIN obj
    /\ kind = "queue" => IsQueue(obj) /\ obj.weight > 0
    /\ kind = "job" => IsJob(obj)

IsPod(pod) == {"job", "deleting"} \subseteq DOMAIN pod /\ pod.deleting \in BOOLEAN

\* A controller that runs has all its informers.
QueueInformers == {"qcQueue", "qcGroup", "qcCommand"}
JobInformers == {"jcJob", "jcPod"}

ASSUME ManagerAssumption ==
    /\ \A s \in Scenarios :
         /\ s.opt.on \subseteq Watches /\ s.opt.workers \in Nat
         /\ s.opt.on \cap QueueInformers # {} => QueueInformers \subseteq s.opt.on
         /\ s.opt.on \cap JobInformers # {} => JobInformers \subseteq s.opt.on
         /\ DOMAIN s.api = Kinds /\ \A k \in Kinds : IsFiniteSet(DOMAIN s.api[k])
         /\ \A k \in Kinds : \A x \in DOMAIN s.api[k] :
              LET obj == s.api[k][x]
              IN /\ IsObject(k, obj)
                 /\ obj.uid \in Nat /\ obj.rv \in Nat /\ 0 < obj.uid /\ obj.uid <= obj.rv
         /\ \A g \in DOMAIN s.api["group"] : s.api["group"][g].rv = 1
         /\ \A j \in DOMAIN s.api["job"] : j # "" /\ CanRun(s.api["job"][j].spec)
         /\ \A p \in DOMAIN s.api["pod"] : IsPod(s.api["pod"][p])
         /\ "operate" \in DOMAIN s.left /\ s.left.operate \in Nat
         /\ \A c \in DOMAIN s.api["command"] : c \in Nat /\ s.left.operate < c
    /\ \A q \in DOMAIN NewQueues : IsQueue(NewQueues[q])
    /\ \A j \in DOMAIN NewJobs : j # "" /\ \A spec \in NewJobs[j] : IsSpec(spec)
    /\ \A p \in DOMAIN NewPods : {"uid", "rv"} \subseteq DOMAIN NewPods[p] /\ IsPod(NewPods[p])
    /\ \A e \in Edits : e[4] \in SUBSET Int

=============================================================================
