------------------------------ MODULE Webhooks ------------------------------
(***************************************************************************)
(* The admission webhooks (pkg/webhooks): what they change in an object    *)
(* that is being created and what they refuse.  They keep no state; what   *)
(* they read from the API server is a parameter.                           *)
(*                                                                         *)
(* An optional field is a set with at most one member; a name, a path      *)
(* segment, an event or an annotation is a string, and only whether two of *)
(* them are equal matters.  The pod template's own validation (library     *)
(* code) is the Boolean `template`.  The name of a PodGroup is a tuple, <<>> *)
(* if there is none.                                                       *)
(***************************************************************************)
EXTENDS Naturals, Integers, Sequences, FiniteSets, Functions, SequencesExt, TLC

CONSTANTS
    Schedulers,       \* --scheduler-name of the webhook manager
    DefaultScheduler, \* GenerateSchedulerName's answer, one of Schedulers
    ResGroups         \* the resource groups of the admission configuration

(***************************************************************************)
(* Queues.                                                                 *)
(***************************************************************************)

\* strings.Split: an empty string has one, empty, segment.
Segments(path) == IF path = <<>> THEN 1 ELSE Len(path)

createQueuePatch(q) ==
    LET rooted == q.path # <<>> /\ q.weights # <<>> /\ Head(q.path) # "root"
    IN [q EXCEPT !.path = IF rooted THEN <<"root">> \o @ ELSE @,
                 !.weights = IF rooted THEN <<1>> \o @ ELSE @,
                 !.reclaimable = IF @ = {} THEN {TRUE} ELSE @,
                 !.weight = IF @ = 0 THEN 1 ELSE @]

validateStateOfQueue(state) == state \in {"", "Open", "Closed"}

\* The path of a queue may not lead to another queue's; that it may not come
\* from one is not checked.  (The code compares the strings: the names of the
\* segments here are such that none begins another.)
validateHierarchicalAttributes(name, q, queues) ==
    q.path # <<>> \/ q.weights # <<>> =>
      /\ Segments(q.path) = Segments(q.weights)
      /\ q.weights # <<>> /\ \A i \in DOMAIN q.weights : q.weights[i] > 0
      /\ \A o \in DOMAIN queues \ {name} :
            queues[o].path = <<>> \/ ~IsPrefix(q.path, queues[o].path)

\* Mutant: the weight is left to the defaulting, which edits do not pass.
MutvalidateQueue(name, q, queues) ==
    /\ validateStateOfQueue(q.state)
    /\ validateHierarchicalAttributes(name, q, queues)

validateQueue(name, q, queues) ==
    /\ validateStateOfQueue(q.state)
    /\ q.weight > 0
    /\ validateHierarchicalAttributes(name, q, queues)

validateQueueDeleting(name, queues) == name # "default" /\ name \in DOMAIN queues

(***************************************************************************)
(* Jobs.                                                                   *)
(***************************************************************************)
PolicyEvents == {"*", "PodFailed", "PodEvicted", "Unknown", "TaskCompleted",
                 "TaskFailed", "JobUpdated"}
PolicyActions == {"AbortJob", "RestartJob", "RestartTask", "TerminateJob",
                  "CompleteJob", "ResumeJob"}

\* The events are a set: getEventList drops duplicates within a policy.
validatePolicies(ps) ==
    LET all == UNION {ps[i].events : i \in DOMAIN ps}
    IN /\ \A i \in DOMAIN ps :
            /\ (ps[i].events = {}) # (ps[i].exitCode = {})
            /\ 0 \notin ps[i].exitCode
            /\ ps[i].events # {} => /\ ps[i].events \subseteq PolicyEvents
                                    /\ ps[i].action \in PolicyActions
            /\ \A k \in DOMAIN ps \ {i} :
                  /\ ps[i].events \cap ps[k].events = {}
                  /\ ps[i].exitCode \cap ps[k].exitCode = {}
       /\ "*" \in all => all = {"*"}

validateIO(vs) ==
    \A i \in DOMAIN vs :
      /\ vs[i].mountPath # ""
      /\ \A k \in DOMAIN vs \ {i} : vs[k].mountPath # vs[i].mountPath
      /\ vs[i].claim = (vs[i].claimName = "")
      /\ vs[i].claimName # "invalid"

TaskNames(tasks) == {tasks[i].name : i \in DOMAIN tasks}

\* Of tasks of one name the last says how many others it waits for.
lastNamed(tasks, t) == CHOOSE i \in DOMAIN tasks :
                         /\ tasks[i].name = t
                         /\ \A k \in DOMAIN tasks : tasks[k].name = t => k <= i
Needs(task) == UNION {Range(d) : d \in task.dependsOn}

\* inDegree counts every name of DependsOn, an edge is there once.
makeGraph(tasks) ==
    [edges    |-> UNION {{<<d, tasks[i].name>> : d \in Needs(tasks[i])} : i \in DOMAIN tasks},
     inDegree |-> [t \in TaskNames(tasks) |->
                     LET deps == tasks[lastNamed(tasks, t)].dependsOn
                     IN IF deps = {} THEN 0 ELSE Len(CHOOSE d \in deps : TRUE)]]

\* One task without open dependencies is taken, whichever comes first, and is
\* no longer one that others wait for.  (Tasks of one name, whose edges the code
\* counts each, are never all sorted.)
takeOne(graph, s) ==
    LET stack == {t \in DOMAIN s.inDegree \ s.sorted : s.inDegree[t] = 0}
        out == CHOOSE t \in stack : TRUE
    IN IF stack = {} THEN s
       ELSE [sorted   |-> s.sorted \cup {out},
             inDegree |-> [t \in DOMAIN s.inDegree |->
                             IF <<out, t>> \in graph.edges THEN s.inDegree[t] - 1
                             ELSE s.inDegree[t]]]

\* A task is taken as often as there are tasks.
takeAll(graph, L) ==
    LET take[n \in 0..L] ==
          IF n = 0 THEN [sorted |-> {}, inDegree |-> graph.inDegree]
          ELSE takeOne(graph, take[n - 1])
    IN take[L]

\* Mutant: nothing is sorted.
MuttopoSort(tasks) == TRUE

\* Whether the tasks can be sorted.
topoSort(tasks) ==
    Cardinality(takeAll(makeGraph(tasks), Len(tasks)).sorted) = Len(tasks)

\* A task with a topology policy asks for whole CPUs (cpus, in thousandths).
validateTaskTopoPolicy(task) ==
    task.topology \in {"", "none"} \/ (task.cpus > 0 /\ task.cpus % 1000 = 0)

validateTaskTemplate(task) == task.template /\ validateTaskTopoPolicy(task)

TotalReplicas(tasks) == FoldFunction(LAMBDA t, sum : t.replicas + sum, 0, tasks)

KnownPlugins == {"ssh", "env", "svc", "tensorflow", "mpi", "pytorch"}

TaskNamed(tasks, name) == \E i \in DOMAIN tasks : tasks[i].name = name

validTask(task) ==
    /\ task.replicas >= 0
    /\ \A m \in task.min : m >= 0 /\ m <= task.replicas

\* Every broken rule adds to the message and the Job is refused when there is
\* one, so the order of the rules does not show.
validateJobCreate(job, queues) ==
    /\ job.min >= 0 /\ job.maxRetry >= 0 /\ \A t \in job.ttl : t >= 0
    /\ job.tasks # <<>>
    /\ "mpi" \in job.plugins => /\ TaskNamed(job.tasks, "master")
                                /\ TaskNamed(job.tasks, "worker")
    /\ \A i \in DOMAIN job.tasks :
         /\ validTask(job.tasks[i])
         /\ \A k \in DOMAIN job.tasks \ {i} : job.tasks[k].name # job.tasks[i].name
         /\ validatePolicies(job.tasks[i].policies)
         /\ validateTaskTemplate(job.tasks[i])
    /\ job.min <= TotalReplicas(job.tasks)
    /\ validatePolicies(job.policies)
    /\ job.plugins \subseteq KnownPlugins
    /\ validateIO(job.volumes)
    /\ job.queue \in DOMAIN queues /\ queues[job.queue].state = "Open"
    /\ (\E i \in DOMAIN job.tasks : job.tasks[i].dependsOn # {}) => topoSort(job.tasks)

\* What an update may not touch: everything but minAvailable, the priority
\* class and the tasks' replicas and minAvailable; the name of a claim is the
\* job controller's to fill in where the Job describes the claim.
Fixed(job) ==
    [job EXCEPT !.min = 0, !.priority = "",
                !.tasks = [i \in DOMAIN @ |-> [@[i] EXCEPT !.replicas = 0, !.min = {}]],
                !.volumes = [i \in DOMAIN @ |->
                               IF @[i].claim THEN [@[i] EXCEPT !.claimName = ""] ELSE @[i]]]

validateJobUpdate(old, new) ==
    /\ \A i \in DOMAIN new.tasks : validTask(new.tasks[i])
    /\ new.min <= TotalReplicas(new.tasks) /\ new.min >= 0
    /\ Len(old.tasks) = Len(new.tasks)
    /\ Fixed(old) = Fixed(new)

AdmitJobs(op, old, new, queues) ==
    CASE op = "Create" -> validateJobCreate(new, queues)
      [] op = "Update" -> validateJobUpdate(old, new)

\* The names of tasks that have none are numbered from zero.
mutateSpec(tasks) ==
    [i \in DOMAIN tasks |->
       [tasks[i] EXCEPT
          !.name = IF @ = "" THEN "default" \o ToString(i - 1) ELSE @,
          !.dns  = IF @ = "" /\ tasks[i].hostNetwork THEN "ClusterFirstWithHostNet" ELSE @,
          !.min  = IF @ = {} THEN {tasks[i].replicas} ELSE @,
          !.maxRetry = IF @ = 0 THEN 3 ELSE @]]

patchDefaultMinAvailable(min, tasks) ==
    IF min # 0 THEN min
    ELSE FoldFunction(LAMBDA t, sum : (CHOOSE m \in t.min : TRUE) + sum, 0, tasks)

patchDefaultPlugins(plugins) ==
    plugins \cup (IF plugins \cap {"tensorflow", "mpi", "pytorch"} # {} THEN {"svc"} ELSE {})
            \cup (IF "mpi" \in plugins THEN {"ssh"} ELSE {})

\* The default for minAvailable is taken from the tasks as mutateSpec leaves
\* them.
createJobPatch(job) ==
    LET tasks == mutateSpec(job.tasks)
    IN [job EXCEPT !.queue     = IF @ = "" THEN "default" ELSE @,
                   !.scheduler = IF @ = "" THEN DefaultScheduler ELSE @,
                   !.maxRetry  = IF @ = 0 THEN 3 ELSE @,
                   !.tasks     = tasks,
                   !.min       = patchDefaultMinAvailable(@, tasks),
                   !.plugins   = patchDefaultPlugins(@)]

(***************************************************************************)
(* Pods and PodGroups.                                                     *)
(***************************************************************************)

\* mergo.Merge keeps the first value of a key.
getAnnotation(values) ==
    {values[i] : i \in {k \in DOMAIN values :
                          \A h \in DOMAIN values : values[h][1] = values[k][1] => h >= k}}

annotationGroup(pod, g) ==
    /\ g.key \in {"", "annotation"}
    /\ \/ getAnnotation(g.values) \cap pod.annotations # {}
       \/ g.key = "" /\ pod.resGroup = g.name

namespaceGroup(pod, g) == g.key = "namespace" /\ pod.ns \in Range(g.values)

\* Any key other than the two known ones falls to annotations, which refuse it.
IsBelongResGroup(pod, g) ==
    IF g.key = "namespace" THEN namespaceGroup(pod, g) ELSE annotationGroup(pod, g)

\* The first resource group a pod belongs to decides; no configuration, or no
\* group, changes nothing.
resGroupOf(pod) == SelectInSeq(ResGroups, LAMBDA g : IsBelongResGroup(pod, g))

createPodPatch(pod) ==
    LET k == resGroupOf(pod)
    IN IF k = 0 THEN pod
       ELSE LET g == ResGroups[k]
            IN [pod EXCEPT !.selector    = g.labels @@ @,
                           !.affinity    = IF @ = "" THEN g.affinity ELSE @,
                           !.tolerations = @ \o g.tolerations,
                           !.scheduler   = IF g.scheduler = "" THEN @ ELSE g.scheduler]

checkQueueState(queue, queues) ==
    queue = "" \/ (queue \in DOMAIN queues /\ queues[queue].state = "Open")

\* A disruption budget: a positive number or a percentage, but not both kinds.
validateIntPercentage(v) == IF v.percent THEN v.n \in 1..99 ELSE v.n > 0

validateAnnotation(pod) ==
    /\ \A v \in pod.minAvailable \cup pod.maxUnavailable : validateIntPercentage(v)
    /\ pod.minAvailable = {} \/ pod.maxUnavailable = {}

\* A pod that names its group needs the group, and an open queue; another one
\* needs an open queue if it names one.
validatePod(pod, groups, queues) ==
    pod.scheduler \in Schedulers =>
      IF pod.group # <<>>
      THEN /\ pod.group \in DOMAIN groups
           /\ checkQueueState(groups[pod.group].queue, queues)
      ELSE /\ checkQueueState(pod.queue, queues)
           /\ validateAnnotation(pod)

\* nsQueue is the queue the namespace's annotation names, if any.
createPodGroupPatch(group, nsQueue) ==
    [group EXCEPT !.queue = IF @ # "" THEN @
                            ELSE IF nsQueue # "" THEN nsQueue ELSE "default"]

=============================================================================
