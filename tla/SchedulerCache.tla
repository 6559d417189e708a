--------------------------- MODULE SchedulerCache ---------------------------
(***************************************************************************)
(* The cache of the Volcano scheduler.  Informers bring it the pods, nodes *)
(* and PodGroups of the API server, late and one stream per kind; sessions *)
(* take a snapshot of it and send back bindings and evictions; a worker    *)
(* carries bindings out in batches, goroutines call the API server, and    *)
(* what fails is read again by the resync worker.  A mutex guards it, but  *)
(* not the calls to the API server.                                        *)
(*                                                                         *)
(* A pod is known by its name to the nodes and by its uid to the Jobs: t   *)
(* is a pair of both.  The sessions are abstract here (see Session): they  *)
(* bind a pending task where its request fits their snapshot, and evict a  *)
(* running one.                                                            *)
(***************************************************************************)
EXTENDS SchedulerApi, Sequences, Functions, SequencesExt

CONSTANTS Nodes, Jobs,
          JobOf,        \* [Names -> Jobs \cup {""}]; "" for foreign pods
          Alloc,        \* [Nodes -> Nat], what a node has to give at first
          MaxUid,       \* bound: how often a pod name is used
          ChannelCap,   \* capacity of BindFlowChannel
          BatchNum,     \* sc.batchNum
          Scenarios     \* the pods there are at first, and what may happen

(***************************************************************************)
(* err: an API call is refused; lost: it is carried out but the reply is   *)
(* lost; crash: the scheduler restarts; relist: a watch breaks and events  *)
(* are lost; delete: a user deletes a pod; create: a pod name is used again*)
(* finish: a pod ends by itself; evict: a session evicts; resize, renew: a *)
(* node changes what it has, or goes and comes back; group: a PodGroup is  *)
(* deleted and created again; foreign: another scheduler binds a pod;      *)
(* volume: BindVolumes fails.                                              *)
(***************************************************************************)
Disturbances ==
    {"err", "lost", "crash", "relist", "delete", "create", "finish", "evict",
     "resize", "renew", "group", "foreign", "volume"}

ASSUME CacheAssumption ==
    /\ JobOf \in [Names -> Jobs \cup {""}]
    /\ Alloc \in [Nodes -> Nat]
    /\ IsFiniteSet(Nodes) /\ IsFiniteSet(Jobs) /\ "" \notin Nodes \cup Jobs
    /\ {MaxUid, ChannelCap, BatchNum} \subseteq Nat \ {0}
    /\ Scenarios \subseteq [pods : SUBSET Names, budget : [Disturbances -> Nat]]

VARIABLES
    pod,        \* API server: the pods, NoPod for a name not in use
    uids,       \* API server: how many pods each name has had
    node,       \* API server: the nodes
    group,      \* API server: the Jobs that have a PodGroup
    podWatch, nodeWatch, groupWatch,    \* events not yet handled
    podSeen,    \* the pods the informer delivered last
    c,          \* SchedulerCache: Jobs, their tasks, Nodes
    cleanups,   \* DeletedJobs: those not yet due and those that are
    orphans,    \* JobInfos that left the cache with a PodGroup or tasks
    errTasks,   \* tasks to be synchronised again
    rs,         \* the resync worker: the task and the pod it has read
    sending,    \* the task AddBindTask cannot send, holding the mutex
    channel,    \* BindFlowChannel
    bindCache,  \* the batch the bind worker collects
    binds,      \* goroutines of Bind: what they still have to send, and errors
    evictions,  \* goroutines of Evict
    ssn,        \* the open session: its copies of nodes and tasks
    overtaken,  \* rs applied a reading older than an event that was handled
                \* meanwhile, or one of a new pod of the same name
    displaced,  \* an event older than a reading of rs took a pod that is being
                \* deleted off its node
    crashed,    \* the scheduler died and forgot all
    left, scenario

api      == <<pod, uids, node, group>>
watches  == <<podWatch, nodeWatch, groupWatch, podSeen>>
workers  == <<errTasks, rs, sending, channel, bindCache, binds, evictions>>
cleaning == <<cleanups, orphans>>
history  == <<overtaken, displaced, crashed>>
vars     == <<pod, uids, node, group, podWatch, nodeWatch, groupWatch, podSeen,
              c, cleanups, orphans, errTasks, rs, sending, channel, bindCache,
              binds, evictions, ssn, overtaken, displaced, crashed, left, scenario>>

Tids == Names \X (1 .. MaxUid)

NoPod == [uid |-> 0, node |-> "", phase |-> "Pending", deleting |-> FALSE,
          evicted |-> FALSE, told |-> FALSE]
NoNode == [alloc |-> 0, ready |-> FALSE, there |-> FALSE]
NoSession == [open |-> FALSE, nodes |-> <<>>, tasks |-> <<>>]
NoBind == [t |-> <<>>, node |-> ""]
Idle == [e |-> NoBind, got |-> NoPod, step |-> "idle"]

Spend(d) == left[d] > 0 /\ left' = [left EXCEPT ![d] = @ - 1]

EmptyCache == [jobs |-> <<>>, tasks |-> <<>>, nodes |-> <<>>,
               born |-> [j \in Jobs |-> 0]]

-----------------------------------------------------------------------------
(***************************************************************************)
(* What the handlers do to the cache k.  A JobInfo is an object of its own *)
(* (obj) as long as it is in the cache; its tasks are those of its pods.   *)
(***************************************************************************)
Put(f, x, v) == [y \in DOMAIN f \cup {x} |-> IF y = x THEN v ELSE f[y]]

TasksOf(k, j) == {t \in DOMAIN k.tasks : JobOf[t[1]] = j}

JobTerminated(k, j) == ~k.jobs[j].group /\ TasksOf(k, j) = {}

getOrCreateJob(k, j) ==
    IF j \in DOMAIN k.jobs \cup {""} THEN k
    ELSE [k EXCEPT !.born[j] = @ + 1,
                   !.jobs = Put(@, j, [obj |-> k.born[j] + 1,
                                       group |-> FALSE])]

\* AddTaskInfo; the tasks of foreign pods are kept by their nodes only.
AddTaskInfo(k, p, o) ==
    IF JobOf[p] = "" THEN k
    ELSE [getOrCreateJob(k, JobOf[p]) EXCEPT
            !.tasks = Put(@, <<p, o.uid>>, [status |-> getTaskStatus(o),
                                            node |-> o.node, pod |-> o])]

\* A pod may be seen before its node.
WithNode(k, n) ==
    IF n \in DOMAIN k.nodes \cup {""} THEN k
    ELSE [k EXCEPT !.nodes = Put(@, n, UnsetNodeInfo)]

\* The name is taken or the node has no room.
addTaskFails(k, p, o) ==
    /\ o.node # "" /\ ~isTerminated(getTaskStatus(o))
    /\ ~CanAddTask(WithNode(k, o.node).nodes[o.node], p, getTaskStatus(o))

\* A node without room is out of sync, and the Job does not get the task.
addTask(k, p, o) ==
    LET k1 == WithNode(k, o.node)
        s  == getTaskStatus(o)
    IN  IF o.node = "" \/ isTerminated(s) THEN AddTaskInfo(k1, p, o)
        ELSE IF AllocateFail(k1.nodes[o.node], p, s)
        THEN [k1 EXCEPT !.nodes[o.node].ready = FALSE]
        ELSE IF addTaskFails(k, p, o) THEN k1
        ELSE AddTaskInfo([k1 EXCEPT !.nodes[o.node] = AddTask(@, p, s)], p, o)

DropTask(k, t) == [k EXCEPT !.tasks = Restrict(@, DOMAIN @ \ {t})]

RemoveFrom(k, n, p) ==
    IF n \in DOMAIN k.nodes THEN [k EXCEPT !.nodes[n] = RemoveTask(@, p)] ELSE k

\* deleteTask of a task t on node n: by uid from the Job, by name from the node.
deleteTask(k, t, n) == RemoveFrom(DropTask(k, t), n, t[1])

deleteTaskFails(k, t) == t \notin DOMAIN k.tasks

\* Mutant: the node of a task that is being bound is forgotten.
MutdeletePod(k, p, o) == deleteTask(k, <<p, o.uid>>, o.node)

\* The task in the cache counts, which knows the node of a pod in Binding.
deletePod(k, p, o) ==
    LET t == <<p, o.uid>>
    IN  deleteTask(k, t, IF t \in DOMAIN k.tasks THEN k.tasks[t].node ELSE o.node)

allocatedPodInCache(k, t) ==
    t \in DOMAIN k.tasks /\ AllocatedStatus(k.tasks[t].status)

\* Mutant: an old event takes back a binding that is under way.
MutupdatePod(k, p, old, new) == addTask(deletePod(k, p, old), p, new)

updatePod(k, p, old, new) ==
    IF allocatedPodInCache(k, <<p, new.uid>>) /\ new.node = "" THEN k
    ELSE addTask(deletePod(k, p, old), p, new)

\* deletePod ends with deleteJob when nothing of the Job is left.
Finished(k, j) == {[job |-> i, obj |-> k.jobs[i].obj] :
                     i \in {i \in DOMAIN k.jobs \cap {j} : JobTerminated(k, i)}}

setPodGroup(k, j) == [getOrCreateJob(k, j) EXCEPT !.jobs[j].group = TRUE]

addNode(k, n, obj) ==
    IF n \in DOMAIN k.nodes THEN [k EXCEPT !.nodes[n] = SetNode(@, obj)]
    ELSE [k EXCEPT !.nodes = Put(@, n, NewNodeInfo(obj))]

updateNode(k, n, obj) ==
    IF n \in DOMAIN k.nodes THEN [k EXCEPT !.nodes[n] = SetNode(@, obj)] ELSE k

deleteNode(k, n) == [k EXCEPT !.nodes = Restrict(@, DOMAIN @ \ {n})]

\* With its JobInfo go its tasks; the nodes keep theirs.
DropJob(k, j) ==
    [k EXCEPT !.jobs = Restrict(@, DOMAIN @ \ {j}),
              !.tasks = Restrict(@, DOMAIN @ \ TasksOf(k, j))]

-----------------------------------------------------------------------------
(***************************************************************************)
(* Event handlers.  They need the mutex.                                   *)
(***************************************************************************)
Free == sending = NoBind

\* deleteJob: AddRateLimited.
deleteJob(E) == cleanups' = [cleanups EXCEPT !.waiting = @ \cup E]

\* What the filter lets through: own pods, and foreign ones with a node.
Visible(p, o) == o.uid # 0 /\ (JobOf[p] # "" \/ o.node # "")

\* An event of a time when the pod had no node, for a task that is known to be
\* leaving its node: resync has read the pod before.
Late(p, o) ==
    /\ o.node = "" /\ <<p, o.uid>> \in DOMAIN c.tasks
    /\ c.tasks[<<p, o.uid>>].status = "Releasing"

HandlePod ==
    /\ Free /\ podWatch # <<>>
    /\ LET p    == Head(podWatch).name
           new  == Head(podWatch).obj
           old  == podSeen[p]
           gone == deletePod(c, p, old)
       IN  /\ podSeen' = [podSeen EXCEPT ![p] = new]
           /\ \/ /\ ~Visible(p, old) /\ Visible(p, new)     \* AddPod
                 /\ c' = addTask(c, p, new)
                 /\ UNCHANGED cleanups
              \/ /\ Visible(p, old) /\ Visible(p, new)      \* UpdatePod
                 /\ c' = updatePod(c, p, old, new)
                 /\ IF allocatedPodInCache(c, <<p, new.uid>>) /\ new.node = ""
                    THEN UNCHANGED cleanups
                    ELSE deleteJob(Finished(gone, JobOf[p]))
              \/ /\ Visible(p, old) /\ ~Visible(p, new)     \* DeletePod
                 /\ c' = gone
                 /\ deleteJob(Finished(gone, JobOf[p]))
              \/ /\ ~Visible(p, old) /\ ~Visible(p, new)
                 /\ UNCHANGED <<c, cleanups>>
    /\ podWatch' = Tail(podWatch)
    /\ overtaken' = (overtaken \/ (rs # Idle /\ rs.e.t[1] = Head(podWatch).name))
    /\ displaced' = (displaced \/ Late(Head(podWatch).name, Head(podWatch).obj))
    /\ UNCHANGED <<api, nodeWatch, groupWatch, orphans, workers, ssn, left,
                   crashed, scenario>>

HandleNode ==
    /\ Free /\ nodeWatch # <<>>
    /\ LET n == Head(nodeWatch).name
           o == Head(nodeWatch).obj
       IN  c' = IF ~o.there THEN deleteNode(c, n)
                ELSE IF Head(nodeWatch).new THEN addNode(c, n, o)
                ELSE updateNode(c, n, o)
    /\ nodeWatch' = Tail(nodeWatch)
    /\ UNCHANGED <<api, podWatch, groupWatch, podSeen, cleaning, workers, ssn,
                   left, history, scenario>>

\* AddPodGroupV1beta1, UpdatePodGroupV1beta1, DeletePodGroupV1beta1.
HandleGroup ==
    /\ Free /\ groupWatch # <<>>
    /\ LET j == Head(groupWatch).job
       IN  IF Head(groupWatch).there
           THEN c' = setPodGroup(c, j) /\ UNCHANGED cleanups
           ELSE IF j \notin DOMAIN c.jobs THEN UNCHANGED <<c, cleanups>>
           ELSE /\ c' = [c EXCEPT !.jobs[j].group = FALSE]
                /\ deleteJob({[job |-> j, obj |-> c.jobs[j].obj]})
    /\ groupWatch' = Tail(groupWatch)
    /\ UNCHANGED <<api, podWatch, nodeWatch, podSeen, orphans, workers, ssn,
                   left, history, scenario>>

CleanupDue(e) ==
    /\ e \in cleanups.waiting
    /\ cleanups' = [waiting |-> cleanups.waiting \ {e},
                    ready |-> cleanups.ready \cup {e}]
    /\ UNCHANGED <<api, watches, c, orphans, workers, ssn, left, history, scenario>>

\* The JobInfo that was queued decides; what is deleted is the entry of the
\* same name, which may be another JobInfo by now.
processCleanupJob(e) ==
    /\ Free /\ e \in cleanups.ready
    /\ LET here  == e.job \in DOMAIN c.jobs
           same  == here /\ c.jobs[e.job].obj = e.obj
           done  == IF same THEN JobTerminated(c, e.job) ELSE e \notin orphans
           alive == here /\ ~same /\ ~JobTerminated(c, e.job)
       IN  IF done
           THEN /\ c' = DropJob(c, e.job)
                /\ orphans' = orphans \cup
                     IF alive THEN {[job |-> e.job, obj |-> c.jobs[e.job].obj]}
                     ELSE {}
                /\ cleanups' = [cleanups EXCEPT !.ready = @ \ {e}]
           ELSE /\ cleanups' = [waiting |-> cleanups.waiting \cup {e},
                                ready |-> cleanups.ready \ {e}]
                /\ UNCHANGED <<c, orphans>>
    /\ UNCHANGED <<api, watches, workers, ssn, left, history, scenario>>

-----------------------------------------------------------------------------
(***************************************************************************)
(* The scheduler dies and starts again: what it knew is gone, and the      *)
(* informers list everything anew.  WaitForCacheSync waits for their       *)
(* stores, not for the handlers.                                           *)
(***************************************************************************)
Listed(S, ev(_)) == [i \in 1 .. Cardinality(S) |-> ev(SetToSeq(S)[i])]

PodEvent(p) == [name |-> p, obj |-> pod[p]]
NodeEvent(n) == [name |-> n, obj |-> node[n], new |-> TRUE]
GroupEvent(j) == [job |-> j, there |-> TRUE]

Reboot ==
    /\ podWatch' = Listed({p \in Names : pod[p].uid # 0}, PodEvent)
    /\ nodeWatch' = Listed({n \in Nodes : node[n].there}, NodeEvent)
    /\ groupWatch' = Listed(group, GroupEvent)
    /\ podSeen' = [p \in Names |-> NoPod]
    /\ c' = EmptyCache /\ ssn' = NoSession
    /\ cleanups' = [waiting |-> {}, ready |-> {}] /\ orphans' = {}
    /\ errTasks' = {} /\ rs' = Idle /\ sending' = NoBind
    /\ channel' = <<>> /\ bindCache' = <<>> /\ binds' = {} /\ evictions' = {}
    /\ crashed' = TRUE

Crash == Spend("crash") /\ Reboot /\ UNCHANGED <<api, overtaken, displaced, scenario>>

-----------------------------------------------------------------------------
(***************************************************************************)
(* Sessions.                                                               *)
(***************************************************************************)
\* The nodes that are ready and the tasks of Jobs with a PodGroup.
Snapshot ==
    /\ Free /\ ~ssn.open
    /\ LET ready == {n \in DOMAIN c.nodes : c.nodes[n].ready}
           known == {t \in DOMAIN c.tasks : c.jobs[JobOf[t[1]]].group}
       IN  ssn' = [open  |-> TRUE,
                   nodes |-> [n \in ready |-> CloneNode(c.nodes[n])],
                   tasks |-> [t \in known |-> c.tasks[t].status]]
    /\ UNCHANGED <<api, watches, c, cleaning, workers, left, history, scenario>>

CloseSession ==
    /\ ssn.open /\ Free
    /\ ssn' = NoSession
    /\ UNCHANGED <<api, watches, c, cleaning, workers, left, history, scenario>>

\* AddBindTask finds the task and the node, and the node takes the task.
Bindable(t, n) ==
    /\ t \in DOMAIN c.tasks /\ n \in DOMAIN c.nodes
    /\ c.tasks[t].node \in {"", n}
    /\ CanAddTask(c.nodes[n], t[1], "Binding")

\* Mutant: the send does not wait for room in the channel.
MutAddBindTask(t, n) ==
    IF ~Bindable(t, n) THEN UNCHANGED <<c, channel, sending>>
    ELSE /\ c' = [c EXCEPT !.tasks[t].status = "Binding", !.tasks[t].node = n,
                           !.nodes[n] = AddTask(@, t[1], "Binding")]
         /\ channel' = Append(channel, [t |-> t, node |-> n])
         /\ UNCHANGED sending

AddBindTask(t, n) ==
    IF ~Bindable(t, n) THEN UNCHANGED <<c, channel, sending>>
    ELSE /\ c' = [c EXCEPT !.tasks[t].status = "Binding", !.tasks[t].node = n,
                           !.nodes[n] = AddTask(@, t[1], "Binding")]
         /\ IF Len(channel) < ChannelCap
            THEN /\ channel' = Append(channel, [t |-> t, node |-> n])
                 /\ UNCHANGED sending
            ELSE sending' = [t |-> t, node |-> n] /\ UNCHANGED channel

\* The session allocates a task and sends it to the cache.
Dispatch(t, n) ==
    /\ Free /\ t \in DOMAIN ssn.tasks /\ ssn.tasks[t] = "Pending"
    /\ n \in DOMAIN ssn.nodes /\ CanAddTask(ssn.nodes[n], t[1], "Allocated")
    /\ ssn' = [ssn EXCEPT !.tasks[t] = "Allocated",
                          !.nodes[n] = AddTask(@, t[1], "Allocated")]
    /\ AddBindTask(t, n)
    /\ UNCHANGED <<api, watches, cleaning, errTasks, rs, bindCache, binds,
                   evictions, left, history, scenario>>

\* The channel has room again and the mutex is released.
Sent ==
    /\ ~Free /\ Len(channel) < ChannelCap
    /\ channel' = Append(channel, sending)
    /\ sending' = NoBind
    /\ UNCHANGED <<api, watches, c, cleaning, errTasks, rs, bindCache, binds,
                   evictions, ssn, left, history, scenario>>

\* UpdateTask ends the process when the node has no room for the task it just
\* gave up, and so does the event for a PodGroup that is gone.
EvictDies(t) ==
    \/ ~CanUpdateTask(c.nodes[c.tasks[t].node], t[1], "Releasing")
    \/ ~c.jobs[JobOf[t[1]]].group

Evict(t) ==
    /\ Free /\ t \in DOMAIN ssn.tasks /\ ssn.tasks[t] = "Running"
    /\ Spend("evict")
    /\ LET found == t \in DOMAIN c.tasks /\ c.tasks[t].node \in DOMAIN c.nodes
       IN  \/ /\ found /\ EvictDies(t)
              /\ Reboot
           \/ /\ found => ~EvictDies(t)
              /\ ssn' = [ssn EXCEPT !.tasks[t] = "Releasing"]
              /\ IF ~found THEN UNCHANGED <<c, evictions>>
                 ELSE /\ c' = [c EXCEPT !.tasks[t].status = "Releasing",
                                        !.nodes[c.tasks[t].node] =
                                          UpdateTask(@, t[1], "Releasing")]
                      /\ evictions' = evictions \cup
                           {[t |-> t, node |-> c.tasks[t].node,
                             pod |-> c.tasks[t].pod, step |-> "status"]}
              /\ UNCHANGED <<watches, cleaning, errTasks, rs, sending, channel,
                             bindCache, binds, crashed>>
    /\ UNCHANGED <<api, overtaken, displaced, scenario>>

-----------------------------------------------------------------------------
(***************************************************************************)
(* Changes to pods in the API server, and the calls that make them.        *)
(***************************************************************************)
PutPod(p, o) ==
    /\ pod' = [pod EXCEPT ![p] = o]
    /\ podWatch' = Append(podWatch, [name |-> p, obj |-> o])
    /\ UNCHANGED <<uids, node, group, nodeWatch, groupWatch, podSeen>>

\* A pod without a node goes at once, another when its kubelet has stopped it.
Deleted(o) == IF o.node = "" THEN NoPod ELSE [o EXCEPT !.deleting = TRUE]

\* A session that finds no place for a task says so in the pod's condition,
\* once: an event of a pod without a node.
taskUnschedulable(t) ==
    /\ t \in DOMAIN ssn.tasks /\ ssn.tasks[t] = "Pending"
    /\ pod[t[1]].uid = t[2] /\ pod[t[1]].node = "" /\ ~pod[t[1]].told
    /\ PutPod(t[1], [pod[t[1]] EXCEPT !.told = TRUE])
    /\ ssn' = [ssn EXCEPT !.tasks[t] = "Unschedulable"]
    /\ UNCHANGED <<c, cleaning, workers, left, history, scenario>>

processBindTask ==
    /\ channel # <<>> /\ Len(bindCache) < BatchNum
    /\ channel' = Tail(channel)
    /\ bindCache' = Append(bindCache, Head(channel))
    /\ UNCHANGED <<api, watches, c, cleaning, errTasks, rs, sending, binds,
                   evictions, ssn, left, history, scenario>>

\* The batch is full or the channel empty; volumes that cannot be bound send
\* their task back.
BindTask ==
    /\ bindCache # <<>> /\ (Len(bindCache) = BatchNum \/ channel = <<>>)
    /\ \/ /\ binds' = binds \cup {[todo |-> bindCache, errs |-> {}]}
          /\ UNCHANGED <<errTasks, left>>
       \/ \E i \in DOMAIN bindCache :
            LET rest == RemoveAt(bindCache, i)
            IN  /\ Spend("volume")
                /\ errTasks' = errTasks \cup {bindCache[i]}
                /\ binds' = binds \cup
                     IF rest = <<>> THEN {} ELSE {[todo |-> rest, errs |-> {}]}
    /\ bindCache' = <<>>
    /\ UNCHANGED <<api, watches, c, cleaning, rs, sending, channel, evictions,
                   ssn, history, scenario>>

\* Mutant: the failure of the last call of a batch is forgotten.
MutBindNext(b, errs) ==
    IF Len(b.todo) = 1
    THEN binds' = binds \ {b} /\ errTasks' = errTasks \cup b.errs
    ELSE /\ binds' = (binds \ {b}) \cup
                       {[todo |-> Tail(b.todo), errs |-> b.errs \cup errs]}
         /\ UNCHANGED errTasks

\* One call of a batch is done; after the last one the failed tasks are
\* synchronised again.
BindNext(b, errs) ==
    LET next == [todo |-> Tail(b.todo), errs |-> b.errs \cup errs]
    IN  IF next.todo = <<>>
        THEN binds' = binds \ {b} /\ errTasks' = errTasks \cup next.errs
        ELSE binds' = (binds \ {b}) \cup {next} /\ UNCHANGED errTasks

\* What the API server says to a binding: the pod is this one and has no node.
Accepts(e) ==
    /\ pod[e.t[1]].uid = e.t[2]
    /\ pod[e.t[1]].node = "" /\ ~pod[e.t[1]].deleting

Bind(b) ==
    LET e == Head(b.todo)
    IN  /\ b \in binds
        /\ \/ /\ Accepts(e)
              /\ PutPod(e.t[1], [pod[e.t[1]] EXCEPT !.node = e.node,
                                                 !.told = FALSE])
              /\ \/ BindNext(b, {}) /\ UNCHANGED left
                 \/ BindNext(b, {e}) /\ Spend("lost")
           \/ /\ ~Accepts(e)
              /\ BindNext(b, {e})
              /\ UNCHANGED <<api, watches, left>>
           \/ /\ Spend("err")
              /\ BindNext(b, {e})
              /\ UNCHANGED <<api, watches>>
        /\ UNCHANGED <<c, cleaning, rs, sending, channel, bindCache, evictions,
                       ssn, history, scenario>>

\* The end of an eviction: an error sends the task back.
EvictEnd(v, errs) == /\ evictions' = evictions \ {v}
                     /\ errTasks' = errTasks \cup errs

\* The evictor sets a condition, which fails on a pod that has changed, and
\* deletes by name.  If the pod it knows has the condition already it does
\* nothing.
EvictStatus(v) ==
    /\ v \in evictions /\ v.step = "status"
    /\ LET p == v.t[1]
           e == [t |-> v.t, node |-> v.node]
           stale == pod[p] # v.pod
       IN  \/ /\ v.pod.evicted
              /\ EvictEnd(v, {}) /\ UNCHANGED <<api, watches, left>>
           \/ /\ ~v.pod.evicted /\ stale
              /\ EvictEnd(v, {e}) /\ UNCHANGED <<api, watches, left>>
           \/ /\ ~v.pod.evicted /\ Spend("err")
              /\ EvictEnd(v, {e}) /\ UNCHANGED <<api, watches>>
           \/ /\ ~v.pod.evicted /\ ~stale
              /\ PutPod(p, [pod[p] EXCEPT !.evicted = TRUE])
              /\ evictions' = (evictions \ {v})
                                \cup {[v EXCEPT !.step = "delete"]}
              /\ UNCHANGED <<errTasks, left>>
    /\ UNCHANGED <<c, cleaning, rs, sending, channel, bindCache, binds, ssn,
                   history, scenario>>

EvictDelete(v) ==
    /\ v \in evictions /\ v.step = "delete"
    /\ LET p == v.t[1]
           e == [t |-> v.t, node |-> v.node]
       IN  \/ /\ pod[p].uid # 0 /\ PutPod(p, Deleted(pod[p]))
              /\ \/ EvictEnd(v, {}) /\ UNCHANGED left
                 \/ EvictEnd(v, {e}) /\ Spend("lost")
           \/ /\ pod[p].uid = 0
              /\ EvictEnd(v, {e}) /\ UNCHANGED <<api, watches, left>>
           \/ Spend("err") /\ EvictEnd(v, {e}) /\ UNCHANGED <<api, watches>>
    /\ UNCHANGED <<c, cleaning, rs, sending, channel, bindCache, binds, ssn,
                   history, scenario>>

-----------------------------------------------------------------------------
(***************************************************************************)
(* The resync worker reads the pod by name, without the mutex, and then    *)
(* replaces the task.  If there is no such pod it deletes the task, still  *)
(* without the mutex, and tries again for ever if the task is not there.   *)
(***************************************************************************)
processResyncTask(e) ==
    /\ e \in errTasks /\ rs = Idle
    /\ \/ /\ errTasks' = errTasks \ {e}
          /\ rs' = [e |-> e, got |-> pod[e.t[1]],
                    step |-> IF pod[e.t[1]].uid = 0 THEN "delete" ELSE "update"]
          /\ UNCHANGED left
       \/ Spend("err") /\ UNCHANGED <<errTasks, rs>>
    /\ UNCHANGED <<api, watches, c, cleaning, sending, channel, bindCache,
                   binds, evictions, ssn, history, scenario>>

updateTask ==
    /\ Free /\ rs.step = "update"
    /\ LET k == deleteTask(c, rs.e.t, rs.e.node)
           p == rs.e.t[1]
       IN  /\ c' = addTask(k, p, rs.got)
           /\ errTasks' = errTasks \cup
                            IF addTaskFails(k, p, rs.got) THEN {rs.e} ELSE {}
    /\ overtaken' = (overtaken \/ rs.got.uid # rs.e.t[2])
    /\ rs' = Idle
    /\ UNCHANGED <<api, watches, cleaning, sending, channel, bindCache, binds,
                   evictions, ssn, left, displaced, crashed, scenario>>

syncTaskJob ==
    /\ rs.step = "delete"
    /\ rs' = [rs EXCEPT !.step = IF deleteTaskFails(c, rs.e.t) THEN "retry"
                                 ELSE "node"]
    /\ c' = DropTask(c, rs.e.t)
    /\ UNCHANGED <<api, watches, cleaning, errTasks, sending, channel,
                   bindCache, binds, evictions, ssn, left, history, scenario>>

syncTaskNode ==
    /\ rs.step \in {"node", "retry"}
    /\ c' = RemoveFrom(c, rs.e.node, rs.e.t[1])
    /\ errTasks' = errTasks \cup IF rs.step = "retry" THEN {rs.e} ELSE {}
    /\ rs' = Idle
    /\ UNCHANGED <<api, watches, cleaning, sending, channel, bindCache, binds,
                   evictions, ssn, left, history, scenario>>

-----------------------------------------------------------------------------
(***************************************************************************)
(* Kubelets, users, other controllers and the network.                     *)
(***************************************************************************)
Others == <<c, cleaning, workers, ssn, history, scenario>>

KubeletRun(p) ==
    /\ pod[p].phase = "Pending" /\ pod[p].node # "" /\ ~pod[p].deleting
    /\ PutPod(p, [pod[p] EXCEPT !.phase = "Running"])
    /\ UNCHANGED <<left, Others>>

KubeletEnd(p) ==
    /\ pod[p].phase = "Running" /\ Spend("finish")
    /\ \E s \in {"Succeeded", "Failed"} :
         PutPod(p, [pod[p] EXCEPT !.phase = s])
    /\ UNCHANGED Others

KubeletRemove(p) ==
    /\ pod[p].deleting
    /\ PutPod(p, NoPod)
    /\ UNCHANGED <<left, Others>>

\* The kubelet reports its own Ready condition again.
KubeletStatus(p) ==
    /\ pod[p].evicted /\ pod[p].phase = "Running" /\ ~pod[p].deleting
    /\ PutPod(p, [pod[p] EXCEPT !.evicted = FALSE])
    /\ UNCHANGED <<left, Others>>

DeletePod(p) ==
    /\ pod[p].uid # 0 /\ ~pod[p].deleting /\ Spend("delete")
    /\ PutPod(p, Deleted(pod[p]))
    /\ UNCHANGED Others

CreatePod(p) ==
    /\ pod[p].uid = 0 /\ uids[p] < MaxUid /\ Spend("create")
    /\ uids' = [uids EXCEPT ![p] = @ + 1]
    /\ pod' = [pod EXCEPT ![p] = [NoPod EXCEPT !.uid = uids[p] + 1]]
    /\ podWatch' = Append(podWatch, [name |-> p, obj |-> pod'[p]])
    /\ UNCHANGED <<node, group, nodeWatch, groupWatch, podSeen, Others>>

ForeignBind(p, n) ==
    /\ JobOf[p] = "" /\ pod[p].uid # 0 /\ pod[p].node = "" /\ Spend("foreign")
    /\ PutPod(p, [pod[p] EXCEPT !.node = n])
    /\ UNCHANGED Others

PutNode(n, o, new) ==
    /\ node' = [node EXCEPT ![n] = o]
    /\ nodeWatch' = Append(nodeWatch, [name |-> n, obj |-> o, new |-> new])
    /\ UNCHANGED <<pod, uids, group, podWatch, groupWatch, podSeen, Others>>

\* A node has less to give, or is no longer ready.
NodeWorse(n) ==
    /\ node[n].there /\ Spend("resize")
    /\ \/ node[n].alloc > 0 /\ PutNode(n, [node[n] EXCEPT !.alloc = @ - 1], FALSE)
       \/ node[n].ready /\ PutNode(n, [node[n] EXCEPT !.ready = FALSE], FALSE)

NodeGoes(n) == node[n].there /\ Spend("renew") /\ PutNode(n, NoNode, FALSE)

NodeBack(n) ==
    /\ node[n] # [alloc |-> Alloc[n], ready |-> TRUE, there |-> TRUE]
    /\ PutNode(n, [alloc |-> Alloc[n], ready |-> TRUE, there |-> TRUE],
               ~node[n].there)
    /\ UNCHANGED left

PutGroup(j, there) ==
    /\ group' = IF there THEN group \cup {j} ELSE group \ {j}
    /\ groupWatch' = Append(groupWatch, [job |-> j, there |-> there])
    /\ UNCHANGED <<pod, uids, node, podWatch, nodeWatch, podSeen, Others>>

GroupGoes(j) == j \in group /\ Spend("group") /\ PutGroup(j, FALSE)
GroupBack(j) == j \notin group /\ PutGroup(j, TRUE) /\ UNCHANGED left

\* A watch breaks: only the last state of each object is seen, also of a pod that has
\* changed and changed back.  Of a PodGroup that is gone nothing is seen, its tombstone
\* does not pass the filter.
Changed(p) == pod[p] # podSeen[p] \/ \E i \in DOMAIN podWatch : podWatch[i].name = p
Relist ==
    /\ Spend("relist")
    /\ \/ /\ podWatch' = Listed({p \in Names : Changed(p)}, PodEvent)
          /\ UNCHANGED groupWatch
       \/ /\ groupWatch' = Listed(group, GroupEvent)
          /\ UNCHANGED podWatch
    /\ UNCHANGED <<api, nodeWatch, podSeen, Others>>

-----------------------------------------------------------------------------
Init ==
    /\ scenario \in Scenarios /\ left = scenario.budget
    /\ uids = [p \in Names |-> IF p \in scenario.pods THEN 1 ELSE 0]
    /\ pod = [p \in Names |-> [NoPod EXCEPT !.uid = uids[p]]]
    /\ node = [n \in Nodes |-> [alloc |-> Alloc[n], ready |-> TRUE, there |-> TRUE]]
    /\ group = Jobs
    /\ podWatch = Listed(scenario.pods, PodEvent)
    /\ nodeWatch = Listed(Nodes, NodeEvent)
    /\ groupWatch = Listed(Jobs, GroupEvent)
    /\ podSeen = [p \in Names |-> NoPod]
    /\ c = EmptyCache /\ ssn = NoSession
    /\ cleanups = [waiting |-> {}, ready |-> {}] /\ orphans = {}
    /\ errTasks = {} /\ rs = Idle /\ sending = NoBind
    /\ overtaken = FALSE /\ displaced = FALSE /\ crashed = FALSE
    /\ channel = <<>> /\ bindCache = <<>> /\ binds = {} /\ evictions = {}

Handlers == HandlePod \/ HandleNode \/ HandleGroup

Cleanup == \E e \in cleanups.waiting \cup cleanups.ready :
             CleanupDue(e) \/ processCleanupJob(e)

Session == \/ Snapshot \/ CloseSession \/ Sent
           \/ \E t \in DOMAIN ssn.tasks :
                \/ taskUnschedulable(t) \/ Evict(t)
                \/ \E n \in DOMAIN ssn.nodes : Dispatch(t, n)

Resync == \/ \E e \in errTasks : processResyncTask(e)
          \/ updateTask \/ syncTaskJob \/ syncTaskNode

BindWorker == processBindTask \/ BindTask

Goroutines == \/ \E b \in binds : Bind(b)
              \/ \E v \in evictions : EvictStatus(v) \/ EvictDelete(v)

Kubelet == \E p \in Names : KubeletRun(p) \/ KubeletRemove(p) \/ KubeletStatus(p)

Environment ==
    \/ Crash \/ Relist
    \/ \E p \in Names : \/ KubeletEnd(p) \/ DeletePod(p) \/ CreatePod(p)
                        \/ \E n \in Nodes : ForeignBind(p, n)
    \/ \E n \in Nodes : NodeWorse(n) \/ NodeGoes(n) \/ NodeBack(n)
    \/ \E j \in Jobs : GroupGoes(j) \/ GroupBack(j)

Next == \/ Handlers \/ Cleanup \/ Session \/ Resync \/ BindWorker \/ Goroutines
        \/ Kubelet \/ Environment

Spec == Init /\ [][Next]_vars

\* A failed task that no longer exists; it is retried without end.
Hopeless(e) == pod[e.t[1]].uid = 0 /\ e.t \notin DOMAIN c.tasks

\* Every loop of the scheduler goes round, the queue of errTasks does not hand
\* out the hopeless ones only, kubelets do their work.  Users and sessions owe
\* nothing, except that a session that waits for the channel goes on.
FairSpec ==
    /\ Spec
    /\ WF_vars(HandlePod) /\ WF_vars(HandleNode) /\ WF_vars(HandleGroup)
    /\ WF_vars(Sent) /\ WF_vars(BindWorker) /\ WF_vars(Goroutines)
    /\ WF_vars(updateTask \/ syncTaskJob \/ syncTaskNode) /\ WF_vars(Kubelet)
    /\ SF_vars(\E e \in errTasks : ~Hopeless(e) /\ processResyncTask(e))

-----------------------------------------------------------------------------
TypeOK ==
    /\ pod \in [Names -> [uid : 0 .. MaxUid, node : Nodes \cup {""},
                          phase : {"Pending", "Running", "Succeeded", "Failed"},
                          deleting : BOOLEAN, evicted : BOOLEAN,
                          told : BOOLEAN]]
    /\ DOMAIN c.jobs \subseteq Jobs /\ DOMAIN c.nodes \subseteq Nodes
    /\ \A t \in DOMAIN c.tasks :
         /\ t \in Tids /\ JobOf[t[1]] \in DOMAIN c.jobs
         /\ c.tasks[t].status \in TaskStatuses
    /\ Len(channel) <= ChannelCap /\ Len(bindCache) <= BatchNum

\* The totals of every NodeInfo are those of the tasks it holds, and a node
\* never gives more than it has, whatever the order in which events, bindings,
\* evictions and resynchronisations reach it (node_info.go AddTask,
\* RemoveTask, SetNode).
NodeAccounting == \A n \in DOMAIN c.nodes : Accounted(c.nodes[n])

On(n) == {p \in Names : pod[p].node = n /\ ~isTerminated(pod[p].phase)}

\* As long as only this scheduler binds pods and nodes keep what they have,
\* the pods the API server has bound to a node fit the node: a binding that is
\* under way keeps its place in the cache until the API server has decided
\* (AddBindTask, updatePod, syncTask).  After a restart sessions begin before
\* the handlers have seen every pod, and updatePod protects only tasks that
\* are allocated, not those that are leaving: see crashed and displaced.
OwnWorld == \A d \in {"resize", "renew", "foreign"} : scenario.budget[d] = 0
NoOvercommit ==
    OwnWorld /\ ~overtaken /\ ~displaced /\ ~crashed =>
      \A n \in Nodes : Total(On(n)) <= node[n].alloc

\* Nothing is on its way to the cache or from it; what is left of errTasks
\* are tasks whose pods are gone, which are retried without end.
Settled ==
    /\ podWatch = <<>> /\ nodeWatch = <<>> /\ groupWatch = <<>>
    /\ Free /\ channel = <<>> /\ bindCache = <<>> /\ binds = {}
    /\ evictions = {} /\ rs = Idle
    /\ \A e \in errTasks : Hopeless(e)

\* The tasks the cache should have of pod p, and what node n should hold of it.
Mirrored(p) ==
    IF pod[p].uid = 0 \/ JobOf[p] = "" THEN {} ELSE {<<p, pod[p].uid>>}
Held(p, n) ==
    IF pod[p].uid # 0 /\ pod[p].node = n /\ ~isTerminated(pod[p].phase)
    THEN getTaskStatus(pod[p]) ELSE "None"

\* When everything has settled, the cache shows the pods of the API server:
\* each Job has exactly its pods with their status and node, and each node
\* holds exactly the pods bound to it.  A binding or an eviction that failed,
\* was lost or was overtaken leaves nothing behind (syncTask, updatePod,
\* deletePod).  A pod that carries the condition of an eviction without being
\* deleted is Releasing until its kubelet reports again.
Steady ==
    /\ \A d \in {"resize", "renew", "foreign"} : scenario.budget[d] = 0
    /\ \A n \in DOMAIN c.nodes : c.nodes[n].ready
AgreesWhenSettled ==
    Steady /\ Settled /\ ~overtaken /\ ~displaced /\ orphans = {} =>
      \A p \in Names :
        pod[p].evicted \/
        /\ {t \in DOMAIN c.tasks : t[1] = p} = Mirrored(p)
        /\ \A t \in Mirrored(p) : /\ c.tasks[t].status = getTaskStatus(pod[p])
                                  /\ c.tasks[t].node = pod[p].node
        /\ \A n \in Nodes : c.nodes[n].tasks[p] = Held(p, n)

\* Bindings come to an end: again and again there is a moment when no task is
\* being bound, for its pod has been bound or the task can be scheduled again
\* (processBindTask, Bind, resyncTask), even though AddBindTask may wait for
\* the channel with the mutex in its hands.
BindSettles ==
    []<>(overtaken \/ \A t \in DOMAIN c.tasks : c.tasks[t].status # "Binding")

=============================================================================
