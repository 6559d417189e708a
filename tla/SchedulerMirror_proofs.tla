----------------------- MODULE SchedulerMirror_proofs -----------------------
(***************************************************************************)
(* The proof of AgreesWhenSettled.  The invariant says, pod by pod, how    *)
(* the cache differs from the API server while something is on its way:    *)
(* every difference has an excuse, an event the informer has not delivered *)
(* yet, or a binding, an eviction or a resynchronisation that will put it  *)
(* right.  When nothing is on its way there is no excuse left.             *)
(***************************************************************************)
EXTENDS SchedulerPlaces_proofs

-----------------------------------------------------------------------------
(***************************************************************************)
(* The invariant.                                                          *)
(***************************************************************************)
\* A node of the cache that is not ready is one whose Node object has still
\* to come.
Ready == \A n \in DOMAIN c.nodes :
           \/ c.nodes[n].ready = TRUE
           \/ \E i \in DOMAIN nodeWatch : nodeWatch[i].name = n

\* The hypothesis of AgreesWhenSettled, as long as nothing has settled.
Clear == OwnWorld /\ ~overtaken /\ ~displaced /\ orphans = {} /\ Ready

\* Nodes come once and stay.
NodesArrive ==
    /\ \A n \in Nodes : node[n] = Full(n)
    /\ \A i \in DOMAIN nodeWatch :
         nodeWatch[i].obj = Full(nodeWatch[i].name) /\ nodeWatch[i].new = TRUE
    /\ \A i, j \in DOMAIN nodeWatch : nodeWatch[i].name = nodeWatch[j].name => i = j
    /\ \A i \in DOMAIN nodeWatch :
         nodeWatch[i].name \in DOMAIN c.nodes => c.nodes[nodeWatch[i].name].set = FALSE
    /\ \A n \in Nodes : \/ n \in DOMAIN c.nodes
                        \/ \E i \in DOMAIN nodeWatch : nodeWatch[i].name = n

\* The informer has delivered all there is of the pod.
Fresh(p) == \A i \in DOMAIN podWatch : podWatch[i].name # p

\* Only own pods are bound, only bound pods evicted, and no pod is NoPod.
Sane(p, o) == /\ o.evicted = TRUE => o.node # ""
              /\ JobOf[p] = "" => o.node = ""
              /\ o.uid = 0 => o = NoPod

\* Of one pod: bound stays bound, and no other pod comes in between.
Later(o, new) == o.uid = new.uid /\ o.uid # 0 => (o.node # "" => new.node # "")
Between(o, mid, new) == o.uid = new.uid /\ o.uid # 0 => mid.uid = o.uid

EventsOrdered ==
    /\ \A p \in Names : Sane(p, pod[p]) /\ Sane(p, podSeen[p])
    /\ \A p \in Names : Fresh(p) => podSeen[p] = pod[p]
    /\ \A i \in DOMAIN podWatch :
         /\ Sane(podWatch[i].name, podWatch[i].obj)
         /\ Later(podSeen[podWatch[i].name], podWatch[i].obj)
    /\ \A i \in DOMAIN podWatch :
         (\A j \in DOMAIN podWatch : i < j => podWatch[j].name # podWatch[i].name)
           => podWatch[i].obj = pod[podWatch[i].name]
    /\ \A i, j \in DOMAIN podWatch :
         i < j /\ podWatch[i].name = podWatch[j].name =>
           /\ Later(podWatch[i].obj, podWatch[j].obj)
           /\ Between(podSeen[podWatch[i].name], podWatch[i].obj, podWatch[j].obj)
    /\ \A i, j, k \in DOMAIN podWatch :
         i < j /\ j < k /\ podWatch[i].name = podWatch[j].name
           /\ podWatch[i].name = podWatch[k].name =>
           Between(podWatch[i].obj, podWatch[j].obj, podWatch[k].obj)

\* A task that runs, for the cache, a session or an eviction, is of a pod that
\* is bound if it is still there.
TaskRuns(t, x) ==
    /\ t[2] <= uids[t[1]] /\ x.pod.uid = t[2]
    /\ t[2] = pod[t[1]].uid /\ x.status \notin {"Pending", "Binding"} => pod[t[1]].node # ""

EvictionRuns(v) ==
    /\ v.t[2] <= uids[v.t[1]] /\ v.pod.uid = v.t[2]
    /\ v.t[2] = pod[v.t[1]].uid => pod[v.t[1]].node # ""

RunningBound ==
    /\ \A t \in DOMAIN c.tasks : TaskRuns(t, c.tasks[t])
    /\ SessionKnown
    /\ \A v \in evictions : EvictionRuns(v)
    /\ rs.step = "update" => Past(rs.e.t[1], rs.got)

World == NodesArrive /\ EventsPast /\ EventsOrdered /\ RunningBound

-----------------------------------------------------------------------------
\* What will still say something about the task e.t on e.node.
Excuse(e) == Underway(e) \/ \E v \in evictions : EntryOf(v) = e

\* An eviction that knows the pod as evicted already does nothing.
Answers(v) == v.step = "delete" \/ v.pod.evicted = FALSE
Waits(e) == Underway(e) \/ \E v \in evictions : EntryOf(v) = e /\ Answers(v)

Unexcused(t) == \A e \in Entries : e.t = t => ~Excuse(e)

Alone(t) ==
    /\ \A e \in Entries : e.t = t /\ Underway(e) =>
         Once(e) /\ \A v \in evictions : v.t # t
    /\ \A v, w \in evictions : v.t = t /\ w.t = t => v = w

\* If the pod t is there, or was last, the informer has delivered it last.
SeenAll(t) ==
    /\ t[2] <= uids[t[1]]
    /\ t[2] = pod[t[1]].uid => podSeen[t[1]].uid = t[2]
    /\ \A i \in DOMAIN podWatch :
         podWatch[i].name = t[1] /\ podWatch[i].obj.uid = t[2] => podSeen[t[1]].uid = t[2]

Tid(p) == <<p, podSeen[p].uid>>
Known(p) == Tid(p) \in DOMAIN c.tasks
Info(p) == c.tasks[Tid(p)]
Live(p) == podSeen[p].uid = pod[p].uid /\ pod[p].uid # 0 /\ JobOf[p] # ""
Ended(p) == isTerminated(pod[p].phase)
Reads(p) == rs # Idle /\ rs.e.t[1] = p

\* What node n of cache k holds of pod p.
At(k, n, p) == IF n \in DOMAIN k.nodes THEN k.nodes[n].tasks[p] ELSE "None"

\* A pod that is bound before its first event is bound in that event.
BoundFirst(p) ==
    \A i \in DOMAIN podWatch :
      podWatch[i].name = p /\ podWatch[i].obj.uid = pod[p].uid
        /\ pod[p].node # "" /\ podSeen[p].uid # pod[p].uid => podWatch[i].obj.node # ""

AllSeen(p) ==
    /\ \A e \in Entries : e.t[1] = p /\ Excuse(e) => SeenAll(e.t)
    /\ \A t \in DOMAIN ssn.tasks : t[1] = p => SeenAll(t)

\* Where the cache has the pod, whatever has become of it.
TaskPlace(p) ==
    /\ \A t \in DOMAIN c.tasks : t[1] = p => t[2] = podSeen[p].uid
    /\ Known(p) /\ podSeen[p].node # "" => Info(p).node = podSeen[p].node
    /\ Known(p) /\ Info(p).status = "Pending" => Info(p).node = ""
    /\ \A n \in Nodes : At(c, n, p) # "None" =>
         /\ podSeen[p].uid # 0
         /\ \/ podSeen[p].node = n
            \/ /\ podSeen[p].node = ""
               /\ \/ Known(p) /\ Info(p).node = n
                  \/ rs.step = "node" /\ rs.e = [t |-> Tid(p), node |-> n]

\* Of a pod that has no node as far as the informer knows, one thing at most
\* is under way, to the node the cache has it on.
Unsettled(p) ==
    podSeen[p].uid # 0 /\ podSeen[p].node = "" =>
      /\ Alone(Tid(p))
      /\ \A e \in Entries : e.t = Tid(p) /\ Excuse(e) =>
           \/ Known(p) /\ Info(p).node = e.node
           \/ ~Known(p) /\ rs.step = "node" /\ rs.e = e
      /\ Known(p) /\ Info(p).status \notin {"Binding", "Releasing"} => Unexcused(Tid(p))
      /\ Tid(p) \in DOMAIN ssn.tasks /\ ssn.tasks[Tid(p)] \in {"Pending", "Running"} =>
           Unexcused(Tid(p))

\* What the cache says of a pod the informer has delivered and that is there.
TaskOf(p) ==
    Live(p) =>
      /\ Known(p)
      /\ Info(p).status \notin {"Pending", "Binding"} => pod[p].node # ""
      /\ isTerminated(Info(p).status) => Ended(p)
      /\ pod[p].node # "" => Info(p).node = pod[p].node \/ Ended(p)
      /\ Info(p).pod.evicted = TRUE => /\ pod[p].node # ""
                                       /\ ~Fresh(p) \/ podSeen[p].evicted = TRUE
      /\ \A e \in Entries : e.t = Tid(p) /\ Excuse(e) /\ pod[p].node # "" =>
           e.node = pod[p].node \/ Ended(p)
      /\ Info(p).status = "Binding" =>
           pod[p].node # "" \/ \E e \in Entries : e.t = Tid(p) /\ Underway(e)

\* Something is still to come for the task where it is.
Pending(p) == \E e \in Entries : e.t = Tid(p) /\ e.node = Info(p).node /\ Waits(e)

Excused(p) == ~Fresh(p) \/ Pending(p) \/ pod[p].evicted = TRUE

NodeOfTask(p) ==
    Live(p) /\ Info(p).node # "" =>
      /\ Info(p).node \in DOMAIN c.nodes
      /\ IF isTerminated(Info(p).status)
         THEN At(c, Info(p).node, p) = "None" \/ Excused(p)
         ELSE At(c, Info(p).node, p) = Info(p).status

Agrees(p) ==
    Live(p) =>
      \/ Excused(p)
      \/ Info(p).status = getTaskStatus(podSeen[p]) /\ Info(p).node = podSeen[p].node

\* What the resync worker has read.
Reading(p) ==
    Reads(p) =>
      /\ rs.step = "update" /\ rs.got.uid = rs.e.t[2] =>
           /\ podSeen[p].uid = rs.got.uid
           /\ Sane(p, rs.got) /\ Past(p, rs.got)
           /\ rs.got = podSeen[p] \/ ~Fresh(p)
           /\ rs.got.node # "" => rs.got.node = rs.e.node \/ isTerminated(rs.got.phase)
           /\ podSeen[p].node # "" => rs.got.node = podSeen[p].node
           /\ rs.got.node = "" /\ rs.got.uid = pod[p].uid => pod[p].node = ""
      /\ rs.step \in {"delete", "node", "retry"} => ~Live(p)

MirrorOf(p) == /\ BoundFirst(p) /\ AllSeen(p) /\ TaskPlace(p) /\ Unsettled(p)
               /\ TaskOf(p) /\ NodeOfTask(p) /\ Agrees(p) /\ Reading(p)

Mirror == \A p \in Names : MirrorOf(p)

MirrorInv == (OwnWorld => World) /\ (Clear => Mirror)

-----------------------------------------------------------------------------
(***************************************************************************)
(* What the operations of the cache do to one pod.                         *)
(***************************************************************************)
\* The tasks and places of pod q are the same in k and m.
Alike(k, m, q) ==
    /\ \A t \in OwnTids : t[1] = q =>
         /\ t \in DOMAIN m.tasks <=> t \in DOMAIN k.tasks
         /\ t \in DOMAIN k.tasks => m.tasks[t] = k.tasks[t]
    /\ \A n \in Nodes : At(m, n, q) = At(k, n, q)

OthersAlike(k, m, p) == \A q \in Names : q # p => Alike(k, m, q)

\* Nodes stay, no node becomes ready, and new ones have no Node object.
NodesLike(k, m) ==
    /\ \A n \in DOMAIN k.nodes :
         /\ n \in DOMAIN m.nodes /\ m.nodes[n].set = k.nodes[n].set
         /\ m.nodes[n].ready = TRUE => k.nodes[n].ready = TRUE
    /\ \A n \in DOMAIN m.nodes : n \in DOMAIN k.nodes \/ m.nodes[n].set = FALSE

\* Both are transitive, and hold if nothing changes.
LEMMA AlikeTwice ==
    ASSUME NEW k, NEW h, NEW m, NEW q, Alike(k, h, q), Alike(h, m, q)
    PROVE  Alike(k, m, q)
  BY DEF Alike

\* A cache with the same tasks and nodes is alike for every pod.
LEMMA AlikeSame ==
    ASSUME NEW k, NEW m, NEW q, m.tasks = k.tasks, m.nodes = k.nodes
    PROVE  Alike(k, m, q)
  BY DEF Alike, At

\* So for the other pods.
LEMMA OthersTwice ==
    ASSUME NEW k, NEW h, NEW m, NEW p, OthersAlike(k, h, p), OthersAlike(h, m, p)
    PROVE  OthersAlike(k, m, p)
  BY AlikeTwice DEF OthersAlike

\* Nodes that stay twice stay.
LEMMA NodesLikeTwice ==
    ASSUME NEW k, NEW h, NEW m, NodesLike(k, h), NodesLike(h, m)
    PROVE  NodesLike(k, m)
  BY DEF NodesLike

\* The same nodes stay.
LEMMA NodesLikeSame ==
    ASSUME NEW k, NEW m, m.nodes = k.nodes
    PROVE  NodesLike(k, m)
  BY DEF NodesLike

\* A node seen first in a pod has none of them.
LEMMA WithNodeIs ==
    ASSUME NEW k \in Caches, NEW n \in Nodes \cup {""}
    PROVE  /\ WithNode(k, n).tasks = k.tasks /\ NodesLike(k, WithNode(k, n))
           /\ n # "" => n \in DOMAIN WithNode(k, n).nodes
           /\ \A q \in Names : Alike(k, WithNode(k, n), q)
<1> DEFINE m == WithNode(k, n)
<1>1. CASE n \in DOMAIN k.nodes \cup {""}
  <2>1. m = k
    BY <1>1 DEF WithNode
  <2>2. NodesLike(k, k) /\ \A q \in Names : Alike(k, k, q)
    BY NodesLikeSame, AlikeSame
  <2> QED
    BY <1>1, <2>1, <2>2
<1>2. CASE n \notin DOMAIN k.nodes \cup {""}
  <2> DEFINE f == Put(k.nodes, n, UnsetNodeInfo)
  <2>1. UnsetNodeInfo.set = FALSE /\ \A q \in Names : UnsetNodeInfo.tasks[q] = "None"
    BY DEF UnsetNodeInfo
  <2>2. UnsetNodeInfo \in GoodNodes
    BY UnsetNodeIsAccounted DEF GoodNodes, UnsetNodeInfo
  <2>3. n \in Nodes /\ k.nodes \in Partial(Nodes, GoodNodes)
    BY <1>2 DEF Caches
  <2>4. f \in Partial(Nodes, GoodNodes)
    BY <2>2, <2>3, PartialPut
  <2>5. /\ DOMAIN f = DOMAIN k.nodes \cup {n} /\ f[n] = UnsetNodeInfo
        /\ \A y \in DOMAIN k.nodes : y # n => f[y] = k.nodes[y]
    BY DEF Put
  <2>6. m = [k EXCEPT !.nodes = f]
    BY <1>2 DEF WithNode
  <2> HIDE DEF f, m
  <2>7. m.tasks = k.tasks /\ m.nodes = f
    BY <2>4, <2>6, CacheWith
  <2>8. \A y \in DOMAIN k.nodes : f[y] = k.nodes[y]
    BY <1>2, <2>5
  <2>9. NodesLike(k, m)
    BY <2>1, <2>5, <2>7, <2>8 DEF NodesLike
  <2>10. ASSUME NEW q \in Names PROVE Alike(k, m, q)
    BY <2>1, <2>5, <2>7, <2>8, <1>2 DEF Alike, At
  <2> QED
    BY <2>5, <2>7, <2>9, <2>10 DEF m
<1> QED
  BY <1>1, <1>2

\* What a node replaced by one that differs in pod p only changes.
PlaceSet(k, m, n, p, s) ==
    /\ At(m, n, p) = s
    /\ \A y \in Nodes : y # n => At(m, y, p) = At(k, y, p)

\* A node replaced so changes nothing for the other pods.
LEMMA ReplaceIs ==
    ASSUME NEW k \in Caches, NEW n \in DOMAIN k.nodes, NEW x \in GoodNodes, NEW p \in Names,
           x.set = k.nodes[n].set, x.ready = TRUE => k.nodes[n].ready = TRUE,
           \A q \in Names : q # p => x.tasks[q] = k.nodes[n].tasks[q]
    PROVE  /\ NodesLike(k, ReplaceNode(k, n, x))
           /\ OthersAlike(k, ReplaceNode(k, n, x), p)
           /\ PlaceSet(k, ReplaceNode(k, n, x), n, p, x.tasks[p])
           /\ ReplaceNode(k, n, x).tasks = k.tasks
<1> DEFINE m == ReplaceNode(k, n, x)
<1>1. /\ m.tasks = k.tasks /\ DOMAIN m.nodes = DOMAIN k.nodes /\ m.nodes[n] = x
      /\ \A y \in DOMAIN k.nodes : y # n => m.nodes[y] = k.nodes[y]
  BY ReplaceNodeType
<1> HIDE DEF m
<1>2. NodesLike(k, m)
  BY <1>1 DEF NodesLike
<1>3. ASSUME NEW q \in Names, q # p PROVE Alike(k, m, q)
  <2>1. \A y \in DOMAIN k.nodes : m.nodes[y].tasks[q] = k.nodes[y].tasks[q]
    BY <1>1, <1>3
  <2> QED
    BY <1>1, <2>1 DEF Alike, At
<1>4. PlaceSet(k, m, n, p, x.tasks[p])
  BY <1>1 DEF PlaceSet, At
<1> QED
  BY <1>1, <1>2, <1>3, <1>4 DEF m, OthersAlike

\* AddTask, RemoveTask and UpdateTask change the place of one pod.
LEMMA AddTaskIs ==
    ASSUME NEW ni \in GoodNodes, NEW p \in Names,
           NEW s \in TaskStatuses, s # "Pipelined", CanAddTask(ni, p, s)
    PROVE  /\ AddTask(ni, p, s) \in GoodNodes /\ AddTask(ni, p, s).set = ni.set
           /\ AddTask(ni, p, s).ready = ni.ready /\ AddTask(ni, p, s).tasks[p] = s
           /\ \A q \in Names : q # p => AddTask(ni, p, s).tasks[q] = ni.tasks[q]
<1> DEFINE m == AddTask(ni, p, s)
<1>1. ni \in NodeInfoType /\ Accounted(ni)
  BY DEF GoodNodes
<1>2. m.set = ni.set /\ m.ready = ni.ready /\ m.tasks = [ni.tasks EXCEPT ![p] = s]
  BY <1>1, AddTaskIsAccounted
<1>3. DOMAIN ni.tasks = Names
  BY <1>1 DEF NodeInfoType
<1>4. m \in GoodNodes
  BY GoodAdd
<1> HIDE DEF m
<1>5. m.tasks[p] = s /\ \A q \in Names : q # p => m.tasks[q] = ni.tasks[q]
  BY <1>2, <1>3
<1> QED
  BY <1>2, <1>4, <1>5 DEF m

\* RemoveTask leaves the node ready or not and the other pods.
LEMMA RemoveTaskIs ==
    ASSUME NEW ni \in GoodNodes, NEW p \in Names
    PROVE  /\ RemoveTask(ni, p) \in GoodNodes /\ RemoveTask(ni, p).set = ni.set
           /\ RemoveTask(ni, p).ready = ni.ready /\ RemoveTask(ni, p).tasks[p] = "None"
           /\ \A q \in Names : q # p => RemoveTask(ni, p).tasks[q] = ni.tasks[q]
<1>1. ni \in NodeInfoType /\ Accounted(ni)
  BY DEF GoodNodes
<1>2. RemoveTask(ni, p).ready = ni.ready
  BY <1>1, RemoveTaskIsAccounted
<1> QED
  BY <1>2, GoodRemove

\* So does UpdateTask.
LEMMA UpdateTaskIs ==
    ASSUME NEW ni \in GoodNodes, NEW p \in Names,
           NEW s \in TaskStatuses, s # "Pipelined", CanUpdateTask(ni, p, s)
    PROVE  /\ UpdateTask(ni, p, s) \in GoodNodes /\ UpdateTask(ni, p, s).set = ni.set
           /\ UpdateTask(ni, p, s).ready = ni.ready /\ UpdateTask(ni, p, s).tasks[p] = s
           /\ \A q \in Names : q # p => UpdateTask(ni, p, s).tasks[q] = ni.tasks[q]
<1> DEFINE h == RemoveTask(ni, p)
           m == AddTask(h, p, s)
<1>1. /\ h \in GoodNodes /\ h.set = ni.set /\ h.ready = ni.ready
      /\ \A q \in Names : q # p => h.tasks[q] = ni.tasks[q]
  BY RemoveTaskIs
<1>2. CanAddTask(h, p, s) /\ UpdateTask(ni, p, s) = m
  BY DEF CanUpdateTask, UpdateTask
<1> HIDE DEF h
<1>3. /\ m \in GoodNodes /\ m.set = h.set /\ m.ready = h.ready /\ m.tasks[p] = s
      /\ \A q \in Names : q # p => m.tasks[q] = h.tasks[q]
  BY <1>1, <1>2, AddTaskIs
<1> HIDE DEF m
<1> QED
  BY <1>1, <1>2, <1>3

\* Pod p has nothing in the cache, or exactly what its state o says.
Cleared(k, p) ==
    /\ \A t \in DOMAIN k.tasks : t[1] # p
    /\ \A n \in Nodes : At(k, n, p) = "None"

Tasked(k, p, o) ==
    /\ \A t \in DOMAIN k.tasks : t[1] = p => t = <<p, o.uid>>
    /\ <<p, o.uid>> \in DOMAIN k.tasks /\ k.tasks[<<p, o.uid>>] = InfoOf(o)
    /\ o.node # "" => o.node \in DOMAIN k.nodes

Shown(k, p, o) ==
    /\ Tasked(k, p, o)
    /\ \A n \in Nodes :
         At(k, n, p) = IF n = o.node /\ ~isTerminated(o.phase) THEN getTaskStatus(o)
                       ELSE "None"

\* AddTaskInfo writes one task of an own pod.
LEMMA AddTaskInfoIs ==
    ASSUME NEW k \in Caches, NEW p \in Names, NEW o \in PodObjects, o.uid # 0, JobOf[p] # "",
           \A t \in DOMAIN k.tasks : t[1] # p, o.node # "" => o.node \in DOMAIN k.nodes
    PROVE  /\ AddTaskInfo(k, p, o).nodes = k.nodes
           /\ Tasked(AddTaskInfo(k, p, o), p, o)
           /\ OthersAlike(k, AddTaskInfo(k, p, o), p)
<1> DEFINE h == getOrCreateJob(k, JobOf[p])
           t == <<p, o.uid>>
           f == Put(k.tasks, t, InfoOf(o))
           m == AddTaskInfo(k, p, o)
<1>1. JobOf[p] \in Jobs \cup {""}
  BY CacheAssumption
<1>2. h \in Caches /\ h.tasks = k.tasks /\ h.nodes = k.nodes
  BY <1>1, getOrCreateJobType
<1>3. m = [h EXCEPT !.tasks = Put(h.tasks, t, InfoOf(o))]
  BY DEF AddTaskInfo, InfoOf
<1>4. DOMAIN h = {"jobs", "tasks", "nodes", "born"}
  BY <1>2 DEF Caches
<1>5. /\ DOMAIN f = DOMAIN k.tasks \cup {t} /\ f[t] = InfoOf(o)
      /\ \A y \in DOMAIN k.tasks : y # t => f[y] = k.tasks[y]
  BY DEF Put
<1>6. t[1] = p
  OBVIOUS
<1> HIDE DEF h, f
<1>7. m.tasks = f /\ m.nodes = k.nodes
  BY <1>2, <1>3, <1>4 DEF f
<1> HIDE DEF m
<1>8. Tasked(m, p, o)
  BY <1>5, <1>7 DEF Tasked
<1>9. ASSUME NEW q \in Names, q # p PROVE Alike(k, m, q)
  <2>1. \A y \in OwnTids : y[1] = q => y # t
    BY <1>6, <1>9
  <2> HIDE DEF t
  <2> QED
    BY <1>5, <1>7, <2>1 DEF Alike, At
<1> QED
  BY <1>7, <1>8, <1>9 DEF m, OthersAlike

\* A node has its Node object and does not agree with it.
OutOfSync(m) == \E n \in DOMAIN m.nodes : m.nodes[n].ready = FALSE /\ m.nodes[n].set = TRUE

\* addTask of a pod the cache has nothing of: it has what the pod says, or the
\* node has no room and is out of sync.
LEMMA addTaskIs ==
    ASSUME NEW k \in Caches, NEW p \in Names, NEW o \in PodObjects, o.uid # 0, JobOf[p] # "",
           Cleared(k, p)
    PROVE  /\ NodesLike(k, addTask(k, p, o)) /\ OthersAlike(k, addTask(k, p, o), p)
           /\ \/ OutOfSync(addTask(k, p, o))
              \/ Shown(addTask(k, p, o), p, o) /\ ~addTaskFails(k, p, o)
<1> DEFINE n  == o.node
           k1 == WithNode(k, n)
           s  == getTaskStatus(o)
           m  == addTask(k, p, o)
<1>1. n \in Nodes \cup {""}
  BY DEF PodObjects
<1>2. /\ k1 \in Caches /\ k1.tasks = k.tasks /\ NodesLike(k, k1)
      /\ (n # "" => n \in DOMAIN k1.nodes) /\ \A q \in Names : Alike(k, k1, q)
  BY <1>1, WithNodeType, WithNodeIs
<1>3. /\ s \in TaskStatuses /\ s # "Pipelined"
      /\ isTerminated(s) <=> isTerminated(o.phase)
  BY TaskStatusType
<1>4. /\ \A t \in DOMAIN k1.tasks : t[1] # p
      /\ \A y \in Nodes : At(k1, y, p) = "None"
  BY <1>2 DEF Cleared, Alike
<1>5. OthersAlike(k, k1, p)
  BY <1>2 DEF OthersAlike
<1>6. CASE n = "" \/ isTerminated(s)
  <2>1. m = AddTaskInfo(k1, p, o) /\ ~addTaskFails(k, p, o)
    BY <1>6 DEF addTask, addTaskFails
  <2>2. m.nodes = k1.nodes /\ Tasked(m, p, o) /\ OthersAlike(k1, m, p)
    BY <1>2, <1>4, <2>1, AddTaskInfoIs
  <2> HIDE DEF k1, s, m
  <2>3. NodesLike(k, m) /\ OthersAlike(k, m, p)
    BY <1>2, <1>5, <2>2, NodesLikeSame, NodesLikeTwice, OthersTwice
  <2>4. \A y \in Nodes : At(m, y, p) = "None"
    BY <1>4, <2>2 DEF At
  <2>5. \A y \in Nodes : ~(y = o.node /\ ~isTerminated(o.phase))
    BY <1>3, <1>6, CacheAssumption
  <2>6. Shown(m, p, o)
    BY <2>2, <2>4, <2>5 DEF Shown
  <2> QED
    BY <2>1, <2>3, <2>6 DEF m
<1>7. CASE n # "" /\ ~isTerminated(s) /\ AllocateFail(k1.nodes[n], p, s)
  <2> DEFINE x == NotReady(k1.nodes[n])
  <2>1. m = ReplaceNode(k1, n, x)
    BY <1>7 DEF addTask, ReplaceNode, NotReady
  <2>2. n \in DOMAIN k1.nodes /\ k1.nodes[n] \in GoodNodes
    BY <1>2, <1>7, CacheParts
  <2>3. x \in GoodNodes /\ x.set = k1.nodes[n].set /\ x.tasks = k1.nodes[n].tasks
    BY <2>2, GoodNotReady
  <2>4. x.ready = FALSE
    BY <2>2 DEF NotReady, GoodNodes, NodeInfoType
  <2>5. k1.nodes[n].set = TRUE
    BY <1>7, <2>2 DEF AllocateFail, GoodNodes, NodeInfoType
  <2> HIDE DEF x, k1, s, m, n
  <2>6. NodesLike(k1, m) /\ OthersAlike(k1, m, p)
    BY <1>2, <2>1, <2>2, <2>3, <2>4, ReplaceIs
  <2>7. DOMAIN m.nodes = DOMAIN k1.nodes /\ m.nodes[n] = x
    BY <1>2, <2>1, <2>2, <2>3, ReplaceNodeType, ZenonT(60)
  <2>8. OutOfSync(m)
    BY <2>2, <2>3, <2>4, <2>5, <2>7 DEF OutOfSync
  <2>9. NodesLike(k, m) /\ OthersAlike(k, m, p)
    BY <1>2, <1>5, <2>6, NodesLikeTwice, OthersTwice
  <2> QED
    BY <2>8, <2>9 DEF m
<1>8. CASE n # "" /\ ~isTerminated(s) /\ ~AllocateFail(k1.nodes[n], p, s)
  <2> DEFINE x == AddTask(k1.nodes[n], p, s)
             h == ReplaceNode(k1, n, x)
  <2>1. n \in DOMAIN k1.nodes /\ k1.nodes[n] \in GoodNodes /\ n \in Nodes
    BY <1>1, <1>2, <1>8, CacheParts
  <2>2. k1.nodes[n].tasks[p] = "None"
    BY <1>4, <2>1 DEF At
  <2>3. CanAddTask(k1.nodes[n], p, s)
    BY <1>8, <2>2 DEF CanAddTask
  <2>4. ~addTaskFails(k, p, o)
    BY <2>3 DEF addTaskFails
  <2>5. m = AddTaskInfo(h, p, o)
    BY <1>8, <2>4 DEF addTask, ReplaceNode
  <2> HIDE DEF k1, s
  <2>6. /\ x \in GoodNodes /\ x.set = k1.nodes[n].set /\ x.ready = k1.nodes[n].ready
        /\ x.tasks[p] = s /\ \A q \in Names : q # p => x.tasks[q] = k1.nodes[n].tasks[q]
    <3> HIDE DEF n
    <3> QED
      BY <1>3, <2>1, <2>3, AddTaskIs, ZenonT(60)
  <2> HIDE DEF x
  <2>7. /\ NodesLike(k1, h) /\ OthersAlike(k1, h, p) /\ PlaceSet(k1, h, n, p, s)
        /\ h.tasks = k1.tasks
    BY <1>2, <2>1, <2>6, ReplaceIs, ZenonT(60)
  <2>8. h \in Caches /\ DOMAIN h.nodes = DOMAIN k1.nodes
    BY <1>2, <2>1, <2>6, ReplaceNodeType, ZenonT(60)
  <2> HIDE DEF h
  <2>9. m.nodes = h.nodes /\ Tasked(m, p, o) /\ OthersAlike(h, m, p)
    BY <1>4, <2>1, <2>5, <2>7, <2>8, AddTaskInfoIs, ZenonT(60)
  <2> HIDE DEF m
  <2>10. NodesLike(k, m) /\ OthersAlike(k, m, p)
    BY <1>2, <1>5, <2>7, <2>9, NodesLikeSame, NodesLikeTwice, OthersTwice
  <2>11. \A y \in Nodes : At(m, y, p) = IF y = n THEN s ELSE "None"
    BY <1>4, <2>7, <2>9 DEF PlaceSet, At
  <2>12. ~isTerminated(o.phase)
    BY <1>3, <1>8
  <2>13. Shown(m, p, o)
    BY <2>9, <2>11, <2>12 DEF Shown, s
  <2> QED
    BY <2>4, <2>10, <2>13 DEF m
<1> HIDE DEF n, k1, s, m
<1> QED
  BY <1>6, <1>7, <1>8 DEF m

\* addTask of a pod that has ended leaves all places.
LEMMA addEndedIs ==
    ASSUME NEW k \in Caches, NEW p \in Names, NEW o \in PodObjects, o.uid # 0, JobOf[p] # "",
           \A t \in DOMAIN k.tasks : t[1] # p, isTerminated(o.phase)
    PROVE  /\ NodesLike(k, addTask(k, p, o)) /\ OthersAlike(k, addTask(k, p, o), p)
           /\ ~addTaskFails(k, p, o) /\ Tasked(addTask(k, p, o), p, o)
           /\ \A n \in Nodes : At(addTask(k, p, o), n, p) = At(k, n, p)
<1> DEFINE k1 == WithNode(k, o.node)
           m  == addTask(k, p, o)
<1>1. o.node \in Nodes \cup {""} /\ isTerminated(getTaskStatus(o))
  BY TaskStatusType DEF PodObjects
<1>2. /\ k1 \in Caches /\ k1.tasks = k.tasks /\ NodesLike(k, k1)
      /\ (o.node # "" => o.node \in DOMAIN k1.nodes) /\ \A q \in Names : Alike(k, k1, q)
  BY <1>1, WithNodeType, WithNodeIs
<1>3. m = AddTaskInfo(k1, p, o) /\ ~addTaskFails(k, p, o)
  BY <1>1 DEF addTask, addTaskFails
<1>4. m.nodes = k1.nodes /\ Tasked(m, p, o) /\ OthersAlike(k1, m, p)
  BY <1>2, <1>3, AddTaskInfoIs
<1> HIDE DEF k1, m
<1>5. OthersAlike(k, k1, p)
  BY <1>2 DEF OthersAlike
<1>6. NodesLike(k, m) /\ OthersAlike(k, m, p)
  BY <1>2, <1>4, <1>5, NodesLikeSame, NodesLikeTwice, OthersTwice
<1>7. \A n \in Nodes : At(m, n, p) = At(k, n, p)
  BY <1>2, <1>4 DEF Alike, At
<1> QED
  BY <1>3, <1>4, <1>6, <1>7 DEF m

\* A task leaves its Job.
LEMMA DropTaskIs ==
    ASSUME NEW k \in Caches, NEW t
    PROVE  /\ DropTask(k, t).nodes = k.nodes
           /\ DOMAIN DropTask(k, t).tasks = DOMAIN k.tasks \ {t}
           /\ \A y \in DOMAIN k.tasks : y # t => DropTask(k, t).tasks[y] = k.tasks[y]
           /\ OthersAlike(k, DropTask(k, t), t[1])
<1> DEFINE f == Restrict(k.tasks, DOMAIN k.tasks \ {t})
           m == DropTask(k, t)
<1>1. DOMAIN f = DOMAIN k.tasks \ {t} /\ \A y \in DOMAIN k.tasks : y # t => f[y] = k.tasks[y]
  BY DEF Restrict
<1>2. m = [k EXCEPT !.tasks = f]
  BY DEF DropTask
<1> HIDE DEF f
<1>3. m.tasks = f /\ m.nodes = k.nodes
  BY <1>2 DEF Caches
<1> HIDE DEF m
<1>4. ASSUME NEW q \in Names, q # t[1] PROVE Alike(k, m, q)
  BY <1>1, <1>3, <1>4 DEF Alike, At
<1> QED
  BY <1>1, <1>3, <1>4 DEF m, OthersAlike

\* A pod leaves a node.
LEMMA RemoveFromIs ==
    ASSUME NEW k \in Caches, NEW n \in Nodes \cup {""}, NEW p \in Names
    PROVE  /\ RemoveFrom(k, n, p).tasks = k.tasks
           /\ NodesLike(k, RemoveFrom(k, n, p)) /\ OthersAlike(k, RemoveFrom(k, n, p), p)
           /\ PlaceSet(k, RemoveFrom(k, n, p), n, p, "None")
<1> DEFINE m == RemoveFrom(k, n, p)
<1>1. CASE n \notin DOMAIN k.nodes
  <2>1. m = k
    BY <1>1 DEF RemoveFrom
  <2>2. NodesLike(k, k) /\ OthersAlike(k, k, p)
    BY NodesLikeSame, AlikeSame DEF OthersAlike
  <2>3. PlaceSet(k, k, n, p, "None")
    BY <1>1 DEF PlaceSet, At
  <2> QED
    BY <2>1, <2>2, <2>3
<1>2. CASE n \in DOMAIN k.nodes
  <2> DEFINE x == RemoveTask(k.nodes[n], p)
  <2>1. k.nodes[n] \in GoodNodes
    BY <1>2, CacheParts
  <2>2. /\ x \in GoodNodes /\ x.set = k.nodes[n].set /\ x.ready = k.nodes[n].ready
        /\ x.tasks[p] = "None" /\ \A q \in Names : q # p => x.tasks[q] = k.nodes[n].tasks[q]
    BY <2>1, RemoveTaskIs
  <2>3. m = ReplaceNode(k, n, x)
    BY <1>2 DEF RemoveFrom, ReplaceNode
  <2> HIDE DEF x, m
  <2>4. /\ NodesLike(k, m) /\ OthersAlike(k, m, p) /\ PlaceSet(k, m, n, p, x.tasks[p])
        /\ m.tasks = k.tasks
    BY <1>2, <2>2, <2>3, ReplaceIs
  <2> QED
    BY <2>2, <2>4 DEF m
<1> QED
  BY <1>1, <1>2

\* deleteTask does both.
LEMMA deleteTaskIs ==
    ASSUME NEW k \in Caches, NEW t \in Tids, NEW n \in Nodes \cup {""}
    PROVE  /\ DOMAIN deleteTask(k, t, n).tasks = DOMAIN k.tasks \ {t}
           /\ NodesLike(k, deleteTask(k, t, n)) /\ OthersAlike(k, deleteTask(k, t, n), t[1])
           /\ PlaceSet(k, deleteTask(k, t, n), n, t[1], "None")
<1> DEFINE h == DropTask(k, t)
           p == t[1]
           m == RemoveFrom(h, n, p)
<1>1. /\ h \in Caches /\ h.nodes = k.nodes /\ DOMAIN h.tasks = DOMAIN k.tasks \ {t}
      /\ OthersAlike(k, h, p)
  BY DropTaskType, DropTaskIs
<1>2. p \in Names
  BY DEF Tids
<1>3. deleteTask(k, t, n) = m
  BY DEF deleteTask
<1> HIDE DEF h, p
<1>4. m.tasks = h.tasks /\ NodesLike(h, m) /\ OthersAlike(h, m, p) /\ PlaceSet(h, m, n, p, "None")
  BY <1>1, <1>2, RemoveFromIs
<1> HIDE DEF m
<1>5. NodesLike(k, m) /\ OthersAlike(k, m, p)
  BY <1>1, <1>4, NodesLikeSame, NodesLikeTwice, OthersTwice
<1>6. PlaceSet(k, m, n, p, "None")
  BY <1>1, <1>4 DEF PlaceSet, At
<1> QED
  BY <1>1, <1>3, <1>4, <1>5, <1>6 DEF p

\* A session's decision changes one task and the place of its pod on one node.
DecidedAs(k, m, t, x, n, s) ==
    /\ DOMAIN m.tasks = DOMAIN k.tasks /\ m.tasks[t] = x
    /\ \A z \in DOMAIN k.tasks : z # t => m.tasks[z] = k.tasks[z]
    /\ NodesLike(k, m) /\ OthersAlike(k, m, t[1]) /\ PlaceSet(k, m, n, t[1], s)

\* Decide does.
LEMMA DecideIs ==
    ASSUME NEW k \in Caches, NEW t \in DOMAIN k.tasks, NEW x, NEW n \in DOMAIN k.nodes,
           NEW y \in GoodNodes, y.set = k.nodes[n].set, y.ready = k.nodes[n].ready,
           \A q \in Names : q # t[1] => y.tasks[q] = k.nodes[n].tasks[q]
    PROVE  DecidedAs(k, Decide(k, t, x, n, y), t, x, n, y.tasks[t[1]])
<1> DEFINE f == [k.tasks EXCEPT ![t] = x]
           h == ReplaceNode(k, n, y)
           m == Decide(k, t, x, n, y)
           p == t[1]
<1>1. t \in OwnTids
  BY CacheParts
<1>2. p \in Names
  BY <1>1 DEF OwnTids, Tids
<1>3. DOMAIN f = DOMAIN k.tasks /\ f[t] = x /\ \A z \in DOMAIN k.tasks : z # t => f[z] = k.tasks[z]
  OBVIOUS
<1>4. /\ NodesLike(k, h) /\ OthersAlike(k, h, p) /\ PlaceSet(k, h, n, p, y.tasks[p])
      /\ h.tasks = k.tasks
  BY <1>2, ReplaceIs
<1>5. m.tasks = f /\ m.nodes = h.nodes
  BY DEF Decide, ReplaceNode, Caches
<1>6. \A z \in OwnTids : z[1] # p => z # t
  OBVIOUS
<1> HIDE DEF f, h, m, p
<1>7. NodesLike(h, m)
  BY <1>5, NodesLikeSame
<1>8. NodesLike(k, m)
  BY <1>4, <1>7, NodesLikeTwice
<1>9. ASSUME NEW q \in Names, q # p PROVE Alike(k, m, q)
  <2>1. Alike(k, h, q)
    BY <1>4, <1>9 DEF OthersAlike
  <2> QED
    BY <1>3, <1>5, <1>6, <1>9, <2>1 DEF Alike, At
<1>10. PlaceSet(k, m, n, p, y.tasks[p])
  BY <1>4, <1>5 DEF PlaceSet, At
<1> QED
  BY <1>3, <1>5, <1>8, <1>9, <1>10 DEF DecidedAs, OthersAlike, m, p

\* The task of a binding, and of an eviction.
BoundInfo(x, n) == [x EXCEPT !.status = "Binding", !.node = n]
EvictedInfo(x) == [x EXCEPT !.status = "Releasing"]

\* AddBindTask changes the task and its node.
LEMMA BoundCacheIs ==
    ASSUME NEW k \in Caches, NEW t \in DOMAIN k.tasks, NEW n \in DOMAIN k.nodes,
           CanAddTask(k.nodes[n], t[1], "Binding")
    PROVE  DecidedAs(k, BoundCache(k, t, n), t, BoundInfo(k.tasks[t], n), n, "Binding")
<1> DEFINE x == BoundInfo(k.tasks[t], n)
           y == AddTask(k.nodes[n], t[1], "Binding")
<1>1. k.nodes[n] \in GoodNodes /\ t \in OwnTids
  BY CacheParts
<1>2. t[1] \in Names
  BY <1>1 DEF OwnTids, Tids
<1>3. "Binding" \in TaskStatuses
  BY DEF TaskStatuses
<1>4. /\ y \in GoodNodes /\ y.set = k.nodes[n].set /\ y.ready = k.nodes[n].ready
      /\ y.tasks[t[1]] = "Binding"
      /\ \A q \in Names : q # t[1] => y.tasks[q] = k.nodes[n].tasks[q]
  BY <1>1, <1>2, <1>3, AddTaskIs
<1>5. BoundCache(k, t, n) = Decide(k, t, x, n, y)
  BY DEF BoundCache, Decide, BoundInfo
<1> HIDE DEF x, y
<1>6. DecidedAs(k, Decide(k, t, x, n, y), t, x, n, y.tasks[t[1]])
  BY <1>4, DecideIs
<1> QED
  BY <1>4, <1>5, <1>6 DEF x

\* So does Evict.
LEMMA EvictedCacheIs ==
    ASSUME NEW k \in Caches, NEW t \in DOMAIN k.tasks, k.tasks[t].node \in DOMAIN k.nodes,
           CanUpdateTask(k.nodes[k.tasks[t].node], t[1], "Releasing")
    PROVE  DecidedAs(k, EvictedCache(k, t), t, EvictedInfo(k.tasks[t]), k.tasks[t].node,
                     "Releasing")
<1> DEFINE n == k.tasks[t].node
           x == EvictedInfo(k.tasks[t])
           y == UpdateTask(k.nodes[n], t[1], "Releasing")
<1>1. k.nodes[n] \in GoodNodes /\ t \in OwnTids /\ n \in DOMAIN k.nodes
  BY CacheParts
<1>2. t[1] \in Names
  BY <1>1 DEF OwnTids, Tids
<1>3. "Releasing" \in TaskStatuses
  BY DEF TaskStatuses
<1>4. /\ y \in GoodNodes /\ y.set = k.nodes[n].set /\ y.ready = k.nodes[n].ready
      /\ y.tasks[t[1]] = "Releasing"
      /\ \A q \in Names : q # t[1] => y.tasks[q] = k.nodes[n].tasks[q]
  BY <1>1, <1>2, <1>3, UpdateTaskIs
<1>5. EvictedCache(k, t) = Decide(k, t, x, n, y)
  BY DEF EvictedCache, Decide, EvictedInfo
<1> HIDE DEF x, y, n
<1>6. DecidedAs(k, Decide(k, t, x, n, y), t, x, n, y.tasks[t[1]])
  BY <1>1, <1>4, DecideIs
<1> QED
  BY <1>4, <1>5, <1>6 DEF x, n

\* A node that is new has no pods, one that gets its Node object keeps them.
LEMMA addNodeIs ==
    ASSUME NEW k \in Caches, NEW n \in Nodes, NEW obj \in NodeObject
    PROVE  /\ addNode(k, n, obj).tasks = k.tasks
           /\ DOMAIN addNode(k, n, obj).nodes = DOMAIN k.nodes \cup {n}
           /\ \A y \in DOMAIN k.nodes : y # n => addNode(k, n, obj).nodes[y] = k.nodes[y]
           /\ \A q \in Names : Alike(k, addNode(k, n, obj), q)
<1> DEFINE m == addNode(k, n, obj)
<1>1. CASE n \in DOMAIN k.nodes
  <2> DEFINE x == SetNode(k.nodes[n], obj)
  <2>1. k.nodes[n] \in GoodNodes
    BY <1>1, CacheParts
  <2>2. x \in GoodNodes /\ x.tasks = k.nodes[n].tasks
    BY <2>1, GoodSetNode
  <2>3. m = ReplaceNode(k, n, x)
    BY <1>1 DEF addNode, ReplaceNode
  <2> HIDE DEF m, x
  <2>4. /\ m.tasks = k.tasks /\ DOMAIN m.nodes = DOMAIN k.nodes /\ m.nodes[n] = x
        /\ \A y \in DOMAIN k.nodes : y # n => m.nodes[y] = k.nodes[y]
    BY <1>1, <2>2, <2>3, ReplaceNodeType
  <2>5. \A y \in DOMAIN k.nodes : m.nodes[y].tasks = k.nodes[y].tasks
    BY <2>2, <2>4
  <2>6. \A q \in Names : Alike(k, m, q)
    BY <2>4, <2>5 DEF Alike, At
  <2> QED
    BY <1>1, <2>4, <2>6 DEF m
<1>2. CASE n \notin DOMAIN k.nodes
  <2> DEFINE x == NewNodeInfo(obj)
             f == Put(k.nodes, n, x)
  <2>1. obj.alloc \in Nat /\ obj.ready \in BOOLEAN
    BY DEF NodeObject
  <2>2. x.tasks = [p \in Names |-> "None"]
    BY <2>1, NewNodeInfoIsAccounted
  <2>3. /\ DOMAIN f = DOMAIN k.nodes \cup {n} /\ f[n] = x
        /\ \A y \in DOMAIN k.nodes : y # n => f[y] = k.nodes[y]
    BY DEF Put
  <2>4. m = [k EXCEPT !.nodes = f]
    BY <1>2 DEF addNode
  <2> HIDE DEF f, x
  <2>5. m.tasks = k.tasks /\ m.nodes = f
    BY <2>4 DEF Caches
  <2> HIDE DEF m
  <2>6. \A q \in Names : x.tasks[q] = "None"
    BY <2>2
  <2>7. \A y \in DOMAIN k.nodes : f[y] = k.nodes[y]
    BY <1>2, <2>3
  <2>8. \A q \in Names : Alike(k, m, q)
    BY <1>2, <2>3, <2>5, <2>6, <2>7 DEF Alike, At
  <2> QED
    BY <2>3, <2>5, <2>8 DEF m
<1> QED
  BY <1>1, <1>2

-----------------------------------------------------------------------------
(***************************************************************************)
(* The world: nodes that arrive, and pods whose events come in order.      *)
(***************************************************************************)
\* A list has every element once.
LEMMA SetToSeqIs ==
    ASSUME NEW S, IsFiniteSet(S)
    PROVE  /\ SetToSeq(S) \in [1 .. Cardinality(S) -> S] /\ Cardinality(S) \in Nat
           /\ \A i, j \in 1 .. Cardinality(S) : SetToSeq(S)[i] = SetToSeq(S)[j] => i = j
           /\ \A x \in S : \E i \in 1 .. Cardinality(S) : SetToSeq(S)[i] = x
<1> DEFINE f == SetToSeq(S)
           N == Cardinality(S)
<1>1. N \in Nat /\ ExistsBijection(1 .. N, S)
  BY FS_CardinalityType
<1>2. f \in Injection(1 .. N, S)
  BY <1>1 DEF SetToSeq, ExistsBijection, Bijection, Injection
<1>3. IsFiniteSet(1 .. N) /\ Cardinality(1 .. N) = N
  <2>1. 1 \in Int /\ N \in Int
    BY <1>1
  <2>2. Cardinality(1 .. N) = IF 1 > N THEN 0 ELSE N - 1 + 1
    BY <2>1, FS_Interval
  <2> QED
    BY <1>1, <2>1, <2>2, FS_Interval
<1> HIDE DEF f, N
<1>4. f \in Surjection(1 .. N, S)
  BY <1>2, <1>3, FS_Injection DEF N
<1> QED
  BY <1>1, <1>2, <1>4 DEF Injection, Surjection, IsInjective, f, N

\* A list of the pods has an event of each, once.
LEMMA PodListIs ==
    ASSUME ApiTypes, NEW S \in SUBSET Names, NEW L, L = Listed(S, PodEvent)
    PROVE  /\ L \in Seq(PodEvents)
           /\ \A i \in DOMAIN L : L[i].name \in S /\ L[i].obj = pod[L[i].name]
           /\ \A i, j \in DOMAIN L : L[i].name = L[j].name => i = j
           /\ \A p \in S : \E i \in DOMAIN L : L[i].name = p
<1>1. IsFiniteSet(S)
  BY ApiAssumption, FS_Subset
<1> DEFINE q == SetToSeq(S)
           N == Cardinality(S)
<1>2. /\ N \in Nat /\ \A i, j \in 1 .. N : q[i] = q[j] => i = j
      /\ \A x \in S : \E i \in 1 .. N : q[i] = x
  BY <1>1, SetToSeqIs
<1>3. L = [i \in 1 .. N |-> [name |-> q[i], obj |-> pod[q[i]]]]
  BY DEF Listed, PodEvent
<1>4. L \in Seq(PodEvents) /\ \A i \in DOMAIN L : L[i].name \in S /\ L[i].obj = pod[L[i].name]
  BY PodListType
<1> HIDE DEF q, N
<1>5. DOMAIN L = 1 .. N /\ \A i \in 1 .. N : L[i].name = q[i]
  BY <1>3
<1> QED
  BY <1>2, <1>4, <1>5

\* So has a list of the nodes.
LEMMA NodeListIs ==
    ASSUME ApiTypes, NEW S \in SUBSET Nodes, NEW L, L = Listed(S, NodeEvent)
    PROVE  /\ L \in Seq(NodeEvents)
           /\ \A i \in DOMAIN L : L[i].obj = node[L[i].name] /\ L[i].new = TRUE
           /\ \A i, j \in DOMAIN L : L[i].name = L[j].name => i = j
           /\ \A n \in S : \E i \in DOMAIN L : L[i].name = n
<1>1. IsFiniteSet(S)
  BY CacheAssumption, FS_Subset
<1> DEFINE q == SetToSeq(S)
           N == Cardinality(S)
<1>2. /\ N \in Nat /\ \A i, j \in 1 .. N : q[i] = q[j] => i = j
      /\ \A x \in S : \E i \in 1 .. N : q[i] = x
  BY <1>1, SetToSeqIs
<1>3. L = [i \in 1 .. N |-> [name |-> q[i], obj |-> node[q[i]], new |-> TRUE]]
  BY DEF Listed, NodeEvent
<1>4. L \in Seq(NodeEvents) /\ \A i \in DOMAIN L : L[i].obj = node[L[i].name]
  BY NodeListType
<1> HIDE DEF q, N
<1>5. DOMAIN L = 1 .. N /\ \A i \in 1 .. N : L[i].name = q[i] /\ L[i].new = TRUE
  BY <1>3
<1> QED
  BY <1>2, <1>4, <1>5

\* One pod is written.
Written(p) ==
    /\ PodsAdvance /\ UNCHANGED <<podSeen, node, nodeWatch>>
    /\ podWatch' = Append(podWatch, [name |-> p, obj |-> pod'[p]])
    /\ \A q \in Names : q # p => pod'[q] = pod[q]
    /\ Sane(p, pod'[p])

\* The order of the events after one more.
LEMMA OrderWritten ==
    ASSUME Types, Types', EventsPast, EventsOrdered, NEW p \in Names, Written(p)
    PROVE  EventsOrdered'
<1>1. podWatch \in Seq(PodEvents)
  BY DEF Types, WatchTypes
<1>2. /\ DOMAIN podWatch' = 1 .. Len(podWatch) + 1 /\ DOMAIN podWatch = 1 .. Len(podWatch)
      /\ \A i \in DOMAIN podWatch : podWatch'[i] = podWatch[i]
      /\ podWatch'[Len(podWatch) + 1].name = p /\ podWatch'[Len(podWatch) + 1].obj = pod'[p]
      /\ Len(podWatch) \in Nat
  BY <1>1 DEF Written
<1> DEFINE N == Len(podWatch) + 1
<1>3. /\ N \in DOMAIN podWatch' /\ \A i \in DOMAIN podWatch' : i \in DOMAIN podWatch \/ i = N
      /\ \A i \in DOMAIN podWatch : i \in DOMAIN podWatch' /\ i < N
      /\ \A i, j \in DOMAIN podWatch' : i < j => i \in DOMAIN podWatch
  BY <1>2
<1>4. \A x \in PodEvents : x.name \in Names /\ x.obj \in PodObjects
  BY DEF PodEvents
<1>5. \A i \in DOMAIN podWatch : podWatch[i].name \in Names /\ podWatch[i].obj \in PodObjects
  BY <1>1, <1>4
<1>6. \A q \in Names : podSeen[q] \in PodObjects /\ podSeen'[q] = podSeen[q]
  BY Uids DEF Written
<1>7. PodsAdvance /\ (\A q \in Names : q # p => pod'[q] = pod[q]) /\ Sane(p, pod'[p])
  BY DEF Written
\* what was before p's new state
<1>8. \A o \in PodObjects : PastOf(pod[p], uids[p], o) =>
        /\ FollowsOf(pod'[p], o, pod'[p])
        /\ \A mid : FollowsOf(pod[p], o, mid) => FollowsOf(pod'[p], o, mid)
  BY <1>7, PastStays
<1>9. \A o : FollowsOf(pod'[p], o, pod'[p]) => Later(o, pod'[p])
  BY DEF FollowsOf, Later
<1>10. \A o, mid : FollowsOf(pod'[p], o, mid) => Between(o, mid, pod'[p])
  BY DEF FollowsOf, Between
<1> DEFINE name(i) == podWatch'[i].name
           obj(i) == podWatch'[i].obj
<1>11. podWatch'[N].name = p /\ podWatch'[N].obj = pod'[p]
  BY <1>2
<1> HIDE DEF N
<1>12. \A q \in Names : Sane(q, pod'[q]) /\ Sane(q, podSeen'[q])
  BY <1>6, <1>7 DEF EventsOrdered
<1>13. ASSUME NEW q \in Names, \A i \in DOMAIN podWatch' : podWatch'[i].name # q
       PROVE  podSeen'[q] = pod'[q]
  <2>1. q # p
    BY <1>3, <1>11, <1>13
  <2>2. Fresh(q)
    BY <1>2, <1>3, <1>13 DEF Fresh
  <2> QED
    BY <1>6, <1>7, <2>1, <2>2 DEF EventsOrdered
<1>14. ASSUME NEW i \in DOMAIN podWatch'
       PROVE  /\ Sane(podWatch'[i].name, podWatch'[i].obj)
              /\ Later(podSeen'[podWatch'[i].name], podWatch'[i].obj)
  <2>1. CASE i \in DOMAIN podWatch
    BY <1>2, <1>5, <1>6, <2>1 DEF EventsOrdered
  <2>2. CASE i = N
    <3>1. PastOf(pod[p], uids[p], podSeen[p])
      BY DEF EventsPast, Past
    <3> QED
      BY <1>6, <1>7, <1>8, <1>9, <1>11, <2>2, <3>1
  <2> QED
    BY <1>3, <2>1, <2>2
<1>15. ASSUME NEW i \in DOMAIN podWatch',
              \A j \in DOMAIN podWatch' : i < j => podWatch'[j].name # podWatch'[i].name
       PROVE  podWatch'[i].obj = pod'[podWatch'[i].name]
  <2>1. CASE i \in DOMAIN podWatch
    <3>1. podWatch[i].name # p
      BY <1>2, <1>3, <1>11, <1>15, <2>1
    <3>2. \A j \in DOMAIN podWatch : i < j => podWatch[j].name # podWatch[i].name
      BY <1>2, <1>3, <1>15, <2>1
    <3>3. podWatch[i].obj = pod[podWatch[i].name]
      BY <2>1, <3>2 DEF EventsOrdered
    <3> QED
      BY <1>2, <1>5, <1>7, <2>1, <3>1, <3>3
  <2>2. CASE i = N
    BY <1>11, <2>2
  <2> QED
    BY <1>3, <2>1, <2>2
<1>16. ASSUME NEW i \in DOMAIN podWatch', NEW j \in DOMAIN podWatch', i < j,
              podWatch'[i].name = podWatch'[j].name
       PROVE  /\ Later(podWatch'[i].obj, podWatch'[j].obj)
              /\ Between(podSeen'[podWatch'[i].name], podWatch'[i].obj, podWatch'[j].obj)
  <2>1. i \in DOMAIN podWatch
    BY <1>3, <1>16
  <2>2. CASE j \in DOMAIN podWatch
    BY <1>2, <1>5, <1>6, <1>16, <2>1, <2>2 DEF EventsOrdered
  <2>3. CASE j = N
    <3>1. podWatch[i].name = p /\ podWatch'[i] = podWatch[i]
      BY <1>2, <1>11, <1>16, <2>1, <2>3
    <3>2. /\ PastOf(pod[p], uids[p], podWatch[i].obj) /\ PastOf(pod[p], uids[p], podSeen[p])
          /\ FollowsOf(pod[p], podSeen[p], podWatch[i].obj)
      BY <2>1, <3>1 DEF EventsPast, Past, Newer
    <3>3. Later(podWatch[i].obj, pod'[p])
      BY <1>5, <1>8, <1>9, <2>1, <3>2
    <3>4. Between(podSeen[p], podWatch[i].obj, pod'[p])
      BY <1>6, <1>8, <1>10, <3>2
    <3> QED
      BY <1>6, <1>11, <2>3, <3>1, <3>3, <3>4
  <2> QED
    BY <1>3, <2>2, <2>3
<1>17. ASSUME NEW i \in DOMAIN podWatch', NEW j \in DOMAIN podWatch', NEW k \in DOMAIN podWatch',
              i < j, j < k, podWatch'[i].name = podWatch'[j].name,
              podWatch'[i].name = podWatch'[k].name
       PROVE  Between(podWatch'[i].obj, podWatch'[j].obj, podWatch'[k].obj)
  <2>1. i \in DOMAIN podWatch /\ j \in DOMAIN podWatch
    BY <1>3, <1>17
  <2>2. CASE k \in DOMAIN podWatch
    BY <1>2, <1>17, <2>1, <2>2 DEF EventsOrdered
  <2>3. CASE k = N
    <3>1. podWatch[i].name = p /\ podWatch[j].name = p
      BY <1>2, <1>11, <1>17, <2>1, <2>3
    <3>2. /\ PastOf(pod[p], uids[p], podWatch[i].obj)
          /\ FollowsOf(pod[p], podWatch[i].obj, podWatch[j].obj)
      BY <1>17, <2>1, <3>1 DEF EventsPast, Past, Newer
    <3>3. Between(podWatch[i].obj, podWatch[j].obj, pod'[p])
      BY <1>5, <1>8, <1>10, <2>1, <3>2
    <3> QED
      BY <1>2, <1>11, <2>1, <2>3, <3>3
  <2> QED
    BY <1>3, <2>2, <2>3
<1> QED
  BY <1>12, <1>13, <1>14, <1>15, <1>16, <1>17 DEF EventsOrdered, Fresh

\* One task written leaves the other pods.
LEMMA WrittenOthers ==
    ASSUME NEW k, NEW m, NEW p, NEW o, TaskWritten(k, m, p, o), m.nodes = k.nodes
    PROVE  OthersAlike(k, m, p)
<1> DEFINE t == <<p, o.uid>>
           f == Put(k.tasks, t, InfoOf(o))
<1>1. /\ DOMAIN f = DOMAIN k.tasks \cup {t}
      /\ \A y \in DOMAIN k.tasks : y # t => f[y] = k.tasks[y]
  BY DEF Put
<1>2. m.tasks = k.tasks \/ m.tasks = f
  BY DEF TaskWritten
<1>3. t[1] = p
  OBVIOUS
<1> HIDE DEF f, t
<1>4. ASSUME NEW q \in Names, q # p PROVE Alike(k, m, q)
  BY <1>1, <1>2, <1>3, <1>4 DEF Alike, At
<1> QED
  BY <1>4 DEF OthersAlike

\* addTask, whatever the cache has of the pod, changes nothing for the others,
\* and makes no node ready.
LEMMA addTaskOthers ==
    ASSUME NEW k \in Caches, NEW p \in Names, NEW o \in PodObjects, o.uid # 0
    PROVE  NodesLike(k, addTask(k, p, o)) /\ OthersAlike(k, addTask(k, p, o), p)
<1> DEFINE n  == o.node
           k1 == WithNode(k, n)
           s  == getTaskStatus(o)
           m  == addTask(k, p, o)
<1>1. n \in Nodes \cup {""}
  BY DEF PodObjects
<1>2. /\ k1 \in Caches /\ NodesLike(k, k1) /\ (n # "" => n \in DOMAIN k1.nodes)
      /\ \A q \in Names : Alike(k, k1, q)
  BY <1>1, WithNodeIs, WithNodeType
<1>3. s \in TaskStatuses /\ s # "Pipelined"
  BY TaskStatusType
<1>4. OthersAlike(k, k1, p)
  BY <1>2 DEF OthersAlike
<1>5. ASSUME NEW h \in Caches, NodesLike(k1, h), OthersAlike(k1, h, p), m = AddTaskInfo(h, p, o)
      PROVE  NodesLike(k, m) /\ OthersAlike(k, m, p)
  <2>1. m.nodes = h.nodes /\ TaskWritten(h, m, p, o)
    BY <1>5, AddTaskInfoType
  <2> HIDE DEF m, k1, s, n
  <2>2. NodesLike(h, m) /\ OthersAlike(h, m, p)
    BY <2>1, NodesLikeSame, WrittenOthers
  <2>3. NodesLike(k, h) /\ OthersAlike(k, h, p)
    BY <1>2, <1>4, <1>5, NodesLikeTwice, OthersTwice
  <2> QED
    BY <2>2, <2>3, NodesLikeTwice, OthersTwice
<1>6. NodesLike(k1, k1) /\ OthersAlike(k1, k1, p)
  BY NodesLikeSame, AlikeSame DEF OthersAlike
<1>7. CASE n = "" \/ isTerminated(s)
  <2>1. m = AddTaskInfo(k1, p, o)
    BY <1>7 DEF addTask
  <2> QED
    BY <1>2, <1>5, <1>6, <2>1
<1>8. CASE n # "" /\ ~isTerminated(s) /\ AllocateFail(k1.nodes[n], p, s)
  <2> DEFINE x == NotReady(k1.nodes[n])
  <2>1. k1.nodes[n] \in GoodNodes /\ n \in DOMAIN k1.nodes
    BY <1>2, <1>8, CacheParts
  <2>2. x \in GoodNodes /\ x.set = k1.nodes[n].set /\ x.tasks = k1.nodes[n].tasks
    BY <2>1, GoodNotReady
  <2>3. x.ready = FALSE
    BY <2>1 DEF NotReady, GoodNodes, NodeInfoType
  <2>4. m = ReplaceNode(k1, n, x)
    BY <1>8 DEF addTask, ReplaceNode, NotReady
  <2> HIDE DEF x, m, k1, n, s
  <2>5. NodesLike(k1, m) /\ OthersAlike(k1, m, p)
    BY <1>2, <2>1, <2>2, <2>3, <2>4, ReplaceIs
  <2> QED
    BY <1>2, <1>4, <2>5, NodesLikeTwice, OthersTwice DEF m
<1>9. CASE n # "" /\ ~isTerminated(s) /\ ~AllocateFail(k1.nodes[n], p, s)
  <2>1. CASE addTaskFails(k, p, o)
    <3>1. m = k1
      BY <1>9, <2>1 DEF addTask
    <3> QED
      BY <1>2, <1>4, <3>1
  <2>2. CASE ~addTaskFails(k, p, o)
    <3> DEFINE x == AddTask(k1.nodes[n], p, s)
               h == ReplaceNode(k1, n, x)
    <3>1. k1.nodes[n] \in GoodNodes /\ n \in DOMAIN k1.nodes
      BY <1>2, <1>9, CacheParts
    <3>2. CanAddTask(k1.nodes[n], p, s)
      BY <1>9, <2>2 DEF addTaskFails
    <3>3. /\ x \in GoodNodes /\ x.set = k1.nodes[n].set /\ x.ready = k1.nodes[n].ready
          /\ \A q \in Names : q # p => x.tasks[q] = k1.nodes[n].tasks[q]
      BY <1>3, <3>1, <3>2, AddTaskIs
    <3>4. m = AddTaskInfo(h, p, o)
      BY <1>9, <2>2 DEF addTask, ReplaceNode
    <3> HIDE DEF x, m, k1, n, s
    <3>5. h \in Caches /\ NodesLike(k1, h) /\ OthersAlike(k1, h, p)
      BY <1>2, <3>1, <3>3, ReplaceIs, ReplaceNodeType
    <3> HIDE DEF h
    <3> QED
      BY <1>5, <3>4, <3>5 DEF m
  <2> QED
    BY <2>1, <2>2
<1> HIDE DEF n, k1, s, m
<1> QED
  BY <1>7, <1>8, <1>9 DEF m

\* So does deletePod.
LEMMA deletePodOthers ==
    ASSUME NEW k \in Caches, NEW p \in Names, NEW o \in PodObjects, o.uid # 0
    PROVE  /\ NodesLike(k, deletePod(k, p, o)) /\ OthersAlike(k, deletePod(k, p, o), p)
           /\ DOMAIN deletePod(k, p, o).tasks = DOMAIN k.tasks \ {<<p, o.uid>>}
           /\ PlaceSet(k, deletePod(k, p, o), NodeOf(k, p, o), p, "None")
<1> DEFINE t == <<p, o.uid>>
           n == NodeOf(k, p, o)
<1>1. t \in Tids /\ t[1] = p
  <2>1. o.uid \in 0 .. MaxUid
    BY DEF PodObjects
  <2>2. o.uid \in 1 .. MaxUid
    BY <2>1, Bounds
  <2> QED
    BY <2>2 DEF Tids
<1>2. n \in Nodes \cup {""}
  BY CacheParts DEF NodeOf, PodObjects, TaskEntries
<1>3. deletePod(k, p, o) = deleteTask(k, t, n)
  BY DEF deletePod, NodeOf
<1> HIDE DEF t, n
<1>4. /\ DOMAIN deleteTask(k, t, n).tasks = DOMAIN k.tasks \ {t}
      /\ NodesLike(k, deleteTask(k, t, n)) /\ OthersAlike(k, deleteTask(k, t, n), t[1])
      /\ PlaceSet(k, deleteTask(k, t, n), n, t[1], "None")
  BY <1>1, <1>2, deleteTaskIs
<1> QED
  BY <1>1, <1>3, <1>4 DEF t, n

\* An event of a pod is about this pod, and makes no node ready.
LEMMA HandlePodOthers ==
    ASSUME Types, HandlePod, NEW p, p = Head(podWatch).name
    PROVE  NodesLike(c, c') /\ OthersAlike(c, c', p)
<1> DEFINE new == Head(podWatch).obj
           old == podSeen[p]
           gone == deletePod(c, p, old)
<1>1. p \in Names /\ new \in PodObjects /\ old \in PodObjects
  BY FirstPodEvent DEF Types, HandlePod
<1>2. c \in Caches /\ Owned(c)
  BY DEF Types, CacheTypes
<1>3. \/ Visible(p, new) /\ c' = addTask(c, p, new)
      \/ Visible(p, old) /\ Visible(p, new) /\ c' = updatePod(c, p, old, new)
      \/ Visible(p, old) /\ c' = gone
      \/ UNCHANGED c
  BY DEF HandlePod
<1> HIDE DEF new, old
<1>4. ASSUME Visible(p, old)
      PROVE  gone \in Caches /\ NodesLike(c, gone) /\ OthersAlike(c, gone, p)
  <2>1. old.uid # 0
    BY <1>4 DEF Visible
  <2> QED
    BY <1>1, <1>2, <2>1, deletePodType, deletePodOthers
<1> HIDE DEF gone
<1>5. NodesLike(c, c) /\ OthersAlike(c, c, p)
  BY NodesLikeSame, AlikeSame DEF OthersAlike
<1>6. CASE Visible(p, new) /\ c' = addTask(c, p, new)
  <2>1. new.uid # 0
    BY <1>6 DEF Visible
  <2> QED
    BY <1>1, <1>2, <1>6, <2>1, addTaskOthers
<1>7. CASE Visible(p, old) /\ Visible(p, new) /\ c' = updatePod(c, p, old, new)
  <2>1. new.uid # 0
    BY <1>7 DEF Visible
  <2>2. c' = c \/ c' = addTask(gone, p, new)
    BY <1>7 DEF updatePod, gone
  <2>3. NodesLike(gone, addTask(gone, p, new)) /\ OthersAlike(gone, addTask(gone, p, new), p)
    BY <1>1, <1>4, <1>7, <2>1, addTaskOthers
  <2> QED
    BY <1>4, <1>5, <1>7, <2>2, <2>3, NodesLikeTwice, OthersTwice
<1> QED
  BY <1>3, <1>4, <1>5, <1>6, <1>7

\* So is what the resync worker does.
LEMMA ResyncOthers ==
    ASSUME Types, updateTask \/ syncTaskJob \/ syncTaskNode, NEW p, p = rs.e.t[1]
    PROVE  NodesLike(c, c') /\ OthersAlike(c, c', p)
<1>1. c \in Caches /\ Owned(c)
  BY DEF Types, CacheTypes
<1>2. rs.step \in {"update", "delete", "node", "retry"}
  BY DEF updateTask, syncTaskJob, syncTaskNode
<1>3. /\ rs.e \in Entries /\ rs.got \in PodObjects /\ p \in Names /\ rs.e.node \in Nodes
      /\ rs.e.t \in Tids /\ (rs.step = "update" => rs.got.uid # 0)
  BY <1>2, ResyncBusy DEF OwnTids
<1>4. CASE updateTask
  <2> DEFINE t == rs.e.t
             n == rs.e.node
             o == rs.got
             k == deleteTask(c, t, n)
  <2>1. c' = addTask(k, p, o) /\ o.uid # 0
    BY <1>3, <1>4 DEF updateTask
  <2>2. t \in Tids /\ n \in Nodes \cup {""} /\ o \in PodObjects /\ t[1] = p
    BY <1>3
  <2> HIDE DEF t, n, o
  <2>3. NodesLike(c, k) /\ OthersAlike(c, k, p) /\ k \in Caches
    <3>1. NodesLike(c, k) /\ OthersAlike(c, k, t[1])
      BY <1>1, <2>2, deleteTaskIs
    <3>2. k \in Caches
      BY <1>1, <2>2, deleteTaskType
    <3> QED
      BY <2>2, <3>1, <3>2
  <2> HIDE DEF k
  <2>4. NodesLike(k, c') /\ OthersAlike(k, c', p)
    BY <1>3, <2>1, <2>2, <2>3, addTaskOthers
  <2> QED
    BY <2>3, <2>4, NodesLikeTwice, OthersTwice
<1>5. CASE syncTaskJob
  <2> DEFINE t == rs.e.t
  <2>1. c' = DropTask(c, t) /\ t[1] = p
    BY <1>5 DEF syncTaskJob
  <2> HIDE DEF t
  <2>2. DropTask(c, t).nodes = c.nodes /\ OthersAlike(c, DropTask(c, t), t[1])
    BY <1>1, DropTaskIs
  <2> QED
    BY <2>1, <2>2, NodesLikeSame
<1>6. CASE syncTaskNode
  <2>1. c' = RemoveFrom(c, rs.e.node, p)
    BY <1>6 DEF syncTaskNode
  <2> QED
    BY <1>1, <1>3, <2>1, RemoveFromIs
<1> QED
  BY <1>4, <1>5, <1>6

-----------------------------------------------------------------------------
\* While the API server has its nodes, the ones that are to come are.
LEMMA NodesStillArrive ==
    ASSUME NodesArrive, UNCHANGED <<node, nodeWatch>>, NodesLike(c, c')
    PROVE  NodesArrive' /\ (Ready' => Ready)
<1>1. node' = node /\ nodeWatch' = nodeWatch
  OBVIOUS
<1>2. ASSUME NEW i \in DOMAIN nodeWatch', nodeWatch'[i].name \in DOMAIN c'.nodes
      PROVE  c'.nodes[nodeWatch'[i].name].set = FALSE
  BY <1>1, <1>2 DEF NodesArrive, NodesLike
<1>3. ASSUME NEW n \in Nodes
      PROVE  n \in DOMAIN c'.nodes \/ \E i \in DOMAIN nodeWatch' : nodeWatch'[i].name = n
  BY <1>1 DEF NodesArrive, NodesLike
<1>4. NodesArrive'
  <2>1. /\ \A n \in Nodes : node'[n] = Full(n)
        /\ \A i \in DOMAIN nodeWatch' :
             nodeWatch'[i].obj = Full(nodeWatch'[i].name) /\ nodeWatch'[i].new = TRUE
        /\ \A i, j \in DOMAIN nodeWatch' : nodeWatch'[i].name = nodeWatch'[j].name => i = j
    BY <1>1 DEF NodesArrive
  <2> QED
    BY <1>2, <1>3, <2>1 DEF NodesArrive, Full
<1>5. ASSUME Ready', NEW n \in DOMAIN c.nodes
      PROVE  c.nodes[n].ready = TRUE \/ \E i \in DOMAIN nodeWatch : nodeWatch[i].name = n
  <2>1. n \in DOMAIN c'.nodes /\ (c'.nodes[n].ready = TRUE => c.nodes[n].ready = TRUE)
    BY <1>5 DEF NodesLike
  <2> QED
    BY <1>1, <1>5, <2>1 DEF Ready
<1> QED
  BY <1>4, <1>5 DEF Ready

\* An event of a node brings its Node object, and leaves the pods.
LEMMA HandleNodeArrives ==
    ASSUME Types, NodesArrive, HandleNode
    PROVE  /\ NodesArrive' /\ (Ready' => Ready)
           /\ \A q \in Names : Alike(c, c', q)
           /\ \A n \in DOMAIN c.nodes : n \in DOMAIN c'.nodes
<1> DEFINE n == Head(nodeWatch).name
           o == Head(nodeWatch).obj
<1>1. nodeWatch \in Seq(NodeEvents) /\ nodeWatch # <<>> /\ nodeWatch' = Tail(nodeWatch)
  BY DEF Types, WatchTypes, HandleNode
<1>2. /\ 1 \in DOMAIN nodeWatch /\ Head(nodeWatch) = nodeWatch[1]
      /\ Head(nodeWatch) \in NodeEvents
  BY <1>1
<1>3. /\ \A i \in DOMAIN nodeWatch' : i + 1 \in DOMAIN nodeWatch /\ i + 1 # 1
                                      /\ nodeWatch'[i] = nodeWatch[i + 1]
      /\ \A i \in DOMAIN nodeWatch : i = 1 \/ (i - 1 \in DOMAIN nodeWatch'
                                               /\ nodeWatch'[i - 1] = nodeWatch[i])
      /\ \A i, j \in DOMAIN nodeWatch' : i + 1 = j + 1 => i = j
  BY <1>1
<1>4. n \in Nodes /\ o \in NodeObject /\ o = Full(n) /\ Head(nodeWatch).new = TRUE
  BY <1>2 DEF NodesArrive, NodeEvents
<1>5. c' = addNode(c, n, o) /\ node' = node
  BY <1>4 DEF HandleNode, Full, api
<1>6. c \in Caches
  BY DEF Types, CacheTypes
<1>7. \A i \in DOMAIN nodeWatch' : nodeWatch'[i].name # n
  BY <1>2, <1>3 DEF NodesArrive
<1> HIDE DEF n, o
<1>8. /\ DOMAIN c'.nodes = DOMAIN c.nodes \cup {n}
      /\ \A y \in DOMAIN c.nodes : y # n => c'.nodes[y] = c.nodes[y]
      /\ \A q \in Names : Alike(c, c', q)
  BY <1>4, <1>5, <1>6, addNodeIs
<1>9. ASSUME NEW i \in DOMAIN nodeWatch', nodeWatch'[i].name \in DOMAIN c'.nodes
      PROVE  c'.nodes[nodeWatch'[i].name].set = FALSE
  <2>1. nodeWatch'[i].name \in DOMAIN c.nodes /\ nodeWatch'[i].name # n
    BY <1>7, <1>8, <1>9
  <2>2. c.nodes[nodeWatch'[i].name].set = FALSE
    BY <1>3, <2>1 DEF NodesArrive
  <2> QED
    BY <1>8, <2>1, <2>2
<1>10. ASSUME NEW y \in Nodes
       PROVE  y \in DOMAIN c'.nodes \/ \E i \in DOMAIN nodeWatch' : nodeWatch'[i].name = y
  <2>1. CASE y \in DOMAIN c.nodes \/ y = n
    BY <1>8, <2>1
  <2>2. CASE y \notin DOMAIN c.nodes /\ y # n
    <3>1. PICK i \in DOMAIN nodeWatch : nodeWatch[i].name = y
      BY <2>2 DEF NodesArrive
    <3>2. i # 1
      BY <1>2, <2>2, <3>1 DEF n
    <3> QED
      BY <1>3, <3>1, <3>2
  <2> QED
    BY <2>1, <2>2
<1>11. NodesArrive'
  <2>1. \A y \in Nodes : node'[y] = Full(y)
    BY <1>5 DEF NodesArrive
  <2>2. \A i \in DOMAIN nodeWatch' :
          nodeWatch'[i].obj = Full(nodeWatch'[i].name) /\ nodeWatch'[i].new = TRUE
    BY <1>3 DEF NodesArrive
  <2>3. \A i, j \in DOMAIN nodeWatch' : nodeWatch'[i].name = nodeWatch'[j].name => i = j
    BY <1>3 DEF NodesArrive
  <2> QED
    BY <1>9, <1>10, <2>1, <2>2, <2>3 DEF NodesArrive, Full
<1>12. ASSUME Ready', NEW y \in DOMAIN c.nodes
       PROVE  c.nodes[y].ready = TRUE \/ \E i \in DOMAIN nodeWatch : nodeWatch[i].name = y
  <2>1. CASE y = n
    BY <1>2, <2>1 DEF n
  <2>2. CASE y # n
    <3>1. c'.nodes[y] = c.nodes[y] /\ y \in DOMAIN c'.nodes
      BY <1>8, <2>2
    <3> QED
      BY <1>3, <1>12, <3>1 DEF Ready
  <2> QED
    BY <2>1, <2>2
<1> QED
  BY <1>8, <1>11, <1>12 DEF Ready

\* Nodes neither change nor go.
LEMMA NodesNeverStep ==
    ASSUME Types, NodesArrive, OwnWorld, NEW n \in Nodes, NodeStep(n)
    PROVE  FALSE
<1>1. node[n] = Full(n)
  BY DEF NodesArrive
<1>2. left["resize"] = 0 /\ left["renew"] = 0
  BY DisturbanceNames DEF OwnWorld, Types, BudgetTypes
<1>3. ~Spend("resize") /\ ~Spend("renew")
  BY <1>2 DEF Spend
<1> QED
  BY <1>1, <1>3 DEF NodeStep, NodeWorse, NodeGoes, NodeBack, Full

\* The order of the events after the first is handled.
LEMMA OrderHandled ==
    ASSUME Types, Types', EventsOrdered, EventsPast, podWatch # <<>>, UNCHANGED <<pod, uids>>,
           NEW p, p = Head(podWatch).name, NEW new, new = Head(podWatch).obj,
           podSeen' = [podSeen EXCEPT ![p] = new], podWatch' = Tail(podWatch)
    PROVE  EventsOrdered'
<1>1. podWatch \in Seq(PodEvents)
  BY DEF Types, WatchTypes
<1>2. 1 \in DOMAIN podWatch /\ p = podWatch[1].name /\ new = podWatch[1].obj /\ p \in Names
  BY <1>1, EventFinds
<1>3. /\ \A i \in DOMAIN podWatch' : i + 1 \in DOMAIN podWatch /\ 1 < i + 1
                                     /\ podWatch'[i] = podWatch[i + 1]
      /\ \A i, j \in DOMAIN podWatch' : i < j <=> i + 1 < j + 1
      /\ \A i \in DOMAIN podWatch : i # 1 => i - 1 \in DOMAIN podWatch'
                                             /\ podWatch'[i - 1] = podWatch[i]
      /\ \A i \in DOMAIN podWatch', j \in DOMAIN podWatch : i + 1 < j => j # 1 /\ i < j - 1
      /\ \A j \in DOMAIN podWatch : 1 < j => j # 1
  BY <1>1
<1>4. \A q \in Names : podSeen'[q] = IF q = p THEN new ELSE podSeen[q]
  BY DEF Types, WatchTypes
<1>5. \A x \in PodEvents : x.name \in Names
  BY DEF PodEvents
<1>6. \A i \in DOMAIN podWatch : podWatch[i].name \in Names
  BY <1>5, <1>1
<1>7. \A q \in Names : Sane(q, pod'[q]) /\ Sane(q, podSeen'[q])
  BY <1>2, <1>4 DEF EventsOrdered
<1>8. ASSUME NEW q \in Names, \A i \in DOMAIN podWatch' : podWatch'[i].name # q
      PROVE  podSeen'[q] = pod'[q]
  <2>1. CASE q = p
    <3>1. ASSUME NEW j \in DOMAIN podWatch, 1 < j PROVE podWatch[j].name # p
      <4>1. j # 1
        BY <1>3, <3>1
      <4>2. j - 1 \in DOMAIN podWatch' /\ podWatch'[j - 1] = podWatch[j]
        BY <1>3, <4>1
      <4> QED
        BY <1>8, <2>1, <4>2
    <3> QED
      BY <1>2, <1>4, <2>1, <3>1 DEF EventsOrdered
  <2>2. CASE q # p
    <3>1. \A i \in DOMAIN podWatch : podWatch[i].name # q
      BY <1>2, <1>3, <1>8, <2>2
    <3> QED
      BY <1>4, <2>2, <3>1 DEF EventsOrdered, Fresh
  <2> QED
    BY <2>1, <2>2
<1>9. ASSUME NEW i \in DOMAIN podWatch'
      PROVE  /\ Sane(podWatch'[i].name, podWatch'[i].obj)
             /\ Later(podSeen'[podWatch'[i].name], podWatch'[i].obj)
  <2>1. podWatch'[i] = podWatch[i + 1] /\ i + 1 \in DOMAIN podWatch /\ 1 < i + 1
    BY <1>3
  <2>2. Sane(podWatch[i + 1].name, podWatch[i + 1].obj)
    BY <2>1 DEF EventsOrdered
  <2>3. podWatch[i + 1].name = p => Later(new, podWatch[i + 1].obj)
    BY <1>2, <2>1 DEF EventsOrdered
  <2>4. Later(podSeen[podWatch[i + 1].name], podWatch[i + 1].obj)
    BY <2>1 DEF EventsOrdered
  <2> QED
    BY <1>4, <1>6, <2>1, <2>2, <2>3, <2>4
<1>10. ASSUME NEW i \in DOMAIN podWatch',
             \A j \in DOMAIN podWatch' : i < j => podWatch'[j].name # podWatch'[i].name
      PROVE  podWatch'[i].obj = pod'[podWatch'[i].name]
  <2>1. podWatch'[i] = podWatch[i + 1] /\ i + 1 \in DOMAIN podWatch
    BY <1>3
  <2>2. \A j \in DOMAIN podWatch : i + 1 < j => podWatch[j].name # podWatch[i + 1].name
    BY <1>3, <1>10, <2>1
  <2> QED
    BY <2>1, <2>2 DEF EventsOrdered
<1>11. \A i, j, k \in DOMAIN podWatch :
         i < j /\ j < k /\ podWatch[i].name = podWatch[j].name
           /\ podWatch[i].name = podWatch[k].name =>
           Between(podWatch[i].obj, podWatch[j].obj, podWatch[k].obj)
  BY DEF EventsOrdered
<1>12. ASSUME NEW i \in DOMAIN podWatch', NEW j \in DOMAIN podWatch', i < j,
              podWatch'[i].name = podWatch'[j].name
       PROVE  /\ Later(podWatch'[i].obj, podWatch'[j].obj)
              /\ Between(podSeen'[podWatch'[i].name], podWatch'[i].obj, podWatch'[j].obj)
  <2>1. /\ podWatch'[i] = podWatch[i + 1] /\ i + 1 \in DOMAIN podWatch /\ 1 < i + 1
        /\ podWatch'[j] = podWatch[j + 1] /\ j + 1 \in DOMAIN podWatch /\ i + 1 < j + 1
    BY <1>3, <1>12
  <2>2. Later(podWatch[i + 1].obj, podWatch[j + 1].obj)
    BY <1>12, <2>1 DEF EventsOrdered
  <2>3. Between(podSeen[podWatch[i + 1].name], podWatch[i + 1].obj, podWatch[j + 1].obj)
    BY <1>12, <2>1 DEF EventsOrdered
  <2>4. podWatch[i + 1].name = p => Between(new, podWatch[i + 1].obj, podWatch[j + 1].obj)
    <3>1. podWatch[i + 1].name = podWatch[j + 1].name
      BY <1>12, <2>1
    <3> QED
      BY <1>2, <1>11, <2>1, <3>1
  <2> QED
    BY <1>4, <1>6, <2>1, <2>2, <2>3, <2>4
<1>13. ASSUME NEW i \in DOMAIN podWatch', NEW j \in DOMAIN podWatch', NEW k \in DOMAIN podWatch',
              i < j, j < k, podWatch'[i].name = podWatch'[j].name,
              podWatch'[i].name = podWatch'[k].name
       PROVE  Between(podWatch'[i].obj, podWatch'[j].obj, podWatch'[k].obj)
  <2>1. /\ podWatch'[i] = podWatch[i + 1] /\ i + 1 \in DOMAIN podWatch
        /\ podWatch'[j] = podWatch[j + 1] /\ j + 1 \in DOMAIN podWatch
        /\ podWatch'[k] = podWatch[k + 1] /\ k + 1 \in DOMAIN podWatch
        /\ i + 1 < j + 1 /\ j + 1 < k + 1
    BY <1>3, <1>13
  <2> QED
    BY <1>13, <1>11, <2>1
<1> QED
  BY <1>7, <1>8, <1>9, <1>10, <1>12, <1>13 DEF EventsOrdered, Fresh

\* The events of a list: what the pods are now, one for each that has changed.
LEMMA OrderListed ==
    ASSUME Types, Types', EventsPast, UNCHANGED <<pod, uids>>,
           \A q \in Names : Sane(q, pod[q]) /\ Sane(q, podSeen'[q]) /\ Past(q, podSeen'[q]),
           \A q \in Names : Fresh(q)' => podSeen'[q] = pod[q],
           \A i \in DOMAIN podWatch' : podWatch'[i].obj = pod[podWatch'[i].name],
           \A i, j \in DOMAIN podWatch' : podWatch'[i].name = podWatch'[j].name => i = j
    PROVE  EventsPast' /\ EventsOrdered'
<1>1. podWatch' \in Seq(PodEvents)
  BY DEF Types, WatchTypes
<1>2. /\ \A i \in DOMAIN podWatch' : podWatch'[i].name \in Names
      /\ \A i, j \in DOMAIN podWatch' : i < j => i # j
  <2>1. \A x \in PodEvents : x.name \in Names
    BY DEF PodEvents
  <2> QED
    BY <1>1, <2>1
<1>3. \A q \in Names : PastOf(pod[q], uids[q], pod[q]) /\ PastOf(pod[q], uids[q], podSeen'[q])
  BY DEF EventsPast, Past
<1>4. \A q \in Names : /\ Later(podSeen'[q], pod[q])
                       /\ FollowsOf(pod[q], podSeen'[q], pod[q])
  BY <1>3 DEF PastOf, Later, FollowsOf
<1>5. EventsPast'
  BY <1>2, <1>3, <1>4 DEF EventsPast, Past, Newer
<1>6. /\ \A q \in Names : Sane(q, pod'[q]) /\ Sane(q, podSeen'[q])
      /\ \A q \in Names : Fresh(q)' => podSeen'[q] = pod'[q]
  OBVIOUS
<1>7. \A i \in DOMAIN podWatch' :
        /\ Sane(podWatch'[i].name, podWatch'[i].obj)
        /\ Later(podSeen'[podWatch'[i].name], podWatch'[i].obj)
  BY <1>2, <1>4
<1>8. \A i, j \in DOMAIN podWatch' : i < j /\ podWatch'[i].name = podWatch'[j].name => FALSE
  BY <1>2
<1> QED
  BY <1>5, <1>6, <1>7, <1>8 DEF EventsOrdered, Sane, Later, Between

\* A watch that breaks.
LEMMA RelistOrdered ==
    ASSUME Types, Types', EventsPast, EventsOrdered, Relist
    PROVE  /\ EventsPast' /\ EventsOrdered'
           /\ \A p \in Names : Fresh(p)' => Fresh(p)
           /\ \A i \in DOMAIN podWatch' : \/ i \in DOMAIN podWatch /\ podWatch'[i] = podWatch[i]
                                          \/ podWatch'[i].obj = pod[podWatch'[i].name]
<1>1. UNCHANGED <<pod, uids, podSeen>>
  BY DEF Relist, api
<1>2. CASE UNCHANGED podWatch
  <2>1. EventsPast' /\ EventsOrdered'
    BY <1>1, <1>2 DEF EventsPast, EventsOrdered, Past, Newer, Fresh
  <2> QED
    BY <1>2, <2>1 DEF Fresh
<1>3. CASE podWatch' = Listed({p \in Names : Changed(p)}, PodEvent)
  <2> DEFINE S == {p \in Names : Changed(p)}
  <2>1. /\ \A i \in DOMAIN podWatch' : podWatch'[i].obj = pod[podWatch'[i].name]
        /\ \A i, j \in DOMAIN podWatch' : podWatch'[i].name = podWatch'[j].name => i = j
        /\ \A p \in S : \E i \in DOMAIN podWatch' : podWatch'[i].name = p
    <3>1. ApiTypes /\ S \in SUBSET Names /\ podWatch' = Listed(S, PodEvent)
      BY <1>3 DEF Types
    <3> HIDE DEF S
    <3> QED
      BY <3>1, PodListIs
  <2>2. ASSUME NEW q \in Names, Fresh(q)'
        PROVE  podSeen'[q] = pod[q] /\ Fresh(q)
    <3>1. ~Changed(q)
      BY <2>1, <2>2 DEF Fresh
    <3> QED
      BY <1>1, <3>1 DEF Changed, Fresh
  <2>3. \A q \in Names : Sane(q, pod[q]) /\ Sane(q, podSeen'[q]) /\ Past(q, podSeen'[q])
    BY <1>1 DEF EventsOrdered, EventsPast
  <2>4. EventsPast' /\ EventsOrdered'
    BY <1>1, <2>1, <2>2, <2>3, OrderListed
  <2> QED
    BY <2>1, <2>2, <2>4
<1> QED
  BY <1>2, <1>3 DEF Relist

\* A node as it is at first is there.
LEMMA FullIs ==
    ASSUME NEW n
    PROVE  Full(n).there
<1> DEFINE y == TRUE
<1>1. Full(n) = [alloc |-> Alloc[n], ready |-> y, there |-> y]
  BY DEF Full
<1>2. y
  OBVIOUS
<1> HIDE DEF y
<1>3. Full(n).there = y
  BY <1>1
<1> QED
  BY <1>2, <1>3, Zenon

\* A restart: everything is listed, and nothing is known.
LEMMA RebootWorld ==
    ASSUME Types, Types', World, Reboot, UNCHANGED api
    PROVE  World'
<1>1. /\ UNCHANGED <<pod, uids, node>> /\ podSeen' = [p \in Names |-> NoPod]
      /\ podWatch' = Listed({p \in Names : pod[p].uid # 0}, PodEvent)
      /\ nodeWatch' = Listed({n \in Nodes : node[n].there}, NodeEvent)
      /\ c' = EmptyCache
  BY DEF Reboot, api
<1>2. NodesArrive /\ EventsPast /\ EventsOrdered /\ ApiTypes
  BY DEF World, Types
<1>3. EventsPast' /\ EventsOrdered'
  <2> DEFINE S == {p \in Names : pod[p].uid # 0}
  <2>1. S \in SUBSET Names /\ podWatch' = Listed(S, PodEvent)
    BY <1>1
  <2>2. \A q \in Names : q \notin S => pod[q].uid = 0
    OBVIOUS
  <2> HIDE DEF S
  <2>3. /\ \A i \in DOMAIN podWatch' : podWatch'[i].obj = pod[podWatch'[i].name]
        /\ \A i, j \in DOMAIN podWatch' : podWatch'[i].name = podWatch'[j].name => i = j
        /\ \A p \in S : \E i \in DOMAIN podWatch' : podWatch'[i].name = p
    BY <1>2, <2>1, PodListIs
  <2>4. ASSUME NEW q \in Names, Fresh(q)'
        PROVE  podSeen'[q] = pod[q]
    <3>1. pod[q].uid = 0
      BY <2>2, <2>3, <2>4 DEF Fresh
    <3>2. Sane(q, pod[q])
      BY <1>2 DEF EventsOrdered
    <3> QED
      BY <1>1, <3>1, <3>2 DEF Sane
  <2>5. ASSUME NEW q \in Names
        PROVE  Sane(q, pod[q]) /\ Sane(q, podSeen'[q]) /\ Past(q, podSeen'[q])
    <3>1. Sane(q, pod[q])
      BY <1>2 DEF EventsOrdered
    <3>2. podSeen'[q] = NoPod /\ NoPod.evicted = FALSE
      BY <1>1 DEF NoPod
    <3>3. Sane(q, NoPod)
      BY <3>2, NoPodIs DEF Sane
    <3>4. PastOf(pod[q], uids[q], NoPod)
      <4>1. uids[q] \in Nat
        BY Uids
      <4>2. 0 <= uids[q]
        BY <4>1
      <4> QED
        BY <4>2, NoPodIs DEF PastOf
    <3> QED
      BY <3>1, <3>2, <3>3, <3>4 DEF Past
  <2> QED
    BY <1>1, <1>2, <2>3, <2>4, <2>5, OrderListed
<1>4. NodesArrive'
  <2> DEFINE S == {n \in Nodes : node[n].there}
  <2>1. S \in SUBSET Nodes /\ nodeWatch' = Listed(S, NodeEvent)
    BY <1>1
  <2>2. \A n \in Nodes : node[n] = Full(n)
    BY <1>2 DEF NodesArrive
  <2>3. ASSUME NEW n \in Nodes PROVE n \in S
    <3>1. node[n] = Full(n) /\ Full(n).there
      BY <2>2, FullIs
    <3> QED
      BY <3>1, Zenon
  <2> HIDE DEF S
  <2>4. /\ nodeWatch' \in Seq(NodeEvents)
        /\ \A i \in DOMAIN nodeWatch' :
             nodeWatch'[i].obj = node[nodeWatch'[i].name] /\ nodeWatch'[i].new = TRUE
        /\ \A i, j \in DOMAIN nodeWatch' : nodeWatch'[i].name = nodeWatch'[j].name => i = j
        /\ \A n \in S : \E i \in DOMAIN nodeWatch' : nodeWatch'[i].name = n
    <3>1. PICK L : L = nodeWatch'
      OBVIOUS
    <3>2. ApiTypes /\ L = Listed(S, NodeEvent)
      BY <1>2, <2>1, <3>1
    <3>3. L \in Seq(NodeEvents)
      BY <2>1, <3>2, NodeListIs, Zenon
    <3>4. \A i \in DOMAIN L : L[i].obj = node[L[i].name] /\ L[i].new = TRUE
      BY <2>1, <3>2, NodeListIs, Zenon
    <3>5. \A i, j \in DOMAIN L : L[i].name = L[j].name => i = j
      BY <2>1, <3>2, NodeListIs, Zenon
    <3>6. \A n \in S : \E i \in DOMAIN L : L[i].name = n
      <4>1. PICK T \in SUBSET Nodes : T = S
        BY <2>1
      <4>2. L = Listed(T, NodeEvent)
        BY <3>2, <4>1
      <4>3. \A n \in T : \E i \in DOMAIN L : L[i].name = n
        BY <3>2, <4>2, NodeListIs, Zenon
      <4> QED
        BY <4>1, <4>3
    <3> QED
      BY <3>1, <3>3, <3>4, <3>5, <3>6, Zenon
  <2>5. \A x \in NodeEvents : x.name \in Nodes
    BY DEF NodeEvents
  <2>6. \A i \in DOMAIN nodeWatch' : nodeWatch'[i].name \in Nodes
    BY <2>4, <2>5
  <2>7. DOMAIN c'.nodes = {}
    BY <1>1 DEF EmptyCache
  <2>8. \A n \in Nodes : node'[n] = Full(n)
    BY <1>1, <2>2
  <2>9. \A i \in DOMAIN nodeWatch' : nodeWatch'[i].obj = Full(nodeWatch'[i].name)
    BY <2>2, <2>4, <2>6
  <2> QED
    BY <2>3, <2>4, <2>7, <2>8, <2>9 DEF NodesArrive, Full
<1>5. RunningBound'
  <2>1. ssn' = NoSession /\ evictions' = {} /\ rs' = Idle
    BY DEF Reboot
  <2>2. DOMAIN c'.tasks = {} /\ DOMAIN ssn'.tasks = {} /\ rs'.step = "idle"
    BY <1>1, <2>1 DEF EmptyCache, NoSession, Idle
  <2> QED
    BY <2>1, <2>2 DEF RunningBound, SessionKnown
<1> QED
  BY <1>3, <1>4, <1>5 DEF World

\* Pods that stay as they are.
LEMMA EventsSame ==
    ASSUME EventsPast, EventsOrdered, UNCHANGED <<pod, uids, podSeen, podWatch>>
    PROVE  EventsPast' /\ EventsOrdered'
  BY DEF EventsPast, EventsOrdered, Past, Newer, Fresh

\* A pod written.
LEMMA EventsWritten ==
    ASSUME Types, Types', EventsPast, EventsOrdered, NEW p \in Names, Written(p)
    PROVE  EventsPast' /\ EventsOrdered'
<1>1. EventsOrdered'
  BY OrderWritten
<1>2. PodsAdvance /\ UNCHANGED podSeen
      /\ podWatch' = Append(podWatch, [name |-> p, obj |-> pod'[p]])
  BY DEF Written
<1>3. EventsPast'
  BY <1>2, EventsStay
<1> QED
  BY <1>1, <1>3

\* A write that continues the pod.
LEMMA PutPodWritten ==
    ASSUME Types, EventsPast, NEW p \in Names, NEW o \in PodObjects, PutPod(p, o),
           Continues(pod[p], o), Sane(p, o)
    PROVE  Written(p) /\ pod'[p] = o
<1>1. /\ PodsAdvance /\ UNCHANGED <<podSeen, node, nodeWatch>>
      /\ pod'[p] = o /\ \A q \in Names : q # p => pod'[q] = pod[q]
  BY WriteAdvances
<1>2. podWatch' = Append(podWatch, [name |-> p, obj |-> o])
  BY DEF PutPod
<1> QED
  BY <1>1, <1>2 DEF Written

-----------------------------------------------------------------------------
(***************************************************************************)
(* Steps that do not touch what the cache has of a pod.                    *)
(***************************************************************************)
\* Pods move on, and their states are the events to come.
EventsFollow(p) ==
    /\ PodsAdvance /\ podSeen'[p] = podSeen[p]
    /\ \A i \in DOMAIN podWatch' : podWatch'[i].name = p =>
         \/ podWatch'[i].obj = pod'[p]
         \/ \E j \in DOMAIN podWatch :
              podWatch[j].name = p /\ podWatch[j].obj = podWatch'[i].obj
    /\ Fresh(p)' => Fresh(p) /\ pod'[p] = pod[p]

CacheStays(p) == Alike(c, c', p) /\ \A n \in DOMAIN c.nodes : n \in DOMAIN c'.nodes

\* What is under way goes on until the pod is written.
ExcusesStay(p) ==
    /\ \A e \in Entries : e.t[1] = p =>
         /\ Excuse(e)' => Excuse(e)
         /\ Underway(e) => Underway(e)' \/ pod'[p].node # ""
         /\ Waits(e) /\ Fresh(p)' => Waits(e)'
    /\ \A t \in OwnTids : t[1] = p /\ Alone(t) => Alone(t)'

\* A pod is bound by a binding that is under way.
NewlyBound(p) ==
    pod[p].node = "" /\ pod'[p].node # "" =>
      \E e \in Entries : e.t = <<p, pod[p].uid>> /\ e.node = pod'[p].node /\ InBinds(e)

\* A session goes on, or takes the tasks from the cache.
SessionFollows(p) ==
    \A t \in DOMAIN ssn'.tasks : t[1] = p =>
      \/ /\ t \in DOMAIN ssn.tasks
         /\ ssn'.tasks[t] \in {"Pending", "Running"} => ssn'.tasks[t] = ssn.tasks[t]
      \/ t \in DOMAIN c.tasks /\ ssn'.tasks[t] = c.tasks[t].status

\* The resync worker is busy with other pods, or reads this one.
ReadsNow(p) ==
    /\ rs = Idle /\ rs'.e \in errTasks /\ rs'.e.t[1] = p /\ rs'.got = pod[p]
    /\ rs'.step = IF pod[p].uid = 0 THEN "delete" ELSE "update"
    /\ pod'[p] = pod[p] /\ Underway(rs'.e)

ResyncStays(p) == \/ rs' = rs
                  \/ ~Reads(p) /\ ~Reads(p)'
                  \/ ReadsNow(p)

Stays(p) == /\ EventsFollow(p) /\ CacheStays(p) /\ ExcusesStay(p)
            /\ NewlyBound(p) /\ SessionFollows(p) /\ ResyncStays(p)

\* A uid that the informer has delivered, or an event, is not given again.
LEMMA OldPod ==
    ASSUME Types, Types', PodsAdvance, NEW p \in Names, NEW o \in PodObjects,
           PastOf(pod[p], uids[p], o), o.uid # 0, o.uid = pod'[p].uid
    PROVE  /\ o.uid = pod[p].uid /\ o.node \in {"", pod[p].node}
           /\ pod[p].node # "" => pod'[p].node = pod[p].node
           /\ isTerminated(pod[p].phase) => isTerminated(pod'[p].phase)
<1>1. o.uid \in Nat /\ o.uid <= uids[p]
  <2>1. o.uid \in 0 .. MaxUid
    BY DEF PodObjects
  <2>2. o.uid \in Nat
    BY <2>1, Bounds
  <2>3. o.uid <= uids[p]
    BY DEF PastOf
  <2> QED
    BY <2>2, <2>3
<1>2. /\ o.uid = pod[p].uid
      /\ pod[p].node # "" => pod'[p].node = pod[p].node
      /\ isTerminated(pod[p].phase) => isTerminated(pod'[p].phase)
  BY <1>1, SamePod
<1> QED
  BY <1>2 DEF PastOf

\* What is known of the pod the informer has delivered goes on.
LEMMA LiveStays ==
    ASSUME Types, Types', EventsPast, PodsAdvance, NEW p \in Names, podSeen'[p] = podSeen[p]
    PROVE  /\ Tid(p)' = Tid(p)
           /\ Live(p)' =>
                /\ Live(p) /\ podSeen[p].node \in {"", pod[p].node}
                /\ pod[p].node # "" => pod'[p].node = pod[p].node
                /\ Ended(p) => Ended(p)'
<1>1. Tid(p)' = Tid(p)
  BY DEF Tid
<1>2. podSeen[p] \in PodObjects /\ PastOf(pod[p], uids[p], podSeen[p])
  BY Uids DEF EventsPast, Past
<1>3. ASSUME Live(p)'
      PROVE  /\ Live(p) /\ podSeen[p].node \in {"", pod[p].node}
             /\ pod[p].node # "" => pod'[p].node = pod[p].node
             /\ Ended(p) => Ended(p)'
  <2>1. podSeen[p].uid = pod'[p].uid /\ podSeen[p].uid # 0 /\ JobOf[p] # ""
    BY <1>3 DEF Live
  <2> QED
    BY <1>2, <2>1, OldPod DEF Live, Ended
<1> QED
  BY <1>1, <1>3

\* The tasks of a pod that is alike.
LEMMA TaskSame ==
    ASSUME Types, Types', NEW p \in Names, podSeen'[p] = podSeen[p], Alike(c, c', p)
    PROVE  /\ \A t : t[1] = p => (t \in DOMAIN c'.tasks <=> t \in DOMAIN c.tasks)
           /\ Known(p)' <=> Known(p)
           /\ Known(p) => Info(p)' = Info(p)
           /\ \A n \in Nodes : At(c', n, p) = At(c, n, p)
<1>1. DOMAIN c.tasks \subseteq OwnTids /\ DOMAIN c'.tasks \subseteq OwnTids
  BY CacheParts DEF Types, CacheTypes
<1>2. \A t : t[1] = p => (t \in DOMAIN c'.tasks <=> t \in DOMAIN c.tasks)
  BY <1>1 DEF Alike
<1>3. Tid(p)' = Tid(p) /\ Tid(p)[1] = p
  BY DEF Tid
<1>4. Known(p)' <=> Known(p)
  BY <1>2, <1>3 DEF Known
<1>5. ASSUME Known(p) PROVE Info(p)' = Info(p)
  <2>1. Tid(p) \in OwnTids /\ Tid(p) \in DOMAIN c.tasks
    BY <1>1, <1>5 DEF Known
  <2>2. c'.tasks[Tid(p)] = c.tasks[Tid(p)]
    BY <1>3, <2>1 DEF Alike
  <2> QED
    BY <1>3, <2>2 DEF Info
<1>6. \A n \in Nodes : At(c', n, p) = At(c, n, p)
  BY DEF Alike
<1> QED
  BY <1>2, <1>4, <1>5, <1>6

\* A task the session or a worker knows is one the informer has delivered.
LEMMA SeenAllStays ==
    ASSUME Types, Types', EventsPast, NEW p \in Names, EventsFollow(p), NEW t \in Tids,
           t[1] = p, SeenAll(t)
    PROVE  SeenAll(t)'
<1>1. t[2] \in Nat /\ t[2] # 0 /\ t[2] <= uids[p]
  <2>1. t[2] \in 1 .. MaxUid
    BY DEF Tids
  <2> QED
    BY <2>1, Bounds DEF SeenAll
<1>2. PodsAdvance /\ podSeen'[p] = podSeen[p] /\ uids[p] <= uids'[p] /\ uids[p] \in Nat /\ uids'[p] \in Nat
  BY Advances, Uids, UidsNext DEF EventsFollow
<1>3. t[2] <= uids'[p]
  BY <1>1, <1>2
<1>4. ASSUME t[2] = pod'[p].uid PROVE podSeen[p].uid = t[2]
  <2>1. t[2] = pod[p].uid
    BY <1>1, <1>2, <1>4, SamePod
  <2> QED
    BY <2>1 DEF SeenAll
<1>5. ASSUME NEW i \in DOMAIN podWatch', podWatch'[i].name = p, podWatch'[i].obj.uid = t[2]
      PROVE  podSeen[p].uid = t[2]
  <2>1. CASE podWatch'[i].obj = pod'[p]
    BY <1>4, <1>5, <2>1
  <2>2. ASSUME NEW j \in DOMAIN podWatch, podWatch[j].name = p, podWatch[j].obj = podWatch'[i].obj
        PROVE  podSeen[p].uid = t[2]
    BY <1>5, <2>2 DEF SeenAll
  <2> QED
    BY <1>5, <2>1, <2>2 DEF EventsFollow
<1> QED
  BY <1>2, <1>3, <1>4, <1>5 DEF SeenAll

\* The first event of a pod that is bound is bound.
LEMMA BoundFirstStays ==
    ASSUME Types, Types', World, NEW p \in Names, BoundFirst(p), AllSeen(p), Stays(p)
    PROVE  BoundFirst(p)'
<1>1. EventsFollow(p) /\ NewlyBound(p) /\ PodsAdvance /\ podSeen'[p] = podSeen[p] /\ EventsPast
  BY DEF Stays, EventsFollow, World
<1>2. ASSUME NEW i \in DOMAIN podWatch', podWatch'[i].name = p,
             podWatch'[i].obj.uid = pod'[p].uid, pod'[p].node # "",
             podSeen'[p].uid # pod'[p].uid
      PROVE  podWatch'[i].obj.node # ""
  <2>1. CASE podWatch'[i].obj = pod'[p]
    BY <1>2, <2>1
  <2>2. ASSUME NEW j \in DOMAIN podWatch, podWatch[j].name = p, podWatch[j].obj = podWatch'[i].obj
        PROVE  podWatch'[i].obj.node # ""
    <3> DEFINE o == podWatch[j].obj
    <3>1. PastOf(pod[p], uids[p], o)
      BY <1>1, <2>2 DEF EventsPast, Past
    <3>2. o \in PodObjects
      <4>1. podWatch[j] \in PodEvents
        BY DEF Types, WatchTypes
      <4> QED
        BY <4>1 DEF PodEvents
    <3>3. o.uid = pod'[p].uid
      BY <1>2, <2>2
    <3>4. pod'[p].uid # 0
      <4>1. PastOf(pod'[p], uids'[p], pod'[p])
        BY <1>1, Advances
      <4> QED
        BY <1>2, <4>1 DEF PastOf
    <3> HIDE DEF o
    <3>5. o.uid = pod[p].uid
      BY <1>1, <3>1, <3>2, <3>3, <3>4, OldPod
    <3>6. CASE pod[p].node # ""
      <4>1. podSeen[p].uid # pod[p].uid /\ podWatch[j].obj.uid = pod[p].uid
        BY <1>1, <1>2, <3>3, <3>5 DEF o
      <4> QED
        BY <2>2, <3>6, <4>1 DEF BoundFirst
    <3>7. CASE pod[p].node = ""
      <4>1. PICK e \in Entries : e.t = <<p, pod[p].uid>> /\ InBinds(e)
        BY <1>1, <1>2, <3>7 DEF NewlyBound
      <4>2. Excuse(e) /\ e.t[1] = p /\ e.t[2] = pod[p].uid
        BY <4>1 DEF Excuse, Underway
      <4>3. SeenAll(e.t)
        BY <4>2 DEF AllSeen
      <4>4. podSeen[p].uid = pod[p].uid
        BY <4>2, <4>3 DEF SeenAll
      <4> QED
        BY <1>1, <1>2, <3>3, <3>5, <4>4
    <3> QED
      BY <3>6, <3>7
  <2> QED
    BY <1>1, <1>2, <2>1, <2>2 DEF EventsFollow
<1> QED
  BY <1>2 DEF BoundFirst

\* What the cache has of a pod is of the one the informer has delivered.
LEMMA TaskSeenAll ==
    ASSUME Types, EventsPast, NEW p \in Names, NEW t \in Tids, t[1] = p, t[2] = podSeen[p].uid
    PROVE  SeenAll(t)
<1>1. podSeen[p].uid <= uids[p]
  BY DEF EventsPast, Past, PastOf
<1> QED
  BY <1>1 DEF SeenAll

\* What the workers and the session know stays known.
LEMMA AllSeenStays ==
    ASSUME Types, Types', World, NEW p \in Names, AllSeen(p), TaskPlace(p), Stays(p)
    PROVE  AllSeen(p)'
<1>1. EventsFollow(p) /\ ExcusesStay(p) /\ SessionFollows(p) /\ EventsPast
  BY DEF Stays, World
<1>2. ASSUME NEW e \in Entries, e.t[1] = p, Excuse(e)'
      PROVE  SeenAll(e.t)'
  <2>1. SeenAll(e.t) /\ e.t \in Tids
    BY <1>1, <1>2, EntryParts DEF ExcusesStay, AllSeen
  <2> QED
    BY <1>1, <1>2, <2>1, SeenAllStays
<1>3. DOMAIN ssn'.tasks \subseteq OwnTids /\ DOMAIN c.tasks \subseteq OwnTids
  <2>1. DOMAIN c.tasks \subseteq OwnTids
    BY CacheParts DEF Types, CacheTypes
  <2>2. SessionTypes'
    BY DEF Types
  <2>3. ssn'.tasks \in Partial(OwnTids, TaskStatuses \cup {"Unschedulable"})
    BY <2>2 DEF SessionTypes
  <2> QED
    BY <2>1, <2>3, PartialDef
<1>4. ASSUME NEW t \in DOMAIN ssn'.tasks, t[1] = p
      PROVE  SeenAll(t)'
  <2>1. t \in Tids
    BY <1>3 DEF OwnTids
  <2>2. SeenAll(t)
    <3>1. CASE t \in DOMAIN ssn.tasks
      BY <1>4, <3>1 DEF AllSeen
    <3>2. CASE t \in DOMAIN c.tasks
      <4>1. t[2] = podSeen[p].uid
        BY <1>4, <3>2 DEF TaskPlace
      <4> QED
        BY <1>1, <1>4, <2>1, <4>1, TaskSeenAll
    <3> QED
      BY <1>1, <1>4, <3>1, <3>2 DEF SessionFollows
  <2> QED
    BY <1>1, <1>4, <2>1, <2>2, SeenAllStays
<1> QED
  BY <1>2, <1>4 DEF AllSeen

\* The resync worker that is taking the pod off a node goes on with it.
LEMMA NodeStepStays ==
    ASSUME Types, NEW p \in Names, ResyncStays(p), rs.step = "node", rs.e.t[1] = p
    PROVE  rs' = rs
<1>1. rs # Idle
  BY DEF Idle
<1>2. Reads(p)
  BY <1>1 DEF Reads
<1> QED
  BY <1>1, <1>2 DEF ResyncStays, ReadsNow

\* Where the cache has the pod.
LEMMA TaskPlaceStays ==
    ASSUME Types, Types', World, NEW p \in Names, TaskPlace(p), Stays(p)
    PROVE  TaskPlace(p)'
<1>1. /\ EventsFollow(p) /\ Alike(c, c', p) /\ ResyncStays(p)
      /\ podSeen'[p] = podSeen[p] /\ Tid(p)' = Tid(p)
  BY DEF Stays, EventsFollow, CacheStays, Tid
<1>2. /\ \A t : t[1] = p => (t \in DOMAIN c'.tasks <=> t \in DOMAIN c.tasks)
      /\ Known(p)' <=> Known(p)
      /\ Known(p) => Info(p)' = Info(p)
      /\ \A n \in Nodes : At(c', n, p) = At(c, n, p)
  BY <1>1, TaskSame
<1>3. \A t \in DOMAIN c'.tasks : t[1] = p => t[2] = podSeen'[p].uid
  BY <1>1, <1>2 DEF TaskPlace
<1>4. /\ Known(p)' /\ podSeen'[p].node # "" => Info(p)'.node = podSeen'[p].node
      /\ Known(p)' /\ Info(p)'.status = "Pending" => Info(p)'.node = ""
  BY <1>1, <1>2 DEF TaskPlace
<1>5. ASSUME NEW n \in Nodes, At(c', n, p) # "None"
      PROVE  /\ podSeen'[p].uid # 0
             /\ \/ podSeen'[p].node = n
                \/ /\ podSeen'[p].node = ""
                   /\ \/ Known(p)' /\ Info(p)'.node = n
                      \/ rs'.step = "node" /\ rs'.e = [t |-> Tid(p)', node |-> n]
  <2>1. /\ podSeen[p].uid # 0
        /\ \/ podSeen[p].node = n
           \/ /\ podSeen[p].node = ""
              /\ \/ Known(p) /\ Info(p).node = n
                 \/ rs.step = "node" /\ rs.e = [t |-> Tid(p), node |-> n]
    BY <1>2, <1>5 DEF TaskPlace
  <2>2. rs.e = [t |-> Tid(p), node |-> n] => rs.e.t[1] = p
    BY DEF Tid
  <2>3. rs.step = "node" /\ rs.e = [t |-> Tid(p), node |-> n] => rs' = rs
    BY <1>1, <2>2, NodeStepStays
  <2> QED
    BY <1>1, <1>2, <2>1, <2>3
<1> QED
  BY <1>3, <1>4, <1>5 DEF TaskPlace

\* What is under way for a pod without a node.
LEMMA UnsettledStays ==
    ASSUME Types, Types', World, NEW p \in Names, TaskPlace(p), Unsettled(p), Stays(p)
    PROVE  Unsettled(p)'
<1>1. /\ EventsFollow(p) /\ Alike(c, c', p) /\ ResyncStays(p) /\ ExcusesStay(p)
      /\ SessionFollows(p) /\ podSeen'[p] = podSeen[p] /\ Tid(p)' = Tid(p)
  BY DEF Stays, EventsFollow, CacheStays, Tid
<1>2. /\ Known(p)' <=> Known(p)
      /\ Known(p) => Info(p)' = Info(p)
  BY <1>1, TaskSame
<1>3. SUFFICES ASSUME podSeen[p].uid # 0, podSeen[p].node = ""
               PROVE  /\ Alone(Tid(p))'
                      /\ \A e \in Entries : e.t = Tid(p) /\ Excuse(e)' =>
                           \/ Known(p)' /\ Info(p)'.node = e.node
                           \/ ~Known(p)' /\ rs'.step = "node" /\ rs'.e = e
                      /\ Known(p)' /\ Info(p)'.status \notin {"Binding", "Releasing"} =>
                           Unexcused(Tid(p))'
                      /\ Tid(p) \in DOMAIN ssn'.tasks /\ ssn'.tasks[Tid(p)] \in {"Pending", "Running"} =>
                           Unexcused(Tid(p))'
  BY <1>1 DEF Unsettled
<1>4. /\ Alone(Tid(p))
      /\ \A e \in Entries : e.t = Tid(p) /\ Excuse(e) =>
           \/ Known(p) /\ Info(p).node = e.node
           \/ ~Known(p) /\ rs.step = "node" /\ rs.e = e
      /\ Known(p) /\ Info(p).status \notin {"Binding", "Releasing"} => Unexcused(Tid(p))
      /\ Tid(p) \in DOMAIN ssn.tasks /\ ssn.tasks[Tid(p)] \in {"Pending", "Running"} =>
           Unexcused(Tid(p))
  BY <1>3 DEF Unsettled
<1>5. Tid(p)[1] = p
  BY DEF Tid
<1>6. Alone(Tid(p))'
  <2>1. CASE Tid(p) \in OwnTids
    <3>1. PICK t \in OwnTids : t = Tid(p)
      BY <2>1
    <3>2. Alone(t)'
      BY <1>1, <1>4, <1>5, <3>1 DEF ExcusesStay
    <3>3. t = Tid(p)'
      BY <1>1, <3>1
    <3> QED
      BY <3>2, <3>3 DEF Alone
  <2>2. CASE Tid(p) \notin OwnTids
    <3>1. \A e \in Entries : e.t # Tid(p)
      BY <2>2, EntryParts
    <3>2. \A v \in evictions' : v.t \in OwnTids
      BY DEF Types, WorkerTypes, Evictions
    <3> QED
      BY <1>1, <2>2, <3>1, <3>2 DEF Alone
  <2> QED
    BY <2>1, <2>2
<1>7. \A e \in Entries : e.t = Tid(p) /\ Excuse(e)' => Excuse(e)
  BY <1>1, <1>5 DEF ExcusesStay
<1>8. Unexcused(Tid(p)) => Unexcused(Tid(p))'
  BY <1>1, <1>7 DEF Unexcused
<1>9. ASSUME NEW e \in Entries, e.t = Tid(p), Excuse(e)'
      PROVE  \/ Known(p)' /\ Info(p)'.node = e.node
             \/ ~Known(p)' /\ rs'.step = "node" /\ rs'.e = e
  <2>1. CASE Known(p) /\ Info(p).node = e.node
    BY <1>2, <2>1
  <2>2. CASE ~Known(p) /\ rs.step = "node" /\ rs.e = e
    <3>1. rs' = rs
      BY <1>1, <1>5, <1>9, <2>2, NodeStepStays
    <3> QED
      BY <1>2, <2>2, <3>1
  <2> QED
    BY <1>4, <1>7, <1>9, <2>1, <2>2
<1>10. ASSUME Tid(p) \in DOMAIN ssn'.tasks, ssn'.tasks[Tid(p)] \in {"Pending", "Running"}
       PROVE  Unexcused(Tid(p))'
  <2>1. CASE Tid(p) \in DOMAIN ssn.tasks /\ ssn'.tasks[Tid(p)] = ssn.tasks[Tid(p)]
    BY <1>4, <1>8, <1>10, <2>1
  <2>2. CASE Tid(p) \in DOMAIN c.tasks /\ ssn'.tasks[Tid(p)] = c.tasks[Tid(p)].status
    BY <1>4, <1>8, <1>10, <2>2 DEF Known, Info
  <2> QED
    BY <1>1, <1>5, <1>10, <2>1, <2>2 DEF SessionFollows
<1> QED
  BY <1>2, <1>4, <1>6, <1>8, <1>9, <1>10

\* A pod that is bound by the step is bound where the cache has it.
LEMMA BoundWhere ==
    ASSUME Types, Types', World, NEW p \in Names, AllSeen(p), TaskPlace(p), Unsettled(p), TaskOf(p), Stays(p),
           Live(p)', pod[p].node = "", pod'[p].node # ""
    PROVE  /\ Info(p).node = pod'[p].node
           /\ \A e \in Entries : e.t = Tid(p) /\ Excuse(e) => e.node = pod'[p].node
           /\ \E e \in Entries : e.t = Tid(p) /\ InBinds(e) /\ e.node = pod'[p].node /\ Once(e)
<1>1. EventsFollow(p) /\ NewlyBound(p) /\ EventsPast /\ PodsAdvance /\ podSeen'[p] = podSeen[p]
  BY DEF Stays, EventsFollow, World
<1>2. Live(p) /\ podSeen[p].node = ""
  BY <1>1, LiveStays
<1>3. PICK e \in Entries : e.t = <<p, pod[p].uid>> /\ e.node = pod'[p].node /\ InBinds(e)
  BY <1>1 DEF NewlyBound
<1>4. e.t = Tid(p) /\ Excuse(e) /\ Underway(e) /\ Known(p) /\ podSeen[p].uid # 0
  BY <1>2, <1>3 DEF Live, Tid, Excuse, Underway, TaskOf
<1>5. \A f \in Entries : f.t = Tid(p) /\ Excuse(f) => Info(p).node = f.node
  BY <1>2, <1>4 DEF Unsettled
<1>6. Once(e)
  <2>1. Alone(Tid(p))
    BY <1>2, <1>4 DEF Unsettled
  <2> QED
    BY <1>4, <2>1 DEF Alone
<1> QED
  BY <1>3, <1>4, <1>5, <1>6

\* What the cache says of the pod.
LEMMA TaskOfStays ==
    ASSUME Types, Types', World, NEW p \in Names, AllSeen(p), TaskPlace(p), Unsettled(p), TaskOf(p), Stays(p)
    PROVE  TaskOf(p)'
<1>1. /\ EventsFollow(p) /\ Alike(c, c', p) /\ ExcusesStay(p) /\ EventsPast /\ PodsAdvance
      /\ podSeen'[p] = podSeen[p] /\ Tid(p)' = Tid(p)
  BY DEF Stays, EventsFollow, CacheStays, Tid, World
<1>2. SUFFICES ASSUME Live(p)'
               PROVE  /\ Known(p)'
                      /\ Info(p)'.status \notin {"Pending", "Binding"} => pod'[p].node # ""
                      /\ isTerminated(Info(p)'.status) => Ended(p)'
                      /\ pod'[p].node # "" => Info(p)'.node = pod'[p].node \/ Ended(p)'
                      /\ Info(p)'.pod.evicted = TRUE => /\ pod'[p].node # ""
                                                        /\ ~Fresh(p)' \/ podSeen'[p].evicted = TRUE
                      /\ \A e \in Entries : e.t = Tid(p)' /\ Excuse(e)' /\ pod'[p].node # "" =>
                           e.node = pod'[p].node \/ Ended(p)'
                      /\ Info(p)'.status = "Binding" =>
                           pod'[p].node # "" \/ \E e \in Entries : e.t = Tid(p)' /\ Underway(e)'
  BY DEF TaskOf
<1>3. /\ Live(p) /\ podSeen[p].node \in {"", pod[p].node}
      /\ pod[p].node # "" => pod'[p].node = pod[p].node
      /\ Ended(p) => Ended(p)'
  BY <1>1, <1>2, LiveStays
<1>4. /\ Known(p)
      /\ Info(p).status \notin {"Pending", "Binding"} => pod[p].node # ""
      /\ isTerminated(Info(p).status) => Ended(p)
      /\ pod[p].node # "" => Info(p).node = pod[p].node \/ Ended(p)
      /\ Info(p).pod.evicted = TRUE => /\ pod[p].node # ""
                                       /\ ~Fresh(p) \/ podSeen[p].evicted = TRUE
      /\ \A e \in Entries : e.t = Tid(p) /\ Excuse(e) /\ pod[p].node # "" =>
           e.node = pod[p].node \/ Ended(p)
      /\ Info(p).status = "Binding" =>
           pod[p].node # "" \/ \E e \in Entries : e.t = Tid(p) /\ Underway(e)
  BY <1>3 DEF TaskOf
<1>5. Known(p)' /\ Info(p)' = Info(p)
  BY <1>1, <1>4, TaskSame
<1>6. pod'[p].node # "" => Info(p).node = pod'[p].node \/ Ended(p)'
  BY <1>2, <1>3, <1>4, BoundWhere
<1>7. Fresh(p)' => Fresh(p)
  BY <1>1 DEF EventsFollow
<1>8. ASSUME NEW e \in Entries, e.t = Tid(p), Excuse(e)', pod'[p].node # ""
      PROVE  e.node = pod'[p].node \/ Ended(p)'
  <2>1. e.t = Tid(p)
    BY <1>8, Zenon
  <2>2. e.t[1] = p
    BY <2>1 DEF Tid
  <2>3. Excuse(e)
    BY <1>1, <1>8, <2>2 DEF ExcusesStay
  <2> QED
    BY <1>2, <1>3, <1>4, <1>8, <2>3, BoundWhere
<1>9. ASSUME Info(p).status = "Binding", pod'[p].node = ""
      PROVE  \E e \in Entries : e.t = Tid(p) /\ Underway(e)'
  <2>1. PICK e \in Entries : e.t = Tid(p) /\ Underway(e)
    BY <1>3, <1>4, <1>9
  <2>2. e.t[1] = p
    BY <2>1 DEF Tid
  <2> QED
    BY <1>1, <1>9, <2>1, <2>2 DEF ExcusesStay
<1> QED
  BY <1>1, <1>3, <1>4, <1>5, <1>6, <1>7, <1>8, <1>9

\* What excuses a difference goes on doing so.
LEMMA ExcusedStays ==
    ASSUME Types, Types', World, NEW p \in Names, TaskOf(p), Stays(p), Live(p)', Excused(p)
    PROVE  Excused(p)'
<1>1. /\ EventsFollow(p) /\ Alike(c, c', p) /\ ExcusesStay(p) /\ EventsPast /\ PodsAdvance
      /\ podSeen'[p] = podSeen[p] /\ Tid(p)' = Tid(p)
  BY DEF Stays, EventsFollow, CacheStays, Tid, World
<1>2. Live(p) /\ Known(p)
  BY <1>1, LiveStays DEF TaskOf
<1>3. Info(p)' = Info(p)
  BY <1>1, <1>2, TaskSame
<1>4. Fresh(p)' => Fresh(p) /\ pod'[p] = pod[p]
  BY <1>1 DEF EventsFollow
<1>5. ASSUME Pending(p), Fresh(p)' PROVE Pending(p)'
  <2>1. PICK e \in Entries : e.t = Tid(p) /\ e.node = Info(p).node /\ Waits(e)
    BY <1>5 DEF Pending
  <2>2. e.t[1] = p
    BY <2>1 DEF Tid
  <2>3. Waits(e)'
    BY <1>1, <1>5, <2>1, <2>2 DEF ExcusesStay
  <2> QED
    BY <1>1, <1>3, <2>1, <2>3 DEF Pending
<1> QED
  BY <1>4, <1>5 DEF Excused

\* The place of the task, and whether the cache agrees with the informer.
LEMMA AgreesStays ==
    ASSUME Types, Types', World, NEW p \in Names, TaskOf(p), NodeOfTask(p), Agrees(p), Stays(p)
    PROVE  NodeOfTask(p)' /\ Agrees(p)'
<1>1. /\ EventsFollow(p) /\ Alike(c, c', p) /\ ExcusesStay(p) /\ EventsPast /\ PodsAdvance
      /\ podSeen'[p] = podSeen[p] /\ Tid(p)' = Tid(p)
      /\ \A n \in DOMAIN c.nodes : n \in DOMAIN c'.nodes
  BY DEF Stays, EventsFollow, CacheStays, Tid, World
<1>2. ASSUME Live(p)'
      PROVE  /\ Live(p) /\ Known(p) /\ Info(p)' = Info(p) /\ (Excused(p) => Excused(p)')
             /\ \A n \in Nodes : At(c', n, p) = At(c, n, p)
  <2>1. Live(p) /\ Known(p)
    BY <1>1, <1>2, LiveStays DEF TaskOf
  <2> QED
    BY <1>1, <1>2, <2>1, TaskSame, ExcusedStays
<1>3. DOMAIN c.nodes \subseteq Nodes
  BY CacheParts DEF Types, CacheTypes
<1>4. ASSUME Live(p)', Info(p)'.node # ""
      PROVE  /\ Info(p)'.node \in DOMAIN c'.nodes
             /\ IF isTerminated(Info(p)'.status)
                THEN At(c', Info(p)'.node, p) = "None" \/ Excused(p)'
                ELSE At(c', Info(p)'.node, p) = Info(p)'.status
  <2>1. /\ Info(p).node \in DOMAIN c.nodes
        /\ IF isTerminated(Info(p).status)
           THEN At(c, Info(p).node, p) = "None" \/ Excused(p)
           ELSE At(c, Info(p).node, p) = Info(p).status
    BY <1>2, <1>4 DEF NodeOfTask
  <2>2. Info(p).node \in Nodes
    BY <1>3, <2>1
  <2> QED
    BY <1>1, <1>2, <1>4, <2>1, <2>2
<1>5. ASSUME Live(p)'
      PROVE  \/ Excused(p)'
             \/ /\ Info(p)'.status = getTaskStatus(podSeen'[p])
                /\ Info(p)'.node = podSeen'[p].node
  BY <1>1, <1>2, <1>5 DEF Agrees
<1> QED
  BY <1>4, <1>5 DEF NodeOfTask, Agrees

\* What the resync worker has read stays true of the past.
LEMMA ReadingStays ==
    ASSUME Types, Types', World, NEW p \in Names, AllSeen(p), TaskPlace(p), Unsettled(p), TaskOf(p),
           Reading(p), Stays(p)
    PROVE  Reading(p)'
<1>1. /\ EventsFollow(p) /\ ExcusesStay(p) /\ EventsPast /\ PodsAdvance /\ ResyncStays(p)
      /\ podSeen'[p] = podSeen[p] /\ Tid(p)' = Tid(p) /\ EventsOrdered
  BY DEF Stays, EventsFollow, Tid, World
<1>2. Live(p)' => Live(p)
  BY <1>1, LiveStays
<1>3. Fresh(p)' => Fresh(p)
  BY <1>1 DEF EventsFollow
<1>4. CASE ~Reads(p)'
  BY <1>4 DEF Reading
<1>5. CASE rs' = rs /\ Reads(p)'
  <2>1. Reads(p)
    BY <1>5 DEF Reads
  <2>2. ASSUME rs.step = "update", rs.got.uid = rs.e.t[2]
        PROVE  /\ podSeen[p].uid = rs.got.uid
               /\ Sane(p, rs.got) /\ PastOf(pod'[p], uids'[p], rs.got)
               /\ rs.got = podSeen[p] \/ ~Fresh(p)'
               /\ rs.got.node # "" => rs.got.node = rs.e.node \/ isTerminated(rs.got.phase)
               /\ podSeen[p].node # "" => rs.got.node = podSeen[p].node
               /\ rs.got.node = "" /\ rs.got.uid = pod'[p].uid => pod'[p].node = ""
    <3>1. /\ podSeen[p].uid = rs.got.uid
          /\ Sane(p, rs.got) /\ PastOf(pod[p], uids[p], rs.got)
          /\ rs.got = podSeen[p] \/ ~Fresh(p)
          /\ rs.got.node # "" => rs.got.node = rs.e.node \/ isTerminated(rs.got.phase)
          /\ podSeen[p].node # "" => rs.got.node = podSeen[p].node
          /\ rs.got.node = "" /\ rs.got.uid = pod[p].uid => pod[p].node = ""
      BY <2>1, <2>2 DEF Reading, Past
    <3>2. /\ rs.got \in PodObjects /\ rs.got.uid # 0 /\ rs.e \in Entries /\ rs.e.t[1] = p
          /\ rs.e.t \in OwnTids
      BY <2>1, <2>2, ResyncBusy DEF Reads
    <3>3. PastOf(pod'[p], uids'[p], rs.got)
      BY <1>1, <3>1, <3>2, PastStays
    <3>4. ASSUME rs.got.node = "", rs.got.uid = pod'[p].uid, pod'[p].node # ""
          PROVE  FALSE
      <4>1. rs.got.uid = pod[p].uid /\ pod[p].node = ""
        BY <1>1, <3>1, <3>2, <3>4, OldPod
      <4>2. JobOf[p] # ""
        BY <3>2 DEF OwnTids
      <4>3. Live(p)'
        BY <1>1, <3>1, <3>2, <3>4, <4>2 DEF Live
      <4>4. rs.e.t = Tid(p)
        <5>1. rs.e.t \in Tids /\ rs.e.t[1] = p /\ rs.e.t[2] = podSeen[p].uid
          BY <2>2, <3>1, <3>2 DEF OwnTids
        <5> QED
          BY <5>1 DEF Tids, Tid
      <4>5. Excuse(rs.e)
        BY DEF Excuse, Underway
      <4>6. PICK e \in Entries : e.t = Tid(p) /\ InBinds(e) /\ e.node = pod'[p].node /\ Once(e)
        BY <3>4, <4>1, <4>3, BoundWhere
      <4>7. rs.e.node = pod'[p].node
        BY <3>2, <3>4, <4>1, <4>3, <4>4, <4>5, BoundWhere
      <4>8. rs.e = e
        BY <3>2, <4>4, <4>6, <4>7 DEF Entries
      <4> QED
        BY <4>6, <4>8 DEF Once
    <3> QED
      BY <1>3, <3>1, <3>3, <3>4
  <2>3. rs.step \in {"delete", "node", "retry"} => ~Live(p)'
    BY <1>2, <2>1 DEF Reading
  <2> QED
    BY <1>1, <1>5, <2>2, <2>3 DEF Reading, Past
<1>6. CASE ReadsNow(p)
  <2>1. /\ rs'.e \in errTasks /\ rs'.e.t[1] = p /\ rs'.got = pod[p] /\ pod'[p] = pod[p]
        /\ rs'.step = IF pod[p].uid = 0 THEN "delete" ELSE "update"
        /\ Underway(rs'.e)
    BY <1>6 DEF ReadsNow
  <2>2. rs'.e \in Entries /\ Excuse(rs'.e)
    BY <2>1 DEF Types, WorkerTypes, Excuse
  <2>3. ASSUME rs'.step = "update", rs'.got.uid = rs'.e.t[2]
        PROVE  /\ podSeen[p].uid = pod[p].uid
               /\ Sane(p, pod[p]) /\ PastOf(pod'[p], uids'[p], pod[p])
               /\ pod[p] = podSeen[p] \/ ~Fresh(p)'
               /\ pod[p].node # "" => pod[p].node = rs'.e.node \/ isTerminated(pod[p].phase)
               /\ podSeen[p].node # "" => pod[p].node = podSeen[p].node
    <3>1. pod[p].uid # 0 /\ pod[p].uid = rs'.e.t[2]
      BY <2>1, <2>3
    <3>2. podSeen[p].uid = pod[p].uid
      <4>1. SeenAll(rs'.e.t)
        BY <2>1, <2>2 DEF AllSeen
      <4> QED
        BY <2>1, <3>1, <4>1 DEF SeenAll
    <3>3. JobOf[p] # "" /\ rs'.e.t = Tid(p)
      <4>1. PICK t \in Tids : t = rs'.e.t
        BY <2>2, EntryParts
      <4>2. t = <<p, podSeen[p].uid>>
        BY <2>1, <3>1, <3>2, <4>1 DEF Tids
      <4>3. JobOf[p] # ""
        BY <2>1, <2>2, EntryParts
      <4> QED
        BY <4>1, <4>2, <4>3 DEF Tid
    <3>4. Live(p)
      BY <3>1, <3>2, <3>3 DEF Live
    <3>5. pod[p].node # "" => pod[p].node = rs'.e.node \/ isTerminated(pod[p].phase)
      BY <2>2, <3>3, <3>4 DEF TaskOf, Ended
    <3>6. Sane(p, pod[p]) /\ (Fresh(p) => podSeen[p] = pod[p])
      BY <1>1 DEF EventsOrdered
    <3>7. PastOf(pod'[p], uids'[p], pod'[p])
      BY <1>1, Advances
    <3>8. podSeen[p].node \in {"", pod[p].node}
      BY <1>1, <3>1, <3>2 DEF EventsPast, Past, PastOf
    <3> QED
      BY <1>3, <2>1, <3>2, <3>5, <3>6, <3>7, <3>8
  <2>4. rs'.step = "delete" => ~Live(p)'
    BY <2>1 DEF Live
  <2>5. rs'.step \in {"delete", "update"}
    BY <2>1
  <2> QED
    BY <1>1, <2>1, <2>3, <2>4, <2>5 DEF Reading, Past
<1>7. CASE ~Reads(p) /\ ~Reads(p)'
  BY <1>4, <1>7
<1> QED
  BY <1>1, <1>4, <1>5, <1>6, <1>7 DEF ResyncStays

\* A step that does not touch what the cache has of the pod keeps what the
\* invariant says of it.
LEMMA StaysMirrored ==
    ASSUME Types, Types', World, NEW p \in Names, MirrorOf(p), Stays(p)
    PROVE  MirrorOf(p)'
<1>1. /\ BoundFirst(p) /\ AllSeen(p) /\ TaskPlace(p) /\ Unsettled(p)
      /\ TaskOf(p) /\ NodeOfTask(p) /\ Agrees(p) /\ Reading(p)
  BY DEF MirrorOf
<1>2. BoundFirst(p)' /\ AllSeen(p)' /\ TaskPlace(p)' /\ Unsettled(p)'
  BY <1>1, BoundFirstStays, AllSeenStays, TaskPlaceStays, UnsettledStays
<1>3. TaskOf(p)' /\ NodeOfTask(p)' /\ Agrees(p)' /\ Reading(p)'
  BY <1>1, TaskOfStays, AgreesStays, ReadingStays
<1> QED
  BY <1>2, <1>3 DEF MirrorOf

-----------------------------------------------------------------------------
(***************************************************************************)
(* What is under way stays under way.                                      *)
(***************************************************************************)
\* The binding moves on, and is not lost.
MovesOn(e) == Moves(e) /\ (Underway(e) => Underway(e)')

\* Bindings stay where they are if the workers do.
LEMMA WorkersSameOn ==
    ASSUME UNCHANGED <<errTasks, rs, sending, channel, bindCache, binds>>, NEW e
    PROVE  MovesOn(e)
<1>1. Moves(e)
  BY WorkersSame
<1>2. Underway(e) => Underway(e)'
  BY DEF Underway, InChannel, InBindCache, InBinds
<1> QED
  BY <1>1, <1>2 DEF MovesOn

\* The sender puts it into the channel.
LEMMA SentMovesOn ==
    ASSUME Types, Sent, NEW e \in Entries
    PROVE  MovesOn(e)
<1>1. /\ sending \in Entries /\ channel \in Seq(Entries) /\ channel' = Append(channel, sending)
      /\ sending' = NoBind /\ UNCHANGED <<errTasks, rs, bindCache, binds>>
  BY DEF Sent, Free, Types, WorkerTypes
<1>2. InChannel(e)' <=> sending = e \/ InChannel(e)
  BY <1>1, AppendIn DEF InChannel
<1>3. /\ InBindCache(e)' <=> InBindCache(e)
      /\ InBinds(e)' <=> InBinds(e)
  BY <1>1 DEF InBindCache, InBinds
<1>4. Underway(e) => Underway(e)'
  BY <1>1, <1>2, <1>3 DEF Underway
<1> QED
  BY <1>4, SentMoves DEF MovesOn

\* The bind worker takes it from there.
LEMMA processBindTaskMovesOn ==
    ASSUME Types, processBindTask, NEW e \in Entries
    PROVE  MovesOn(e)
<1>1. /\ channel \in Seq(Entries) /\ bindCache \in Seq(Entries) /\ channel # <<>>
      /\ channel' = Tail(channel) /\ bindCache' = Append(bindCache, Head(channel))
      /\ UNCHANGED <<errTasks, rs, sending, binds>>
  BY DEF processBindTask, Types, WorkerTypes
<1>2. PICK x \in Entries : x = Head(channel)
  BY <1>1
<1>3. InChannel(e) => x = e \/ InChannel(e)'
  BY <1>1, <1>2, TailIn DEF InChannel
<1>4. bindCache' = Append(bindCache, x)
  BY <1>1, <1>2
<1>5. InBindCache(e)' <=> x = e \/ InBindCache(e)
  <2>1. (\E i \in DOMAIN Append(bindCache, x) : Append(bindCache, x)[i] = e) <=>
          x = e \/ \E i \in DOMAIN bindCache : bindCache[i] = e
    BY <1>1, AppendIn
  <2> QED
    BY <1>4, <2>1, Zenon DEF InBindCache
<1>6. InBinds(e)' <=> InBinds(e)
  BY <1>1 DEF InBinds
<1>7. Underway(e) => Underway(e)'
  BY <1>1, <1>3, <1>5, <1>6 DEF Underway
<1> QED
  BY <1>7, processBindTaskMoves DEF MovesOn

\* The resync worker takes a failed one.
LEMMA processResyncTaskMovesOn ==
    ASSUME Types, NEW f, processResyncTask(f), NEW e \in Entries
    PROVE  MovesOn(e)
<1>1. rs = Idle /\ UNCHANGED <<sending, channel, bindCache, binds>>
  BY DEF processResyncTask
<1>2. \/ UNCHANGED <<errTasks, rs>>
      \/ f \in errTasks /\ errTasks' = errTasks \ {f} /\ rs'.e = f
  BY DEF processResyncTask
<1>3. rs.e # e
  BY <1>1, EntryParts DEF Idle
<1>4. /\ InChannel(e)' <=> InChannel(e)
      /\ InBindCache(e)' <=> InBindCache(e)
      /\ InBinds(e)' <=> InBinds(e)
  BY <1>1 DEF InChannel, InBindCache, InBinds
<1>5. Underway(e) => Underway(e)'
  BY <1>1, <1>2, <1>3, <1>4 DEF Underway
<1> QED
  BY <1>5, processResyncTaskMoves DEF MovesOn

\* What was in a sequence is in what is left, or was removed.
LEMMA RemoveKeeps ==
    ASSUME NEW s \in Seq(Entries), NEW i \in DOMAIN s, NEW e, \E j \in DOMAIN s : s[j] = e
    PROVE  s[i] = e \/ \E j \in DOMAIN RemoveAt(s, i) : RemoveAt(s, i)[j] = e
<1> DEFINE r == RemoveAt(s, i)
           at(j) == IF j < i THEN j ELSE j + 1
           back(j) == IF j < i THEN j ELSE j - 1
<1>1. r \in Seq(Entries) /\ Len(r) = Len(s) - 1
  BY RemoveAtType
<1>2. \A j \in DOMAIN r : r[j] = s[at(j)]
  BY RemoveAtType
<1>3. i \in Nat /\ Len(s) \in Nat /\ 1 <= i /\ i <= Len(s) /\ DOMAIN s = 1 .. Len(s)
  OBVIOUS
<1>4. DOMAIN r = 1 .. Len(s) - 1
  BY <1>1
<1> HIDE DEF r
<1>5. \A j \in DOMAIN s : j = i \/ (back(j) \in DOMAIN r /\ at(back(j)) = j)
  BY <1>3, <1>4
<1> HIDE DEF at, back
<1>6. PICK j \in DOMAIN s : s[j] = e
  OBVIOUS
<1>7. CASE j = i
  BY <1>6, <1>7
<1>8. CASE j # i
  <2>1. back(j) \in DOMAIN r /\ r[back(j)] = e
    BY <1>2, <1>5, <1>6, <1>8
  <2> QED
    BY <2>1 DEF r
<1> QED
  BY <1>7, <1>8

\* The batch goes to a goroutine, or a part of it to the error queue.
LEMMA BindTaskMovesOn ==
    ASSUME Types, BindTask, NEW e \in Entries
    PROVE  MovesOn(e)
<1>1. bindCache \in Seq(Entries) /\ UNCHANGED <<rs, sending, channel>>
  BY BindTaskCases DEF Types, WorkerTypes
<1>2. InChannel(e)' <=> InChannel(e)
  BY <1>1 DEF InChannel
<1>3. ASSUME binds' = binds \cup {[todo |-> bindCache, errs |-> {}]}, UNCHANGED errTasks
      PROVE  Underway(e) => Underway(e)'
  <2> DEFINE B == [todo |-> bindCache, errs |-> {}]
  <2>1. InBatch(e, B) <=> InBindCache(e)
    BY DEF InBatch, InBindCache
  <2>2. PICK x : x = B
    OBVIOUS
  <2> HIDE DEF B
  <2>3. binds' = binds \cup {x} /\ UNCHANGED errTasks
    BY <1>3, <2>2 DEF B
  <2>4. InBinds(e)' <=> InBinds(e) \/ InBatch(e, x)
    BY <2>3, BatchAdded
  <2> QED
    BY <1>1, <1>2, <2>1, <2>2, <2>3, <2>4 DEF Underway
<1>4. ASSUME NEW i \in DOMAIN bindCache, errTasks' = errTasks \cup {bindCache[i]},
             \/ binds' = binds /\ RemoveAt(bindCache, i) = <<>>
             \/ binds' = binds \cup {[todo |-> RemoveAt(bindCache, i), errs |-> {}]}
      PROVE  Underway(e) => Underway(e)'
  <2> DEFINE R == RemoveAt(bindCache, i)
             B == [todo |-> R, errs |-> {}]
  <2>1. InBindCache(e) => bindCache[i] = e \/ \E j \in DOMAIN R : R[j] = e
    BY <1>1, RemoveKeeps DEF InBindCache
  <2>2. (\E j \in DOMAIN R : R[j] = e) => InBatch(e, B)
    BY DEF InBatch
  <2>3. PICK x : x = B
    OBVIOUS
  <2>4. R = <<>> => ~\E j \in DOMAIN R : R[j] = e
    OBVIOUS
  <2> HIDE DEF B, R
  <2>5. (binds' = binds /\ R = <<>>) \/ binds' = binds \cup {x}
    BY <1>4, <2>3 DEF B, R
  <2>6. CASE binds' = binds /\ R = <<>>
    <3>1. InBinds(e)' <=> InBinds(e)
      BY <2>6 DEF InBinds
    <3>2. InBindCache(e) => e \in errTasks'
      BY <1>4, <2>1, <2>4, <2>6
    <3> QED
      BY <1>1, <1>2, <1>4, <3>1, <3>2 DEF Underway
  <2>7. CASE binds' = binds \cup {x}
    <3>1. InBinds(e)' <=> InBinds(e) \/ InBatch(e, x)
      BY <2>7, BatchAdded
    <3>2. InBindCache(e) => e \in errTasks' \/ InBinds(e)'
      BY <1>4, <2>1, <2>2, <2>3, <3>1
    <3> QED
      BY <1>1, <1>2, <1>4, <3>1, <3>2 DEF Underway
  <2> QED
    BY <2>5, <2>6, <2>7
<1>5. Underway(e) => Underway(e)'
  <2>1. \/ binds' = binds \cup {[todo |-> bindCache, errs |-> {}]} /\ UNCHANGED errTasks
        \/ \E i \in DOMAIN bindCache :
             /\ errTasks' = errTasks \cup {bindCache[i]}
             /\ \/ binds' = binds /\ RemoveAt(bindCache, i) = <<>>
                \/ binds' = binds \cup {[todo |-> RemoveAt(bindCache, i), errs |-> {}]}
    BY DEF BindTask
  <2> QED
    BY <1>3, <1>4, <2>1
<1> QED
  BY <1>5, BindTaskMoves DEF MovesOn

\* After a call the batch goes on; only a binding that was accepted is left out.
LEMMA BindNextMovesOn ==
    ASSUME Types, NEW b \in binds, NEW E, E \in {{}, {Head(b.todo)}}, BindNext(b, E),
           UNCHANGED <<rs, sending, channel, bindCache>>, NEW e \in Entries
    PROVE  /\ Moves(e)
           /\ Underway(e) => Underway(e)' \/ (E = {} /\ e = Head(b.todo))
<1>1. b.todo \in Seq(Entries) /\ b.todo # <<>>
  BY DEF Types, WorkerTypes, Batches
<1> DEFINE B == [todo |-> Tail(b.todo), errs |-> b.errs \cup E]
<1>2. /\ InBindCache(e)' <=> InBindCache(e)
      /\ InChannel(e)' <=> InChannel(e)
  BY DEF InBindCache, InChannel
<1>3. (\E i \in DOMAIN b.todo : b.todo[i] = e) =>
        Head(b.todo) = e \/ \E i \in DOMAIN Tail(b.todo) : Tail(b.todo)[i] = e
  BY <1>1, TailIn
<1>4. ASSUME InBatch(e, b), ~(E = {} /\ e = Head(b.todo))
      PROVE  InBatch(e, B)
  <2>1. e \in b.errs \/ Head(b.todo) = e \/ \E i \in DOMAIN Tail(b.todo) : Tail(b.todo)[i] = e
    BY <1>3, <1>4 DEF InBatch
  <2>2. Head(b.todo) = e => e \in E
    BY <1>4
  <2> QED
    BY <2>1, <2>2 DEF InBatch
<1>5. \A d \in binds : InBatch(e, d) => d = b \/ d \in binds \ {b}
  OBVIOUS
<1>6. CASE binds' = binds \ {b} /\ errTasks' = errTasks \cup (b.errs \cup E)
           /\ Tail(b.todo) = <<>>
  <2>1. InBatch(e, B) => e \in errTasks'
    <3>1. ~\E i \in DOMAIN Tail(b.todo) : Tail(b.todo)[i] = e
      BY <1>6
    <3> QED
      BY <1>6, <3>1 DEF InBatch
  <2>2. InBinds(e) => InBinds(e)' \/ InBatch(e, b)
    BY <1>5, <1>6 DEF InBinds, InBatch
  <2>3. e \in errTasks => e \in errTasks'
    BY <1>6
  <2> HIDE DEF B
  <2>4. Underway(e) => Underway(e)' \/ (E = {} /\ e = Head(b.todo))
    BY <1>2, <1>4, <2>1, <2>2, <2>3 DEF Underway
  <2> QED
    BY <2>4, BindNextMoves
<1>7. CASE binds' = (binds \ {b}) \cup {B} /\ errTasks' = errTasks
  <2>1. PICK x : x = B
    OBVIOUS
  <2> HIDE DEF B
  <2>2. binds' = (binds \ {b}) \cup {x}
    BY <1>7, <2>1
  <2>3. InBatch(e, x) => InBinds(e)'
    BY <2>2 DEF InBinds, InBatch
  <2>4. InBinds(e) => InBinds(e)' \/ InBatch(e, b)
    BY <1>5, <2>2 DEF InBinds, InBatch
  <2>5. Underway(e) => Underway(e)' \/ (E = {} /\ e = Head(b.todo))
    BY <1>2, <1>4, <1>7, <2>1, <2>3, <2>4 DEF Underway
  <2> QED
    BY <2>5, BindNextMoves
<1> QED
  BY <1>6, <1>7 DEF BindNext

\* Excuses stay if bindings move on and the evictions of the pod are the same.
LEMMA ExcusesSame ==
    ASSUME Types, Types', NEW p \in Names,
           \A v : v.t[1] = p => (v \in evictions' <=> v \in evictions),
           \A e \in Entries : e.t[1] = p =>
             /\ Moves(e)
             /\ Underway(e) => Underway(e)' \/ (pod'[p].node # "" /\ ~Fresh(p)')
    PROVE  ExcusesStay(p)
<1>1. ASSUME NEW e \in Entries, e.t[1] = p
      PROVE  /\ (\E v \in evictions' : EntryOf(v) = e) => \E v \in evictions : EntryOf(v) = e
             /\ (\E v \in evictions : EntryOf(v) = e /\ Answers(v)) =>
                  \E v \in evictions' : EntryOf(v) = e /\ Answers(v)
  <2>1. ASSUME NEW v, EntryOf(v) = e PROVE v.t[1] = p
    <3>1. EntryOf(v).t = v.t
      BY DEF EntryOf
    <3> QED
      BY <1>1, <2>1, <3>1
  <2> QED
    BY <2>1
<1>2. ASSUME NEW e \in Entries, e.t[1] = p
      PROVE  /\ Excuse(e)' => Excuse(e)
             /\ Underway(e) => Underway(e)' \/ pod'[p].node # ""
             /\ Waits(e) /\ Fresh(p)' => Waits(e)'
  <2>1. (Underway(e)' => Underway(e))
        /\ (Underway(e) => Underway(e)' \/ (pod'[p].node # "" /\ ~Fresh(p)'))
    BY <1>2 DEF Moves
  <2>2. Excuse(e)' <=> Underway(e)' \/ \E v \in evictions' : EntryOf(v) = e
    BY DEF Excuse, EntryOf
  <2>3. Waits(e)' <=> Underway(e)' \/ \E v \in evictions' : EntryOf(v) = e /\ Answers(v)
    BY DEF Waits, EntryOf, Answers
  <2> QED
    BY <1>1, <1>2, <2>1, <2>2, <2>3 DEF Excuse, Waits
<1>3. ASSUME NEW t \in OwnTids, t[1] = p, Alone(t) PROVE Alone(t)'
  <2>1. ASSUME NEW e \in Entries, e.t = t, Underway(e)'
        PROVE  Once(e)' /\ \A v \in evictions' : v.t # t
    <3>1. Moves(e)
      BY <1>3, <2>1
    <3>2. Underway(e) /\ (Once(e) => Once(e)')
      BY <2>1, <3>1 DEF Moves
    <3>3. Once(e) /\ \A v \in evictions : v.t # t
      BY <1>3, <2>1, <3>2 DEF Alone
    <3>4. \A v \in evictions' : v.t = t => v \in evictions
      BY <1>3
    <3> QED
      BY <3>2, <3>3, <3>4
  <2>2. \A v, w \in evictions' : v.t = t /\ w.t = t => v = w
    BY <1>3 DEF Alone
  <2> QED
    BY <2>1, <2>2 DEF Alone
<1> QED
  BY <1>2, <1>3 DEF ExcusesStay

\* Pods that stay, or one that is written.
LEMMA FollowSame ==
    ASSUME Types, EventsPast, UNCHANGED <<pod, uids, podSeen, podWatch>>, NEW p \in Names
    PROVE  EventsFollow(p)
<1>1. PodsAdvance
  BY PodsSame
<1> QED
  BY <1>1 DEF EventsFollow, Fresh

\* Every pod follows when one is written.
LEMMA FollowWritten ==
    ASSUME Types, NEW q \in Names, Written(q), NEW p \in Names
    PROVE  EventsFollow(p) /\ (q = p => ~Fresh(p)')
<1>1. /\ PodsAdvance /\ podSeen' = podSeen
      /\ podWatch' = Append(podWatch, [name |-> q, obj |-> pod'[q]])
      /\ \A r \in Names : r # q => pod'[r] = pod[r]
  BY DEF Written
<1>2. podWatch \in Seq(PodEvents)
  BY DEF Types, WatchTypes
<1>3. /\ DOMAIN podWatch' = 1 .. Len(podWatch) + 1 /\ DOMAIN podWatch = 1 .. Len(podWatch)
      /\ \A i \in DOMAIN podWatch : podWatch'[i] = podWatch[i]
      /\ podWatch'[Len(podWatch) + 1].name = q /\ podWatch'[Len(podWatch) + 1].obj = pod'[q]
      /\ Len(podWatch) \in Nat
  BY <1>1, <1>2
<1>4. /\ \A i \in DOMAIN podWatch' : i \in DOMAIN podWatch \/ i = Len(podWatch) + 1
      /\ \A i \in DOMAIN podWatch : i \in DOMAIN podWatch'
      /\ Len(podWatch) + 1 \in DOMAIN podWatch'
  BY <1>3
<1>5. ASSUME NEW i \in DOMAIN podWatch', podWatch'[i].name = p
      PROVE  \/ podWatch'[i].obj = pod'[p]
             \/ \E j \in DOMAIN podWatch :
                  podWatch[j].name = p /\ podWatch[j].obj = podWatch'[i].obj
  BY <1>3, <1>4, <1>5
<1>6. Fresh(p)' => Fresh(p) /\ p # q
  BY <1>3, <1>4 DEF Fresh
<1>7. Fresh(p)' => pod'[p] = pod[p]
  BY <1>1, <1>6
<1> QED
  BY <1>1, <1>5, <1>6, <1>7 DEF EventsFollow

\* The events of another pod are handled.
LEMMA FollowHandled ==
    ASSUME Types, EventsPast, HandlePod, NEW p \in Names, Head(podWatch).name # p
    PROVE  EventsFollow(p)
<1>1. /\ podWatch # <<>> /\ podWatch' = Tail(podWatch) /\ UNCHANGED <<pod, uids>>
      /\ podSeen' = [podSeen EXCEPT ![Head(podWatch).name] = Head(podWatch).obj]
  BY DEF HandlePod, api
<1>2. podWatch \in Seq(PodEvents) /\ podSeen \in [Names -> PodObjects]
  BY DEF Types, WatchTypes
<1>3. PodsAdvance /\ podSeen'[p] = podSeen[p]
  BY <1>1, <1>2, PodsSame
<1>4. /\ \A i \in DOMAIN podWatch' : i + 1 \in DOMAIN podWatch
                                     /\ podWatch'[i] = podWatch[i + 1]
      /\ \A i \in DOMAIN podWatch : i # 1 => i - 1 \in DOMAIN podWatch'
                                             /\ podWatch'[i - 1] = podWatch[i]
      /\ podWatch[1].name # p
  BY <1>1, <1>2
<1>5. Fresh(p)' => Fresh(p)
  BY <1>4 DEF Fresh
<1> QED
  BY <1>1, <1>3, <1>4, <1>5 DEF EventsFollow

\* The watch breaks.
LEMMA FollowListed ==
    ASSUME Types, Types', EventsPast, EventsOrdered, Relist, NEW p \in Names
    PROVE  EventsFollow(p)
<1>1. UNCHANGED <<pod, uids, podSeen>>
  BY DEF Relist, api
<1>2. /\ Fresh(p)' => Fresh(p)
      /\ \A i \in DOMAIN podWatch' : \/ i \in DOMAIN podWatch /\ podWatch'[i] = podWatch[i]
                                     \/ podWatch'[i].obj = pod[podWatch'[i].name]
  BY RelistOrdered
<1>3. PodsAdvance
  BY <1>1, PodsSame
<1> QED
  BY <1>1, <1>2, <1>3 DEF EventsFollow

-----------------------------------------------------------------------------
(***************************************************************************)
(* What runs is bound.                                                     *)
(***************************************************************************)
\* A task that was known so stays known so.
LEMMA TaskRunsStill ==
    ASSUME Types, Types', PodsAdvance, NEW t \in Tids, NEW x, TaskRuns(t, x)
    PROVE  TaskRuns(t, x)'
<1>1. t[1] \in Names /\ t[2] \in Nat
  BY Bounds DEF Tids
<1>2. t[2] <= uids[t[1]] /\ x.pod.uid = t[2]
  BY DEF TaskRuns
<1>3. uids[t[1]] <= uids'[t[1]] /\ uids[t[1]] \in Nat /\ uids'[t[1]] \in Nat
  BY <1>1, Advances, Uids, UidsNext
<1>4. t[2] <= uids'[t[1]]
  BY <1>1, <1>2, <1>3
<1>5. ASSUME t[2] = pod'[t[1]].uid, x.status \notin {"Pending", "Binding"}
      PROVE  pod'[t[1]].node # ""
  <2>1. t[2] = pod[t[1]].uid /\ (pod[t[1]].node # "" => pod'[t[1]].node # "")
    BY <1>2, <1>5, KnownStays
  <2> QED
    BY <1>5, <2>1 DEF TaskRuns
<1> QED
  BY <1>2, <1>4, <1>5 DEF TaskRuns

\* So does an eviction.
LEMMA EvictionRunsStill ==
    ASSUME Types, Types', PodsAdvance, NEW v, NEW w, v.t \in Tids, v.t = w.t, v.pod = w.pod,
           EvictionRuns(w)
    PROVE  EvictionRuns(v)'
<1>1. v.t[1] \in Names /\ v.t[2] \in Nat
  BY Bounds DEF Tids
<1>2. v.t[2] <= uids[v.t[1]] /\ v.pod.uid = v.t[2]
  BY DEF EvictionRuns
<1>3. uids[v.t[1]] <= uids'[v.t[1]] /\ uids[v.t[1]] \in Nat /\ uids'[v.t[1]] \in Nat
  BY <1>1, Advances, Uids, UidsNext
<1>4. v.t[2] <= uids'[v.t[1]]
  BY <1>1, <1>2, <1>3
<1>5. ASSUME v.t[2] = pod'[v.t[1]].uid
      PROVE  pod'[v.t[1]].node # ""
  <2>1. v.t[2] = pod[v.t[1]].uid /\ (pod[v.t[1]].node # "" => pod'[v.t[1]].node # "")
    BY <1>2, <1>5, KnownStays
  <2> QED
    BY <2>1 DEF EvictionRuns
<1> QED
  BY <1>2, <1>4, <1>5 DEF EvictionRuns

\* The task is the same but for its status, which may be Binding.
GoesOn(t) == /\ t \in DOMAIN c.tasks /\ c'.tasks[t].pod = c.tasks[t].pod
             /\ c'.tasks[t].status \in {c.tasks[t].status, "Binding"}

SessionGoesOn ==
    \A t \in DOMAIN ssn'.tasks :
      t \in DOMAIN ssn.tasks /\ (ssn'.tasks[t] = "Running" => ssn.tasks[t] = "Running")

\* What runs is bound, if what is new is.
LEMMA RunningStays ==
    ASSUME Types, Types', RunningBound, PodsAdvance,
           \A t \in DOMAIN c'.tasks : GoesOn(t) \/ TaskRuns(t, c.tasks[t])',
           SessionGoesOn \/ SessionKnown',
           \A v \in evictions' : \/ \E w \in evictions : v.t = w.t /\ v.pod = w.pod
                                 \/ EvictionRuns(v)',
           rs' = rs \/ (rs'.step = "update" => Past(rs.e.t[1], rs.got)')
    PROVE  RunningBound'
<1>1. ASSUME NEW t \in DOMAIN c'.tasks PROVE TaskRuns(t, c.tasks[t])'
  <2>1. CASE GoesOn(t)
    <3>1. t \in Tids /\ t \in DOMAIN c.tasks
      BY <2>1, CacheParts DEF GoesOn, Types, CacheTypes, OwnTids
    <3>2. TaskRuns(t, c.tasks[t])
      BY <3>1 DEF RunningBound
    <3>3. PICK x : x = c'.tasks[t]
      OBVIOUS
    <3>4. TaskRuns(t, x)
      BY <2>1, <3>2, <3>3 DEF GoesOn, TaskRuns
    <3>5. TaskRuns(t, x)'
      BY <3>1, <3>4, TaskRunsStill
    <3> QED
      BY <3>3, <3>5 DEF TaskRuns
  <2> QED
    BY <2>1
<1>2. SessionKnown'
  BY SessionStaysKnown DEF RunningBound, SessionGoesOn
<1>3. ASSUME NEW v \in evictions' PROVE EvictionRuns(v)'
  <2>1. ASSUME NEW w \in evictions, v.t = w.t, v.pod = w.pod PROVE EvictionRuns(v)'
    <3>1. w.t \in Tids /\ EvictionRuns(w)
      BY DEF Types, WorkerTypes, Evictions, OwnTids, RunningBound
    <3> QED
      BY <2>1, <3>1, EvictionRunsStill
  <2> QED
    BY <2>1
<1>4. rs'.step = "update" => Past(rs.e.t[1], rs.got)'
  <2>1. CASE rs' = rs
    <3>1. ASSUME rs.step = "update" PROVE Past(rs.e.t[1], rs.got)'
      <4>1. rs.e.t[1] \in Names /\ rs.got \in PodObjects /\ Past(rs.e.t[1], rs.got)
        BY <3>1, ResyncBusy DEF RunningBound
      <4>2. PICK p \in Names : p = rs.e.t[1]
        BY <4>1
      <4>3. PastOf(pod'[p], uids'[p], rs.got)
        BY <4>1, <4>2, PastStays DEF Past
      <4> QED
        BY <2>1, <4>2, <4>3 DEF Past
    <3> QED
      BY <2>1, <3>1
  <2> QED
    BY <2>1
<1> QED
  BY <1>1, <1>2, <1>3, <1>4 DEF RunningBound

\* A task taken from a state of the past.
LEMMA TaskOfPast ==
    ASSUME UNCHANGED <<pod, uids>>, NEW p \in Names, NEW o \in PodObjects, o.uid # 0,
           PastOf(pod[p], uids[p], o), NEW x, x = InfoOf(o), NEW t, t = <<p, o.uid>>
    PROVE  TaskRuns(t, x)'
<1>1. /\ t[1] = p /\ t[2] = o.uid
      /\ x.pod = o /\ x.status = InfoOf(o).status
  BY DEF InfoOf
<1>2. o.uid <= uids[p]
  BY DEF PastOf
<1>3. o.uid = pod[p].uid /\ InfoOf(o).status \notin {"Pending", "Binding"} => pod[p].node # ""
  BY InfoKnown
<1> QED
  BY <1>1, <1>2, <1>3 DEF TaskRuns

\* The cache writes the task of a state of the past, or drops tasks.
LEMMA WrittenRuns ==
    ASSUME Types, UNCHANGED <<pod, uids>>, NEW k, NEW S, TasksGone(c, k, S), NEW p \in Names,
           NEW o \in PodObjects, o.uid # 0, PastOf(pod[p], uids[p], o), TaskWritten(k, c', p, o)
    PROVE  \A t \in DOMAIN c'.tasks : GoesOn(t) \/ TaskRuns(t, c.tasks[t])'
<1> DEFINE u == <<p, o.uid>>
           f == Put(k.tasks, u, InfoOf(o))
<1>1. c'.tasks = k.tasks \/ c'.tasks = f
  BY DEF TaskWritten
<1>2. /\ DOMAIN f = DOMAIN k.tasks \cup {u} /\ f[u] = InfoOf(o)
      /\ \A y \in DOMAIN k.tasks : y # u => f[y] = k.tasks[y]
  BY DEF Put
<1> HIDE DEF f
<1>3. ASSUME NEW t \in DOMAIN c'.tasks, t \in DOMAIN k.tasks, c'.tasks[t] = k.tasks[t]
      PROVE  GoesOn(t)
  BY <1>3 DEF TasksGone, GoesOn
<1>4. ASSUME c'.tasks = f PROVE TaskRuns(u, c.tasks[u])'
  <2>1. PICK x : x = c'.tasks[u]
    OBVIOUS
  <2>2. x = InfoOf(o)
    BY <1>2, <1>4, <2>1
  <2>3. TaskRuns(u, x)'
    BY <2>2, TaskOfPast
  <2> QED
    BY <2>1, <2>3 DEF TaskRuns
<1> HIDE DEF u
<1> QED
  BY <1>1, <1>2, <1>3, <1>4

-----------------------------------------------------------------------------
(***************************************************************************)
(* Steps that write no pod and no task.                                    *)
(***************************************************************************)
\* The resync worker takes a failed binding and reads its pod.
TakesUp(f) == /\ f \in errTasks /\ rs = Idle /\ rs'.e = f /\ rs'.got = pod[f.t[1]]
              /\ rs'.step = IF pod[f.t[1]].uid = 0 THEN "delete" ELSE "update"

Plainly ==
    /\ UNCHANGED <<pod, uids, podSeen, evictions>>
    /\ UNCHANGED podWatch \/ Relist
    /\ \A e \in Entries : MovesOn(e)
    /\ \A p \in Names : SessionFollows(p)
    /\ SessionGoesOn \/ SessionKnown'
    /\ rs' = rs \/ \E f : TakesUp(f)

\* Such a step keeps the order of the events, and what runs is bound.
LEMMA PlainlyWorld ==
    ASSUME Types, Types', World, Plainly, \A t \in DOMAIN c'.tasks : GoesOn(t)
    PROVE  EventsPast' /\ EventsOrdered' /\ RunningBound'
<1>1. EventsPast /\ EventsOrdered /\ RunningBound /\ UNCHANGED <<pod, uids, podSeen, evictions>>
  BY DEF World, Plainly
<1>2. EventsPast' /\ EventsOrdered'
  BY <1>1, EventsSame, RelistOrdered DEF Plainly
<1>3. PodsAdvance
  BY <1>1, PodsSame
<1>4. rs' = rs \/ (rs'.step = "update" => Past(rs.e.t[1], rs.got)')
  <2>1. ASSUME NEW f, TakesUp(f) PROVE Past(rs.e.t[1], rs.got)'
    <3>1. f \in Entries /\ rs'.e = f /\ rs'.got = pod[f.t[1]]
      BY <2>1 DEF TakesUp, Types, WorkerTypes
    <3>2. PICK q \in Names : q = f.t[1]
      BY <3>1, EntryParts
    <3>3. PastOf(pod[q], uids[q], pod[q])
      BY <1>1 DEF EventsPast, Past
    <3> QED
      BY <1>1, <3>1, <3>2, <3>3 DEF Past
  <2> QED
    BY <2>1 DEF Plainly
<1>5. /\ SessionGoesOn \/ SessionKnown'
      /\ \A v \in evictions' : \E w \in evictions : v.t = w.t /\ v.pod = w.pod
  BY <1>1 DEF Plainly
<1>6. RunningBound'
  BY <1>1, <1>3, <1>4, <1>5, RunningStays
<1> QED
  BY <1>2, <1>6

\* And keeps what is said of a pod whose tasks and places stay.
LEMMA PlainlyMirror ==
    ASSUME Types, Types', World, Plainly, NEW p \in Names, MirrorOf(p), CacheStays(p)
    PROVE  MirrorOf(p)'
<1>1. EventsPast /\ EventsOrdered /\ UNCHANGED <<pod, uids, podSeen, evictions>>
  BY DEF World, Plainly
<1>2. EventsFollow(p)
  BY <1>1, FollowSame, FollowListed DEF Plainly
<1>3. ExcusesStay(p)
  <2>1. \A e \in Entries : Moves(e) /\ (Underway(e) => Underway(e)')
    BY DEF Plainly, MovesOn
  <2>2. \A v : v.t[1] = p => (v \in evictions' <=> v \in evictions)
    BY <1>1
  <2> QED
    BY <2>1, <2>2, ExcusesSame
<1>4. NewlyBound(p)
  BY <1>1 DEF NewlyBound
<1>5. SessionFollows(p)
  BY DEF Plainly
<1>6. ResyncStays(p)
  <2>1. ASSUME NEW f, TakesUp(f) PROVE ResyncStays(p)
    <3>1. /\ rs = Idle /\ f \in errTasks /\ rs'.e = f /\ rs'.got = pod[f.t[1]]
          /\ rs'.step = IF pod[f.t[1]].uid = 0 THEN "delete" ELSE "update"
      BY <2>1 DEF TakesUp
    <3>2. CASE f.t[1] = p
      <4>1. Underway(rs'.e)
        BY <3>1 DEF Underway
      <4>2. ReadsNow(p)
        BY <1>1, <3>1, <3>2, <4>1 DEF ReadsNow
      <4> QED
        BY <4>2 DEF ResyncStays
    <3>3. CASE f.t[1] # p
      BY <3>1, <3>3 DEF ResyncStays, Reads
    <3> QED
      BY <3>2, <3>3
  <2>2. CASE rs' = rs
    BY <2>2 DEF ResyncStays
  <2> QED
    BY <2>1, <2>2 DEF Plainly
<1>7. Stays(p)
  BY <1>2, <1>3, <1>4, <1>5, <1>6 DEF Stays
<1> QED
  BY <1>7, StaysMirrored

\* A cache with the same tasks and nodes.
LEMMA CacheSameStays ==
    ASSUME c'.tasks = c.tasks, c'.nodes = c.nodes
    PROVE  /\ \A t \in DOMAIN c'.tasks : GoesOn(t)
           /\ \A p \in Names : CacheStays(p)
           /\ NodesLike(c, c')
<1>1. \A t \in DOMAIN c'.tasks : GoesOn(t)
  BY DEF GoesOn
<1>2. \A p \in Names : CacheStays(p)
  <2>1. PICK m : m = c'
    OBVIOUS
  <2>2. \A p \in Names : Alike(c, m, p)
    BY <2>1, AlikeSame
  <2> QED
    BY <2>1, <2>2 DEF CacheStays
<1>3. NodesLike(c, c')
  BY NodesLikeSame
<1> QED
  BY <1>1, <1>2, <1>3

\* The session is the same.
LEMMA SessionSame ==
    ASSUME UNCHANGED ssn
    PROVE  SessionGoesOn /\ \A p \in Names : SessionFollows(p)
  BY DEF SessionGoesOn, SessionFollows

\* The workers hand a binding on.
LEMMA WorkersPlain ==
    ASSUME Types, Sent \/ processBindTask \/ BindTask \/ \E f : processResyncTask(f)
    PROVE  Plainly /\ UNCHANGED <<c, node, nodeWatch>>
<1>1. CASE Sent
  <2>1. UNCHANGED <<api, watches, c, rs, evictions, ssn>>
    BY <1>1 DEF Sent
  <2>2. \A e \in Entries : MovesOn(e)
    BY <1>1, SentMovesOn
  <2> QED
    BY <2>1, <2>2, SessionSame DEF Plainly, api, watches
<1>2. CASE processBindTask
  <2>1. UNCHANGED <<api, watches, c, rs, evictions, ssn>>
    BY <1>2 DEF processBindTask
  <2>2. \A e \in Entries : MovesOn(e)
    BY <1>2, processBindTaskMovesOn
  <2> QED
    BY <2>1, <2>2, SessionSame DEF Plainly, api, watches
<1>3. CASE BindTask
  <2>1. UNCHANGED <<api, watches, c, rs, evictions, ssn>>
    BY <1>3, BindTaskCases
  <2>2. \A e \in Entries : MovesOn(e)
    BY <1>3, BindTaskMovesOn
  <2> QED
    BY <2>1, <2>2, SessionSame DEF Plainly, api, watches
<1>4. ASSUME NEW f, processResyncTask(f) PROVE Plainly /\ UNCHANGED <<c, node, nodeWatch>>
  <2>1. UNCHANGED <<api, watches, c, evictions, ssn>>
    BY <1>4 DEF processResyncTask
  <2>2. \A e \in Entries : MovesOn(e)
    BY <1>4, processResyncTaskMovesOn
  <2>3. rs' = rs \/ TakesUp(f)
    BY <1>4 DEF processResyncTask, TakesUp
  <2> QED
    BY <2>1, <2>2, <2>3, SessionSame DEF Plainly, api, watches
<1> QED
  BY <1>1, <1>2, <1>3, <1>4

\* A session opens or closes.
LEMMA SessionPlain ==
    ASSUME Types, Types', World, Snapshot \/ CloseSession
    PROVE  Plainly /\ UNCHANGED <<c, node, nodeWatch>>
<1>1. UNCHANGED <<api, watches, c, workers>>
  BY DEF Snapshot, CloseSession
<1>2. UNCHANGED <<pod, uids, node, podWatch, nodeWatch, podSeen, errTasks, rs, sending,
                  channel, bindCache, binds, evictions>>
  BY <1>1 DEF api, watches, workers
<1>3. \A e \in Entries : MovesOn(e)
  BY <1>2, WorkersSameOn
<1>4. CASE Snapshot
  <2>1. \A t \in DOMAIN ssn'.tasks : t \in DOMAIN c.tasks /\ ssn'.tasks[t] = c.tasks[t].status
    BY <1>4 DEF Snapshot
  <2>2. \A p \in Names : SessionFollows(p)
    BY <2>1 DEF SessionFollows
  <2>3. SessionKnown'
    <3> SUFFICES ASSUME NEW t \in DOMAIN ssn'.tasks
                 PROVE  /\ t[2] <= uids[t[1]]
                        /\ ssn'.tasks[t] = "Running" /\ t[2] = pod[t[1]].uid => pod[t[1]].node # ""
      BY <1>2 DEF SessionKnown
    <3>1. TaskRuns(t, c.tasks[t])
      BY <2>1 DEF World, RunningBound
    <3> QED
      BY <2>1, <3>1 DEF TaskRuns
  <2> QED
    BY <1>1, <1>2, <1>3, <2>2, <2>3 DEF Plainly
<1>5. CASE CloseSession
  <2>1. DOMAIN ssn'.tasks = {}
    BY <1>5 DEF CloseSession, NoSession
  <2> QED
    BY <1>1, <1>2, <1>3, <2>1 DEF Plainly, SessionGoesOn, SessionFollows
<1> QED
  BY <1>4, <1>5

\* PodGroups come and go, watches break, and cleanups become due.
LEMMA OthersPlain ==
    ASSUME Types, \/ Relist \/ (\E j : GroupStep(j)) \/ (\E e : CleanupDue(e)) \/ HandleGroup
                  \/ (\E e : processCleanupJob(e)) \/ HandleNode \/ UNCHANGED vars
    PROVE  Plainly
<1>1. UNCHANGED <<pod, uids, podSeen, workers, ssn>>
  BY DEF Relist, GroupStep, GroupGoes, GroupBack, PutGroup, Others, CleanupDue, api, watches,
         HandleGroup, processCleanupJob, HandleNode, vars, workers
<1>2. UNCHANGED podWatch \/ Relist
  BY DEF GroupStep, GroupGoes, GroupBack, PutGroup, CleanupDue, watches, HandleGroup,
         processCleanupJob, HandleNode, vars
<1>3. UNCHANGED <<errTasks, rs, sending, channel, bindCache, binds, evictions>>
  BY <1>1 DEF workers
<1>4. \A e \in Entries : MovesOn(e)
  BY <1>3, WorkersSameOn
<1> QED
  BY <1>1, <1>2, <1>3, <1>4, SessionSame DEF Plainly

\* The step keeps the world, makes no node ready, and keeps the mirror as long
\* as nothing is in its way.
Mirrors == World' /\ (Ready' => Ready) /\ (Mirror /\ Clear' => Mirror')

\* A step that leaves the API server's nodes and the events of nodes alone.
LEMMA WorldStays ==
    ASSUME World, UNCHANGED <<node, nodeWatch>>, NodesLike(c, c'),
           EventsPast', EventsOrdered', RunningBound'
    PROVE  World' /\ (Ready' => Ready)
<1>1. NodesArrive' /\ (Ready' => Ready)
  BY NodesStillArrive DEF World
<1> QED
  BY <1>1 DEF World

\* A step of this kind that leaves the tasks and the nodes.
LEMMA PlainlySame ==
    ASSUME Types, Types', World, Plainly, UNCHANGED <<node, nodeWatch>>,
           c'.tasks = c.tasks, c'.nodes = c.nodes
    PROVE  Mirrors
<1>1. /\ \A t \in DOMAIN c'.tasks : GoesOn(t)
      /\ \A p \in Names : CacheStays(p)
      /\ NodesLike(c, c')
  BY CacheSameStays
<1>2. World' /\ (Ready' => Ready)
  BY <1>1, PlainlyWorld, WorldStays
<1>3. Mirror => Mirror'
  BY <1>1, PlainlyMirror DEF Mirror
<1> QED
  BY <1>2, <1>3 DEF Mirrors

\* The workers, sessions that open or close, PodGroups and watches.
LEMMA QuietMirrors ==
    ASSUME Types, Types', World,
           \/ Sent \/ processBindTask \/ BindTask \/ (\E f : processResyncTask(f))
           \/ Snapshot \/ CloseSession \/ Relist \/ (\E j : GroupStep(j))
           \/ (\E e : CleanupDue(e)) \/ UNCHANGED vars
    PROVE  Mirrors
<1>1. CASE Sent \/ processBindTask \/ BindTask \/ \E f : processResyncTask(f)
  <2>1. Plainly /\ UNCHANGED <<c, node, nodeWatch>>
    BY <1>1, WorkersPlain
  <2> QED
    BY <2>1, PlainlySame
<1>2. CASE Snapshot \/ CloseSession
  <2>1. Plainly /\ UNCHANGED <<c, node, nodeWatch>>
    BY <1>2, SessionPlain
  <2> QED
    BY <2>1, PlainlySame
<1>3. CASE Relist \/ (\E j : GroupStep(j)) \/ (\E e : CleanupDue(e)) \/ UNCHANGED vars
  <2>1. Plainly
    BY <1>3, OthersPlain
  <2>2. UNCHANGED <<c, node, nodeWatch>>
    BY <1>3 DEF Relist, GroupStep, GroupGoes, GroupBack, PutGroup, Others, CleanupDue, api,
                watches, vars
  <2> QED
    BY <2>1, <2>2, PlainlySame
<1> QED
  BY <1>1, <1>2, <1>3

\* An event of a PodGroup.
LEMMA HandleGroupMirrors ==
    ASSUME Types, Types', World, HandleGroup
    PROVE  Mirrors
<1>1. Plainly
  BY OthersPlain
<1>2. UNCHANGED <<node, nodeWatch>> /\ groupWatch # <<>>
  BY DEF HandleGroup, api
<1>3. c \in Caches
  BY DEF Types, CacheTypes
<1>4. Head(groupWatch).job \in Jobs
  <2>1. groupWatch \in Seq(GroupEvents)
    BY DEF Types, WatchTypes
  <2>2. Head(groupWatch) \in GroupEvents
    BY <1>2, <2>1
  <2> QED
    BY <2>2 DEF GroupEvents
<1>5. c'.nodes = c.nodes /\ c'.tasks = c.tasks
  <2> DEFINE j == Head(groupWatch).job
  <2>1. CASE c' = setPodGroup(c, j)
    BY <1>3, <1>4, <2>1, setPodGroupType
  <2>2. CASE UNCHANGED c
    BY <2>2
  <2>3. CASE j \in DOMAIN c.jobs /\ c' = MarkJob(c, j, FALSE)
    BY <1>3, <2>3, MarkJobType
  <2> QED
    BY <2>1, <2>2, <2>3 DEF HandleGroup, MarkJob
<1> QED
  BY <1>1, <1>2, <1>5, PlainlySame

\* A JobInfo is dropped with its tasks, but has none if no orphan is left.
LEMMA CleanupMirrors ==
    ASSUME Types, Types', World, NEW e, processCleanupJob(e)
    PROVE  Mirrors
<1>1. Plainly
  BY OthersPlain
<1>2. UNCHANGED <<node, nodeWatch>>
  BY DEF processCleanupJob, api, watches
<1>3. c \in Caches /\ Owned(c)
  BY DEF Types, CacheTypes
<1>4. CASE UNCHANGED c
  BY <1>1, <1>2, <1>4, PlainlySame
<1>5. CASE ~UNCHANGED c
  <2> DEFINE j == e.job
             here == j \in DOMAIN c.jobs
             same == here /\ c.jobs[j].obj = e.obj
             alive == here /\ ~same /\ ~JobTerminated(c, j)
  <2>1. /\ c' = DropJob(c, j) /\ (same => JobTerminated(c, j))
        /\ alive => orphans' # {}
    BY <1>5 DEF processCleanupJob
  <2>2. /\ c'.nodes = c.nodes
        /\ \A t \in DOMAIN c'.tasks : t \in DOMAIN c.tasks /\ c'.tasks[t] = c.tasks[t]
    BY <1>3, <2>1, DropJobType DEF TasksGone
  <2>3. DOMAIN c'.tasks = DOMAIN c.tasks \ TasksOf(c, j)
    <3> DEFINE f == Restrict(c.jobs, DOMAIN c.jobs \ {j})
               g == Restrict(c.tasks, DOMAIN c.tasks \ TasksOf(c, j))
    <3>1. DOMAIN g = DOMAIN c.tasks \ TasksOf(c, j)
      BY DEF Restrict
    <3>2. c' = [c EXCEPT !.jobs = f, !.tasks = g]
      BY <2>1 DEF DropJob
    <3> HIDE DEF f, g
    <3>3. c'.tasks = g
      BY <1>3, <3>2 DEF Caches
    <3> QED
      BY <3>1, <3>3
  <2>4. World' /\ (Ready' => Ready)
    <3>1. \A t \in DOMAIN c'.tasks : GoesOn(t)
      BY <2>2 DEF GoesOn
    <3>2. NodesLike(c, c')
      BY <2>2, NodesLikeSame
    <3> QED
      BY <1>1, <1>2, <3>1, <3>2, PlainlyWorld, WorldStays
  <2>5. ASSUME orphans' = {} PROVE \A p \in Names : CacheStays(p)
    <3>1. TasksOf(c, j) = {}
      <4>1. CASE ~here
        BY <1>3, <4>1 DEF TasksOf, Owned
      <4>2. CASE here
        BY <2>1, <2>5, <4>2 DEF JobTerminated
      <4> QED
        BY <4>1, <4>2
    <3> QED
      BY <2>2, <2>3, <3>1 DEF CacheStays, Alike, At
  <2>6. Mirror /\ orphans' = {} => Mirror'
    BY <1>1, <2>5, PlainlyMirror DEF Mirror
  <2> QED
    BY <2>4, <2>6 DEF Mirrors, Clear
<1> QED
  BY <1>4, <1>5

\* An event of a node.
LEMMA HandleNodeMirrors ==
    ASSUME Types, Types', World, HandleNode
    PROVE  Mirrors
<1>1. Plainly
  BY OthersPlain
<1>2. /\ NodesArrive' /\ (Ready' => Ready)
      /\ \A q \in Names : Alike(c, c', q)
      /\ \A n \in DOMAIN c.nodes : n \in DOMAIN c'.nodes
  BY HandleNodeArrives DEF World
<1>3. \A p \in Names : CacheStays(p)
  BY <1>2 DEF CacheStays
<1>4. \A t \in DOMAIN c'.tasks : GoesOn(t)
  <2>1. \A t \in DOMAIN c'.tasks : t \in OwnTids /\ t[1] \in Names
    BY CacheParts DEF Types, CacheTypes, OwnTids, Tids
  <2> QED
    BY <1>2, <2>1 DEF GoesOn, Alike
<1>5. World'
  BY <1>1, <1>2, <1>4, PlainlyWorld DEF World
<1>6. Mirror => Mirror'
  BY <1>1, <1>3, PlainlyMirror DEF Mirror
<1> QED
  BY <1>2, <1>5, <1>6 DEF Mirrors

-----------------------------------------------------------------------------
(***************************************************************************)
(* Steps that write a pod.                                                 *)
(***************************************************************************)
\* The world after a pod is written.
LEMMA WrittenWorld ==
    ASSUME Types, Types', World, NEW q \in Names, Written(q), UNCHANGED <<c, rs>>,
           SessionGoesOn,
           \A v \in evictions' : \E w \in evictions : v.t = w.t /\ v.pod = w.pod
    PROVE  World' /\ (Ready' => Ready)
<1>1. EventsPast /\ EventsOrdered /\ RunningBound
  BY DEF World
<1>2. EventsPast' /\ EventsOrdered'
  BY <1>1, EventsWritten
<1>3. PodsAdvance /\ UNCHANGED <<node, nodeWatch>>
  BY DEF Written
<1>4. (\A t \in DOMAIN c'.tasks : GoesOn(t)) /\ NodesLike(c, c')
  BY CacheSameStays
<1>5. RunningBound'
  BY <1>1, <1>3, <1>4, RunningStays
<1> QED
  BY <1>2, <1>3, <1>4, <1>5, WorldStays

\* What is said of a pod after this or another one is written.
LEMMA WrittenMirror ==
    ASSUME Types, Types', World, NEW q \in Names, Written(q), UNCHANGED <<c, rs>>,
           NEW p \in Names, MirrorOf(p), ExcusesStay(p), NewlyBound(p), SessionFollows(p)
    PROVE  MirrorOf(p)'
<1>1. EventsFollow(p)
  BY FollowWritten
<1>2. CacheStays(p)
  BY CacheSameStays
<1>3. ResyncStays(p)
  BY DEF ResyncStays
<1>4. Stays(p)
  BY <1>1, <1>2, <1>3 DEF Stays
<1> QED
  BY <1>4, StaysMirrored

\* A pod is written and the workers stay.
LEMMA WrittenMirrors ==
    ASSUME Types, Types', World, NEW q \in Names, Written(q), UNCHANGED <<c, workers>>,
           pod'[q].node \in {"", pod[q].node},
           SessionGoesOn, \A p \in Names : SessionFollows(p)
    PROVE  Mirrors
<1>1. UNCHANGED <<errTasks, rs, sending, channel, bindCache, binds, evictions>>
  BY DEF workers
<1>2. World' /\ (Ready' => Ready)
  BY <1>1, WrittenWorld
<1>3. ASSUME NEW p \in Names, MirrorOf(p) PROVE MirrorOf(p)'
  <2>1. \A e \in Entries : Moves(e) /\ (Underway(e) => Underway(e)')
    BY <1>1, WorkersSameOn DEF MovesOn
  <2>2. ExcusesStay(p)
    BY <1>1, <2>1, ExcusesSame
  <2>3. NewlyBound(p)
    BY DEF NewlyBound, Written
  <2> QED
    BY <1>1, <1>3, <2>2, <2>3, WrittenMirror
<1> QED
  BY <1>2, <1>3 DEF Mirrors, Mirror

\* A pod that is there stays sane if its node does.
LEMMA SaneStill ==
    ASSUME NEW p, NEW x, NEW o, Sane(p, x), o.uid = x.uid, o.node = x.node, x.uid # 0,
           o.evicted = TRUE => x.evicted = TRUE \/ x.node # ""
    PROVE  Sane(p, o)
  BY DEF Sane

\* No pod is sane, and so is a pod that is deleted.
LEMMA SaneDeleted ==
    ASSUME NEW p, NEW x \in PodObjects, Sane(p, x), x.uid = 0 => x.node = ""
    PROVE  Sane(p, NoPod) /\ Sane(p, Deleted(x))
<1>1. Sane(p, NoPod)
  <2>1. NoPod.evicted = FALSE /\ NoPod.node = "" /\ NoPod.uid = 0
    BY DEF NoPod
  <2> QED
    BY <2>1 DEF Sane
<1>2. CASE x.node = ""
  BY <1>1, <1>2 DEF Deleted
<1>3. CASE x.node # ""
  <2> DEFINE o == [x EXCEPT !.deleting = TRUE]
  <2>1. Deleted(x) = o
    BY <1>3 DEF Deleted
  <2>2. o.uid = x.uid /\ o.node = x.node /\ o.evicted = x.evicted
    BY DEF PodObjects
  <2> HIDE DEF o
  <2>3. Sane(p, o)
    BY <1>3, <2>2, SaneStill
  <2> QED
    BY <1>1, <2>1, <2>3
<1> QED
  BY <1>1, <1>2, <1>3

\* Kubelets and users.
LEMMA PodStepMirrors ==
    ASSUME Types, Types', World, OwnWorld, NEW p \in Names, PodStep(p)
    PROVE  Mirrors
<1>1. ~\E n \in Nodes : ForeignBind(p, n)
  <2>1. scenario.budget["foreign"] = 0 /\ left["foreign"] <= scenario.budget["foreign"]
    BY DisturbanceNames DEF OwnWorld, Types, BudgetTypes
  <2>2. left["foreign"] \in Nat
    BY DisturbanceNames DEF Types, BudgetTypes
  <2>3. ~(left["foreign"] > 0)
    BY <2>1, <2>2
  <2> QED
    BY <2>3 DEF ForeignBind, Spend
<1>2. UNCHANGED Others
  BY DEF PodStep, KubeletRun, KubeletRemove, KubeletStatus, KubeletEnd, DeletePod,
         ForeignBind
<1>3. UNCHANGED <<workers, ssn, c>>
  BY <1>2 DEF Others
<1>4. /\ pod[p] \in PodObjects /\ PastOf(pod[p], uids[p], pod[p])
      /\ ApiTypes /\ EventsPast /\ Sane(p, pod[p])
  BY Uids DEF World, EventsPast, Past, EventsOrdered, Types
<1>5. pod[p].uid = 0 => pod[p].node = ""
  BY <1>4 DEF PastOf
<1>6. PICK o \in PodObjects :
        PutPod(p, o) /\ Continues(pod[p], o) /\ o.node \in {"", pod[p].node} /\ Sane(p, o)
  <2>1. CASE KubeletRun(p)
    <3> DEFINE o == [pod[p] EXCEPT !.phase = "Running"]
    <3>1. /\ o \in PodObjects /\ o.uid = pod[p].uid /\ o.node = pod[p].node
          /\ o.deleting = TRUE => pod[p].deleting = TRUE
      BY <1>4 DEF PodObjects
    <3>2. PutPod(p, o) /\ pod[p].node # "" /\ pod[p].phase = "Pending"
      BY <2>1 DEF KubeletRun
    <3> HIDE DEF o
    <3>3. Continues(pod[p], o)
      BY <1>4, <3>1, <3>2, PodContinues DEF isTerminated
    <3>4. Sane(p, o)
      BY <1>4, <1>5, <3>1, <3>2, SaneStill
    <3> QED
      BY <3>1, <3>2, <3>3, <3>4
  <2>2. CASE KubeletEnd(p)
    <3>1. PICK s \in {"Succeeded", "Failed"} : PutPod(p, [pod[p] EXCEPT !.phase = s])
      BY <2>2 DEF KubeletEnd
    <3>2. pod[p].phase = "Running"
      BY <2>2 DEF KubeletEnd
    <3> DEFINE o == [pod[p] EXCEPT !.phase = s]
    <3>3. /\ o \in PodObjects /\ o.uid = pod[p].uid /\ o.node = pod[p].node
          /\ o.deleting = TRUE => pod[p].deleting = TRUE
      BY <1>4 DEF PodObjects
    <3>4. PutPod(p, o)
      BY <3>1
    <3> HIDE DEF o
    <3>5. pod[p].node # ""
      BY <1>4, <3>2 DEF PastOf
    <3>6. Continues(pod[p], o)
      BY <1>4, <3>2, <3>3, <3>5, PodContinues DEF isTerminated
    <3>7. Sane(p, o)
      BY <1>4, <1>5, <3>3, <3>5, SaneStill
    <3> QED
      BY <3>3, <3>4, <3>6, <3>7
  <2>3. CASE KubeletStatus(p)
    <3> DEFINE o == [pod[p] EXCEPT !.evicted = FALSE]
    <3>1. /\ o \in PodObjects /\ o.uid = pod[p].uid /\ o.node = pod[p].node
          /\ o.deleting = TRUE => pod[p].deleting = TRUE
          /\ o.phase = pod[p].phase
      BY <1>4 DEF PodObjects
    <3>2. PutPod(p, o) /\ pod[p].phase = "Running"
      BY <2>3 DEF KubeletStatus
    <3> HIDE DEF o
    <3>3. Continues(pod[p], o)
      BY <1>4, <3>1, PodContinues
    <3>4. pod[p].node # ""
      BY <1>4, <3>2 DEF PastOf
    <3>5. Sane(p, o)
      BY <1>4, <1>5, <3>1, <3>4, SaneStill
    <3> QED
      BY <3>1, <3>2, <3>3, <3>5
  <2>4. CASE KubeletRemove(p)
    BY <1>4, <1>5, <2>4, PodContinues, NoPodType, SaneDeleted DEF KubeletRemove
  <2>5. CASE DeletePod(p)
    BY <1>4, <1>5, <2>5, PodContinues, PodWrites, SaneDeleted DEF DeletePod
  <2> QED
    BY <1>1, <2>1, <2>2, <2>3, <2>4, <2>5 DEF PodStep
<1>7. Written(p) /\ pod'[p] = o
  BY <1>4, <1>6, PutPodWritten
<1>8. SessionGoesOn /\ \A q \in Names : SessionFollows(q)
  BY <1>3, SessionSame
<1> QED
  BY <1>3, <1>6, <1>7, <1>8, WrittenMirrors

\* A session says that a task cannot be scheduled.
LEMMA taskUnschedulableMirrors ==
    ASSUME Types, Types', World, NEW t, taskUnschedulable(t)
    PROVE  Mirrors
<1>1. /\ t \in DOMAIN ssn.tasks /\ PutPod(t[1], [pod[t[1]] EXCEPT !.told = TRUE])
      /\ ssn' = SessionTask(t, "Unschedulable") /\ UNCHANGED <<c, workers>>
      /\ pod[t[1]].uid = t[2]
  BY DEF taskUnschedulable, SessionTask
<1>2. t \in Tids
  BY <1>1, SessionParts DEF Types, OwnTids
<1>3. PICK p \in Names : p = t[1]
  BY <1>2 DEF Tids
<1>4. pod[p].uid # 0
  <2>1. t[2] \in 1 .. MaxUid
    BY <1>2 DEF Tids
  <2>2. t[2] # 0
    BY <2>1, Bounds
  <2> QED
    BY <1>1, <1>3, <2>2
<1> DEFINE o == [pod[p] EXCEPT !.told = TRUE]
<1>5. /\ o \in PodObjects /\ o.uid = pod[p].uid /\ o.node = pod[p].node
      /\ o.deleting = TRUE => pod[p].deleting = TRUE
      /\ o.phase = pod[p].phase /\ o.evicted = pod[p].evicted
  <2>1. pod[p] \in PodObjects
    BY Uids
  <2> QED
    BY <2>1 DEF PodObjects
<1>6. PutPod(p, o)
  BY <1>1, <1>3
<1> HIDE DEF o
<1>7. EventsPast /\ Sane(p, pod[p])
  BY DEF World, EventsOrdered
<1>8. Continues(pod[p], o) /\ Sane(p, o)
  BY <1>4, <1>5, <1>7, PodContinues, SaneStill
<1>9. Written(p) /\ pod'[p] = o
  BY <1>5, <1>6, <1>7, <1>8, PutPodWritten
<1>10. /\ \A z \in DOMAIN ssn'.tasks : z \in DOMAIN ssn.tasks
       /\ \A z \in DOMAIN ssn.tasks :
            ssn'.tasks[z] = IF z = t THEN "Unschedulable" ELSE ssn.tasks[z]
  BY <1>1, SessionTaskType DEF Types
<1>11. SessionGoesOn /\ \A q \in Names : SessionFollows(q)
  BY <1>10 DEF SessionGoesOn, SessionFollows
<1> QED
  BY <1>1, <1>5, <1>9, <1>11, WrittenMirrors

\* A new pod.
LEMMA CreatePodMirrors ==
    ASSUME Types, Types', World, NEW p \in Names, CreatePod(p)
    PROVE  Mirrors
<1> DEFINE u == uids[p] + 1
           o == [NoPod EXCEPT !.uid = u]
<1>1. uids[p] \in Nat /\ u \in Nat /\ u > uids[p] /\ u # 0 /\ uids[p] <= u /\ u <= u
  BY Uids
<1>2. pod'[p] = o
  BY DEF CreatePod, Types, ApiTypes
<1>3. /\ o.uid = u /\ o.node = "" /\ o.phase = "Pending" /\ o.deleting = FALSE
      /\ o.evicted = FALSE
  BY DEF NoPod
<1>4. /\ uids' = [uids EXCEPT ![p] = u] /\ pod' = [pod EXCEPT ![p] = o]
      /\ podWatch' = Append(podWatch, [name |-> p, obj |-> pod'[p]])
      /\ UNCHANGED <<node, nodeWatch, podSeen, Others>> /\ pod[p].uid = 0
  BY <1>2 DEF CreatePod
<1> HIDE DEF u, o
<1>5. /\ pod'[p] = o /\ uids'[p] = u
      /\ \A q \in Names : q # p => pod'[q] = pod[q] /\ uids'[q] = uids[q]
  BY <1>4 DEF Types, ApiTypes
<1>6. UNCHANGED <<c, workers, ssn>>
  BY <1>4 DEF Others
<1>7. PodsAdvance
  <2>1. PodMoved(p)
    <3>1. PastOf(o, u, o)
      BY <1>1, <1>3 DEF PastOf
    <3> QED
      BY <1>1, <1>3, <1>5, <3>1 DEF PodMoved, Past
  <2>2. ASSUME NEW q \in Names, q # p PROVE PodMoved(q)
    <3>1. PastOf(pod[q], uids[q], pod[q]) /\ uids[q] \in Nat /\ uids[q] <= uids[q]
      BY Uids DEF World, EventsPast, Past
    <3> QED
      BY <1>5, <2>2, <3>1 DEF PodMoved, Past
  <2> QED
    BY <2>1, <2>2 DEF PodsAdvance
<1>8. Sane(p, o)
  BY <1>1, <1>3 DEF Sane
<1>9. Written(p)
  BY <1>4, <1>5, <1>7, <1>8 DEF Written
<1>10. SessionGoesOn /\ \A q \in Names : SessionFollows(q)
  BY <1>6, SessionSame, SMTT(30)
<1> QED
  BY <1>3, <1>5, <1>6, <1>9, <1>10, WrittenMirrors

\* A binding that is accepted binds the pod, one that fails goes on.
LEMMA BindMirrors ==
    ASSUME Types, Types', World, NEW b, Bind(b)
    PROVE  Mirrors
<1>1. /\ b \in binds /\ Head(b.todo) \in Entries
      /\ UNCHANGED <<c, rs, sending, channel, bindCache, evictions, ssn>>
  BY BindCases
<1>2. PICK e \in Entries : e = Head(b.todo)
  BY <1>1
<1>3. {} \in {{}, {Head(b.todo)}} /\ {Head(b.todo)} \in {{}, {Head(b.todo)}}
  OBVIOUS
<1>4. SessionGoesOn /\ \A q \in Names : SessionFollows(q)
  BY <1>1, SessionSame
<1>5. CASE UNCHANGED <<api, watches>> /\ BindNext(b, {Head(b.todo)})
  <2>1. {Head(b.todo)} # {}
    OBVIOUS
  <2>2. \A f \in Entries : MovesOn(f)
    BY <1>1, <1>3, <1>5, <2>1, BindNextMovesOn DEF MovesOn
  <2>3. UNCHANGED <<pod, uids, podSeen, podWatch, node, nodeWatch>>
    BY <1>5 DEF api, watches
  <2>4. Plainly
    BY <1>1, <1>4, <2>2, <2>3 DEF Plainly
  <2> QED
    BY <1>1, <2>3, <2>4, PlainlySame
<1>6. CASE Accepts(Head(b.todo)) /\ PutPod(Head(b.todo).t[1],
             [pod[Head(b.todo).t[1]] EXCEPT !.node = Head(b.todo).node, !.told = FALSE])
  <2>1. PICK p \in Names : p = e.t[1]
    BY EntryParts
  <2> DEFINE o == [pod[p] EXCEPT !.node = e.node, !.told = FALSE]
  <2>2. PutPod(p, o)
    BY <1>2, <1>6, <2>1
  <2>3. pod[p].uid = e.t[2] /\ pod[p].node = "" /\ pod[p].deleting # TRUE
    BY <1>2, <1>6, <2>1 DEF Accepts
  <2>4. EventsPast /\ EventsOrdered
    BY DEF World
  <2>5. /\ pod[p] \in PodObjects /\ PastOf(pod[p], uids[p], pod[p])
        /\ e.node \in Nodes /\ e.node # "" /\ e.t[2] # 0 /\ JobOf[p] # ""
    BY <2>1, <2>4, Uids, EntryParts DEF EventsPast, Past
  <2>6. /\ o \in PodObjects /\ o.uid = pod[p].uid /\ o.node = e.node
        /\ o.phase = pod[p].phase
    BY <2>5 DEF PodObjects
  <2> HIDE DEF o
  <2>7. Continues(pod[p], o)
    BY <2>3, <2>5, <2>6 DEF Continues
  <2>8. Sane(p, o)
    BY <2>3, <2>5, <2>6 DEF Sane
  <2>9. Written(p) /\ pod'[p] = o
    BY <2>2, <2>4, <2>6, <2>7, <2>8, PutPodWritten
  <2>10. InBinds(e)
    <3>1. b.todo \in Seq(Entries) /\ b.todo # <<>>
      BY <1>1 DEF Types, WorkerTypes, Batches
    <3>2. \E i \in DOMAIN b.todo : b.todo[i] = e
      BY <1>2, <3>1, TailIn
    <3> QED
      BY <1>1, <3>2 DEF InBinds, InBatch
  <2>11. World' /\ (Ready' => Ready)
    <3>1. \A v \in evictions' : \E w \in evictions : v.t = w.t /\ v.pod = w.pod
      BY <1>1
    <3> QED
      BY <1>1, <1>4, <2>9, <3>1, WrittenWorld
  <2>12. ASSUME NEW q \in Names, MirrorOf(q) PROVE MirrorOf(q)'
    <3>1. p = q => ~Fresh(q)'
      BY <2>9, FollowWritten
    <3>2. ASSUME NEW f \in Entries, f.t[1] = q
          PROVE  /\ Moves(f)
                 /\ Underway(f) => Underway(f)' \/ (pod'[q].node # "" /\ ~Fresh(q)')
      <4>1. PICK E \in {{}, {Head(b.todo)}} : BindNext(b, E)
        BY <1>3, BindCases
      <4>2. Moves(f) /\ (Underway(f) => Underway(f)' \/ f = Head(b.todo))
        BY <1>1, <4>1, BindNextMovesOn, SMTT(30)
      <4>3. f = Head(b.todo) => pod'[q].node # "" /\ ~Fresh(q)'
        BY <1>2, <2>1, <2>5, <2>6, <2>9, <3>1, <3>2
      <4> QED
        BY <4>2, <4>3
    <3>3. ExcusesStay(q)
      <4>1. \A v : v.t[1] = q => (v \in evictions' <=> v \in evictions)
        BY <1>1
      <4> QED
        BY <3>2, <4>1, ExcusesSame
    <3>4. NewlyBound(q)
      <4>1. CASE q # p
        BY <2>9, <4>1 DEF NewlyBound, Written
      <4>2. CASE q = p
        <5>1. e.t = <<p, pod[p].uid>>
          <6>1. e.t \in Tids
            BY EntryParts
          <6>2. e.t = <<e.t[1], e.t[2]>>
            BY <6>1 DEF Tids
          <6> QED
            BY <2>1, <2>3, <6>2
        <5> QED
          BY <2>6, <2>9, <2>10, <4>2, <5>1 DEF NewlyBound
      <4> QED
        BY <4>1, <4>2
    <3> QED
      BY <1>1, <1>4, <2>9, <2>12, <3>3, <3>4, WrittenMirror
  <2> QED
    BY <2>11, <2>12 DEF Mirrors, Mirror
<1> QED
  BY <1>5, <1>6, BindCases, ZenonT(60)

\* How a request of an eviction ends: it was not needed, it failed, or it was
\* carried out and the eviction goes on with the delete or is done.
EvictionEnds(v) ==
    \/ /\ UNCHANGED <<api, watches, errTasks>> /\ evictions' = evictions \ {v}
       /\ v.step = "status" /\ v.pod.evicted = TRUE
    \/ /\ UNCHANGED <<api, watches>> \/ (pod[v.t[1]].uid # 0 /\ PutPod(v.t[1], Deleted(pod[v.t[1]])))
       /\ errTasks' = errTasks \cup {EntryOf(v)} /\ evictions' = evictions \ {v}
    \/ /\ pod[v.t[1]].uid # 0 /\ PutPod(v.t[1], Deleted(pod[v.t[1]]))
       /\ errTasks' = errTasks /\ evictions' = evictions \ {v}
    \/ /\ pod[v.t[1]] = v.pod /\ PutPod(v.t[1], [pod[v.t[1]] EXCEPT !.evicted = TRUE])
       /\ errTasks' = errTasks
       /\ evictions' = (evictions \ {v}) \cup {[v EXCEPT !.step = "delete"]}

\* These are the ends.
LEMMA EvictionEndsSo ==
    ASSUME Types, NEW v, EvictStatus(v) \/ EvictDelete(v)
    PROVE  EvictionEnds(v)
<1>1. v \in evictions
  BY EvictionCases
<1>2. v.pod.evicted \in BOOLEAN
  <2>1. v.pod \in PodObjects
    BY <1>1 DEF Types, WorkerTypes, Evictions
  <2> QED
    BY <2>1 DEF PodObjects
<1>3. errTasks \cup {} = errTasks
  OBVIOUS
<1>4. CASE EvictStatus(v)
  BY <1>2, <1>3, <1>4 DEF EvictStatus, EvictEnd, EvictionEnds, EntryOf
<1>5. CASE EvictDelete(v)
  BY <1>3, <1>5 DEF EvictDelete, EvictEnd, EvictionEnds, EntryOf
<1> QED
  BY <1>4, <1>5

\* What a request writes continues the pod.
LEMMA EvictionWrites ==
    ASSUME Types, World, NEW v, EvictStatus(v) \/ EvictDelete(v), NEW p \in Names, p = v.t[1]
    PROVE  \/ UNCHANGED <<pod, uids, node, podWatch, nodeWatch, podSeen>>
           \/ Written(p) /\ pod'[p].node \in {"", pod[p].node}
<1>1. /\ v \in evictions /\ v.t \in OwnTids
  BY EvictionCases
<1>2. EventsPast /\ EventsOrdered /\ EvictionRuns(v)
  BY <1>1 DEF World, RunningBound
<1>3. /\ pod[p] \in PodObjects /\ PastOf(pod[p], uids[p], pod[p])
      /\ ApiTypes /\ Sane(p, pod[p])
  BY <1>2, Uids DEF EventsPast, Past, EventsOrdered, Types
<1>4. pod[p].uid = 0 => pod[p].node = ""
  BY <1>3 DEF PastOf
<1>5. ASSUME NEW o \in PodObjects, PutPod(p, o), Continues(pod[p], o),
             o.node \in {"", pod[p].node}, Sane(p, o)
      PROVE  Written(p) /\ pod'[p].node \in {"", pod[p].node}
  BY <1>2, <1>5, PutPodWritten
<1>6. CASE UNCHANGED <<api, watches>>
  BY <1>6, SMTT(30) DEF api, watches
<1>7. CASE PutPod(v.t[1], Deleted(pod[v.t[1]]))
  BY <1>2, <1>3, <1>4, <1>5, <1>7, PodContinues, PodWrites, SaneDeleted
<1>8. CASE pod[v.t[1]] = v.pod /\ PutPod(v.t[1], [pod[v.t[1]] EXCEPT !.evicted = TRUE])
  <2> DEFINE o == [pod[p] EXCEPT !.evicted = TRUE]
  <2>1. /\ o \in PodObjects /\ o.uid = pod[p].uid /\ o.node = pod[p].node
        /\ o.deleting = TRUE => pod[p].deleting = TRUE
        /\ o.phase = pod[p].phase
    BY <1>3 DEF PodObjects
  <2>2. PutPod(p, o)
    BY <1>8
  <2> HIDE DEF o
  <2>3. v.t[2] = pod[p].uid /\ pod[p].node # ""
    BY <1>2, <1>8 DEF EvictionRuns
  <2>4. pod[p].uid # 0
    BY <1>4, <2>3
  <2>5. Continues(pod[p], o)
    BY <1>2, <2>1, PodContinues
  <2>6. Sane(p, o)
    BY <1>3, <2>1, <2>3, <2>4, SaneStill
  <2> QED
    BY <1>5, <2>1, <2>2, <2>5, <2>6
<1> QED
  BY <1>6, <1>7, <1>8, EvictionEndsSo DEF EvictionEnds

\* A request hands no binding on, but puts its own task among the failed ones.
LEMMA EvictionMoves ==
    ASSUME Types, NEW v, EvictStatus(v) \/ EvictDelete(v), NEW e \in Entries
    PROVE  /\ Underway(e) => Underway(e)'
           /\ e # EntryOf(v) => Moves(e)
           /\ Underway(e)' => Underway(e) \/ (e = EntryOf(v) /\ evictions' = evictions \ {v})
           /\ Underway(e) /\ Once(e) /\ e # EntryOf(v) => Once(e)'
           /\ ~Underway(e) /\ Underway(e)' => Once(e)'
<1>1. /\ UNCHANGED <<rs, sending, channel, bindCache, binds>>
      /\ errTasks' \in {errTasks, errTasks \cup {EntryOf(v)}}
  BY EvictionCases
<1>2. errTasks' = errTasks \/ evictions' = evictions \ {v}
  BY EvictionEndsSo DEF EvictionEnds
<1>3. /\ InChannel(e)' <=> InChannel(e)
      /\ InBindCache(e)' <=> InBindCache(e)
      /\ InBinds(e)' <=> InBinds(e)
      /\ ChannelOnce(e)' <=> ChannelOnce(e)
      /\ BindCacheOnce(e)' <=> BindCacheOnce(e)
      /\ BindsOnce(e)' <=> BindsOnce(e)
  BY <1>1 DEF InChannel, InBindCache, InBinds, ChannelOnce, BindCacheOnce, BindsOnce
<1>4. e \in errTasks => e \in errTasks'
  BY <1>1
<1>5. e \in errTasks' => e \in errTasks \/ (e = EntryOf(v) /\ evictions' = evictions \ {v})
  BY <1>1, <1>2
<1>6. /\ Underway(e) => Underway(e)'
      /\ Underway(e)' => Underway(e) \/ (e = EntryOf(v) /\ evictions' = evictions \ {v})
  BY <1>1, <1>3, <1>4, <1>5 DEF Underway
<1>7. ASSUME e # EntryOf(v), Once(e) PROVE Once(e)'
  BY <1>1, <1>3, <1>4, <1>5, <1>7 DEF Once
<1>8. ASSUME ~Underway(e) PROVE Once(e)'
  <2>1. ~InChannel(e) /\ ~InBindCache(e) /\ ~InBinds(e) /\ sending # e /\ rs.e # e
    BY <1>8 DEF Underway
  <2>2. ChannelOnce(e)' /\ BindCacheOnce(e)' /\ BindsOnce(e)'
    <3>1. ChannelOnce(e)
      BY <2>1 DEF ChannelOnce, InChannel
    <3>2. BindCacheOnce(e)
      BY <2>1 DEF BindCacheOnce, InBindCache
    <3>3. BindsOnce(e)
      BY <2>1 DEF BindsOnce, BatchOnce, InBinds, InBatch
    <3> QED
      BY <1>3, <3>1, <3>2, <3>3
  <2> QED
    BY <1>1, <1>3, <2>1, <2>2 DEF Once
<1> QED
  BY <1>6, <1>7, <1>8 DEF Moves

\* The evictions after a request: those before without this one, or with its
\* second half in its place.
LEMMA EvictionsNext ==
    ASSUME Types, NEW v, EvictStatus(v) \/ EvictDelete(v)
    PROVE  /\ \A w \in evictions' : w \in evictions \ {v} \/ (w.t = v.t /\ EntryOf(w) = EntryOf(v)
                                       /\ w.pod = v.pod /\ evictions' # evictions \ {v})
           /\ \A w \in evictions : w # v => w \in evictions'
           /\ \A w, x \in evictions' : w \notin evictions \ {v} /\ x \notin evictions \ {v} => w = x
<1> DEFINE y == [v EXCEPT !.step = "delete"]
<1>1. v \in evictions
  BY EvictionCases
<1>2. y.t = v.t /\ y.node = v.node /\ y.pod = v.pod
  BY <1>1 DEF Types, WorkerTypes, Evictions
<1>3. evictions' = evictions \ {v} \/ evictions' = (evictions \ {v}) \cup {y}
  BY EvictionCases
<1> HIDE DEF y
<1>4. EntryOf(y) = EntryOf(v)
  BY <1>2 DEF EntryOf
<1>5. CASE evictions' = evictions \ {v}
  BY <1>5
<1>6. CASE evictions' = (evictions \ {v}) \cup {y} /\ evictions' # evictions \ {v}
  BY <1>2, <1>4, <1>6
<1> QED
  BY <1>3, <1>5, <1>6

\* What a request of an eviction of the pod leaves under way.
LEMMA EvictionExcuses ==
    ASSUME Types, Types', World, NEW v, EvictStatus(v) \/ EvictDelete(v), NEW p \in Names, p = v.t[1]
    PROVE  ExcusesStay(p)
<1>1. /\ v \in evictions /\ v.t \in OwnTids /\ EntryOf(v) \in Entries
  BY EvictionCases
<1>2. PICK f \in Entries : f = EntryOf(v)
  BY <1>1
<1>3. f.t = v.t
  BY <1>2 DEF EntryOf
<1>4. /\ \A w \in evictions' : w \in evictions \ {v} \/ (w.t = v.t /\ EntryOf(w) = f
                                   /\ evictions' # evictions \ {v})
      /\ \A w \in evictions : w # v => w \in evictions'
      /\ \A w, x \in evictions' : w \notin evictions \ {v} /\ x \notin evictions \ {v} => w = x
  BY <1>2, EvictionsNext
<1>5. ASSUME NEW e \in Entries
      PROVE  /\ Underway(e) => Underway(e)'
             /\ Underway(e)' => Underway(e) \/ (e = f /\ evictions' = evictions \ {v})
             /\ Underway(e) /\ Once(e) /\ e # f => Once(e)'
             /\ ~Underway(e) /\ Underway(e)' => Once(e)'
  BY <1>2, EvictionMoves
<1>6. ASSUME NEW e \in Entries, e.t[1] = p
      PROVE  /\ Excuse(e)' => Excuse(e)
             /\ Underway(e) => Underway(e)' \/ pod'[p].node # ""
             /\ Waits(e) /\ Fresh(p)' => Waits(e)'
  <2>1. Excuse(e)' <=> Underway(e)' \/ \E w \in evictions' : EntryOf(w) = e
    BY DEF Excuse, EntryOf
  <2>2. Waits(e)' <=> Underway(e)' \/ \E w \in evictions' : EntryOf(w) = e /\ Answers(w)
    BY DEF Waits, EntryOf, Answers
  <2>3. Excuse(e)' => Excuse(e)
    BY <1>1, <1>2, <1>4, <1>5, <2>1 DEF Excuse
  <2>4. ASSUME NEW w \in evictions, EntryOf(w) = e, Answers(w), Fresh(p)' PROVE Waits(e)'
    <3>1. CASE w # v
      BY <1>4, <2>2, <2>4, <3>1
    <3>2. CASE w = v
      <4>1. ~Written(p)
        BY <2>4, FollowWritten
      <4>2. UNCHANGED <<pod, podWatch>>
        BY <4>1, EvictionWrites
      <4>3. ~PutPod(p, Deleted(pod[p])) /\ ~PutPod(p, [pod[p] EXCEPT !.evicted = TRUE])
        <5>1. \A o : podWatch # Append(podWatch, o)
          <6>1. podWatch \in Seq(PodEvents)
            BY DEF Types, WatchTypes
          <6> QED
            BY <6>1
        <5> QED
          BY <4>2, <5>1 DEF PutPod
      <4>4. ~(v.step = "status" /\ v.pod.evicted = TRUE)
        BY <2>4, <3>2 DEF Answers
      <4>5. errTasks' = errTasks \cup {EntryOf(v)}
        BY <4>3, <4>4, EvictionEndsSo DEF EvictionEnds
      <4>6. e \in errTasks'
        BY <2>4, <3>2, <4>5
      <4> QED
        BY <2>2, <4>6 DEF Underway
    <3> QED
      BY <3>1, <3>2
  <2> QED
    BY <1>5, <2>2, <2>3, <2>4 DEF Waits
<1>7. ASSUME NEW t \in OwnTids, t[1] = p, Alone(t) PROVE Alone(t)'
  <2>1. \A w, x \in evictions : w.t = t /\ x.t = t => w = x
    BY <1>7 DEF Alone
  <2>2. ASSUME NEW e \in Entries, e.t = t, Underway(e)'
        PROVE  Once(e)' /\ \A w \in evictions' : w.t # t
    <3>1. CASE Underway(e)
      <4>1. Once(e) /\ \A w \in evictions : w.t # t
        BY <1>7, <2>2, <3>1 DEF Alone
      <4>2. v.t # t /\ e # f
        BY <1>1, <1>3, <2>2, <4>1
      <4> QED
        BY <1>4, <1>5, <3>1, <4>1, <4>2
    <3>2. CASE ~Underway(e)
      <4>1. e = f /\ evictions' = evictions \ {v} /\ Once(e)'
        BY <1>5, <2>2, <3>2
      <4>2. v.t = t
        BY <1>3, <2>2, <4>1
      <4> QED
        BY <1>1, <2>1, <4>1, <4>2
    <3> QED
      BY <3>1, <3>2
  <2>3. ASSUME NEW w \in evictions', NEW x \in evictions', w.t = t, x.t = t PROVE w = x
    BY <1>1, <1>4, <2>1, <2>3
  <2> QED
    BY <2>2, <2>3 DEF Alone
<1> QED
  BY <1>6, <1>7 DEF ExcusesStay

\* The requests of an eviction.
LEMMA EvictionMirrors ==
    ASSUME Types, Types', World, NEW v, EvictStatus(v) \/ EvictDelete(v)
    PROVE  Mirrors
<1>1. /\ v \in evictions /\ v.t[1] \in Names /\ EntryOf(v) \in Entries
      /\ UNCHANGED <<c, rs, ssn>>
  BY EvictionCases
<1>2. PICK p \in Names : p = v.t[1]
  BY <1>1
<1>3. SessionGoesOn /\ \A q \in Names : SessionFollows(q)
  BY <1>1, SessionSame
<1>4. \A w \in evictions' : \E x \in evictions : w.t = x.t /\ w.pod = x.pod
  BY <1>1, EvictionsNext
<1>5. ASSUME NEW q \in Names PROVE ExcusesStay(q)
  <2>1. CASE q = p
    BY <1>2, <2>1, EvictionExcuses
  <2>2. CASE q # p
    <3>1. ASSUME NEW w, w.t[1] = q PROVE w \in evictions' <=> w \in evictions
      BY <1>2, <2>2, <3>1, EvictionsNext
    <3>2. ASSUME NEW e \in Entries, e.t[1] = q PROVE Moves(e) /\ (Underway(e) => Underway(e)')
      <4>1. EntryOf(v).t = v.t
        BY DEF EntryOf
      <4>2. e # EntryOf(v)
        BY <1>2, <2>2, <3>2, <4>1
      <4> QED
        BY <4>2, EvictionMoves
    <3> QED
      BY <3>1, <3>2, ExcusesSame
  <2> QED
    BY <2>1, <2>2
<1>6. CASE UNCHANGED <<pod, uids, node, podWatch, nodeWatch, podSeen>>
  <2>1. EventsPast /\ EventsOrdered /\ RunningBound
    BY DEF World
  <2>2. PodsAdvance /\ EventsPast' /\ EventsOrdered'
    BY <1>6, <2>1, PodsSame, EventsSame
  <2>3. /\ \A t \in DOMAIN c'.tasks : GoesOn(t)
        /\ \A q \in Names : CacheStays(q)
        /\ NodesLike(c, c')
    BY <1>1, CacheSameStays
  <2>4. RunningBound'
    BY <1>1, <1>3, <1>4, <2>1, <2>2, <2>3, RunningStays
  <2>5. World' /\ (Ready' => Ready)
    BY <1>6, <2>2, <2>3, <2>4, WorldStays
  <2>6. ASSUME NEW q \in Names, MirrorOf(q) PROVE MirrorOf(q)'
    <3>1. EventsFollow(q)
      BY <1>6, <2>1, FollowSame
    <3>2. NewlyBound(q) /\ ResyncStays(q)
      BY <1>1, <1>6 DEF NewlyBound, ResyncStays
    <3>3. Stays(q)
      BY <1>3, <1>5, <2>3, <3>1, <3>2 DEF Stays
    <3> QED
      BY <2>6, <3>3, StaysMirrored
  <2> QED
    BY <2>5, <2>6 DEF Mirrors, Mirror
<1>7. CASE Written(p) /\ pod'[p].node \in {"", pod[p].node}
  <2>1. World' /\ (Ready' => Ready)
    BY <1>1, <1>3, <1>4, <1>7, WrittenWorld
  <2>2. ASSUME NEW q \in Names, MirrorOf(q) PROVE MirrorOf(q)'
    <3>1. NewlyBound(q)
      BY <1>7 DEF NewlyBound, Written
    <3> QED
      BY <1>1, <1>3, <1>5, <1>7, <2>2, <3>1, WrittenMirror
  <2> QED
    BY <2>1, <2>2 DEF Mirrors, Mirror
<1> QED
  BY <1>2, <1>6, <1>7, EvictionWrites

-----------------------------------------------------------------------------
(***************************************************************************)
(* Steps that write what the cache has of one pod: the other pods.         *)
(***************************************************************************)
\* What is said of another pod stays.
LEMMA OthersMirror ==
    ASSUME Types, Types', World, NEW p \in Names, NodesLike(c, c'), OthersAlike(c, c', p),
           NEW q \in Names, q # p, MirrorOf(q), UNCHANGED pod, EventsFollow(q), ExcusesStay(q),
           SessionFollows(q), ResyncStays(q)
    PROVE  MirrorOf(q)'
<1>1. CacheStays(q)
  BY DEF CacheStays, OthersAlike, NodesLike
<1>2. NewlyBound(q)
  BY DEF NewlyBound
<1>3. Stays(q)
  BY <1>1, <1>2 DEF Stays
<1> QED
  BY <1>3, StaysMirrored

\* The resync worker is done with its task; the others go on.
LEMMA ResyncedMovesOn ==
    ASSUME Types, rs' = Idle, errTasks' \in {errTasks, errTasks \cup {rs.e}},
           UNCHANGED <<sending, channel, bindCache, binds>>, NEW e \in Entries
    PROVE  /\ Moves(e)
           /\ Underway(e) /\ e # rs.e => Underway(e)'
           /\ Underway(e)' => errTasks' # errTasks \/ e # rs.e \/ ~Once(e)
<1>1. Moves(e)
  BY ResyncedMoves
<1>2. /\ InChannel(e)' <=> InChannel(e)
      /\ InBindCache(e)' <=> InBindCache(e)
      /\ InBinds(e)' <=> InBinds(e)
  BY DEF InChannel, InBindCache, InBinds
<1>3. e \in errTasks => e \in errTasks'
  OBVIOUS
<1>4. rs'.e # e
  BY EntryParts DEF Idle
<1>5. Underway(e) /\ e # rs.e => Underway(e)'
  BY <1>2, <1>3 DEF Underway
<1>6. Underway(e)' => errTasks' # errTasks \/ e # rs.e \/ ~Once(e)
  BY <1>2, <1>4 DEF Underway, Once
<1> QED
  BY <1>1, <1>5, <1>6

\* What the resync worker leaves alone, and the world.
LEMMA ResyncWorld ==
    ASSUME Types, Types', World, updateTask \/ syncTaskJob \/ syncTaskNode
    PROVE  /\ World' /\ (Ready' => Ready)
           /\ UNCHANGED <<pod, uids, podSeen, podWatch, evictions, ssn>>
<1>1. UNCHANGED <<pod, uids, node, podSeen, podWatch, nodeWatch, evictions, ssn>>
  BY DEF updateTask, syncTaskJob, syncTaskNode, api, watches
<1>2. EventsPast /\ EventsOrdered /\ RunningBound
  BY DEF World
<1>3. PodsAdvance /\ EventsPast' /\ EventsOrdered'
  BY <1>1, <1>2, PodsSame, EventsSame
<1>4. c \in Caches /\ Owned(c)
  BY DEF Types, CacheTypes
<1>5. rs.step \in {"update", "delete", "node", "retry"}
  BY DEF updateTask, syncTaskJob, syncTaskNode
<1>6. rs.e \in Entries /\ rs.got \in PodObjects /\ rs.e.t[1] \in Names
  BY <1>5, ResyncBusy
<1>7. rs'.step # "update"
  <2>1. CASE syncTaskJob
    <3>1. rs \in [e : Entries, got : PodObjects, step : {"update", "delete", "node", "retry"}]
      BY <1>5, ResyncBusy
    <3> QED
      BY <2>1, <3>1 DEF syncTaskJob
  <2>2. CASE updateTask \/ syncTaskNode
    BY <2>2 DEF updateTask, syncTaskNode, Idle
  <2> QED
    BY <2>1, <2>2
<1>8. \A t \in DOMAIN c'.tasks : GoesOn(t) \/ TaskRuns(t, c.tasks[t])'
  <2>1. CASE updateTask
    <3>1. PICK k : k = deleteTask(c, rs.e.t, rs.e.node)
      OBVIOUS
    <3>2. PICK p \in Names : p = rs.e.t[1]
      BY <1>6
    <3>3. c' = addTask(k, p, rs.got) /\ rs.step = "update"
      BY <2>1, <3>1, <3>2 DEF updateTask
    <3>4. rs.got.uid # 0 /\ rs.e.t \in Tids
      BY <1>6, <3>3, ResyncBusy, EntryParts
    <3>5. PastOf(pod[p], uids[p], rs.got)
      BY <1>2, <3>2, <3>3 DEF RunningBound, Past
    <3>6. k \in Caches /\ Owned(k) /\ TasksGone(c, k, {rs.e.t})
      BY <1>4, <3>1, <3>4, deleteTaskType
    <3>7. TaskWritten(k, c', p, rs.got)
      BY <1>6, <3>3, <3>4, <3>6, addTaskType
    <3> QED
      BY <1>1, <1>6, <3>4, <3>5, <3>6, <3>7, WrittenRuns
  <2>2. CASE syncTaskJob
    <3>1. TasksGone(c, c', {rs.e.t})
      BY <1>4, <2>2, DropTaskType DEF syncTaskJob
    <3> QED
      BY <3>1 DEF TasksGone, GoesOn
  <2>3. CASE syncTaskNode
    <3>1. c'.tasks = c.tasks
      BY <1>4, <1>6, <2>3, RemoveFromType DEF syncTaskNode
    <3> QED
      BY <3>1 DEF GoesOn
  <2> QED
    BY <2>1, <2>2, <2>3
<1>9. SessionGoesOn
  BY <1>1, SessionSame
<1>10. RunningBound'
  BY <1>1, <1>2, <1>3, <1>7, <1>8, <1>9, RunningStays
<1>11. NodesLike(c, c')
  BY ResyncOthers
<1> QED
  BY <1>1, <1>3, <1>10, <1>11, WorldStays

\* The other pods.
LEMMA ResyncMirror ==
    ASSUME Types, Types', World, updateTask \/ syncTaskJob \/ syncTaskNode,
           NEW q \in Names, q # rs.e.t[1], MirrorOf(q)
    PROVE  MirrorOf(q)'
<1>1. UNCHANGED <<pod, uids, podSeen, podWatch, evictions, ssn>>
  BY ResyncWorld
<1>2. rs.step \in {"update", "delete", "node", "retry"}
  BY DEF updateTask, syncTaskJob, syncTaskNode
<1>3. rs.e \in Entries /\ rs.e.t[1] \in Names
      /\ rs \in [e : Entries, got : PodObjects, step : {"update", "delete", "node", "retry"}]
  BY <1>2, ResyncBusy
<1>4. PICK p \in Names : p = rs.e.t[1]
  BY <1>3
<1>5. NodesLike(c, c') /\ OthersAlike(c, c', p)
  BY <1>4, ResyncOthers
<1>6. EventsFollow(q)
  BY <1>1, FollowSame DEF World
<1>7. SessionFollows(q)
  BY <1>1, SessionSame
<1>8. UNCHANGED <<sending, channel, bindCache, binds>>
  BY DEF updateTask, syncTaskJob, syncTaskNode
<1>9. CASE syncTaskJob
  <2>1. errTasks' = errTasks /\ rs'.e = rs.e
    BY <1>3, <1>9 DEF syncTaskJob
  <2>2. \A e \in Entries : Moves(e) /\ (Underway(e) => Underway(e)')
    <3> TAKE e \in Entries
    <3>1. /\ InChannel(e)' <=> InChannel(e)
          /\ InBindCache(e)' <=> InBindCache(e)
          /\ InBinds(e)' <=> InBinds(e)
          /\ ChannelOnce(e)' <=> ChannelOnce(e)
          /\ BindCacheOnce(e)' <=> BindCacheOnce(e)
          /\ BindsOnce(e)' <=> BindsOnce(e)
      BY <1>8 DEF InChannel, InBindCache, InBinds, ChannelOnce, BindCacheOnce, BindsOnce
    <3> QED
      BY <1>8, <2>1, <3>1 DEF Moves, Underway, Once
  <2>3. ExcusesStay(q)
    BY <1>1, <2>2, ExcusesSame
  <2>4. ResyncStays(q)
    BY <1>4, <2>1 DEF ResyncStays, Reads
  <2> QED
    BY <1>1, <1>4, <1>5, <1>6, <1>7, <2>3, <2>4, OthersMirror
<1>10. CASE updateTask \/ syncTaskNode
  <2>1. rs' = Idle /\ errTasks' \in {errTasks, errTasks \cup {rs.e}}
    BY <1>10 DEF updateTask, syncTaskNode
  <2>2. ASSUME NEW e \in Entries, e.t[1] = q PROVE Moves(e) /\ (Underway(e) => Underway(e)')
    <3>1. e # rs.e
      BY <2>2
    <3> QED
      BY <1>8, <2>1, <3>1, ResyncedMovesOn
  <2>3. ExcusesStay(q)
    BY <1>1, <2>2, ExcusesSame
  <2>4. ResyncStays(q)
    BY <1>4, <2>1 DEF ResyncStays, Reads
  <2> QED
    BY <1>1, <1>4, <1>5, <1>6, <1>7, <2>3, <2>4, OthersMirror
<1> QED
  BY <1>9, <1>10

-----------------------------------------------------------------------------
(***************************************************************************)
(* Steps that write what the cache has of one pod: this pod.               *)
(***************************************************************************)
\* While the API server and the informer of the pods stand still.
LEMMA StandStill ==
    ASSUME UNCHANGED <<pod, uids, podSeen, podWatch>>, NEW p
    PROVE  /\ Tid(p)' = Tid(p) /\ (Live(p)' <=> Live(p)) /\ (Ended(p)' <=> Ended(p))
           /\ (Fresh(p)' <=> Fresh(p)) /\ (BoundFirst(p)' <=> BoundFirst(p))
           /\ \A t : SeenAll(t)' <=> SeenAll(t)
  BY DEF Tid, Live, Ended, Fresh, BoundFirst, SeenAll

\* Excuses that are not new are of pods the informer has delivered.
LEMMA StillSeen ==
    ASSUME UNCHANGED <<pod, uids, podSeen, podWatch>>, NEW p, AllSeen(p),
           \A e \in Entries : e.t[1] = p /\ Excuse(e)' => Excuse(e) \/ SeenAll(e.t),
           \A t \in DOMAIN ssn'.tasks : t \in DOMAIN ssn.tasks
    PROVE  AllSeen(p)'
<1>1. \A t : SeenAll(t)' <=> SeenAll(t)
  BY StandStill
<1> QED
  BY <1>1 DEF AllSeen

\* Of a pod that is not there the invariant says little.
LEMMA NotLiveMirror ==
    ASSUME NEW p, ~Live(p)', BoundFirst(p)', AllSeen(p)', TaskPlace(p)', Unsettled(p)', Reading(p)'
    PROVE  MirrorOf(p)'
  BY DEF MirrorOf, TaskOf, NodeOfTask, Agrees

\* Evictions that stay are excuses as before.
LEMMA ExcuseFollows ==
    ASSUME UNCHANGED evictions, NEW e, Underway(e)' => Underway(e)
    PROVE  Excuse(e)' => Excuse(e)
  BY DEF Excuse, EntryOf

\* And a task that is alone stays alone.
LEMMA AloneFollows ==
    ASSUME UNCHANGED evictions, NEW t, Alone(t), \A e \in Entries : e.t = t => Moves(e)
    PROVE  Alone(t)'
  BY DEF Alone, Moves

\* An entry is its task and its node.
LEMMA EntryIs ==
    ASSUME NEW e \in Entries, NEW f \in Entries, e.t = f.t, e.node = f.node
    PROVE  e = f
  BY DEF Entries

\* syncTask without a pod: the task leaves its Job, and has still to leave its
\* node.
LEMMA syncTaskJobOwn ==
    ASSUME Types, Types', World, syncTaskJob, NEW p \in Names, p = rs.e.t[1], MirrorOf(p)
    PROVE  MirrorOf(p)'
<1>1. UNCHANGED <<pod, uids, podSeen, podWatch, evictions, ssn, errTasks, sending, channel,
                  bindCache, binds>>
  BY DEF syncTaskJob, api, watches
<1>2. rs.step = "delete"
  BY DEF syncTaskJob
<1>3. /\ rs.e \in Entries /\ rs # Idle
      /\ rs \in [e : Entries, got : PodObjects, step : {"update", "delete", "node", "retry"}]
  BY <1>2, ResyncBusy
<1>4. rs'.e = rs.e /\ rs'.step = (IF rs.e.t \in DOMAIN c.tasks THEN "node" ELSE "retry")
  BY <1>3 DEF syncTaskJob, deleteTaskFails
<1>5. /\ BoundFirst(p) /\ AllSeen(p) /\ TaskPlace(p) /\ Unsettled(p) /\ Reading(p)
  BY DEF MirrorOf
<1>6. /\ c'.nodes = c.nodes /\ DOMAIN c'.tasks = DOMAIN c.tasks \ {rs.e.t}
      /\ \A y \in DOMAIN c.tasks : y # rs.e.t => c'.tasks[y] = c.tasks[y]
  BY DropTaskIs, ZenonT(60) DEF syncTaskJob, Types, CacheTypes
<1>7. Tid(p)' = Tid(p) /\ (Live(p)' <=> Live(p)) /\ BoundFirst(p)'
  BY <1>1, <1>5, StandStill
<1>8. ~Live(p)
  BY <1>2, <1>3, <1>5 DEF Reading, Reads
<1>9. \A e \in Entries : Moves(e) /\ (Excuse(e)' => Excuse(e))
  <2> TAKE e \in Entries
  <2>1. /\ InChannel(e)' <=> InChannel(e)
        /\ InBindCache(e)' <=> InBindCache(e)
        /\ InBinds(e)' <=> InBinds(e)
        /\ ChannelOnce(e)' <=> ChannelOnce(e)
        /\ BindCacheOnce(e)' <=> BindCacheOnce(e)
        /\ BindsOnce(e)' <=> BindsOnce(e)
    BY <1>1 DEF InChannel, InBindCache, InBinds, ChannelOnce, BindCacheOnce, BindsOnce
  <2>2. Moves(e)
    BY <1>1, <1>4, <2>1 DEF Moves, Underway, Once
  <2> QED
    BY <1>1, <2>2, ExcuseFollows DEF Moves
<1>10. AllSeen(p)'
  BY <1>1, <1>5, <1>9, StillSeen
<1>11. Excuse(rs.e)
  BY DEF Excuse, Underway
<1>12. ASSUME podSeen[p].uid # 0, podSeen[p].node = "", Known(p), rs.e.t = Tid(p)
       PROVE  rs.e.node = Info(p).node /\ rs'.step = "node" /\ ~Known(p)'
  <2>1. rs.e.node = Info(p).node
    BY <1>2, <1>3, <1>5, <1>11, <1>12 DEF Unsettled
  <2>2. rs'.step = "node" /\ ~Known(p)'
    BY <1>4, <1>6, <1>7, <1>12 DEF Known
  <2> QED
    BY <2>1, <2>2
<1>13. /\ Known(p)' => Known(p) /\ Info(p)' = Info(p)
       /\ Known(p) /\ rs.e.t # Tid(p) => Known(p)'
  BY <1>6, <1>7 DEF Known, Info
<1>14. TaskPlace(p)'
  <2>1. \A t \in DOMAIN c'.tasks : t[1] = p => t[2] = podSeen'[p].uid
    BY <1>1, <1>5, <1>6 DEF TaskPlace
  <2>2. /\ Known(p)' /\ podSeen'[p].node # "" => Info(p)'.node = podSeen'[p].node
        /\ Known(p)' /\ Info(p)'.status = "Pending" => Info(p)'.node = ""
    BY <1>1, <1>5, <1>13 DEF TaskPlace
  <2>3. ASSUME NEW n \in Nodes, At(c', n, p) # "None"
        PROVE  /\ podSeen'[p].uid # 0
               /\ \/ podSeen'[p].node = n
                  \/ /\ podSeen'[p].node = ""
                     /\ \/ Known(p)' /\ Info(p)'.node = n
                        \/ rs'.step = "node" /\ rs'.e = [t |-> Tid(p)', node |-> n]
    <3>1. At(c, n, p) # "None"
      BY <1>6, <2>3 DEF At
    <3>2. /\ podSeen[p].uid # 0
          /\ \/ podSeen[p].node = n
             \/ podSeen[p].node = "" /\ Known(p) /\ Info(p).node = n
      BY <1>2, <1>5, <3>1 DEF TaskPlace
    <3>3. CASE podSeen[p].node = n
      BY <1>1, <3>2, <3>3
    <3>4. CASE podSeen[p].node = "" /\ Known(p) /\ Info(p).node = n /\ rs.e.t # Tid(p)
      BY <1>1, <1>13, <3>2, <3>4, ZenonT(60)
    <3>5. CASE podSeen[p].node = "" /\ Known(p) /\ Info(p).node = n /\ rs.e.t = Tid(p)
      <4>1. rs.e.node = n /\ rs'.step = "node"
        BY <1>12, <3>2, <3>5
      <4>2. rs.e = [t |-> Tid(p), node |-> n]
        BY <1>3, <3>5, <4>1 DEF Entries
      <4> QED
        BY <1>1, <1>4, <1>7, <3>2, <3>5, <4>1, <4>2, ZenonT(60)
    <3> QED
      BY <3>2, <3>3, <3>4, <3>5
  <2> QED
    BY <2>1, <2>2, <2>3 DEF TaskPlace
<1>15. Unsettled(p)'
  <2> SUFFICES ASSUME podSeen[p].uid # 0, podSeen[p].node = ""
               PROVE  /\ Alone(Tid(p))'
                      /\ \A e \in Entries : e.t = Tid(p) /\ Excuse(e)' =>
                           \/ Known(p)' /\ Info(p)'.node = e.node
                           \/ ~Known(p)' /\ rs'.step = "node" /\ rs'.e = e
                      /\ Known(p)' /\ Info(p)'.status \notin {"Binding", "Releasing"} =>
                           Unexcused(Tid(p))'
                      /\ Tid(p) \in DOMAIN ssn.tasks /\ ssn.tasks[Tid(p)] \in {"Pending", "Running"} =>
                           Unexcused(Tid(p))'
    BY <1>1, <1>7 DEF Unsettled
  <2>1. Alone(Tid(p))'
    <3>1. Alone(Tid(p))
      BY <1>5 DEF Unsettled
    <3>2. PICK t : t = Tid(p)
      OBVIOUS
    <3>3. Alone(t)'
      BY <1>1, <1>9, <3>1, <3>2, AloneFollows
    <3> QED
      BY <1>7, <3>2, <3>3 DEF Alone
  <2>2. Unexcused(Tid(p)) => Unexcused(Tid(p))'
    BY <1>7, <1>9 DEF Unexcused
  <2>3. ASSUME NEW e \in Entries, e.t = Tid(p), Excuse(e)'
        PROVE  \/ Known(p)' /\ Info(p)'.node = e.node
               \/ ~Known(p)' /\ rs'.step = "node" /\ rs'.e = e
    <3>1. Excuse(e)
      BY <1>9, <2>3
    <3>2. Known(p) /\ Info(p).node = e.node
      BY <1>2, <1>5, <2>3, <3>1 DEF Unsettled
    <3>3. CASE rs.e.t # Tid(p)
      BY <1>13, <3>2, <3>3
    <3>4. CASE rs.e.t = Tid(p)
      <4>1. rs.e.node = e.node /\ rs'.step = "node" /\ ~Known(p)'
        BY <1>12, <3>2, <3>4
      <4>2. rs.e.t = e.t
        BY <2>3, <3>4, Zenon
      <4>3. rs.e = e
        BY <1>3, <4>1, <4>2, EntryIs
      <4> QED
        BY <1>4, <4>1, <4>3
    <3> QED
      BY <3>3, <3>4
  <2> QED
    BY <1>5, <1>13, <2>1, <2>2, <2>3 DEF Unsettled
<1>16. Reading(p)'
  BY <1>4, <1>7, <1>8 DEF Reading, Reads
<1> QED
  BY <1>7, <1>8, <1>10, <1>14, <1>15, <1>16, NotLiveMirror

\* The pod leaves the node; what was under way for it is done.
LEMMA syncTaskNodeOwn ==
    ASSUME Types, Types', World, syncTaskNode, NEW p \in Names, p = rs.e.t[1], MirrorOf(p)
    PROVE  MirrorOf(p)'
<1>1. UNCHANGED <<pod, uids, podSeen, podWatch, evictions, ssn, sending, channel, bindCache, binds>>
  BY DEF syncTaskNode, api, watches
<1>2. rs.step \in {"node", "retry"}
  BY DEF syncTaskNode
<1>3. rs.e \in Entries /\ rs # Idle /\ rs.e.node \in Nodes \cup {""}
  BY <1>2, ResyncBusy
<1>4. /\ rs' = Idle /\ errTasks' \in {errTasks, errTasks \cup {rs.e}}
      /\ rs.step = "node" => errTasks' = errTasks
  BY <1>2 DEF syncTaskNode
<1>5. /\ BoundFirst(p) /\ AllSeen(p) /\ TaskPlace(p) /\ Unsettled(p) /\ Reading(p)
  BY DEF MirrorOf
<1>6. c'.tasks = c.tasks /\ PlaceSet(c, c', rs.e.node, p, "None")
  BY <1>3, RemoveFromIs DEF syncTaskNode, Types, CacheTypes
<1>7. Tid(p)' = Tid(p) /\ (Live(p)' <=> Live(p)) /\ BoundFirst(p)'
  BY <1>1, <1>5, StandStill
<1>8. ~Live(p)
  BY <1>2, <1>3, <1>5 DEF Reading, Reads
<1>9. \A e \in Entries : Moves(e) /\ (Excuse(e)' => Excuse(e))
  <2> TAKE e \in Entries
  <2>1. Moves(e)
    BY <1>1, <1>4, ResyncedMovesOn
  <2> QED
    BY <1>1, <2>1, ExcuseFollows DEF Moves
<1>10. AllSeen(p)'
  BY <1>1, <1>5, <1>9, StillSeen
<1>11. (Known(p)' <=> Known(p)) /\ Info(p)' = Info(p)
  BY <1>6, <1>7 DEF Known, Info
<1>12. TaskPlace(p)'
  <2>1. \A t \in DOMAIN c'.tasks : t[1] = p => t[2] = podSeen'[p].uid
    BY <1>1, <1>5, <1>6 DEF TaskPlace
  <2>2. /\ Known(p)' /\ podSeen'[p].node # "" => Info(p)'.node = podSeen'[p].node
        /\ Known(p)' /\ Info(p)'.status = "Pending" => Info(p)'.node = ""
    BY <1>1, <1>5, <1>11, ZenonT(60) DEF TaskPlace
  <2>3. ASSUME NEW n \in Nodes, At(c', n, p) # "None"
        PROVE  /\ podSeen'[p].uid # 0
               /\ \/ podSeen'[p].node = n
                  \/ podSeen'[p].node = "" /\ Known(p)' /\ Info(p)'.node = n
    <3>1. n # rs.e.node /\ At(c, n, p) # "None"
      BY <1>6, <2>3 DEF PlaceSet
    <3>2. rs.e # [t |-> Tid(p), node |-> n]
      BY <3>1
    <3> QED
      BY <1>1, <1>5, <1>11, <3>1, <3>2 DEF TaskPlace
  <2> QED
    BY <2>1, <2>2, <2>3 DEF TaskPlace
<1>13. Unsettled(p)'
  <2> SUFFICES ASSUME podSeen[p].uid # 0, podSeen[p].node = ""
               PROVE  /\ Alone(Tid(p))'
                      /\ \A e \in Entries : e.t = Tid(p) /\ Excuse(e)' =>
                           Known(p)' /\ Info(p)'.node = e.node
                      /\ Known(p)' /\ Info(p)'.status \notin {"Binding", "Releasing"} =>
                           Unexcused(Tid(p))'
                      /\ Tid(p) \in DOMAIN ssn.tasks /\ ssn.tasks[Tid(p)] \in {"Pending", "Running"} =>
                           Unexcused(Tid(p))'
    BY <1>1, <1>7, ZenonT(60) DEF Unsettled
  <2>1. Alone(Tid(p))
    BY <1>5 DEF Unsettled
  <2>2. PICK t : t = Tid(p)
    OBVIOUS
  <2>3. Alone(Tid(p))'
    <3>1. Alone(t)'
      BY <1>1, <1>9, <2>1, <2>2, AloneFollows, ZenonT(60)
    <3> QED
      BY <1>7, <2>2, <3>1 DEF Alone
  <2>4. Unexcused(Tid(p)) => Unexcused(Tid(p))'
    BY <1>7, <1>9 DEF Unexcused
  <2>5. ASSUME NEW e \in Entries, e.t = t, Excuse(e)'
        PROVE  Known(p)' /\ Info(p)'.node = e.node
    <3>1. Excuse(e)
      BY <1>9, <2>5
    <3>2. CASE Known(p) /\ Info(p).node = e.node
      BY <1>11, <3>2
    <3>3. CASE rs.step = "node" /\ rs.e = e
      <4>1. Underway(e)
        BY <3>3 DEF Underway
      <4>2. e.t = t
        BY <2>5
      <4>3. Once(e) /\ \A v \in evictions : v.t # t
        BY <2>1, <2>2, <4>1, <4>2 DEF Alone
      <4>4. ~Underway(e)'
        BY <1>1, <1>4, <3>3, <4>3, ResyncedMovesOn
      <4>5. PICK v \in evictions : EntryOf(v) = e
        BY <1>1, <2>5, <4>4 DEF Excuse, EntryOf
      <4>6. EntryOf(v).t = v.t
        BY DEF EntryOf
      <4> QED
        BY <4>2, <4>3, <4>5, <4>6
    <3> QED
      BY <1>5, <2>2, <2>5, <3>1, <3>2, <3>3 DEF Unsettled
  <2> QED
    BY <1>5, <1>11, <2>2, <2>3, <2>4, <2>5 DEF Unsettled
<1>14. Reading(p)'
  BY <1>4 DEF Reading, Reads
<1> QED
  BY <1>7, <1>8, <1>10, <1>12, <1>13, <1>14, NotLiveMirror

\* A node that has its Node object and is out of sync will not become ready.
LEMMA NeverOutOfSync ==
    ASSUME NodesArrive', Ready'
    PROVE  ~OutOfSync(c')
  BY DEF NodesArrive, Ready, OutOfSync

\* What NewTaskInfo makes of a pod.
LEMMA InfoOfIs ==
    ASSUME NEW o
    PROVE  InfoOf(o).node = o.node /\ InfoOf(o).status = getTaskStatus(o) /\ InfoOf(o).pod = o
  BY DEF InfoOf

\* The cache has been given the state o of the pod: where it has the pod.
LEMMA TaskPlaceShown ==
    ASSUME NEW p \in Names, NEW o \in PodObjects, o.uid # 0, podSeen'[p].uid = o.uid,
           Tasked(c', p, o), \A n \in Nodes : At(c', n, p) # "None" => n = o.node,
           podSeen'[p].node # "" => o.node = podSeen'[p].node
    PROVE  TaskPlace(p)' /\ Known(p)' /\ Info(p)' = InfoOf(o)
<1>1. Tid(p)' = <<p, o.uid>>
  BY DEF Tid
<1>2. Known(p)' /\ Info(p)' = InfoOf(o)
  BY <1>1 DEF Known, Info, Tasked
<1>3. Info(p)'.node = o.node /\ Info(p)'.status = getTaskStatus(o)
  BY <1>2, InfoOfIs
<1>4. \A t \in DOMAIN c'.tasks : t[1] = p => t[2] = podSeen'[p].uid
  <2> TAKE t \in DOMAIN c'.tasks
  <2>1. t[1] = p => t = <<p, o.uid>>
    BY DEF Tasked
  <2>2. <<p, o.uid>>[2] = o.uid
    OBVIOUS
  <2> QED
    BY <2>1, <2>2, Zenon
<1>5. Info(p)'.status = "Pending" => Info(p)'.node = ""
  BY <1>3, TaskStatusType
<1>6. ASSUME NEW n \in Nodes, At(c', n, p) # "None"
      PROVE  /\ podSeen'[p].uid # 0
             /\ podSeen'[p].node = n \/ (podSeen'[p].node = "" /\ Known(p)' /\ Info(p)'.node = n)
  BY <1>2, <1>3, <1>6
<1> QED
  BY <1>2, <1>3, <1>4, <1>5, <1>6 DEF TaskPlace

\* What it says of the pod.
LEMMA TaskOfShown ==
    ASSUME NEW p \in Names, NEW o \in PodObjects, o.uid # 0, podSeen'[p].uid = o.uid,
           Known(p)', Info(p)' = InfoOf(o), PastOf(pod'[p], uids'[p], o), Sane(p, o),
           Live(p)' /\ o.node = "" /\ pod'[p].node # "" => Ended(p)',
           o = podSeen'[p] \/ ~Fresh(p)',
           \A e \in Entries : e.t = Tid(p)' /\ Excuse(e)' /\ Live(p)' /\ pod'[p].node # "" =>
             e.node = pod'[p].node \/ Ended(p)'
    PROVE  TaskOf(p)'
<1> SUFFICES ASSUME Live(p)' PROVE TaskOf(p)'
  BY DEF TaskOf
<1>1. o.uid = pod'[p].uid
  BY DEF Live
<1>2. Info(p)'.node = o.node /\ Info(p)'.status = getTaskStatus(o) /\ Info(p)'.pod = o
  BY InfoOfIs
<1>3. InfoOf(o).status = getTaskStatus(o)
  BY DEF InfoOf
<1>4. /\ getTaskStatus(o) \notin {"Pending", "Binding"} => pod'[p].node # ""
      /\ isTerminated(getTaskStatus(o)) => Ended(p)'
  <2>1. PICK x : x = pod'[p]
    OBVIOUS
  <2>2. PICK u : u = uids'[p]
    OBVIOUS
  <2>3. PastOf(x, u, o) /\ o.uid = x.uid
    BY <1>1, <2>1, <2>2
  <2>4. /\ getTaskStatus(o) \notin {"Pending", "Binding"} => x.node # ""
        /\ isTerminated(getTaskStatus(o)) => isTerminated(x.phase)
    BY <1>3, <2>3, InfoKnown
  <2> QED
    BY <2>1, <2>4 DEF Ended
<1>5. o.node \in {"", pod'[p].node}
  BY <1>1 DEF PastOf
<1>6. pod'[p].node # "" => o.node = pod'[p].node \/ Ended(p)'
  BY <1>5
<1>7. o.evicted = TRUE => pod'[p].node # "" /\ (~Fresh(p)' \/ podSeen'[p].evicted = TRUE)
  BY <1>5 DEF Sane
<1>8. getTaskStatus(o) # "Binding"
  BY TaskStatusType
<1> QED
  BY <1>2, <1>4, <1>6, <1>7, <1>8 DEF TaskOf

\* Where it has it, and that it agrees with the informer.
LEMMA NodeOfShown ==
    ASSUME NEW p \in Names, NEW o \in PodObjects, Info(p)' = InfoOf(o), Tasked(c', p, o),
           o.node # "" /\ ~isTerminated(o.phase) => At(c', o.node, p) = getTaskStatus(o),
           o.node # "" /\ isTerminated(o.phase) => At(c', o.node, p) = "None" \/ Excused(p)',
           o = podSeen'[p] \/ ~Fresh(p)'
    PROVE  NodeOfTask(p)' /\ Agrees(p)'
<1>1. Info(p)'.node = o.node /\ Info(p)'.status = getTaskStatus(o)
  BY InfoOfIs
<1>2. isTerminated(getTaskStatus(o)) <=> isTerminated(o.phase)
  BY TaskStatusType
<1>3. NodeOfTask(p)'
  BY <1>1, <1>2 DEF NodeOfTask, Tasked
<1>4. Agrees(p)'
  BY <1>1 DEF Agrees, Excused
<1> QED
  BY <1>3, <1>4

\* If nothing is under way for a pod without a node, there is nothing to say.
LEMMA UnsettledShown ==
    ASSUME Types', NEW p \in Names,
           podSeen'[p].uid # 0 /\ podSeen'[p].node = "" => Unexcused(Tid(p))'
    PROVE  Unsettled(p)'
<1> SUFFICES ASSUME Unexcused(Tid(p))' PROVE Unsettled(p)'
  BY DEF Unsettled
<1>1. PICK t : t = Tid(p)'
  OBVIOUS
<1>2. \A e \in Entries : e.t = t => ~Excuse(e)'
  BY <1>1 DEF Unexcused
<1>3. \A e \in Entries : e.t = t => ~Underway(e)'
  BY <1>2 DEF Excuse
<1>4. \A v \in evictions' : v.t # t
  <2> TAKE v \in evictions'
  <2>1. v \in Evictions
    BY DEF Types, WorkerTypes
  <2>2. PICK e : e = EntryOf(v)
    OBVIOUS
  <2>3. e.t = v.t /\ e \in Entries
    BY <2>1, <2>2 DEF EntryOf, Entries, Evictions
  <2>4. Excuse(e)'
    BY <2>2 DEF Excuse, EntryOf
  <2> QED
    BY <1>2, <2>3, <2>4
<1>5. Alone(Tid(p))'
  BY <1>1, <1>3, <1>4 DEF Alone
<1> QED
  BY <1>5 DEF Unsettled, Unexcused

\* updateTask: the cache has the pod as it was read, and what was under way is
\* done.
LEMMA updateTaskOwn ==
    ASSUME Types, Types', World, updateTask, NEW p \in Names, p = rs.e.t[1], MirrorOf(p),
           ~overtaken', Ready'
    PROVE  MirrorOf(p)'
<1>1. UNCHANGED <<pod, uids, podSeen, podWatch, evictions, ssn, sending, channel, bindCache, binds>>
  BY DEF updateTask, api, watches
<1>2. rs.step = "update" /\ rs.got.uid = rs.e.t[2] /\ rs' = Idle
  BY DEF updateTask
<1>3. /\ rs.e \in Entries /\ rs # Idle /\ rs.got \in PodObjects /\ rs.got.uid # 0
      /\ rs.e.t \in Tids /\ rs.e.node \in Nodes /\ rs.e.node # "" /\ JobOf[p] # ""
  <2>1. /\ rs.e \in Entries /\ rs # Idle /\ rs.got \in PodObjects /\ rs.got.uid # 0
    BY <1>2, ResyncBusy
  <2> QED
    BY <2>1, EntryParts
<1>4. PICK o \in PodObjects : o = rs.got
  BY <1>3
<1>5. PICK n \in Nodes : n = rs.e.node
  BY <1>3
<1>6. /\ BoundFirst(p) /\ AllSeen(p) /\ TaskPlace(p) /\ Unsettled(p) /\ TaskOf(p) /\ NodeOfTask(p)
      /\ Agrees(p) /\ Reading(p)
  BY DEF MirrorOf
<1>7. /\ podSeen[p].uid = o.uid /\ Sane(p, o) /\ PastOf(pod[p], uids[p], o)
      /\ o = podSeen[p] \/ ~Fresh(p)
      /\ o.node # "" => o.node = n \/ isTerminated(o.phase)
      /\ podSeen[p].node # "" => o.node = podSeen[p].node
      /\ o.node = "" /\ o.uid = pod[p].uid => pod[p].node = ""
  BY <1>2, <1>3, <1>4, <1>5, <1>6 DEF Reading, Reads, Past
<1>8. o.uid # 0 /\ rs.e.t = Tid(p)
  <2>1. PICK t \in Tids : t = rs.e.t
    BY <1>3
  <2>2. t = <<t[1], t[2]>>
    BY DEF Tids
  <2>3. t[1] = p /\ t[2] = podSeen[p].uid
    BY <1>2, <1>4, <1>7, <2>1
  <2> QED
    BY <1>3, <1>4, <2>1, <2>2, <2>3 DEF Tid
<1>9. PICK k : k = deleteTask(c, rs.e.t, n)
  OBVIOUS
<1>10. /\ c' = addTask(k, p, o)
       /\ errTasks' = errTasks \cup IF addTaskFails(k, p, o) THEN {rs.e} ELSE {}
  BY <1>4, <1>5, <1>9 DEF updateTask
<1>11. k \in Caches
  BY <1>3, <1>5, <1>9, deleteTaskType DEF Types, CacheTypes
<1>12. /\ DOMAIN k.tasks = DOMAIN c.tasks \ {rs.e.t}
       /\ PlaceSet(c, k, n, p, "None")
  <2>1. c \in Caches
    BY DEF Types, CacheTypes
  <2> QED
    BY <1>3, <1>5, <1>9, <2>1, deleteTaskIs
<1>13. \A t \in DOMAIN k.tasks : t[1] # p
  <2> SUFFICES ASSUME NEW t \in DOMAIN k.tasks, t[1] = p PROVE FALSE
    OBVIOUS
  <2>1. t \in DOMAIN c.tasks /\ t # rs.e.t
    BY <1>12
  <2>2. t[2] = podSeen[p].uid /\ t \in Tids
    BY <1>6, <2>1, CacheParts DEF TaskPlace, Types, CacheTypes, OwnTids
  <2>3. t[2] = rs.e.t[2] /\ t[1] = rs.e.t[1]
    BY <1>2, <1>4, <1>7, <2>2
  <2> QED
    BY <1>3, <2>1, <2>2, <2>3, TidIs
<1>14. Excuse(rs.e)
  BY SMTT(30) DEF Excuse, Underway
<1>15. ASSUME podSeen[p].node = "" PROVE Known(p) /\ Info(p).node = n
  <2>1. podSeen[p].uid # 0
    BY <1>7, <1>8
  <2> QED
    BY <1>2, <1>3, <1>5, <1>6, <1>8, <1>14, <1>15, <2>1, ZenonT(60) DEF Unsettled
<1>16. \A y \in Nodes : At(k, y, p) # "None" =>
         At(c, y, p) # "None" /\ y # n /\ podSeen[p].node = y /\ o.node = y
  <2> SUFFICES ASSUME NEW y \in Nodes, At(k, y, p) # "None"
               PROVE  At(c, y, p) # "None" /\ y # n /\ podSeen[p].node = y /\ o.node = y
    OBVIOUS
  <2>1. At(c, y, p) # "None" /\ y # n
    BY <1>12 DEF PlaceSet
  <2>2. podSeen[p].node = y \/ podSeen[p].node = ""
    BY <1>6, <2>1 DEF TaskPlace
  <2>3. ASSUME podSeen[p].node = "" PROVE FALSE
    <3>1. Known(p) /\ Info(p).node = n
      BY <1>15, <2>3
    <3>2. Info(p).node = y
      <4>1. rs.step # "node" /\ y # ""
        BY <1>2, CacheAssumption
      <4> QED
        BY <1>6, <2>1, <2>3, <4>1 DEF TaskPlace
    <3> QED
      BY <2>1, <3>1, <3>2
  <2> QED
    BY <1>7, <2>1, <2>2, <2>3
<1>17. /\ Tasked(c', p, o) /\ ~addTaskFails(k, p, o)
       /\ \A y \in Nodes : At(c', y, p) # "None" => y = o.node
       /\ o.node # "" /\ ~isTerminated(o.phase) => At(c', o.node, p) = getTaskStatus(o)
       /\ o.node # "" /\ isTerminated(o.phase) =>
            At(c', o.node, p) = "None" \/ (o.node \in Nodes /\ At(k, o.node, p) # "None")
  <2>1. CASE Cleared(k, p)
    <3>1. ~OutOfSync(c')
      <4>1. NodesArrive'
        BY ResyncWorld DEF World
      <4> QED
        BY <4>1, NeverOutOfSync
    <3>2. Shown(c', p, o) /\ ~addTaskFails(k, p, o)
      BY <1>3, <1>8, <1>10, <1>11, <2>1, <3>1, addTaskIs
    <3>3. o.node # "" => o.node \in Nodes
      BY DEF PodObjects
    <3> QED
      BY <3>2, <3>3 DEF Shown
  <2>2. CASE ~Cleared(k, p)
    <3>1. PICK y \in Nodes : At(k, y, p) # "None"
      BY <1>13, <2>2 DEF Cleared
    <3>2. o.node = y /\ y # n
      BY <1>16, <3>1
    <3>3. isTerminated(o.phase)
      <4>1. "" \notin Nodes
        BY CacheAssumption
      <4> QED
        BY <1>7, <3>2, <4>1
    <3>4. /\ ~addTaskFails(k, p, o) /\ Tasked(c', p, o)
          /\ \A z \in Nodes : At(c', z, p) = At(k, z, p)
      BY <1>3, <1>8, <1>10, <1>11, <1>13, <3>3, addEndedIs, ZenonT(60)
    <3> QED
      BY <1>16, <3>1, <3>2, <3>3, <3>4
  <2> QED
    BY <2>1, <2>2
<1>18. errTasks' = errTasks
  BY <1>10, <1>17
<1>19. Tid(p)' = Tid(p) /\ (Live(p)' <=> Live(p)) /\ (Ended(p)' <=> Ended(p))
       /\ (Fresh(p)' <=> Fresh(p)) /\ BoundFirst(p)'
  BY <1>1, <1>6, StandStill
<1>20. \A e \in Entries : /\ Excuse(e)' => Excuse(e)
                          /\ Underway(e) /\ e # rs.e => Underway(e)'
  <2> TAKE e \in Entries
  <2>1. Moves(e) /\ (Underway(e) /\ e # rs.e => Underway(e)')
    BY <1>1, <1>2, <1>18, ResyncedMovesOn
  <2> QED
    BY <1>1, <2>1, ExcuseFollows DEF Moves
<1>21. AllSeen(p)'
  BY <1>1, <1>6, <1>20, StillSeen
<1>22. TaskPlace(p)' /\ Known(p)' /\ Info(p)' = InfoOf(o)
  <2>1. /\ podSeen'[p].uid = o.uid
        /\ podSeen'[p].node # "" => o.node = podSeen'[p].node
    BY <1>1, <1>7, ZenonT(60)
  <2> QED
    BY <1>8, <1>17, <2>1, TaskPlaceShown
<1>23. TaskOf(p)'
  <2>1. /\ podSeen'[p].uid = o.uid /\ PastOf(pod'[p], uids'[p], o)
        /\ o = podSeen'[p] \/ ~Fresh(p)'
    BY <1>1, <1>7, <1>19
  <2>2. Live(p)' /\ o.node = "" /\ pod'[p].node # "" => Ended(p)'
    BY <1>1, <1>7, <1>19, ZenonT(60) DEF Live
  <2>3. \A e \in Entries : e.t = Tid(p)' /\ Excuse(e)' /\ Live(p)' /\ pod'[p].node # "" =>
             e.node = pod'[p].node \/ Ended(p)'
    BY <1>1, <1>6, <1>19, <1>20 DEF TaskOf
  <2> QED
    BY <1>7, <1>8, <1>22, <2>1, <2>2, <2>3, TaskOfShown, ZenonT(60)
<1>24. Unsettled(p)'
  <2> SUFFICES ASSUME podSeen'[p].uid # 0, podSeen'[p].node = "" PROVE Unexcused(Tid(p))'
    BY UnsettledShown
  <2>1. podSeen[p].uid # 0 /\ podSeen[p].node = ""
    BY <1>1
  <2>2. PICK t : t = Tid(p)
    OBVIOUS
  <2>3. Alone(t)
    BY <1>6, <2>1, <2>2 DEF Unsettled
  <2>4. ASSUME NEW e \in Entries, e.t = t, Excuse(e)' PROVE FALSE
    <3>1. Excuse(e)
      BY <1>20, <2>4
    <3>2. e.node = n
      BY <1>2, <1>6, <1>15, <2>1, <2>2, <2>4, <3>1 DEF Unsettled
    <3>3. e.t = rs.e.t
      BY <1>8, <2>2, <2>4, Zenon
    <3>4. e = rs.e
      BY <1>3, <1>5, <3>2, <3>3, EntryIs
    <3>5. Underway(e)
      BY <3>4 DEF Underway
    <3>6. e.t = t
      BY <2>4
    <3>7. Once(e) /\ \A v \in evictions : v.t # t
      BY <2>3, <3>5, <3>6 DEF Alone
    <3>8. ~Underway(e)'
      BY <1>1, <1>2, <1>18, <3>4, <3>7, ResyncedMovesOn
    <3>9. PICK v \in evictions : EntryOf(v) = e
      BY <1>1, <2>4, <3>8 DEF Excuse, EntryOf
    <3>10. EntryOf(v).t = v.t
      BY DEF EntryOf
    <3> QED
      BY <3>6, <3>7, <3>9, <3>10
  <2> QED
    BY <1>19, <2>2, <2>4 DEF Unexcused
<1>25. Reading(p)'
  BY <1>2 DEF Reading, Reads
<1>26. CASE ~Live(p)
  BY <1>19, <1>21, <1>22, <1>24, <1>25, <1>26, NotLiveMirror
<1>27. CASE Live(p)
  <2>1. ASSUME o.node \in Nodes, isTerminated(o.phase), At(k, o.node, p) # "None"
        PROVE  Excused(p)'
    <3>1. podSeen[p].node = o.node /\ o.node # n /\ At(c, o.node, p) # "None" /\ o.node # ""
      BY <1>16, <2>1, CacheAssumption
    <3>2. Known(p) /\ Info(p).node = o.node
      BY <1>6, <1>27, <3>1 DEF TaskOf, TaskPlace
    <3>3. Excused(p)
      <4>1. CASE isTerminated(Info(p).status)
        BY <1>6, <1>27, <3>1, <3>2, <4>1 DEF NodeOfTask
      <4>2. CASE ~isTerminated(Info(p).status)
        <5>1. isTerminated(getTaskStatus(o))
          BY <2>1, TaskStatusType
        <5>2. CASE o = podSeen[p]
          BY <1>6, <1>27, <4>2, <5>1, <5>2 DEF Agrees
        <5>3. CASE ~Fresh(p)
          BY <5>3 DEF Excused
        <5> QED
          BY <1>7, <5>2, <5>3
      <4> QED
        BY <4>1, <4>2
    <3>4. CASE Pending(p)
      <4>1. PICK e \in Entries : e.t = Tid(p) /\ e.node = Info(p).node /\ Waits(e)
        BY <3>4 DEF Pending
      <4>2. e # rs.e
        BY <1>5, <3>1, <3>2, <4>1
      <4>3. Waits(e)'
        BY <1>1, <1>20, <4>1, <4>2 DEF Waits, EntryOf, Answers
      <4>4. e.node = Info(p)'.node
        BY <1>22, <3>2, <4>1, InfoOfIs
      <4> QED
        BY <1>19, <4>1, <4>3, <4>4 DEF Excused, Pending
    <3>5. CASE ~Fresh(p) \/ pod[p].evicted = TRUE
      BY <1>1, <1>19, <3>5 DEF Excused
    <3> QED
      BY <3>3, <3>4, <3>5 DEF Excused
  <2>2. NodeOfTask(p)' /\ Agrees(p)'
    <3>1. o.node # "" /\ isTerminated(o.phase) => At(c', o.node, p) = "None" \/ Excused(p)'
      BY <1>17, <2>1
    <3>2. o = podSeen'[p] \/ ~Fresh(p)'
      BY <1>1, <1>7, <1>19
    <3> QED
      BY <1>17, <1>22, <3>1, <3>2, NodeOfShown
  <2> QED
    BY <1>19, <1>21, <1>22, <1>23, <1>24, <1>25, <2>2 DEF MirrorOf
<1> QED
  BY <1>26, <1>27

\* The resync worker mirrors.
LEMMA ResyncMirrors ==
    ASSUME Types, Types', World, updateTask \/ syncTaskJob \/ syncTaskNode
    PROVE  Mirrors
<1>1. World' /\ (Ready' => Ready)
  BY ResyncWorld
<1>2. ASSUME Mirror, Clear', NEW q \in Names PROVE MirrorOf(q)'
  <2>1. MirrorOf(q)
    BY <1>2 DEF Mirror
  <2>2. CASE q # rs.e.t[1]
    BY <2>1, <2>2, ResyncMirror
  <2>3. CASE q = rs.e.t[1]
    <3>1. ~overtaken' /\ Ready'
      BY <1>2 DEF Clear
    <3> QED
      BY <2>1, <2>3, <3>1, updateTaskOwn, syncTaskJobOwn, syncTaskNodeOwn
  <2> QED
    BY <2>2, <2>3
<1> QED
  BY <1>1, <1>2 DEF Mirrors, Mirror

\* An event of a pod is handled: the world, and the other pods.
LEMMA HandlePodWorld ==
    ASSUME Types, Types', World, HandlePod
    PROVE  /\ World' /\ (Ready' => Ready)
           /\ UNCHANGED <<pod, uids, workers, ssn>>
<1>1. /\ UNCHANGED <<pod, uids, node, nodeWatch, workers, ssn>> /\ podWatch # <<>>
      /\ podWatch' = Tail(podWatch)
  BY DEF HandlePod, api
<1>2. UNCHANGED <<evictions, rs>>
  BY <1>1 DEF workers
<1>3. EventsPast /\ EventsOrdered /\ RunningBound
  BY DEF World
<1>4. PICK p : p = Head(podWatch).name
  OBVIOUS
<1>5. PICK new : new = Head(podWatch).obj
  OBVIOUS
<1>6. PICK old : old = podSeen[p]
  OBVIOUS
<1>7. /\ p \in Names /\ new \in PodObjects /\ old \in PodObjects
      /\ PastOf(pod[p], uids[p], new)
  BY <1>1, <1>3, <1>4, <1>5, <1>6, EventFinds
<1>8. podSeen' = [podSeen EXCEPT ![p] = new]
  BY <1>4, <1>5 DEF HandlePod
<1>9. PodsAdvance /\ EventsPast' /\ EventsOrdered'
  BY <1>1, <1>3, <1>4, <1>5, <1>8, PodsSame, EventsHandled, OrderHandled
<1>10. c \in Caches /\ Owned(c)
  BY DEF Types, CacheTypes
<1>11. PICK gone : gone = deletePod(c, p, old)
  OBVIOUS
<1>12. \/ Visible(p, new) /\ c' = addTask(c, p, new)
       \/ Visible(p, old) /\ Visible(p, new) /\ c' = updatePod(c, p, old, new)
       \/ Visible(p, old) /\ c' = gone
       \/ UNCHANGED c
  BY <1>4, <1>5, <1>6, <1>11 DEF HandlePod
<1>13. ASSUME Visible(p, old)
       PROVE  gone \in Caches /\ Owned(gone) /\ TasksGone(c, gone, {<<p, old.uid>>})
  <2>1. old.uid # 0
    BY <1>13 DEF Visible
  <2> QED
    BY <1>7, <1>10, <1>11, <2>1, deletePodType
<1>14. TasksGone(c, c, {})
  BY DEF TasksGone
<1>15. \A t \in DOMAIN c'.tasks : GoesOn(t) \/ TaskRuns(t, c.tasks[t])'
  <2>1. CASE Visible(p, new) /\ c' = addTask(c, p, new)
    <3>1. new.uid # 0
      BY <2>1 DEF Visible
    <3>2. TaskWritten(c, c', p, new)
      BY <1>7, <1>10, <2>1, <3>1, addTaskType
    <3> QED
      BY <1>1, <1>7, <1>14, <3>1, <3>2, WrittenRuns
  <2>2. CASE Visible(p, old) /\ Visible(p, new) /\ c' = updatePod(c, p, old, new)
    <3>1. new.uid # 0
      BY <2>2 DEF Visible
    <3>2. c' = c \/ c' = addTask(gone, p, new)
      BY <1>11, <2>2 DEF updatePod
    <3>3. CASE c' = c
      BY <3>3 DEF GoesOn
    <3>4. CASE c' = addTask(gone, p, new)
      <4>1. TaskWritten(gone, c', p, new)
        BY <1>7, <1>13, <2>2, <3>1, <3>4, addTaskType
      <4> QED
        BY <1>1, <1>7, <1>13, <2>2, <3>1, <4>1, WrittenRuns
    <3> QED
      BY <3>2, <3>3, <3>4
  <2>3. CASE Visible(p, old) /\ c' = gone
    BY <1>13, <2>3 DEF TasksGone, GoesOn
  <2>4. CASE UNCHANGED c
    BY <2>4 DEF GoesOn
  <2> QED
    BY <1>12, <2>1, <2>2, <2>3, <2>4
<1>16. SessionGoesOn
  BY <1>1, SessionSame
<1>17. RunningBound'
  BY <1>2, <1>3, <1>9, <1>15, <1>16, RunningStays
<1>18. NodesLike(c, c')
  BY <1>4, HandlePodOthers
<1> QED
  BY <1>1, <1>9, <1>17, <1>18, WorldStays

\* Handling it changes nothing for the other pods.
LEMMA HandlePodMirror ==
    ASSUME Types, Types', World, HandlePod, NEW q \in Names, q # Head(podWatch).name, MirrorOf(q)
    PROVE  MirrorOf(q)'
<1>1. UNCHANGED <<pod, uids, workers, ssn>>
  BY HandlePodWorld
<1>2. UNCHANGED <<errTasks, rs, sending, channel, bindCache, binds, evictions>>
  BY <1>1 DEF workers
<1>3. PICK p : p = Head(podWatch).name
  OBVIOUS
<1>4. p \in Names
  BY <1>3, EventFinds DEF World, HandlePod
<1>5. NodesLike(c, c') /\ OthersAlike(c, c', p)
  BY <1>3, HandlePodOthers
<1>6. EventsFollow(q)
  BY FollowHandled DEF World
<1>7. SessionFollows(q)
  BY <1>1, SessionSame
<1>8. \A e \in Entries : MovesOn(e)
  BY <1>2, WorkersSameOn
<1>9. ExcusesStay(q)
  BY <1>2, <1>8, ExcusesSame DEF MovesOn
<1>10. ResyncStays(q)
  BY <1>2 DEF ResyncStays
<1> QED
  BY <1>1, <1>3, <1>4, <1>5, <1>6, <1>7, <1>9, <1>10, OthersMirror

\* The event of pod p at hand, from the state old to the state new.
Handles(p, old, new) ==
    /\ HandlePod /\ p = Head(podWatch).name /\ new = Head(podWatch).obj /\ old = podSeen[p]
    /\ p \in Names /\ old \in PodObjects /\ new \in PodObjects /\ podSeen'[p] = new
    /\ PastOf(pod[p], uids[p], new) /\ PastOf(pod[p], uids[p], old)
    /\ Sane(p, new) /\ Sane(p, old) /\ Later(old, new)
    /\ old.uid = pod[p].uid /\ pod[p].uid # 0 => new.uid = pod[p].uid
    /\ Fresh(p)' => new = pod[p]
    /\ UNCHANGED <<pod, uids, rs, evictions, ssn>>
    /\ \A e : (Underway(e)' <=> Underway(e)) /\ (Excuse(e)' <=> Excuse(e)) /\ (Once(e)' <=> Once(e))
    /\ \A t : Alone(t)' <=> Alone(t)

\* What it finds.
LEMMA HandledIs ==
    ASSUME Types, Types', World, HandlePod, NEW p, p = Head(podWatch).name,
           NEW new, new = Head(podWatch).obj, NEW old, old = podSeen[p]
    PROVE  Handles(p, old, new)
<1>1. /\ UNCHANGED <<pod, uids, workers, ssn>> /\ World'
  BY HandlePodWorld
<1>2. UNCHANGED <<errTasks, rs, sending, channel, bindCache, binds, evictions>>
  BY <1>1 DEF workers
<1>3. podWatch # <<>> /\ podSeen' = [podSeen EXCEPT ![p] = new]
  BY DEF HandlePod
<1>4. /\ p \in Names /\ new \in PodObjects /\ old \in PodObjects
      /\ PastOf(pod[p], uids[p], new) /\ PastOf(pod[p], uids[p], old)
      /\ old.uid = pod[p].uid /\ pod[p].uid # 0 => new.uid = pod[p].uid
  BY <1>3, EventFinds DEF World
<1>5. podSeen'[p] = new
  <2>1. podSeen \in [Names -> PodObjects]
    BY DEF Types, WatchTypes
  <2> QED
    BY <1>3, <1>4, <2>1
<1>6. Sane(p, new) /\ Sane(p, old) /\ Later(old, new)
  <2>1. podWatch \in Seq(PodEvents)
    BY DEF Types, WatchTypes
  <2>2. 1 \in DOMAIN podWatch /\ podWatch[1] = Head(podWatch)
    BY <1>3, <2>1
  <2> QED
    BY <1>4, <2>2 DEF World, EventsOrdered
<1>7. Fresh(p)' => new = pod[p]
  <2>1. Fresh(p)' => podSeen'[p] = pod'[p]
    BY <1>1, <1>4 DEF World, EventsOrdered
  <2> QED
    BY <1>1, <1>5, <2>1
<1>8. ASSUME NEW e
      PROVE  (Underway(e)' <=> Underway(e)) /\ (Excuse(e)' <=> Excuse(e)) /\ (Once(e)' <=> Once(e))
  <2>1. /\ InChannel(e)' <=> InChannel(e)
        /\ InBindCache(e)' <=> InBindCache(e)
        /\ InBinds(e)' <=> InBinds(e)
        /\ ChannelOnce(e)' <=> ChannelOnce(e)
        /\ BindCacheOnce(e)' <=> BindCacheOnce(e)
        /\ BindsOnce(e)' <=> BindsOnce(e)
    BY <1>2 DEF InChannel, InBindCache, InBinds, ChannelOnce, BindCacheOnce, BindsOnce
  <2>2. (Underway(e)' <=> Underway(e)) /\ (Once(e)' <=> Once(e))
    BY <1>2, <2>1 DEF Underway, Once
  <2> QED
    BY <1>2, <2>2 DEF Excuse, EntryOf
<1>9. \A t : Alone(t)' <=> Alone(t)
  BY <1>2, <1>8 DEF Alone
<1> QED
  BY <1>1, <1>2, <1>4, <1>5, <1>6, <1>7, <1>8, <1>9 DEF Handles

\* A task that a worker or a session knows, after the event.
LEMMA HandledSeen ==
    ASSUME Types, World, NEW p, NEW old, NEW new, Handles(p, old, new), NEW t \in Tids, t[1] = p,
           SeenAll(t)
    PROVE  SeenAll(t)'
<1>1. /\ podWatch # <<>> /\ podWatch' = Tail(podWatch) /\ UNCHANGED <<pod, uids>>
      /\ p = Head(podWatch).name /\ new = Head(podWatch).obj /\ old = podSeen[p]
      /\ podSeen'[p] = new /\ p \in Names
  BY DEF Handles, HandlePod
<1>2. podWatch \in Seq(PodEvents)
  BY DEF Types, WatchTypes
<1>3. /\ \A i \in DOMAIN podWatch' : i + 1 \in DOMAIN podWatch /\ 1 < i + 1
                                     /\ podWatch'[i] = podWatch[i + 1]
      /\ 1 \in DOMAIN podWatch /\ podWatch[1] = Head(podWatch)
  BY <1>1, <1>2
<1>4. t[2] # 0
  <2>1. t[2] \in 1 .. MaxUid
    BY DEF Tids
  <2> QED
    BY <2>1, Bounds
<1>5. t[2] <= uids'[p]
  BY <1>1 DEF SeenAll
<1>6. t[2] = pod'[p].uid => new.uid = t[2]
  BY <1>1, <1>4 DEF SeenAll, Handles
<1>7. ASSUME NEW i \in DOMAIN podWatch', podWatch'[i].name = p, podWatch'[i].obj.uid = t[2]
      PROVE  new.uid = t[2]
  <2>1. PICK j \in DOMAIN podWatch : 1 < j /\ podWatch'[i] = podWatch[j]
    BY <1>3
  <2>2. podWatch[j].name = p /\ podWatch[j].obj.uid = t[2]
    BY <1>7, <2>1
  <2>3. old.uid = t[2]
    BY <1>1, <2>2 DEF SeenAll
  <2>4. Between(old, new, podWatch[j].obj)
    BY <1>1, <1>3, <2>1, <2>2 DEF World, EventsOrdered
  <2> QED
    BY <1>4, <2>2, <2>3, <2>4 DEF Between
<1> QED
  BY <1>1, <1>5, <1>6, <1>7 DEF SeenAll

\* The events after the one handled.
LEMMA HandledEvents ==
    ASSUME Types, Types', World, NEW p, NEW old, NEW new, Handles(p, old, new), BoundFirst(p), AllSeen(p)
    PROVE  BoundFirst(p)' /\ AllSeen(p)'
<1>1. /\ podWatch # <<>> /\ podWatch' = Tail(podWatch) /\ UNCHANGED <<pod, uids, ssn>>
      /\ p = Head(podWatch).name /\ new = Head(podWatch).obj /\ old = podSeen[p]
      /\ podSeen'[p] = new /\ p \in Names
  BY DEF Handles, HandlePod
<1>2. podWatch \in Seq(PodEvents)
  BY DEF Types, WatchTypes
<1>3. \A i \in DOMAIN podWatch' : i + 1 \in DOMAIN podWatch /\ podWatch'[i] = podWatch[i + 1]
  BY <1>1, <1>2
<1>4. ASSUME NEW i \in DOMAIN podWatch', podWatch'[i].name = p, podWatch'[i].obj.uid = pod[p].uid,
             pod[p].node # "", new.uid # pod[p].uid
      PROVE  podWatch'[i].obj.node # ""
  <2>1. PICK j \in DOMAIN podWatch : podWatch'[i] = podWatch[j]
    BY <1>3
  <2>2. pod[p].uid # 0
    BY <1>1, <1>4 DEF World, EventsPast, Past, PastOf
  <2>3. old.uid # pod[p].uid
    BY <1>4, <2>2 DEF Handles
  <2> QED
    BY <1>1, <1>4, <2>1, <2>3 DEF BoundFirst
<1>5. BoundFirst(p)'
  BY <1>1, <1>4 DEF BoundFirst
<1>6. ASSUME NEW e \in Entries, e.t[1] = p, Excuse(e)' PROVE SeenAll(e.t)'
  <2>1. Excuse(e)
    BY <1>6 DEF Handles
  <2>2. SeenAll(e.t) /\ e.t \in Tids
    BY <1>6, <2>1, EntryParts DEF AllSeen
  <2> QED
    BY <1>6, <2>2, HandledSeen
<1>7. ASSUME NEW t \in DOMAIN ssn.tasks, t[1] = p PROVE SeenAll(t)'
  <2>1. t \in Tids
    BY SessionParts DEF Types, OwnTids
  <2>2. SeenAll(t)
    BY <1>7 DEF AllSeen
  <2> QED
    BY <1>7, <2>1, <2>2, HandledSeen
<1>8. AllSeen(p)'
  BY <1>1, <1>6, <1>7 DEF AllSeen
<1> QED
  BY <1>5, <1>8

\* Of a pod the cache has nothing if the informer has not delivered it.
LEMMA ClearedBefore ==
    ASSUME Types, NEW p \in Names, TaskPlace(p), podSeen[p].uid = 0
    PROVE  Cleared(c, p)
<1>1. ASSUME NEW t \in DOMAIN c.tasks, t[1] = p PROVE FALSE
  <2>1. t \in Tids
    BY CacheParts DEF Types, CacheTypes, OwnTids
  <2>2. t[2] \in 1 .. MaxUid
    BY <2>1 DEF Tids
  <2>3. t[2] # 0
    BY <2>2, Bounds
  <2> QED
    BY <1>1, <2>3 DEF TaskPlace
<1>2. \A n \in Nodes : At(c, n, p) = "None"
  BY DEF TaskPlace
<1> QED
  BY <1>1, <1>2 DEF Cleared

\* Nor if deletePod has taken what it was.
LEMMA ClearedAfter ==
    ASSUME Types, NEW p \in Names, TaskPlace(p), ~Reads(p), NEW old, old = podSeen[p], old.uid # 0
    PROVE  Cleared(deletePod(c, p, old), p)
<1>1. c \in Caches /\ old \in PodObjects
  BY Uids DEF Types, CacheTypes
<1>2. PICK gone : gone = deletePod(c, p, old)
  OBVIOUS
<1>3. PICK m : m = NodeOf(c, p, old)
  OBVIOUS
<1>4. /\ DOMAIN gone.tasks = DOMAIN c.tasks \ {Tid(p)}
      /\ PlaceSet(c, gone, m, p, "None")
  BY <1>1, <1>2, <1>3, deletePodOthers DEF Tid
<1>5. ASSUME NEW t \in DOMAIN gone.tasks, t[1] = p PROVE FALSE
  <2>1. t \in DOMAIN c.tasks /\ t # Tid(p)
    BY <1>4
  <2>2. t \in Tids /\ t[2] = podSeen[p].uid
    BY <1>5, <2>1, CacheParts DEF TaskPlace, Types, CacheTypes, OwnTids
  <2>3. t = <<t[1], t[2]>>
    BY <2>2 DEF Tids
  <2> QED
    BY <1>5, <2>1, <2>2, <2>3 DEF Tid
<1>6. ASSUME NEW n \in Nodes, At(gone, n, p) # "None" PROVE FALSE
  <2>1. n # m /\ At(c, n, p) # "None"
    BY <1>4, <1>6 DEF PlaceSet
  <2>2. m = IF Known(p) THEN Info(p).node ELSE old.node
    BY <1>3 DEF NodeOf, Known, Info, Tid
  <2>3. ~(rs.step = "node" /\ rs.e = [t |-> Tid(p), node |-> n])
    <3> SUFFICES ASSUME rs.step = "node", rs.e = [t |-> Tid(p), node |-> n] PROVE FALSE
      OBVIOUS
    <3>1. rs # Idle
      BY ResyncBusy
    <3>2. rs.e.t = Tid(p) /\ Tid(p)[1] = p
      BY DEF Tid
    <3> QED
      BY <3>1, <3>2 DEF Reads
  <2>4. n # ""
    BY CacheAssumption
  <2> QED
    BY <2>1, <2>2, <2>3, <2>4 DEF TaskPlace
<1> QED
  BY <1>2, <1>5, <1>6 DEF Cleared

\* A pod of another scheduler is none of the cache's.
LEMMA HandledForeign ==
    ASSUME Types, Types', World, NEW p, NEW old, NEW new, Handles(p, old, new), MirrorOf(p),
           ~Reads(p), JobOf[p] = ""
    PROVE  MirrorOf(p)'
<1>1. p \in Names /\ old = podSeen[p] /\ podSeen'[p] = new /\ UNCHANGED rs
      /\ old.node = "" /\ new.node = ""
  BY DEF Handles, Sane
<1>2. ~Visible(p, old) /\ ~Visible(p, new)
  BY <1>1 DEF Visible
<1>3. c' = c
  BY <1>2 DEF Handles, HandlePod
<1>4. BoundFirst(p) /\ AllSeen(p) /\ TaskPlace(p)
  BY DEF MirrorOf
<1>5. BoundFirst(p)' /\ AllSeen(p)'
  BY <1>4, HandledEvents
<1>6. ~Reads(p)' /\ ~Live(p)' /\ ~Live(p)
  BY <1>1 DEF Reads, Live
<1>7. \A t \in DOMAIN c.tasks : t[1] # p
  <2>1. DOMAIN c.tasks \subseteq OwnTids
    BY CacheParts DEF Types, CacheTypes
  <2> QED
    BY <2>1 DEF OwnTids
<1>8. ~Known(p) /\ ~Known(p)'
  <2>1. Tid(p)[1] = p /\ Tid(p)'[1] = p
    BY DEF Tid
  <2> QED
    BY <1>3, <1>7, <2>1 DEF Known
<1>9. ASSUME NEW n \in Nodes PROVE At(c', n, p) = "None"
  <2> SUFFICES ASSUME At(c, n, p) # "None" PROVE FALSE
    BY <1>3
  <2>1. n # ""
    BY CacheAssumption
  <2>2. rs.step = "node" /\ rs.e = [t |-> Tid(p), node |-> n]
    BY <1>1, <1>4, <1>8, <2>1 DEF TaskPlace
  <2>3. rs # Idle
    BY <2>2, ResyncBusy
  <2>4. rs.e.t = Tid(p)
    <3>1. [t |-> Tid(p), node |-> n].t = Tid(p)
      OBVIOUS
    <3> QED
      BY <2>2, <3>1, Zenon
  <2>5. Tid(p)[1] = p
    BY DEF Tid
  <2> QED
    BY <2>3, <2>4, <2>5 DEF Reads
<1>10. TaskPlace(p)'
  BY <1>3, <1>7, <1>8, <1>9 DEF TaskPlace
<1>11. \A e \in Entries : e.t # Tid(p)'
  <2> SUFFICES ASSUME NEW e \in Entries, e.t = Tid(p)' PROVE FALSE
    OBVIOUS
  <2>1. JobOf[e.t[1]] # ""
    BY EntryParts
  <2>2. Tid(p)'[1] = p
    BY DEF Tid
  <2> QED
    BY <2>1, <2>2
<1>12. Unsettled(p)'
  <2>1. Unexcused(Tid(p))'
    BY <1>11 DEF Unexcused
  <2> QED
    BY <1>1, <2>1, UnsettledShown
<1>13. Reading(p)'
  BY <1>6 DEF Reading
<1> QED
  BY <1>5, <1>6, <1>10, <1>12, <1>13, NotLiveMirror

\* Nothing is left of a pod that is gone.
LEMMA HandledGone ==
    ASSUME Types, Types', World, NEW p, NEW old, NEW new, Handles(p, old, new), MirrorOf(p),
           ~Reads(p), Cleared(c', p), new.uid = 0
    PROVE  MirrorOf(p)'
<1>1. p \in Names /\ podSeen'[p] = new /\ UNCHANGED rs
  BY DEF Handles
<1>2. BoundFirst(p) /\ AllSeen(p)
  BY DEF MirrorOf
<1>3. BoundFirst(p)' /\ AllSeen(p)'
  BY <1>2, HandledEvents
<1>4. ~Reads(p)' /\ ~Live(p)'
  BY <1>1 DEF Reads, Live
<1>5. ~Known(p)'
  <2>1. Tid(p)'[1] = p
    BY DEF Tid
  <2> QED
    BY <2>1 DEF Known, Cleared
<1>6. TaskPlace(p)'
  BY <1>5 DEF TaskPlace, Cleared
<1>7. Unsettled(p)'
  BY <1>1 DEF Unsettled
<1>8. Reading(p)'
  BY <1>4 DEF Reading
<1> QED
  BY <1>3, <1>4, <1>6, <1>7, <1>8, NotLiveMirror

\* A task of no node that is neither being bound nor leaving, and has not
\* ended, has no node in the cache either.
LEMMA PendingNowhere ==
    ASSUME Types, NEW p \in Names, TaskPlace(p), TaskOf(p), NodeOfTask(p), Live(p),
           ~AllocatedStatus(Info(p).status), Info(p).status # "Releasing", pod[p].node # ""
    PROVE  Ended(p)
<1>1. Known(p) /\ c.tasks[Tid(p)] \in TaskEntries
  BY CacheParts DEF TaskOf, Known, Types, CacheTypes
<1>2. Info(p).status \in TaskStatuses
  BY <1>1 DEF Info, TaskEntries
<1>3. CASE isTerminated(Info(p).status)
  BY <1>3 DEF TaskOf
<1>4. CASE Info(p).status = "Pending"
  BY <1>1, <1>4 DEF TaskPlace, TaskOf
<1>5. CASE Info(p).status = "Pipelined" /\ ~Ended(p)
  <2>1. Info(p).node = pod[p].node /\ Info(p).node # ""
    BY <1>5 DEF TaskOf
  <2>2. Info(p).node \in DOMAIN c.nodes /\ At(c, Info(p).node, p) = "Pipelined"
    BY <1>5, <2>1 DEF NodeOfTask, isTerminated
  <2>3. c.nodes[Info(p).node] \in GoodNodes
    BY <2>2, CacheParts DEF Types, CacheTypes
  <2> QED
    BY <2>2, <2>3 DEF At, GoodNodes
<1> QED
  BY <1>2, <1>3, <1>4, <1>5 DEF TaskStatuses, AllocatedStatus, isTerminated

\* The event at hand is the first.
LEMMA FirstEvent ==
    ASSUME Types, podWatch # <<>>
    PROVE  1 \in DOMAIN podWatch /\ podWatch[1] = Head(podWatch)
<1>1. podWatch \in Seq(PodEvents)
  BY DEF Types, WatchTypes
<1> QED
  BY <1>1

\* The cache has the pod as the event says.
LEMMA HandledShown ==
    ASSUME Types, Types', World, NEW p, NEW old, NEW new, Handles(p, old, new), MirrorOf(p),
           ~Reads(p), ~Late(p, new), Shown(c', p, new), new.uid # 0,
           old.uid = new.uid => ~(allocatedPodInCache(c, <<p, new.uid>>) /\ new.node = "")
    PROVE  MirrorOf(p)'
<1>1. /\ p \in Names /\ podSeen'[p] = new /\ UNCHANGED <<pod, uids, rs>> /\ new \in PodObjects
      /\ old = podSeen[p] /\ (old.uid = new.uid /\ new.node = "" => old.node = "")
  BY DEF Handles, Later
<1>2. /\ BoundFirst(p) /\ AllSeen(p) /\ TaskPlace(p) /\ Unsettled(p) /\ TaskOf(p) /\ NodeOfTask(p)
  BY DEF MirrorOf
<1>3. BoundFirst(p)' /\ AllSeen(p)'
  BY <1>2, HandledEvents
<1>4. ~Reads(p)'
  BY <1>1 DEF Reads
<1>5. Tasked(c', p, new) /\ \A n \in Nodes : At(c', n, p) # "None" => n = new.node
  BY DEF Shown
<1>6. TaskPlace(p)' /\ Known(p)' /\ Info(p)' = InfoOf(new)
  BY <1>1, <1>5, TaskPlaceShown
<1>7. 1 \in DOMAIN podWatch /\ podWatch[1].name = p /\ podWatch[1].obj = new
  <2>1. podWatch # <<>> /\ p = Head(podWatch).name /\ new = Head(podWatch).obj
    BY DEF Handles, HandlePod
  <2>2. 1 \in DOMAIN podWatch /\ podWatch[1] = Head(podWatch)
    BY <2>1, FirstEvent
  <2> QED
    BY <2>1, <2>2
<1>8. PICK t : t = <<p, new.uid>>
  OBVIOUS
<1>9. /\ Tid(p)' = t /\ t[1] = p /\ t[2] = new.uid
      /\ old.uid = new.uid => Tid(p) = t
  BY <1>1, <1>8 DEF Tid
<1>10. ASSUME NEW e \in Entries, e.t = t, Excuse(e)' PROVE Excuse(e) /\ old.uid = new.uid
  <2>1. Excuse(e)
    BY <1>10 DEF Handles
  <2>2. SeenAll(t)
    BY <1>2, <1>9, <1>10, <2>1 DEF AllSeen
  <2>3. podSeen[p].uid = new.uid
    BY <1>7, <1>9, <2>2 DEF SeenAll
  <2> QED
    BY <1>1, <2>1, <2>3
<1>11. ASSUME old.uid = new.uid, new.node = "", Known(p)
       PROVE  ~AllocatedStatus(Info(p).status) /\ Info(p).status # "Releasing"
  <2>1. Tid(p) = <<p, new.uid>>
    BY <1>8, <1>9, <1>11
  <2> QED
    BY <1>11, <2>1 DEF Known, Info, allocatedPodInCache, Late
<1>12. ASSUME Live(p)', new.node = "", pod[p].node # "" PROVE Ended(p)
  <2>1. new.uid = pod[p].uid
    BY <1>1, <1>12 DEF Live
  <2>2. old.uid = pod[p].uid
    BY <1>1, <1>2, <1>7, <1>12, <2>1 DEF BoundFirst
  <2>3. Live(p) /\ Known(p)
    BY <1>1, <1>2, <1>12, <2>2 DEF Live, TaskOf
  <2>4. ~AllocatedStatus(Info(p).status) /\ Info(p).status # "Releasing"
    BY <1>11, <1>12, <2>1, <2>2, <2>3
  <2> QED
    BY <1>1, <1>2, <1>12, <2>3, <2>4, PendingNowhere
<1>13. ASSUME NEW e \in Entries, e.t = t, Excuse(e)', Live(p)', pod[p].node # ""
       PROVE  e.node = pod[p].node \/ Ended(p)
  <2>1. Excuse(e) /\ old.uid = new.uid
    BY <1>10, <1>13
  <2>2. Live(p)
    BY <1>1, <1>13, <2>1 DEF Live
  <2>3. e.t = Tid(p)
    BY <1>9, <1>13, <2>1, Zenon
  <2> QED
    BY <1>2, <1>13, <2>1, <2>2, <2>3 DEF TaskOf
<1>14. TaskOf(p)'
  <2>1. PastOf(pod'[p], uids'[p], new) /\ Sane(p, new) /\ new = podSeen'[p]
    BY <1>1 DEF Handles
  <2>2. Ended(p)' <=> Ended(p)
    BY <1>1 DEF Ended
  <2>3. Live(p)' /\ new.node = "" /\ pod'[p].node # "" => Ended(p)'
    BY <1>1, <1>12, <2>2
  <2>4. \A e \in Entries : e.t = Tid(p)' /\ Excuse(e)' /\ Live(p)' /\ pod'[p].node # "" =>
          e.node = pod'[p].node \/ Ended(p)'
    BY <1>1, <1>9, <1>13, <2>2
  <2> QED
    BY <1>1, <1>6, <2>1, <2>3, <2>4, TaskOfShown
<1>15. NodeOfTask(p)' /\ Agrees(p)'
  <2>1. new.node # "" => new.node \in Nodes
    BY <1>1 DEF PodObjects
  <2> QED
    BY <1>1, <1>5, <1>6, <2>1, NodeOfShown DEF Shown
<1>16. Unsettled(p)'
  <2> SUFFICES ASSUME new.node = "" PROVE Unexcused(Tid(p))'
    BY <1>1, UnsettledShown
  <2>1. ASSUME NEW e \in Entries, e.t = t, Excuse(e)' PROVE FALSE
    <3>1. Excuse(e) /\ old.uid = new.uid
      BY <1>10, <2>1
    <3>2. podSeen[p].uid # 0 /\ podSeen[p].node = ""
      BY <1>1, <3>1
    <3>3. e.t = Tid(p)
      BY <1>9, <2>1, <3>1, Zenon
    <3>4. ~(rs.step = "node" /\ rs.e = e)
      <4> SUFFICES ASSUME rs.step = "node", rs.e = e PROVE FALSE
        OBVIOUS
      <4>1. rs # Idle
        BY ResyncBusy
      <4>2. rs.e.t[1] = p
        BY <1>9, <2>1
      <4> QED
        BY <4>1, <4>2 DEF Reads
    <3>5. Known(p)
      BY <1>2, <3>1, <3>2, <3>3, <3>4 DEF Unsettled
    <3>6. ~AllocatedStatus(Info(p).status) /\ Info(p).status # "Releasing"
      BY <1>11, <3>1, <3>5
    <3>7. Info(p).status \notin {"Binding", "Releasing"}
      BY <3>6 DEF AllocatedStatus
    <3>8. Unexcused(Tid(p))
      BY <1>2, <3>2, <3>5, <3>7 DEF Unsettled
    <3> QED
      BY <3>1, <3>3, <3>8 DEF Unexcused
  <2> QED
    BY <1>9, <2>1 DEF Unexcused
<1>17. Reading(p)'
  BY <1>4 DEF Reading
<1> QED
  BY <1>3, <1>6, <1>14, <1>15, <1>16, <1>17 DEF MirrorOf

\* An event of a pod without a node leaves a task alone that has been given
\* one.
LEMMA HandledWaits ==
    ASSUME Types, Types', World, NEW p, NEW old, NEW new, Handles(p, old, new), MirrorOf(p),
           ~Reads(p), c' = c, allocatedPodInCache(c, <<p, new.uid>>), new.node = "", new.uid # 0
    PROVE  MirrorOf(p)'
<1>1. /\ p \in Names /\ podSeen'[p] = new /\ UNCHANGED <<pod, uids, rs, evictions, ssn>>
      /\ old = podSeen[p] /\ new \in PodObjects
  BY DEF Handles
<1>2. /\ BoundFirst(p) /\ AllSeen(p) /\ TaskPlace(p) /\ Unsettled(p) /\ TaskOf(p) /\ NodeOfTask(p)
  BY DEF MirrorOf
<1>3. BoundFirst(p)' /\ AllSeen(p)'
  BY <1>2, HandledEvents
<1>4. ~Reads(p)'
  BY <1>1 DEF Reads
<1>5. PICK t : t = <<p, new.uid>>
  OBVIOUS
<1>6. t \in DOMAIN c.tasks /\ t[1] = p /\ t[2] = new.uid /\ AllocatedStatus(c.tasks[t].status)
  BY <1>5 DEF allocatedPodInCache
<1>7. old.uid = new.uid /\ old.node = ""
  <2>1. old.uid = new.uid
    BY <1>1, <1>2, <1>6 DEF TaskPlace
  <2> QED
    BY <2>1 DEF Handles, Later
<1>8. Tid(p) = t /\ Tid(p)' = t
  BY <1>1, <1>5, <1>7 DEF Tid
<1>9. /\ Known(p) /\ Known(p)' /\ Info(p) = c.tasks[t] /\ Info(p)' = c.tasks[t]
  BY <1>6, <1>8 DEF Known, Info
<1>10. (Live(p)' <=> Live(p)) /\ (Ended(p)' <=> Ended(p))
  BY <1>1, <1>7 DEF Live, Ended
<1>11. podSeen[p].uid # 0 /\ podSeen[p].node = "" /\ podSeen'[p].node = ""
       /\ podSeen'[p].uid = podSeen[p].uid
  BY <1>1, <1>7
<1>12. TaskPlace(p)'
  <2>1. \A z \in DOMAIN c'.tasks : z[1] = p => z[2] = podSeen'[p].uid
    BY <1>2, <1>11 DEF TaskPlace
  <2>2. Known(p)' /\ Info(p)'.status = "Pending" => Info(p)'.node = ""
    BY <1>6, <1>9 DEF AllocatedStatus
  <2>3. ASSUME NEW n \in Nodes, At(c', n, p) # "None"
        PROVE  Info(p)'.node = n \/ (rs'.step = "node" /\ rs'.e = [t |-> Tid(p)', node |-> n])
    <3>1. At(c, n, p) # "None" /\ n # ""
      BY <2>3, CacheAssumption
    <3> QED
      BY <1>1, <1>2, <1>8, <1>9, <1>11, <3>1 DEF TaskPlace
  <2> QED
    BY <1>9, <1>11, <2>1, <2>2, <2>3 DEF TaskPlace
<1>13. \A e : (Underway(e)' <=> Underway(e)) /\ (Excuse(e)' <=> Excuse(e))
  BY DEF Handles
<1>14. \A e \in Entries : e.t = t /\ Excuse(e) => Info(p).node = e.node
  BY <1>2, <1>8, <1>9, <1>11 DEF Unsettled
<1>15. Unsettled(p)'
  <2>1. Alone(Tid(p))'
    <3>1. Alone(Tid(p))
      BY <1>2, <1>11 DEF Unsettled
    <3>2. Alone(t)
      BY <1>8, <3>1
    <3>3. Alone(t)'
      BY <3>2 DEF Handles
    <3> QED
      BY <1>8, <3>3 DEF Alone
  <2>2. Unexcused(Tid(p)) => Unexcused(Tid(p))'
    BY <1>8, <1>13 DEF Unexcused
  <2>3. \A e \in Entries : e.t = Tid(p)' /\ Excuse(e)' => Known(p)' /\ Info(p)'.node = e.node
    BY <1>8, <1>9, <1>13, <1>14
  <2>4. Known(p)' /\ Info(p)'.status \notin {"Binding", "Releasing"} => Unexcused(Tid(p))'
    BY <1>2, <1>9, <1>11, <2>2 DEF Unsettled
  <2>5. Tid(p)' \in DOMAIN ssn'.tasks /\ ssn'.tasks[Tid(p)'] \in {"Pending", "Running"} =>
          Unexcused(Tid(p))'
    BY <1>1, <1>2, <1>8, <1>11, <2>2 DEF Unsettled
  <2> QED
    BY <2>1, <2>3, <2>4, <2>5 DEF Unsettled
<1>16. TaskOf(p)'
  <2> SUFFICES ASSUME Live(p)
               PROVE  /\ Info(p)'.status \notin {"Pending", "Binding"} => pod[p].node # ""
                      /\ isTerminated(Info(p)'.status) => Ended(p)
                      /\ pod[p].node # "" => Info(p)'.node = pod[p].node \/ Ended(p)
                      /\ Info(p)'.pod.evicted = TRUE => pod[p].node # "" /\ ~Fresh(p)'
                      /\ \A e \in Entries : e.t = t /\ Excuse(e) /\ pod[p].node # "" =>
                           e.node = pod[p].node \/ Ended(p)
                      /\ Info(p)'.status = "Binding" =>
                           pod[p].node # "" \/ \E e \in Entries : e.t = t /\ Underway(e)
    BY <1>1, <1>8, <1>9, <1>10, <1>13 DEF TaskOf
  <2>1. pod[p].node # "" => ~Fresh(p)'
    BY DEF Handles
  <2> QED
    BY <1>2, <1>8, <1>9, <2>1 DEF TaskOf
<1>17. NodeOfTask(p)'
  <2>1. ~isTerminated(Info(p).status)
    BY <1>6, <1>9 DEF AllocatedStatus, isTerminated
  <2> QED
    BY <1>2, <1>9, <1>10, <2>1 DEF NodeOfTask
<1>18. Agrees(p)'
  <2> SUFFICES ASSUME Live(p), Fresh(p)' PROVE Pending(p)'
    BY <1>10 DEF Agrees, Excused
  <2>1. pod[p].node = ""
    BY DEF Handles
  <2>2. Info(p).status = "Binding"
    BY <1>2, <1>6, <1>9, <2>1 DEF TaskOf, AllocatedStatus
  <2>3. PICK e \in Entries : e.t = t /\ Underway(e)
    BY <1>2, <1>8, <2>1, <2>2 DEF TaskOf
  <2>4. Excuse(e)
    BY <2>3 DEF Excuse
  <2>5. e.node = Info(p)'.node
    BY <1>9, <1>14, <2>3, <2>4
  <2>6. Waits(e)'
    BY <1>13, <2>3 DEF Waits
  <2>7. e.t = Tid(p)'
    BY <1>8, <2>3
  <2> QED
    BY <2>5, <2>6, <2>7 DEF Pending
<1>19. Reading(p)'
  BY <1>4 DEF Reading
<1> QED
  BY <1>3, <1>12, <1>15, <1>16, <1>17, <1>18, <1>19 DEF MirrorOf

\* The pod of the event.
LEMMA HandlePodOwn ==
    ASSUME Types, Types', World, HandlePod, NEW p, p = Head(podWatch).name, MirrorOf(p),
           ~overtaken', ~displaced', Ready'
    PROVE  MirrorOf(p)'
<1>1. PICK new : new = Head(podWatch).obj
  OBVIOUS
<1>2. PICK old : old = podSeen[p]
  OBVIOUS
<1>3. Handles(p, old, new)
  BY <1>1, <1>2, HandledIs
<1>4. p \in Names /\ old \in PodObjects /\ new \in PodObjects
  BY <1>3 DEF Handles
<1>5. ~Reads(p) /\ ~Late(p, new)
  BY <1>1 DEF HandlePod, Reads
<1>6. TaskPlace(p) /\ c \in Caches /\ Owned(c)
  BY DEF MirrorOf, Types, CacheTypes
<1>7. CASE JobOf[p] = ""
  BY <1>3, <1>5, <1>7, HandledForeign
<1>8. CASE JobOf[p] # ""
  <2>1. /\ old.uid = 0 /\ new.uid # 0 => c' = addTask(c, p, new)
        /\ old.uid # 0 /\ new.uid # 0 => c' = updatePod(c, p, old, new)
        /\ old.uid # 0 /\ new.uid = 0 => c' = deletePod(c, p, old)
        /\ old.uid = 0 /\ new.uid = 0 => c' = c
    BY <1>1, <1>2, <1>8 DEF HandlePod, Visible
  <2>2. ~OutOfSync(c')
    <3>1. NodesArrive'
      BY HandlePodWorld DEF World
    <3> QED
      BY <3>1, NeverOutOfSync
  <2>3. old.uid = 0 => Cleared(c, p)
    BY <1>2, <1>4, <1>6, ClearedBefore
  <2>4. PICK gone : gone = deletePod(c, p, old)
    OBVIOUS
  <2>5. old.uid # 0 => Cleared(gone, p) /\ gone \in Caches
    BY <1>2, <1>4, <1>5, <1>6, <2>4, ClearedAfter, deletePodType
  <2>6. CASE new.uid = 0
    <3>1. Cleared(c', p)
      BY <2>1, <2>3, <2>4, <2>5, <2>6
    <3> QED
      BY <1>3, <1>5, <2>6, <3>1, HandledGone
  <2>7. CASE new.uid # 0 /\ old.uid = 0
    <3>1. Shown(c', p, new)
      BY <1>4, <1>6, <1>8, <2>1, <2>2, <2>3, <2>7, addTaskIs
    <3> QED
      BY <1>3, <1>5, <2>7, <3>1, HandledShown
  <2>8. CASE new.uid # 0 /\ old.uid # 0 /\ allocatedPodInCache(c, <<p, new.uid>>) /\ new.node = ""
    <3>1. c' = c
      BY <2>1, <2>8 DEF updatePod
    <3> QED
      BY <1>3, <1>5, <2>8, <3>1, HandledWaits
  <2>9. CASE new.uid # 0 /\ old.uid # 0 /\ ~(allocatedPodInCache(c, <<p, new.uid>>) /\ new.node = "")
    <3>1. c' = addTask(gone, p, new)
      BY <2>1, <2>4, <2>9 DEF updatePod
    <3>2. Shown(c', p, new)
      BY <1>4, <1>8, <2>2, <2>5, <2>9, <3>1, addTaskIs
    <3> QED
      BY <1>3, <1>5, <2>9, <3>2, HandledShown
  <2> QED
    BY <2>6, <2>7, <2>8, <2>9
<1> QED
  BY <1>7, <1>8

\* Handling an event mirrors.
LEMMA HandlePodMirrors ==
    ASSUME Types, Types', World, HandlePod
    PROVE  Mirrors
<1>1. World' /\ (Ready' => Ready)
  BY HandlePodWorld
<1>2. ASSUME Mirror, Clear', NEW q \in Names PROVE MirrorOf(q)'
  <2>1. MirrorOf(q)
    BY <1>2 DEF Mirror
  <2>2. CASE q # Head(podWatch).name
    BY <2>1, <2>2, HandlePodMirror
  <2>3. CASE q = Head(podWatch).name
    <3>1. ~overtaken' /\ ~displaced' /\ Ready'
      BY <1>2 DEF Clear
    <3> QED
      BY <2>1, <2>3, <3>1, HandlePodOwn
  <2> QED
    BY <2>2, <2>3
<1> QED
  BY <1>1, <1>2 DEF Mirrors, Mirror

-----------------------------------------------------------------------------
(***************************************************************************)
(* What sessions decide.                                                   *)
(***************************************************************************)
\* A session that writes down what it decided goes on.
LEMMA SessionDecides ==
    ASSUME NEW t \in DOMAIN ssn.tasks, NEW s, s \notin {"Pending", "Running"},
           \A z \in DOMAIN ssn'.tasks : z \in DOMAIN ssn.tasks,
           \A z \in DOMAIN ssn.tasks : ssn'.tasks[z] = IF z = t THEN s ELSE ssn.tasks[z]
    PROVE  SessionGoesOn /\ \A p \in Names : SessionFollows(p)
  BY DEF SessionGoesOn, SessionFollows

\* Dispatch, but for the cache.
LEMMA DispatchIs ==
    ASSUME Types, NEW t, NEW n, Dispatch(t, n)
    PROVE  /\ t \in DOMAIN ssn.tasks /\ ssn.tasks[t] = "Pending" /\ sending = NoBind
           /\ UNCHANGED <<pod, uids, node, podWatch, nodeWatch, podSeen, errTasks, rs, bindCache,
                          binds, evictions>>
           /\ \A z \in DOMAIN ssn'.tasks : z \in DOMAIN ssn.tasks
           /\ ssn'.tasks[t] = "Allocated" /\ AddBindTask(t, n)
           /\ SessionGoesOn /\ \A p \in Names : SessionFollows(p)
<1>1. /\ t \in DOMAIN ssn.tasks /\ n \in DOMAIN ssn.nodes /\ sending = NoBind
      /\ ssn.tasks[t] = "Pending"
      /\ CanAddTask(ssn.nodes[n], t[1], "Allocated") /\ AddBindTask(t, n)
      /\ ssn' = SessionPlaced(t, "Allocated", n, AddTask(ssn.nodes[n], t[1], "Allocated"))
      /\ UNCHANGED <<api, watches, errTasks, rs, bindCache, binds, evictions>>
  BY DEF Dispatch, SessionPlaced, Free
<1>2. UNCHANGED <<pod, uids, node, podWatch, nodeWatch, podSeen>>
  BY <1>1 DEF api, watches
<1>3. /\ \A z \in DOMAIN ssn'.tasks : z \in DOMAIN ssn.tasks
      /\ \A z \in DOMAIN ssn.tasks : ssn'.tasks[z] = IF z = t THEN "Allocated" ELSE ssn.tasks[z]
  <2>1. ssn.nodes[n] \in GoodNodes /\ t[1] \in Names
    BY <1>1, SessionParts DEF Types, OwnTids, Tids
  <2>2. "Allocated" \in TaskStatuses
    BY DEF TaskStatuses
  <2>3. AddTask(ssn.nodes[n], t[1], "Allocated") \in GoodNodes
    BY <1>1, <2>1, <2>2, GoodAdd
  <2> QED
    BY <1>1, <2>2, <2>3, SessionPlacedType DEF Types
<1>4. SessionGoesOn /\ \A p \in Names : SessionFollows(p)
  BY <1>1, <1>3, SessionDecides
<1> QED
  BY <1>1, <1>2, <1>3, <1>4

\* Bindings under way stay so when one more is sent, which is under way then.
LEMMA NewBindingStays ==
    ASSUME Types, sending = NoBind, NEW f \in Entries, NEW e \in Entries,
           \/ channel' = Append(channel, f) /\ UNCHANGED sending
           \/ sending' = f /\ UNCHANGED channel,
           UNCHANGED <<errTasks, rs, bindCache, binds>>
    PROVE  (Underway(e) => Underway(e)') /\ Underway(f)'
<1>1. channel \in Seq(Entries) /\ sending # e
  BY EntryParts DEF Types, WorkerTypes
<1>2. (InBindCache(e)' <=> InBindCache(e)) /\ (InBinds(e)' <=> InBinds(e))
  BY DEF InBindCache, InBinds
<1>3. CASE channel' = Append(channel, f) /\ UNCHANGED sending
  <2>1. (InChannel(e)' <=> f = e \/ InChannel(e)) /\ InChannel(f)'
    BY <1>1, <1>3, AppendIn DEF InChannel
  <2> QED
    BY <1>1, <1>2, <2>1 DEF Underway
<1>4. CASE sending' = f /\ UNCHANGED channel
  <2>1. InChannel(e)' <=> InChannel(e)
    BY <1>4 DEF InChannel
  <2> QED
    BY <1>1, <1>2, <1>4, <2>1 DEF Underway
<1> QED
  BY <1>3, <1>4

\* A task is bound: of the cache, the task and its place.
Binds(t, n, f) ==
    /\ f \in Entries /\ f.t = t /\ f.node = n
    /\ t \in DOMAIN c.tasks /\ n \in DOMAIN c.nodes /\ c.tasks[t].node \in {"", n}
    /\ c.nodes[n].tasks[t[1]] = "None" /\ t \in OwnTids /\ n \in Nodes /\ t[1] \in Names
    /\ DecidedAs(c, c', t, BoundInfo(c.tasks[t], n), n, "Binding")
    /\ Underway(f)'
    /\ \A e \in Entries : /\ Underway(e)' => Underway(e) \/ e = f
                          /\ e # f => (Once(e) => Once(e)')
                          /\ e = f /\ ~Underway(e) => Once(e)'
                          /\ Underway(e) => Underway(e)'

\* AddBindTask does nothing, or it binds the task.
LEMMA DispatchCases ==
    ASSUME Types, NEW t, NEW n, Dispatch(t, n)
    PROVE  \/ UNCHANGED <<c, channel, sending>>
           \/ \E f : Binds(t, n, f)
<1>1. /\ sending = NoBind /\ AddBindTask(t, n) /\ UNCHANGED <<errTasks, rs, bindCache, binds>>
  BY DispatchIs
<1> SUFFICES ASSUME ~UNCHANGED <<c, channel, sending>> PROVE \E f : Binds(t, n, f)
  OBVIOUS
<1>2. PICK f : f = [t |-> t, node |-> n]
  OBVIOUS
<1>3. /\ Bindable(t, n) /\ c' = BoundCache(c, t, n) /\ f \in Entries
      /\ \/ channel' = Append(channel, f) /\ UNCHANGED sending
         \/ sending' = f /\ UNCHANGED channel
  BY <1>1, <1>2, AddBindTaskCases
<1>4. f.t = t /\ f.node = n
  BY <1>2
<1>5. /\ t \in DOMAIN c.tasks /\ n \in DOMAIN c.nodes /\ c.nodes[n].tasks[t[1]] = "None"
      /\ CanAddTask(c.nodes[n], t[1], "Binding") /\ c.tasks[t].node \in {"", n}
  BY <1>3 DEF Bindable, CanAddTask
<1>6. c \in Caches
  BY DEF Types, CacheTypes
<1>7. DecidedAs(c, c', t, BoundInfo(c.tasks[t], n), n, "Binding")
  BY <1>3, <1>5, <1>6, BoundCacheIs
<1>8. t \in OwnTids /\ n \in Nodes /\ t[1] \in Names
  BY <1>3, <1>4, EntryParts
<1>9. \A e \in Entries : /\ Underway(e)' => Underway(e) \/ e = f
                         /\ e # f => (Once(e) => Once(e)')
                         /\ e = f /\ ~Underway(e) => Once(e)'
  BY <1>1, <1>3, NewBindingMoves
<1>10. Underway(f)' /\ \A e \in Entries : Underway(e) => Underway(e)'
  BY <1>1, <1>3, NewBindingStays
<1>11. Binds(t, n, f)
  BY <1>3, <1>4, <1>5, <1>7, <1>8, <1>9, <1>10 DEF Binds
<1> QED
  BY <1>11

\* The world.
LEMMA DispatchWorld ==
    ASSUME Types, Types', World, NEW t, NEW n, Dispatch(t, n)
    PROVE  World' /\ (Ready' => Ready)
<1>1. /\ UNCHANGED <<pod, uids, node, podWatch, nodeWatch, podSeen, evictions, rs>>
      /\ SessionGoesOn
  BY DispatchIs
<1>2. EventsPast /\ EventsOrdered /\ RunningBound
  BY DEF World
<1>3. PodsAdvance /\ EventsPast' /\ EventsOrdered'
  BY <1>1, <1>2, PodsSame, EventsSame
<1>4. \A z \in DOMAIN c'.tasks : GoesOn(z)
  <2>1. CASE UNCHANGED c
    BY <2>1 DEF GoesOn
  <2>2. CASE \E f : Binds(t, n, f)
    <3>1. /\ t \in DOMAIN c.tasks /\ DOMAIN c'.tasks = DOMAIN c.tasks
          /\ c'.tasks[t] = BoundInfo(c.tasks[t], n)
          /\ \A z \in DOMAIN c.tasks : z # t => c'.tasks[z] = c.tasks[z]
      BY <2>2 DEF Binds, DecidedAs
    <3>2. c.tasks[t] \in TaskEntries
      BY <3>1, CacheParts DEF Types, CacheTypes
    <3>3. c'.tasks[t].pod = c.tasks[t].pod /\ c'.tasks[t].status = "Binding"
      BY <3>1, <3>2 DEF BoundInfo, TaskEntries
    <3> QED
      BY <3>1, <3>3 DEF GoesOn
  <2> QED
    BY <2>1, <2>2, DispatchCases
<1>5. RunningBound'
  BY <1>1, <1>2, <1>3, <1>4, RunningStays
<1>6. NodesLike(c, c')
  <2>1. CASE UNCHANGED c
    BY <2>1, NodesLikeSame
  <2>2. CASE \E f : Binds(t, n, f)
    BY <2>2 DEF Binds, DecidedAs
  <2> QED
    BY <2>1, <2>2, DispatchCases
<1> QED
  BY <1>1, <1>3, <1>5, <1>6, WorldStays

\* A task is named by its pod and the uid.
LEMMA TidPair ==
    ASSUME NEW t \in Tids
    PROVE  t = <<t[1], t[2]>>
  BY DEF Tids

\* The pod that is bound.
LEMMA DispatchOwn ==
    ASSUME Types, Types', World, NEW t, NEW n, Dispatch(t, n), NEW f, Binds(t, n, f),
           NEW p \in Names, p = t[1], MirrorOf(p)
    PROVE  MirrorOf(p)'
<1>1. /\ UNCHANGED <<pod, uids, podWatch, podSeen, evictions, rs>>
      /\ t \in DOMAIN ssn.tasks /\ ssn.tasks[t] = "Pending" /\ ssn'.tasks[t] = "Allocated"
      /\ \A z \in DOMAIN ssn'.tasks : z \in DOMAIN ssn.tasks
  BY DispatchIs
<1>2. /\ f \in Entries /\ f.t = t /\ f.node = n
      /\ t \in DOMAIN c.tasks /\ n \in DOMAIN c.nodes /\ c.tasks[t].node \in {"", n}
      /\ c.nodes[n].tasks[t[1]] = "None" /\ t \in OwnTids /\ n \in Nodes /\ Underway(f)'
  BY DEF Binds
<1>3. /\ DOMAIN c'.tasks = DOMAIN c.tasks /\ c'.tasks[t] = BoundInfo(c.tasks[t], n)
      /\ NodesLike(c, c') /\ PlaceSet(c, c', n, p, "Binding")
  BY DEF Binds, DecidedAs
<1>4. /\ BoundFirst(p) /\ AllSeen(p) /\ TaskPlace(p) /\ Unsettled(p) /\ TaskOf(p) /\ Reading(p)
  BY DEF MirrorOf
<1>5. t \in Tids /\ t[2] = podSeen[p].uid /\ podSeen[p].uid # 0 /\ n # ""
  <2>1. t \in Tids
    BY <1>2 DEF OwnTids
  <2>2. t[2] \in 1 .. MaxUid
    BY <2>1 DEF Tids
  <2>3. t[2] # 0
    BY <2>2, Bounds
  <2> QED
    BY <1>2, <1>4, <2>1, <2>3, CacheAssumption DEF TaskPlace
<1>6. Tid(p) = t /\ Tid(p)' = t
  <2>1. t = <<t[1], t[2]>>
    BY <1>5, TidPair
  <2> QED
    BY <1>1, <1>5, <2>1 DEF Tid
<1>7. Known(p) /\ Known(p)' /\ Info(p) = c.tasks[t] /\ Info(p)' = BoundInfo(c.tasks[t], n)
  BY <1>2, <1>3, <1>6 DEF Known, Info
<1>8. /\ Info(p)'.status = "Binding" /\ Info(p)'.node = n /\ Info(p)'.pod = Info(p).pod
      /\ Info(p).node \in {"", n}
  <2>1. c.tasks[t] \in TaskEntries
    BY <1>2, CacheParts DEF Types, CacheTypes
  <2>2. /\ BoundInfo(c.tasks[t], n).status = "Binding" /\ BoundInfo(c.tasks[t], n).node = n
        /\ BoundInfo(c.tasks[t], n).pod = c.tasks[t].pod
    BY <2>1 DEF BoundInfo, TaskEntries
  <2> QED
    BY <1>2, <1>7, <2>2
<1>9. (Live(p)' <=> Live(p)) /\ (Ended(p)' <=> Ended(p)) /\ (Fresh(p)' <=> Fresh(p)) /\ BoundFirst(p)'
  BY <1>1, <1>4, StandStill
<1>10. \A e \in Entries : Excuse(e)' => Excuse(e) \/ e = f
  <2> TAKE e \in Entries
  <2>1. Underway(e)' => Underway(e) \/ e = f
    BY DEF Binds
  <2> QED
    BY <1>1, <2>1 DEF Excuse, EntryOf
<1>11. AllSeen(p)'
  <2>1. SeenAll(t)
    BY <1>5, TaskSeenAll DEF World
  <2>2. \A e \in Entries : e.t[1] = p /\ Excuse(e)' => Excuse(e) \/ SeenAll(e.t)
    BY <1>2, <1>10, <2>1
  <2> QED
    BY <1>1, <1>4, <2>2, StillSeen
<1>12. ASSUME podSeen[p].node = "" PROVE Unexcused(t)
  BY <1>1, <1>4, <1>5, <1>6, <1>12 DEF Unsettled
<1>13. podSeen[p].node # "" => podSeen[p].node = n
  BY <1>4, <1>7, <1>8 DEF TaskPlace
<1>14. TaskPlace(p)'
  <2>1. \A z \in DOMAIN c'.tasks : z[1] = p => z[2] = podSeen'[p].uid
    BY <1>1, <1>3, <1>4 DEF TaskPlace
  <2>2. ASSUME NEW y \in Nodes, At(c', y, p) # "None" PROVE y = n
    <3> SUFFICES ASSUME y # n PROVE FALSE
      OBVIOUS
    <3>1. At(c, y, p) # "None" /\ y # ""
      BY <1>3, <2>2, CacheAssumption DEF PlaceSet
    <3>2. podSeen[p].node # y /\ Info(p).node # y
      BY <1>8, <1>13, <3>1
    <3>3. podSeen[p].node = "" /\ rs.step = "node" /\ rs.e = [t |-> Tid(p), node |-> y]
      BY <1>4, <3>1, <3>2 DEF TaskPlace
    <3>4. rs.e \in Entries /\ Excuse(rs.e)
      BY <3>3, ResyncBusy DEF Excuse, Underway
    <3>5. [t |-> Tid(p), node |-> y].t = Tid(p)
      OBVIOUS
    <3>6. rs.e.t = t
      BY <1>6, <3>3, <3>5, Zenon
    <3> QED
      BY <1>12, <3>3, <3>4, <3>6 DEF Unexcused
  <2>3. /\ Known(p)' /\ podSeen'[p].node # "" => Info(p)'.node = podSeen'[p].node
        /\ Known(p)' /\ Info(p)'.status = "Pending" => Info(p)'.node = ""
    BY <1>1, <1>8, <1>13
  <2>4. \A y \in Nodes : At(c', y, p) # "None" =>
          /\ podSeen'[p].uid # 0
          /\ podSeen'[p].node = y \/ (podSeen'[p].node = "" /\ Known(p)' /\ Info(p)'.node = y)
    BY <1>1, <1>5, <1>7, <1>8, <1>13, <2>2
  <2> QED
    BY <2>1, <2>3, <2>4 DEF TaskPlace
<1>15. Unsettled(p)'
  <2> SUFFICES ASSUME podSeen[p].node = "" PROVE Unsettled(p)'
    BY <1>1 DEF Unsettled
  <2>1. Unexcused(t)
    BY <1>12
  <2>2. ~Underway(f) /\ \A v \in evictions : v.t # t
    <3>1. ~Excuse(f)
      BY <1>2, <2>1 DEF Unexcused
    <3>2. ASSUME NEW v \in evictions, v.t = t PROVE FALSE
      <4>1. v \in Evictions
        BY DEF Types, WorkerTypes
      <4>2. PICK e : e = EntryOf(v)
        OBVIOUS
      <4>3. e.t = v.t /\ e \in Entries
        BY <4>1, <4>2 DEF EntryOf, Entries, Evictions
      <4>4. Excuse(e)
        BY <4>2 DEF Excuse
      <4> QED
        BY <2>1, <3>2, <4>3, <4>4 DEF Unexcused
    <3> QED
      BY <3>1, <3>2 DEF Excuse
  <2>3. Once(f)'
    BY <1>2, <2>2 DEF Binds
  <2>4. \A e \in Entries : e.t = t /\ Excuse(e)' => e = f
    BY <1>10, <2>1 DEF Unexcused
  <2>5. \A e \in Entries : e.t = t /\ Underway(e)' => e = f
    BY <2>4 DEF Excuse
  <2>6. Alone(Tid(p))'
    BY <1>1, <1>6, <2>2, <2>3, <2>5 DEF Alone
  <2>7. \A e \in Entries : e.t = Tid(p)' /\ Excuse(e)' => Info(p)'.node = e.node
    BY <1>2, <1>6, <1>8, <2>4
  <2>8. ssn'.tasks[Tid(p)'] \notin {"Pending", "Running"}
    BY <1>1, <1>6
  <2> QED
    BY <1>7, <1>8, <2>6, <2>7, <2>8 DEF Unsettled
<1>16. TaskOf(p)'
  <2> SUFFICES ASSUME Live(p)
               PROVE  /\ pod[p].node # "" => n = pod[p].node \/ Ended(p)
                      /\ Info(p).pod.evicted = TRUE => /\ pod[p].node # ""
                                                       /\ ~Fresh(p) \/ podSeen[p].evicted = TRUE
                      /\ \A e \in Entries : e.t = t /\ Excuse(e)' /\ pod[p].node # "" =>
                           e.node = pod[p].node \/ Ended(p)
    BY <1>1, <1>2, <1>6, <1>7, <1>8, <1>9 DEF TaskOf, isTerminated
  <2>1. pod[p].node # "" => n = pod[p].node \/ Ended(p)
    BY <1>4, <1>8 DEF TaskOf
  <2>2. Info(p).pod.evicted = TRUE => /\ pod[p].node # ""
                                      /\ ~Fresh(p) \/ podSeen[p].evicted = TRUE
    BY <1>4 DEF TaskOf
  <2>3. ASSUME NEW e \in Entries, e.t = t, Excuse(e)', pod[p].node # ""
        PROVE  e.node = pod[p].node \/ Ended(p)
    <3>1. CASE e = f
      BY <1>2, <2>1, <2>3, <3>1
    <3>2. CASE Excuse(e)
      BY <1>4, <1>6, <2>3, <3>2 DEF TaskOf
    <3> QED
      BY <1>10, <2>3, <3>1, <3>2
  <2> QED
    BY <2>1, <2>2, <2>3
<1>17. NodeOfTask(p)'
  <2>1. n \in DOMAIN c'.nodes /\ At(c', n, p) = "Binding"
    BY <1>2, <1>3 DEF NodesLike, PlaceSet
  <2> QED
    BY <1>8, <2>1 DEF NodeOfTask, isTerminated
<1>18. Agrees(p)'
  <2>1. Pending(p)'
    BY <1>2, <1>6, <1>8 DEF Pending, Waits
  <2> QED
    BY <2>1 DEF Agrees, Excused
<1>19. Reading(p)'
  BY <1>1, <1>4, <1>9 DEF Reading, Reads, Past
<1> QED
  BY <1>9, <1>11, <1>14, <1>15, <1>16, <1>17, <1>18, <1>19 DEF MirrorOf

\* AddBindTask mirrors.
LEMMA DispatchMirrors ==
    ASSUME Types, Types', World, NEW t, NEW n, Dispatch(t, n)
    PROVE  Mirrors
<1>1. /\ UNCHANGED <<pod, uids, node, podWatch, nodeWatch, podSeen, errTasks, rs, bindCache,
                     binds, evictions>>
      /\ SessionGoesOn /\ \A p \in Names : SessionFollows(p)
  BY DispatchIs
<1>2. CASE UNCHANGED <<c, channel, sending>>
  <2>1. \A e \in Entries : MovesOn(e)
    BY <1>1, <1>2, WorkersSameOn
  <2>2. Plainly
    BY <1>1, <2>1 DEF Plainly
  <2> QED
    BY <1>1, <1>2, <2>2, PlainlySame
<1>3. ASSUME NEW f, Binds(t, n, f) PROVE Mirrors
  <2>1. World' /\ (Ready' => Ready)
    BY DispatchWorld
  <2>2. ASSUME Mirror, NEW q \in Names PROVE MirrorOf(q)'
    <3>1. MirrorOf(q) /\ t[1] \in Names
      BY <1>3, <2>2 DEF Mirror, Binds
    <3>2. CASE q = t[1]
      BY <1>3, <3>1, <3>2, DispatchOwn
    <3>3. CASE q # t[1]
      <4>1. PICK p \in Names : p = t[1]
        BY <3>1
      <4>2. NodesLike(c, c') /\ OthersAlike(c, c', p)
        BY <1>3, <4>1 DEF Binds, DecidedAs
      <4>3. EventsFollow(q)
        BY <1>1, FollowSame DEF World
      <4>4. ASSUME NEW e \in Entries, e.t[1] = q PROVE Moves(e) /\ (Underway(e) => Underway(e)')
        <5>1. e # f
          BY <1>3, <3>3, <4>4 DEF Binds
        <5> QED
          BY <1>3, <5>1 DEF Binds, Moves
      <4>5. ExcusesStay(q)
        BY <1>1, <4>4, ExcusesSame
      <4>6. ResyncStays(q) /\ SessionFollows(q)
        BY <1>1 DEF ResyncStays
      <4> QED
        BY <1>1, <3>1, <3>3, <4>1, <4>2, <4>3, <4>5, <4>6, OthersMirror
    <3> QED
      BY <3>2, <3>3
  <2> QED
    BY <2>1, <2>2 DEF Mirrors, Mirror
<1> QED
  BY <1>2, <1>3, DispatchCases

\* A task is evicted: of the cache, the task and its place.
Evicts(t, v) ==
    /\ v = [t |-> t, node |-> c.tasks[t].node, pod |-> c.tasks[t].pod, step |-> "status"]
    /\ evictions' = evictions \cup {v} /\ v \in Evictions
    /\ t \in DOMAIN c.tasks /\ c.tasks[t].node \in DOMAIN c.nodes
    /\ t \in OwnTids /\ t[1] \in Names
    /\ DecidedAs(c, c', t, EvictedInfo(c.tasks[t]), c.tasks[t].node, "Releasing")

\* Evict, when the process survives it.
LEMMA EvictIs ==
    ASSUME Types, Types', NEW t, Evict(t), ~Reboot
    PROVE  /\ t \in DOMAIN ssn.tasks /\ ssn.tasks[t] = "Running"
           /\ UNCHANGED <<pod, uids, node, podWatch, nodeWatch, podSeen, errTasks, rs, sending,
                          channel, bindCache, binds>>
           /\ \A z \in DOMAIN ssn'.tasks : z \in DOMAIN ssn.tasks
           /\ ssn'.tasks[t] = "Releasing"
           /\ SessionGoesOn /\ \A p \in Names : SessionFollows(p)
           /\ UNCHANGED <<c, evictions>> \/ \E v : Evicts(t, v)
<1>1. /\ t \in DOMAIN ssn.tasks /\ ssn.tasks[t] = "Running" /\ UNCHANGED api
      /\ ssn' = SessionTask(t, "Releasing")
      /\ UNCHANGED <<watches, errTasks, rs, sending, channel, bindCache, binds>>
  BY EvictCases
<1>2. UNCHANGED <<pod, uids, node, podWatch, nodeWatch, podSeen>>
  BY <1>1 DEF api, watches
<1>3. /\ \A z \in DOMAIN ssn'.tasks : z \in DOMAIN ssn.tasks
      /\ \A z \in DOMAIN ssn.tasks : ssn'.tasks[z] = IF z = t THEN "Releasing" ELSE ssn.tasks[z]
  <2>1. "Releasing" \in TaskStatuses \cup {"Unschedulable"}
    BY DEF TaskStatuses
  <2> QED
    BY <1>1, <2>1, SessionTaskType DEF Types
<1>4. SessionGoesOn /\ \A p \in Names : SessionFollows(p)
  BY <1>1, <1>3, SessionDecides
<1>5. ASSUME ~UNCHANGED <<c, evictions>> PROVE \E v : Evicts(t, v)
  <2>1. PICK v : v = [t |-> t, node |-> c.tasks[t].node, pod |-> c.tasks[t].pod,
                      step |-> "status"]
    OBVIOUS
  <2>2. /\ t \in DOMAIN c.tasks /\ c.tasks[t].node \in DOMAIN c.nodes
        /\ CanUpdateTask(c.nodes[c.tasks[t].node], t[1], "Releasing")
        /\ c' = EvictedCache(c, t) /\ evictions' = evictions \cup {v}
    BY <1>5, <2>1, EvictCases
  <2>3. c \in Caches
    BY DEF Types, CacheTypes
  <2>4. DecidedAs(c, c', t, EvictedInfo(c.tasks[t]), c.tasks[t].node, "Releasing")
    BY <2>2, <2>3, EvictedCacheIs
  <2>5. t \in OwnTids
    BY <2>2, <2>3, CacheParts
  <2>6. t[1] \in Names
    BY <2>5 DEF OwnTids, Tids
  <2>7. v \in Evictions
    BY <2>2 DEF Types, WorkerTypes
  <2>8. Evicts(t, v)
    BY <2>1, <2>2, <2>4, <2>5, <2>6, <2>7 DEF Evicts
  <2> QED
    BY <2>8
<1> QED
  BY <1>1, <1>2, <1>3, <1>4, <1>5

\* The world.
LEMMA EvictWorld ==
    ASSUME Types, Types', World, NEW t, Evict(t), ~Reboot, NEW v, Evicts(t, v)
    PROVE  World' /\ (Ready' => Ready)
<1>1. /\ UNCHANGED <<pod, uids, node, podWatch, nodeWatch, podSeen, rs>>
      /\ SessionGoesOn /\ t \in DOMAIN ssn.tasks /\ ssn.tasks[t] = "Running"
  BY EvictIs
<1>2. EventsPast /\ EventsOrdered /\ RunningBound
  BY DEF World
<1>3. PodsAdvance /\ EventsPast' /\ EventsOrdered'
  BY <1>1, <1>2, PodsSame, EventsSame
<1>4. /\ t \in DOMAIN c.tasks /\ DOMAIN c'.tasks = DOMAIN c.tasks
      /\ c'.tasks[t] = EvictedInfo(c.tasks[t]) /\ NodesLike(c, c')
      /\ \A z \in DOMAIN c.tasks : z # t => c'.tasks[z] = c.tasks[z]
  BY DEF Evicts, DecidedAs
<1>5. c'.tasks[t].pod = c.tasks[t].pod
  <2>1. c.tasks[t] \in TaskEntries
    BY <1>4, CacheParts DEF Types, CacheTypes
  <2> QED
    BY <1>4, <2>1 DEF EvictedInfo, TaskEntries
<1>6. TaskRuns(t, c.tasks[t]) /\ (t[2] = pod[t[1]].uid => pod[t[1]].node # "")
  BY <1>1, <1>2, <1>4 DEF RunningBound, SessionKnown
<1>7. TaskRuns(t, c.tasks[t])'
  BY <1>1, <1>5, <1>6 DEF TaskRuns
<1>8. v.t = t /\ v.pod = c.tasks[t].pod /\ evictions' = evictions \cup {v}
  BY DEF Evicts
<1>9. EvictionRuns(v)'
  BY <1>1, <1>6, <1>8 DEF EvictionRuns, TaskRuns
<1>10. \A z \in DOMAIN c'.tasks : GoesOn(z) \/ TaskRuns(z, c.tasks[z])'
  <2> TAKE z \in DOMAIN c'.tasks
  <2>1. CASE z = t
    BY <1>7, <2>1
  <2>2. CASE z # t
    BY <1>4, <2>2 DEF GoesOn
  <2> QED
    BY <2>1, <2>2
<1>11. \A w \in evictions' : (\E x \in evictions : w.t = x.t /\ w.pod = x.pod) \/ EvictionRuns(w)'
  BY <1>8, <1>9
<1>12. RunningBound'
  BY <1>1, <1>2, <1>3, <1>10, <1>11, RunningStays
<1> QED
  BY <1>1, <1>3, <1>4, <1>12, WorldStays

\* The excuses of the task that is evicted.
LEMMA EvictExcuses ==
    ASSUME Types, Types', NEW t, Evict(t), ~Reboot, NEW v, Evicts(t, v), NEW f, f = EntryOf(v)
    PROVE  /\ f \in Entries /\ f.t = t /\ f.node = c.tasks[t].node
           /\ \A e \in Entries : /\ Underway(e)' <=> Underway(e)
                                 /\ Once(e) => Once(e)'
                                 /\ Excuse(e)' => Excuse(e) \/ e = f
           /\ v.pod.evicted = FALSE => Waits(f)'
<1>1. /\ v.t = t /\ v.node = c.tasks[t].node /\ evictions' = evictions \cup {v}
      /\ v \in Evictions
  BY DEF Evicts
<1>2. f \in Entries
  BY <1>1 DEF EntryOf, Entries, Evictions
<1>3. f.t = v.t /\ f.node = v.node
  BY DEF EntryOf
<1>4. UNCHANGED <<errTasks, rs, sending, channel, bindCache, binds>>
  BY EvictIs
<1>5. ASSUME NEW e \in Entries
      PROVE  (Underway(e)' <=> Underway(e)) /\ (Once(e) => Once(e)')
  BY <1>4, WorkersSameOn DEF MovesOn, Moves
<1>6. ASSUME NEW e \in Entries PROVE Excuse(e)' => Excuse(e) \/ e = f
  <2>1. Excuse(e)' <=> Underway(e)' \/ \E w \in evictions' : EntryOf(w) = e
    BY DEF Excuse, EntryOf
  <2> QED
    BY <1>1, <1>5, <2>1 DEF Excuse
<1>7. v.pod.evicted = FALSE => Waits(f)'
  <2>1. Waits(f)' <=> Underway(f)' \/ \E w \in evictions' : EntryOf(w) = f /\ Answers(w)
    BY DEF Waits, EntryOf, Answers
  <2> QED
    BY <1>1, <2>1 DEF Answers
<1> QED
  BY <1>1, <1>2, <1>3, <1>5, <1>6, <1>7

\* The pod that is evicted.
LEMMA EvictOwn ==
    ASSUME Types, Types', World, NEW t, Evict(t), ~Reboot, NEW v, Evicts(t, v),
           NEW p \in Names, p = t[1], MirrorOf(p)
    PROVE  MirrorOf(p)'
<1>1. /\ UNCHANGED <<pod, uids, podWatch, podSeen, rs>>
      /\ t \in DOMAIN ssn.tasks /\ ssn.tasks[t] = "Running" /\ ssn'.tasks[t] = "Releasing"
      /\ \A z \in DOMAIN ssn'.tasks : z \in DOMAIN ssn.tasks
  BY EvictIs
<1>2. PICK m : m = c.tasks[t].node
  OBVIOUS
<1>3. /\ v.t = t /\ v.pod = c.tasks[t].pod /\ v \in Evictions /\ evictions' = evictions \cup {v}
      /\ t \in DOMAIN c.tasks /\ m \in DOMAIN c.nodes /\ t \in OwnTids
      /\ DOMAIN c'.tasks = DOMAIN c.tasks /\ c'.tasks[t] = EvictedInfo(c.tasks[t])
      /\ NodesLike(c, c') /\ PlaceSet(c, c', m, p, "Releasing")
  BY <1>2 DEF Evicts, DecidedAs
<1>4. PICK f : f = EntryOf(v)
  OBVIOUS
<1>5. /\ f \in Entries /\ f.t = t /\ f.node = m
      /\ \A e \in Entries : /\ Underway(e)' <=> Underway(e)
                            /\ Once(e) => Once(e)'
                            /\ Excuse(e)' => Excuse(e) \/ e = f
      /\ v.pod.evicted = FALSE => Waits(f)'
  BY <1>2, <1>4, EvictExcuses
<1>6. /\ BoundFirst(p) /\ AllSeen(p) /\ TaskPlace(p) /\ Unsettled(p) /\ TaskOf(p) /\ Reading(p)
  BY DEF MirrorOf
<1>7. t \in Tids /\ t[2] = podSeen[p].uid /\ podSeen[p].uid # 0 /\ m \in Nodes /\ m # ""
  <2>1. t \in Tids
    BY <1>3 DEF OwnTids
  <2>2. t[2] \in 1 .. MaxUid
    BY <2>1 DEF Tids
  <2>3. t[2] # 0
    BY <2>2, Bounds
  <2>4. m \in Nodes
    BY <1>3, CacheParts DEF Types, CacheTypes
  <2> QED
    BY <1>3, <1>6, <2>1, <2>3, <2>4, CacheAssumption DEF TaskPlace
<1>8. Tid(p) = t /\ Tid(p)' = t
  <2>1. t = <<t[1], t[2]>>
    BY <1>7, TidPair
  <2> QED
    BY <1>1, <1>7, <2>1 DEF Tid
<1>9. Known(p) /\ Known(p)' /\ Info(p) = c.tasks[t] /\ Info(p)' = EvictedInfo(c.tasks[t])
  BY <1>3, <1>8 DEF Known, Info
<1>10. /\ Info(p)'.status = "Releasing" /\ Info(p)'.node = m /\ Info(p)'.pod = Info(p).pod
       /\ Info(p).node = m /\ Info(p).pod \in PodObjects
  <2>1. c.tasks[t] \in TaskEntries
    BY <1>3, CacheParts DEF Types, CacheTypes
  <2>2. /\ EvictedInfo(c.tasks[t]).status = "Releasing"
        /\ EvictedInfo(c.tasks[t]).node = c.tasks[t].node
        /\ EvictedInfo(c.tasks[t]).pod = c.tasks[t].pod
        /\ c.tasks[t].pod \in PodObjects
    BY <2>1 DEF EvictedInfo, TaskEntries
  <2> QED
    BY <1>2, <1>9, <2>2
<1>11. (Live(p)' <=> Live(p)) /\ (Ended(p)' <=> Ended(p)) /\ (Fresh(p)' <=> Fresh(p)) /\ BoundFirst(p)'
  BY <1>1, <1>6, StandStill
<1>12. AllSeen(p)'
  <2>1. SeenAll(t)
    BY <1>7, TaskSeenAll DEF World
  <2>2. \A e \in Entries : e.t[1] = p /\ Excuse(e)' => Excuse(e) \/ SeenAll(e.t)
    BY <1>5, <2>1
  <2> QED
    BY <1>1, <1>6, <2>2, StillSeen
<1>13. TaskPlace(p)'
  <2>1. \A z \in DOMAIN c'.tasks : z[1] = p => z[2] = podSeen'[p].uid
    BY <1>1, <1>3, <1>6 DEF TaskPlace
  <2>2. podSeen[p].node # "" => podSeen[p].node = m
    BY <1>6, <1>9, <1>10 DEF TaskPlace
  <2>3. /\ Known(p)' /\ podSeen'[p].node # "" => Info(p)'.node = podSeen'[p].node
        /\ Known(p)' /\ Info(p)'.status = "Pending" => Info(p)'.node = ""
    BY <1>1, <1>10, <2>2
  <2>4. ASSUME NEW y \in Nodes, At(c', y, p) # "None"
        PROVE  /\ podSeen'[p].uid # 0
               /\ \/ podSeen'[p].node = y
                  \/ /\ podSeen'[p].node = ""
                     /\ \/ Known(p)' /\ Info(p)'.node = y
                        \/ rs'.step = "node" /\ rs'.e = [t |-> Tid(p)', node |-> y]
    <3>1. CASE y = m
      BY <1>1, <1>7, <1>9, <1>10, <2>2, <3>1
    <3>2. CASE y # m
      <4>1. At(c, y, p) # "None"
        BY <1>3, <2>4, <3>2 DEF PlaceSet
      <4>2. \/ podSeen[p].node = y
            \/ podSeen[p].node = "" /\ rs.step = "node" /\ rs.e = [t |-> Tid(p), node |-> y]
        BY <1>6, <1>10, <3>2, <4>1 DEF TaskPlace
      <4> QED
        BY <1>1, <1>7, <1>8, <4>2
    <3> QED
      BY <3>1, <3>2
  <2> QED
    BY <2>1, <2>3, <2>4 DEF TaskPlace
<1>14. Unsettled(p)'
  <2> SUFFICES ASSUME podSeen[p].node = "" PROVE Unsettled(p)'
    BY <1>1 DEF Unsettled
  <2>1. Unexcused(t)
    BY <1>1, <1>6, <1>7, <1>8 DEF Unsettled
  <2>2. ASSUME NEW w \in evictions, w.t = t PROVE FALSE
    <3>1. w \in Evictions
      BY DEF Types, WorkerTypes
    <3>2. PICK e : e = EntryOf(w)
      OBVIOUS
    <3>3. e.t = w.t /\ e \in Entries
      BY <3>1, <3>2 DEF EntryOf, Entries, Evictions
    <3>4. Excuse(e)
      BY <3>2 DEF Excuse
    <3> QED
      BY <2>1, <2>2, <3>3, <3>4 DEF Unexcused
  <2>3. \A e \in Entries : e.t = t => ~Underway(e)'
    BY <1>5, <2>1 DEF Unexcused, Excuse
  <2>4. \A e \in Entries : e.t = t /\ Excuse(e)' => e = f
    BY <1>5, <2>1 DEF Unexcused
  <2>5. \A w, x \in evictions' : w.t = t /\ x.t = t => w = x
    BY <1>3, <2>2
  <2>6. Alone(Tid(p))'
    BY <1>8, <2>3, <2>5 DEF Alone
  <2>7. \A e \in Entries : e.t = Tid(p)' /\ Excuse(e)' => Info(p)'.node = e.node
    BY <1>5, <1>8, <1>10, <2>4
  <2>8. ssn'.tasks[Tid(p)'] \notin {"Pending", "Running"}
    BY <1>1, <1>8
  <2> QED
    BY <1>9, <1>10, <2>6, <2>7, <2>8 DEF Unsettled
<1>15. Live(p) => pod[p].node # ""
  BY <1>1, <1>7 DEF Live, World, RunningBound, SessionKnown
<1>16. TaskOf(p)'
  <2> SUFFICES ASSUME Live(p)
               PROVE  /\ pod[p].node # ""
                      /\ m = pod[p].node \/ Ended(p)
                      /\ Info(p).pod.evicted = TRUE => /\ pod[p].node # ""
                                                       /\ ~Fresh(p) \/ podSeen[p].evicted = TRUE
                      /\ \A e \in Entries : e.t = t /\ Excuse(e)' => e.node = pod[p].node \/ Ended(p)
    BY <1>1, <1>8, <1>9, <1>10, <1>11 DEF TaskOf, isTerminated
  <2>1. pod[p].node # "" /\ (m = pod[p].node \/ Ended(p))
    BY <1>6, <1>10, <1>15 DEF TaskOf
  <2>2. Info(p).pod.evicted = TRUE => /\ pod[p].node # ""
                                      /\ ~Fresh(p) \/ podSeen[p].evicted = TRUE
    BY <1>6 DEF TaskOf
  <2>3. ASSUME NEW e \in Entries, e.t = t, Excuse(e)'
        PROVE  e.node = pod[p].node \/ Ended(p)
    <3>1. CASE e = f
      BY <1>5, <2>1, <3>1
    <3>2. CASE Excuse(e)
      BY <1>6, <1>8, <2>1, <2>3, <3>2 DEF TaskOf
    <3> QED
      BY <1>5, <2>3, <3>1, <3>2
  <2> QED
    BY <2>1, <2>2, <2>3
<1>17. NodeOfTask(p)'
  <2>1. m \in DOMAIN c'.nodes /\ At(c', m, p) = "Releasing"
    BY <1>3 DEF NodesLike, PlaceSet
  <2> QED
    BY <1>10, <2>1 DEF NodeOfTask, isTerminated
<1>18. Agrees(p)'
  <2> SUFFICES ASSUME Live(p) PROVE Excused(p)'
    BY <1>11 DEF Agrees
  <2>1. CASE Info(p).pod.evicted = TRUE
    <3>1. ~Fresh(p) \/ podSeen[p].evicted = TRUE
      BY <1>6, <2>1 DEF TaskOf
    <3>2. Fresh(p) => podSeen[p] = pod[p]
      BY DEF World, EventsOrdered
    <3>3. ~Fresh(p)' \/ pod'[p].evicted = TRUE
      BY <1>1, <1>11, <3>1, <3>2
    <3> QED
      BY <3>3 DEF Excused
  <2>2. CASE Info(p).pod.evicted # TRUE
    <3>1. Info(p).pod.evicted \in BOOLEAN
      BY <1>10 DEF PodObjects
    <3>2. v.pod.evicted = FALSE
      BY <1>3, <1>9, <2>2, <3>1
    <3>3. Waits(f)'
      BY <1>5, <3>2
    <3>4. Pending(p)'
      BY <1>5, <1>8, <1>10, <3>3 DEF Pending
    <3> QED
      BY <3>4 DEF Excused
  <2> QED
    BY <2>1, <2>2
<1>19. Reading(p)'
  BY <1>1, <1>6, <1>11 DEF Reading, Reads, Past
<1> QED
  BY <1>11, <1>12, <1>13, <1>14, <1>16, <1>17, <1>18, <1>19 DEF MirrorOf

\* Evict mirrors.
LEMMA EvictMirrors ==
    ASSUME Types, Types', World, NEW t, Evict(t), ~Reboot
    PROVE  Mirrors
<1>1. /\ UNCHANGED <<pod, uids, node, podWatch, nodeWatch, podSeen, errTasks, rs, sending,
                     channel, bindCache, binds>>
      /\ SessionGoesOn /\ \A p \in Names : SessionFollows(p)
  BY EvictIs
<1>2. \A e \in Entries : MovesOn(e)
  BY <1>1, WorkersSameOn
<1>3. CASE UNCHANGED <<c, evictions>>
  <2>1. Plainly
    BY <1>1, <1>2, <1>3 DEF Plainly
  <2> QED
    BY <1>1, <1>3, <2>1, PlainlySame
<1>4. ASSUME NEW v, Evicts(t, v) PROVE Mirrors
  <2>1. World' /\ (Ready' => Ready)
    BY <1>4, EvictWorld
  <2>2. ASSUME Mirror, NEW q \in Names PROVE MirrorOf(q)'
    <3>1. MirrorOf(q) /\ t[1] \in Names /\ v.t = t /\ evictions' = evictions \cup {v}
      BY <1>4, <2>2 DEF Mirror, Evicts
    <3>2. CASE q = t[1]
      BY <1>4, <3>1, <3>2, EvictOwn
    <3>3. CASE q # t[1]
      <4>1. PICK p \in Names : p = t[1]
        BY <3>1
      <4>2. NodesLike(c, c') /\ OthersAlike(c, c', p)
        BY <1>4, <4>1 DEF Evicts, DecidedAs
      <4>3. EventsFollow(q)
        BY <1>1, FollowSame DEF World
      <4>4. \A w : w.t[1] = q => (w \in evictions' <=> w \in evictions)
        BY <3>1, <3>3
      <4>5. ExcusesStay(q)
        BY <1>2, <4>4, ExcusesSame DEF MovesOn
      <4>6. ResyncStays(q) /\ SessionFollows(q)
        BY <1>1 DEF ResyncStays
      <4> QED
        BY <1>1, <3>1, <3>3, <4>1, <4>2, <4>3, <4>5, <4>6, OthersMirror
    <3> QED
      BY <3>2, <3>3
  <2> QED
    BY <2>1, <2>2 DEF Mirrors, Mirror
<1> QED
  BY <1>3, <1>4, EvictIs

-----------------------------------------------------------------------------
(***************************************************************************)
(* The beginning, and a restart.                                           *)
(***************************************************************************)
\* The process has just started.
Started ==
    /\ c = EmptyCache /\ ssn = NoSession /\ podSeen = [p \in Names |-> NoPod]
    /\ errTasks = {} /\ rs = Idle /\ sending = NoBind
    /\ channel = <<>> /\ bindCache = <<>> /\ binds = {} /\ evictions = {}
    /\ \A i \in DOMAIN podWatch : podWatch[i].obj = pod[podWatch[i].name]

\* There is nothing to mirror then.
LEMMA StartedMirrors == Started => Mirror
<1> SUFFICES ASSUME Started, NEW p \in Names PROVE MirrorOf(p)
  BY DEF Mirror
<1>1. DOMAIN c.nodes = {} /\ DOMAIN c.tasks = {} /\ DOMAIN ssn.tasks = {}
  BY PartialEmpty DEF Started, EmptyCache, NoSession
<1>2. podSeen[p].uid = 0 /\ rs.step = "idle" /\ rs = Idle
  BY NoPodIs DEF Started, Idle
<1>3. \A e \in Entries : ~Excuse(e)
  <2> TAKE e \in Entries
  <2>1. sending # e /\ rs.e # e /\ e \notin errTasks /\ binds = {} /\ evictions = {}
    BY EntryParts DEF Started, Idle
  <2>2. DOMAIN channel = {} /\ DOMAIN bindCache = {}
    BY DEF Started
  <2> QED
    BY <2>1, <2>2 DEF Excuse, Underway, InChannel, InBindCache, InBinds
<1>4. ~Live(p) /\ ~Known(p) /\ ~Reads(p)
  BY <1>1, <1>2 DEF Live, Known, Reads
<1>5. BoundFirst(p)
  BY DEF BoundFirst, Started
<1>6. AllSeen(p) /\ TaskPlace(p)
  BY <1>1, <1>3, <1>4 DEF AllSeen, TaskPlace, At
<1>7. Unsettled(p) /\ TaskOf(p) /\ NodeOfTask(p) /\ Agrees(p) /\ Reading(p)
  BY <1>2, <1>4 DEF Unsettled, TaskOf, NodeOfTask, Agrees, Reading
<1> QED
  BY <1>5, <1>6, <1>7 DEF MirrorOf

\* So after a restart.
LEMMA RebootMirrors ==
    ASSUME Types, World, Reboot, UNCHANGED api
    PROVE  Mirror'
<1>1. Started'
  <2>1. UNCHANGED pod /\ podWatch' = Listed({p \in Names : pod[p].uid # 0}, PodEvent)
    BY DEF Reboot, api
  <2>2. PICK S \in SUBSET Names : S = {p \in Names : pod[p].uid # 0}
    OBVIOUS
  <2>3. podWatch' = Listed(S, PodEvent)
    BY <2>1, <2>2
  <2>4. \A i \in DOMAIN podWatch' : podWatch'[i].obj = pod[podWatch'[i].name]
    BY <2>3, PodListIs DEF Types
  <2> QED
    BY <2>1, <2>4 DEF Reboot, Started
<1> QED
  BY <1>1, StartedMirrors, PTL

\* Initially.
LEMMA InitMirrors == Init => World /\ Mirror
<1> SUFFICES ASSUME Init PROVE World /\ Mirror
  OBVIOUS
<1>1. Types
  BY InitTypes
<1>2. /\ DOMAIN c.nodes = {} /\ DOMAIN c.tasks = {} /\ DOMAIN ssn.tasks = {}
  BY PartialEmpty DEF Init, EmptyCache, NoSession
<1>3. PICK S \in SUBSET Names : S = scenario.pods
  BY CacheAssumption DEF Init
<1>4. podWatch = Listed(S, PodEvent)
  BY <1>3 DEF Init
<1>5. /\ \A i \in DOMAIN podWatch : podWatch[i].obj = pod[podWatch[i].name]
      /\ \A i \in DOMAIN podWatch : podWatch[i].name \in Names
      /\ \A i, j \in DOMAIN podWatch : podWatch[i].name = podWatch[j].name => i = j
      /\ \A p \in S : \E i \in DOMAIN podWatch : podWatch[i].name = p
  BY <1>1, <1>4, PodListIs DEF Types
<1>6. Mirror
  <2>1. Started
    BY <1>5 DEF Init, Started
  <2> QED
    BY <2>1, StartedMirrors
<1>7. EventsPast /\ SessionKnown
  BY InitKept DEF Kept
<1>8. NodesArrive
  <2>1. \A n \in Nodes : node[n] = Full(n)
    BY DEF Init, Full
  <2>2. PICK T \in SUBSET Nodes : T = Nodes
    OBVIOUS
  <2>3. /\ nodeWatch \in Seq(NodeEvents)
        /\ \A i \in DOMAIN nodeWatch :
             nodeWatch[i].obj = node[nodeWatch[i].name] /\ nodeWatch[i].new = TRUE
        /\ \A i, j \in DOMAIN nodeWatch : nodeWatch[i].name = nodeWatch[j].name => i = j
        /\ \A n \in Nodes : \E i \in DOMAIN nodeWatch : nodeWatch[i].name = n
    <3> PICK L : L = nodeWatch
      OBVIOUS
    <3>1. L = Listed(T, NodeEvent) /\ ApiTypes
      BY <1>1, <2>2 DEF Init, Types
    <3>2. L \in Seq(NodeEvents)
      BY <3>1, NodeListIs, Zenon
    <3>3. \A i \in DOMAIN L :
            L[i].obj = node[L[i].name] /\ L[i].new = TRUE
      BY <3>1, NodeListIs, Zenon
    <3>4. \A i, j \in DOMAIN L : L[i].name = L[j].name => i = j
      BY <3>1, NodeListIs, Zenon
    <3>5. \A n \in T : \E i \in DOMAIN L : L[i].name = n
      BY <3>1, NodeListIs, Zenon
    <3> QED
      BY <2>2, <3>2, <3>3, <3>4, <3>5
  <2>4. \A x \in NodeEvents : x.name \in Nodes
    BY DEF NodeEvents
  <2>5. \A i \in DOMAIN nodeWatch : nodeWatch[i].name \in Nodes
    BY <2>3, <2>4
  <2> QED
    BY <1>2, <2>1, <2>3, <2>5 DEF NodesArrive
<1>9. RunningBound
  <2>1. evictions = {} /\ rs.step = "idle"
    BY DEF Init, Idle
  <2> QED
    BY <1>2, <1>7, <2>1 DEF RunningBound
<1>10. EventsOrdered
  <2>1. \A p \in Names : /\ pod[p].uid = uids[p] /\ pod[p].node = "" /\ pod[p].evicted = FALSE
                         /\ podSeen[p] = NoPod
    BY DEF Init, NoPod
  <2>2. \A p \in Names : pod[p].uid = 0 => pod[p] = NoPod
    BY DEF Init, NoPod
  <2>3. \A p \in Names : p \notin S => pod[p].uid = 0
    BY <1>3 DEF Init, NoPod
  <2>4. NoPod.evicted = FALSE
    BY DEF NoPod
  <2>5. \A p \in Names : Sane(p, pod[p]) /\ Sane(p, podSeen[p])
    BY <2>1, <2>2, <2>4, NoPodIs DEF Sane
  <2>6. \A p \in Names : Fresh(p) => podSeen[p] = pod[p]
    BY <1>5, <2>1, <2>2, <2>3 DEF Fresh
  <2>7. \A i \in DOMAIN podWatch : Later(podSeen[podWatch[i].name], podWatch[i].obj)
    BY <1>5, <2>1, NoPodIs DEF Later
  <2>8. \A i, j \in DOMAIN podWatch : i < j => podWatch[i].name # podWatch[j].name
    <3> SUFFICES ASSUME NEW i \in DOMAIN podWatch, NEW j \in DOMAIN podWatch, i < j, i = j
                 PROVE  FALSE
      BY <1>5
    <3>1. i \in Nat
      BY <1>1 DEF Types, WatchTypes
    <3> QED
      BY <3>1
  <2> QED
    BY <1>5, <2>5, <2>6, <2>7, <2>8 DEF EventsOrdered
<1> QED
  BY <1>6, <1>7, <1>8, <1>9, <1>10 DEF World

-----------------------------------------------------------------------------
(***************************************************************************)
(* Every step.                                                             *)
(***************************************************************************)
\* What is out of date stays so, but for a restart.
Ages == /\ UNCHANGED scenario /\ (overtaken => overtaken') /\ (displaced => displaced')
        /\ orphans' = {} => orphans = {}

\* Every step but a restart ages so.
LEMMA NextAges ==
    ASSUME Types, [Next]_vars
    PROVE  Ages \/ (Reboot /\ UNCHANGED <<api, scenario>>)
<1>1. ASSUME UNCHANGED <<history, scenario, orphans>>
      PROVE  Ages
  BY <1>1 DEF Ages, history
<1>2. ASSUME UNCHANGED <<history, scenario, cleaning>>
      PROVE  Ages
  BY <1>1, <1>2 DEF cleaning
<1>3. ASSUME HandlePod
      PROVE  Ages
  BY <1>3 DEF HandlePod, Ages
<1>4. ASSUME updateTask
      PROVE  Ages
  <2>1. /\ UNCHANGED <<cleaning, scenario>>
        /\ (overtaken => overtaken') /\ (displaced => displaced')
    BY <1>4 DEF updateTask
  <2> QED
    BY <2>1 DEF Ages, cleaning
<1>5. ASSUME NEW t, Evict(t)
      PROVE  Ages \/ (Reboot /\ UNCHANGED <<api, scenario>>)
  <2>1. UNCHANGED <<api, overtaken, displaced, scenario>> /\ (Reboot \/ UNCHANGED cleaning)
    BY <1>5 DEF Evict
  <2> QED
    BY <2>1 DEF Ages, cleaning
<1>6. ASSUME Crash
      PROVE  Reboot /\ UNCHANGED <<api, scenario>>
  BY <1>6 DEF Crash
<1>7. ASSUME HandleNode \/ HandleGroup \/ \E e : CleanupDue(e)
      PROVE  Ages
  BY <1>1, <1>2, <1>7 DEF HandleNode, HandleGroup, CleanupDue
<1>8. ASSUME NEW e, processCleanupJob(e)
      PROVE  Ages
  <2>1. UNCHANGED <<history, scenario>> /\ orphans \subseteq orphans'
    BY <1>8 DEF processCleanupJob
  <2> QED
    BY <2>1 DEF Ages, history
<1>9. ASSUME Snapshot \/ CloseSession \/ Sent
      PROVE  Ages
  BY <1>2, <1>9 DEF Snapshot, CloseSession, Sent
<1>10. ASSUME NEW t, taskUnschedulable(t) \/ \E n : Dispatch(t, n)
       PROVE  Ages
  BY <1>2, <1>10 DEF taskUnschedulable, Dispatch
<1>11. ASSUME NEW e, processResyncTask(e)
       PROVE  Ages
  BY <1>2, <1>11 DEF processResyncTask
<1>12. ASSUME syncTaskJob \/ syncTaskNode \/ BindWorker
       PROVE  Ages
  BY <1>2, <1>12, SMTT(30) DEF syncTaskJob, syncTaskNode, BindWorker, processBindTask, BindTask
<1>13. ASSUME Goroutines
       PROVE  Ages
  BY <1>2, <1>13, ZenonT(60) DEF Goroutines, Bind, EvictStatus, EvictDelete
<1>14. ASSUME NEW p, PodStep(p) \/ CreatePod(p)
       PROVE  Ages
  BY <1>2, <1>14 DEF PodStep, KubeletRun, KubeletRemove, KubeletStatus, KubeletEnd, DeletePod,
                     ForeignBind, CreatePod, Others
<1>15. ASSUME Relist \/ (\E n : NodeStep(n)) \/ (\E j : GroupStep(j))
       PROVE  Ages
  BY <1>2, <1>15 DEF Relist, NodeStep, GroupStep, NodeWorse, NodeGoes, NodeBack, PutNode,
                     GroupGoes, GroupBack, PutGroup, Others
<1>16. ASSUME UNCHANGED vars
       PROVE  Ages
  BY <1>1, <1>16 DEF vars, history
<1>17. CASE Cleanup
  BY <1>7, <1>8, <1>17 DEF Cleanup
<1>18. CASE Session
  BY <1>5, <1>9, <1>10, <1>18 DEF Session
<1>19. CASE Resync
  BY <1>4, <1>11, <1>12, <1>19 DEF Resync
<1>20. CASE Kubelet \/ Environment
  BY <1>6, <1>14, <1>15, <1>20 DEF Kubelet, Environment, PodStep, NodeStep, GroupStep
<1> QED
  BY <1>3, <1>7, <1>12, <1>13, <1>16, <1>17, <1>18, <1>19, <1>20 DEF Next, Handlers

\* Every step but a restart mirrors.
LEMMA NextMirrors ==
    ASSUME Types, Types', World, OwnWorld, [Next]_vars
    PROVE  Mirrors \/ (Reboot /\ UNCHANGED <<api, scenario>>)
<1>1. CASE Handlers
  BY <1>1, HandlePodMirrors, HandleNodeMirrors, HandleGroupMirrors DEF Handlers
<1>2. CASE Cleanup
  BY <1>2, CleanupMirrors, QuietMirrors DEF Cleanup
<1>3. CASE Session
  <2>1. ASSUME NEW t, Evict(t)
        PROVE  Mirrors \/ (Reboot /\ UNCHANGED <<api, scenario>>)
    BY <2>1, EvictMirrors, EvictCases
  <2> QED
    BY <1>3, <2>1, QuietMirrors, taskUnschedulableMirrors, DispatchMirrors DEF Session
<1>4. CASE Resync
  BY <1>4, QuietMirrors, ResyncMirrors DEF Resync
<1>5. CASE BindWorker
  BY <1>5, QuietMirrors DEF BindWorker
<1>6. CASE Goroutines
  BY <1>6, BindMirrors, EvictionMirrors DEF Goroutines
<1>7. CASE Kubelet
  BY <1>7, PodStepMirrors DEF Kubelet, PodStep
<1>8. ASSUME Crash
      PROVE  Reboot /\ UNCHANGED <<api, scenario>>
  BY <1>8 DEF Crash
<1>9. ASSUME NEW n \in Nodes, NodeStep(n)
      PROVE  FALSE
  BY <1>9, NodesNeverStep DEF World
<1>10. CASE Environment
  BY <1>8, <1>9, <1>10, QuietMirrors, PodStepMirrors, CreatePodMirrors
  DEF Environment, PodStep, NodeStep, GroupStep
<1>11. CASE UNCHANGED vars
  BY <1>11, QuietMirrors
<1> QED
  BY <1>1, <1>2, <1>3, <1>4, <1>5, <1>6, <1>7, <1>10, <1>11 DEF Next

\* The invariant is kept.
LEMMA NextMirrorInv ==
    ASSUME Types, Types', MirrorInv, [Next]_vars
    PROVE  MirrorInv'
<1> SUFFICES ASSUME OwnWorld' PROVE World' /\ (Clear' => Mirror')
  BY DEF MirrorInv, Clear
<1>1. OwnWorld /\ World
  <2>1. UNCHANGED scenario
    BY NextAges DEF Ages
  <2> QED
    BY <2>1 DEF OwnWorld, MirrorInv
<1>2. CASE Reboot /\ UNCHANGED <<api, scenario>>
  BY <1>1, <1>2, RebootWorld, RebootMirrors
<1>3. CASE ~(Reboot /\ UNCHANGED <<api, scenario>>)
  <2>1. Ages /\ Mirrors
    BY <1>1, <1>3, NextAges, NextMirrors
  <2>2. Clear' => Clear
    BY <1>1, <2>1 DEF Clear, Ages, Mirrors
  <2> QED
    BY <2>1, <2>2 DEF MirrorInv, Mirrors
<1> QED
  BY <1>2, <1>3

-----------------------------------------------------------------------------
\* A pod has ended when the status of its task is one of the end.
LEMMA StatusEnds ==
    ASSUME NEW o \in PodObjects
    PROVE  isTerminated(getTaskStatus(o)) <=> isTerminated(o.phase)
  BY DEF getTaskStatus, isTerminated, PodObjects

\* When nothing is on its way, no pod that is there is excused.
LEMMA NoExcuse ==
    ASSUME Types, Settled, NEW p \in Names, Live(p), pod[p].evicted # TRUE
    PROVE  ~Excused(p)
<1>1. Fresh(p)
  BY DEF Settled, Fresh
<1>2. ASSUME NEW e \in Entries, e.t = Tid(p), Waits(e) PROVE FALSE
  <2>1. e.t[1] = p
    BY <1>2 DEF Tid
  <2>2. evictions = {} /\ binds = {} /\ rs = Idle /\ sending = NoBind
    BY DEF Settled, Free
  <2>3. DOMAIN channel = {} /\ DOMAIN bindCache = {}
    BY DEF Settled
  <2>4. sending # e /\ rs.e # e
    BY <2>2, EntryParts DEF Idle
  <2>5. e \in errTasks
    BY <1>2, <2>2, <2>3, <2>4 DEF Waits, Underway, InChannel, InBindCache, InBinds
  <2>6. pod[p].uid = 0
    BY <2>1, <2>5 DEF Settled, Hopeless
  <2> QED
    BY <2>6 DEF Live
<1> QED
  BY <1>1, <1>2 DEF Excused, Pending

\* The invariant implies the property.
LEMMA MirrorSuffices ==
    ASSUME Types, MirrorInv
    PROVE  AgreesWhenSettled
<1> SUFFICES ASSUME Steady, Settled, ~overtaken, ~displaced, orphans = {}, NEW p \in Names,
                    ~pod[p].evicted
             PROVE  /\ {t \in DOMAIN c.tasks : t[1] = p} = Mirrored(p)
                    /\ \A t \in Mirrored(p) : /\ c.tasks[t].status = getTaskStatus(pod[p])
                                              /\ c.tasks[t].node = pod[p].node
                    /\ \A n \in Nodes : c.nodes[n].tasks[p] = Held(p, n)
  BY DEF AgreesWhenSettled
<1>1. World /\ MirrorOf(p)
  <2>1. OwnWorld
    BY DEF Steady, OwnWorld
  <2>2. ASSUME NEW n \in DOMAIN c.nodes PROVE c.nodes[n].ready = TRUE
    <3>1. c.nodes[n] \in GoodNodes /\ c.nodes[n].ready
      BY CacheParts DEF Types, CacheTypes, Steady
    <3>2. c.nodes[n].ready \in BOOLEAN
      BY <3>1 DEF GoodNodes
    <3> QED
      BY <3>1, <3>2
  <2>3. Clear
    BY <2>1, <2>2 DEF Clear, Ready
  <2> QED
    BY <2>1, <2>3 DEF MirrorInv, Mirror
<1>2. podSeen[p] = pod[p] /\ Sane(p, pod[p]) /\ pod[p] \in PodObjects
  <2>1. Fresh(p)
    BY DEF Settled, Fresh
  <2> QED
    BY <1>1, <2>1, Uids DEF World, EventsOrdered
<1>3. rs.step = "idle" /\ \A n \in Nodes : n \in DOMAIN c.nodes
  BY <1>1 DEF Settled, Idle, World, NodesArrive
<1>4. \A n \in Nodes : At(c, n, p) = c.nodes[n].tasks[p] /\ n # ""
  BY <1>3, CacheAssumption DEF At
<1>5. \A t \in DOMAIN c.tasks : t \in Tids /\ JobOf[t[1]] # ""
  BY CacheParts DEF Types, CacheTypes, OwnTids
<1>6. ASSUME NEW t \in DOMAIN c.tasks, t[1] = p
      PROVE  t = Tid(p) /\ pod[p].uid # 0 /\ JobOf[p] # ""
  <2>1. t \in Tids /\ JobOf[p] # ""
    BY <1>5, <1>6
  <2>2. t = <<t[1], t[2]>>
    BY <2>1, TidPair
  <2>3. t[2] \in 1 .. MaxUid
    BY <2>1 DEF Tids
  <2>4. t[2] = podSeen[p].uid
    BY <1>1, <1>6 DEF MirrorOf, TaskPlace
  <2>5. t[2] # 0
    BY <2>3, Bounds
  <2> QED
    BY <1>2, <1>6, <2>1, <2>2, <2>4, <2>5 DEF Tid
<1>7. ASSUME NEW n \in Nodes, At(c, n, p) # "None"
      PROVE  Live(p) /\ (pod[p].node = n \/ (pod[p].node = "" /\ Known(p) /\ Info(p).node = n))
  <2>1. /\ podSeen[p].uid # 0
        /\ pod[p].node = n \/ (pod[p].node = "" /\ Known(p) /\ Info(p).node = n)
    BY <1>1, <1>2, <1>3, <1>7 DEF MirrorOf, TaskPlace
  <2>2. JobOf[p] # ""
    <3>1. CASE pod[p].node = n
      BY <1>2, <1>4, <3>1 DEF Sane
    <3>2. CASE Known(p)
      <4>1. Tid(p)[1] = p
        BY DEF Tid
      <4> QED
        BY <1>6, <3>2, <4>1 DEF Known
    <3> QED
      BY <2>1, <3>1, <3>2
  <2> QED
    BY <1>2, <2>1, <2>2 DEF Live
<1>8. CASE ~Live(p)
  <2>1. pod[p].uid = 0 \/ JobOf[p] = ""
    BY <1>2, <1>8 DEF Live
  <2>2. Mirrored(p) = {}
    BY <2>1 DEF Mirrored
  <2>3. {t \in DOMAIN c.tasks : t[1] = p} = {}
    BY <1>6, <2>1
  <2>4. ASSUME NEW n \in Nodes PROVE c.nodes[n].tasks[p] = Held(p, n)
    <3>1. c.nodes[n].tasks[p] = "None"
      BY <1>4, <1>7, <1>8
    <3>2. pod[p].uid = 0 \/ pod[p].node # n
      BY <1>2, <1>4, <2>1 DEF Sane
    <3>3. Held(p, n) = "None"
      BY <3>2 DEF Held
    <3> QED
      BY <3>1, <3>3
  <2> QED
    BY <2>2, <2>3, <2>4
<1>9. CASE Live(p)
  <2>1. ~Excused(p)
    <3>1. pod[p].evicted # TRUE
      OBVIOUS
    <3> QED
      BY <1>9, <3>1, NoExcuse
  <2>2. /\ Known(p) /\ Info(p).status = getTaskStatus(pod[p]) /\ Info(p).node = pod[p].node
    BY <1>1, <1>2, <1>9, <2>1 DEF MirrorOf, TaskOf, Agrees
  <2>3. Mirrored(p) = {Tid(p)}
    BY <1>2, <1>9 DEF Mirrored, Live, Tid
  <2>4. {t \in DOMAIN c.tasks : t[1] = p} = {Tid(p)}
    <3>1. Tid(p)[1] = p
      BY DEF Tid
    <3> QED
      BY <1>6, <2>2, <3>1 DEF Known
  <2>5. \A t \in Mirrored(p) : /\ c.tasks[t].status = getTaskStatus(pod[p])
                               /\ c.tasks[t].node = pod[p].node
    BY <2>2, <2>3 DEF Info
  <2>6. ASSUME NEW n \in Nodes PROVE c.nodes[n].tasks[p] = Held(p, n)
    <3>1. CASE pod[p].node = n
      <4>1. IF isTerminated(Info(p).status)
            THEN At(c, n, p) = "None" ELSE At(c, n, p) = Info(p).status
        BY <1>1, <1>4, <1>9, <2>1, <2>2, <3>1 DEF MirrorOf, NodeOfTask
      <4>2. isTerminated(Info(p).status) <=> isTerminated(pod[p].phase)
        BY <1>2, <2>2, StatusEnds
      <4>3. Held(p, n) = IF isTerminated(pod[p].phase) THEN "None" ELSE getTaskStatus(pod[p])
        BY <1>9, <3>1 DEF Held, Live
      <4> QED
        BY <1>4, <2>2, <4>1, <4>2, <4>3
    <3>2. CASE pod[p].node # n
      <4>1. At(c, n, p) = "None"
        BY <1>4, <1>7, <2>2, <3>2
      <4>2. Held(p, n) = "None"
        BY <3>2 DEF Held
      <4> QED
        BY <1>4, <4>1, <4>2
    <3> QED
      BY <3>1, <3>2
  <2> QED
    BY <2>3, <2>4, <2>5, <2>6
<1> QED
  BY <1>8, <1>9

\* As long as only this scheduler binds pods and nodes keep what they have,
\* no event overtook a reading of the resync worker, none came too late for a
\* task that was leaving, and no JobInfo left the cache with its tasks: when
\* nothing is on its way, the cache shows the pods of the API server, with
\* their status and node, and nothing else; for every number of pods, nodes
\* and Jobs, every capacity of the channel and of the batches, and every order
\* of events, bindings, evictions, failures, lost answers, relists, restarts
\* and resynchronisations (updatePod, deletePod, syncTask, AddBindTask, Evict).
THEOREM CacheMirrorsApi == Spec => []AgreesWhenSettled
<1>1. Init => Types /\ MirrorInv
  BY InitTypes, InitMirrors DEF MirrorInv
<1>2. Types /\ MirrorInv /\ [Next]_vars => Types' /\ MirrorInv'
  BY NextTypes, NextMirrorInv
<1>3. Types /\ MirrorInv => AgreesWhenSettled
  BY MirrorSuffices
<1> QED
  BY <1>1, <1>2, <1>3, PTL DEF Spec

=============================================================================
