----------------------- MODULE SchedulerPlaces_proofs -----------------------
(***************************************************************************)
(* The proof of NoOvercommit.  The invariant says that every pod that is   *)
(* bound, and every binding that is under way, has a place in the cache on *)
(* its node; the rest of it is what the places need: which states of a pod *)
(* the informer, the resync worker, the sessions and the evictions may     *)
(* still know, and that a binding is in one place only on its way.  As the *)
(* totals of the nodes are right (NodesAccounted), the pods on a node then *)
(* fit it.                                                                 *)
(***************************************************************************)
EXTENDS SchedulerCache_proofs

\* Only this scheduler binds pods, nodes keep what they have, and no event or
\* reading was out of date where it matters: the hypothesis of NoOvercommit.
Calm == OwnWorld /\ ~overtaken /\ ~displaced /\ ~crashed

\* A binding is somewhere between AddBindTask and the resync worker.
InBatch(e, b)  == e \in b.errs \/ \E i \in DOMAIN b.todo : b.todo[i] = e
InChannel(e)   == \E i \in DOMAIN channel : channel[i] = e
InBindCache(e) == \E i \in DOMAIN bindCache : bindCache[i] = e
InBinds(e)     == \E b \in binds : InBatch(e, b)
Underway(e)    == \/ sending = e \/ InChannel(e) \/ InBindCache(e) \/ InBinds(e)
                  \/ e \in errTasks \/ rs.e = e

\* The API server has still to decide about a binding.
Undecided(e) == pod[e.t[1]].uid = e.t[2] /\ pod[e.t[1]].node = ""

\* A node that has its Node object holds a place for the pod.
Holds(n, p) ==
    /\ n \in DOMAIN c.nodes /\ c.nodes[n].set = TRUE
    /\ c.nodes[n].tasks[p] # "None"

Full(n) == [alloc |-> Alloc[n], ready |-> TRUE, there |-> TRUE]

\* The nodes are what they were at first, for the API server, the informer,
\* the cache and the session.
NodesKept ==
    /\ \A n \in Nodes : node[n] = Full(n)
    /\ \A i \in DOMAIN nodeWatch : nodeWatch[i].obj = Full(nodeWatch[i].name)
    /\ \A n \in DOMAIN c.nodes : c.nodes[n].set = TRUE => c.nodes[n].alloc = Alloc[n]
    /\ \A n \in DOMAIN ssn.nodes : n \in DOMAIN c.nodes /\ c.nodes[n].set = TRUE

\* Of pods of one name there have been last, the state of the pod there is is
\* now: o is this or an earlier one.
PastOf(now, last, o) ==
    /\ o.uid <= last /\ (o.uid = 0 => o.node = "")
    /\ o.phase # "Pending" \/ o.deleting = TRUE => o.node # ""
    /\ o.uid = now.uid /\ o.uid # 0 =>
         /\ o.node \in {"", now.node}
         /\ isTerminated(o.phase) => isTerminated(now.phase)

\* The state new follows the state o.
FollowsOf(now, o, new) ==
    o.uid = now.uid /\ o.uid # 0 =>
      new.uid = o.uid /\ (o.node # "" => new.node # "")

Past(p, o) == PastOf(pod[p], uids[p], o)
Newer(p, o, new) == FollowsOf(pod[p], o, new)

\* The events are states of the past in their order.
EventsPast ==
    /\ \A p \in Names : Past(p, pod[p]) /\ Past(p, podSeen[p])
    /\ \A i \in DOMAIN podWatch :
         /\ Past(podWatch[i].name, podWatch[i].obj)
         /\ Newer(podWatch[i].name, podSeen[podWatch[i].name], podWatch[i].obj)
    /\ \A i, j \in DOMAIN podWatch :
         i < j /\ podWatch[i].name = podWatch[j].name =>
           Newer(podWatch[i].name, podWatch[i].obj, podWatch[j].obj)

\* If t is the pod there is, the informer has delivered it.
Seen(t) ==
    /\ t[2] <= uids[t[1]]
    /\ t[2] = pod[t[1]].uid => podSeen[t[1]].uid = pod[t[1]].uid

PodsKnown ==
    \A p \in Names : pod[p].node # "" => JobOf[p] # "" /\ podSeen[p].uid = pod[p].uid

EntriesKnown == \A e \in Entries : Underway(e) => Seen(e.t)

EvictionsKnown ==
    \A v \in evictions :
      Seen(v.t) /\ (v.t[2] = pod[v.t[1]].uid => pod[v.t[1]].node # "")

\* What the cache says of the pod t there is.
TaskKnown(t, x) ==
    /\ t[2] = podSeen[t[1]].uid /\ x.status # "Pipelined"
    /\ x.status = "Pending" => x.node = ""
    /\ t[2] = pod[t[1]].uid =>
         /\ x.status \notin {"Pending", "Binding"} => pod[t[1]].node # ""
         /\ isTerminated(x.status) => isTerminated(pod[t[1]].phase)

TasksKnown == \A t \in DOMAIN c.tasks : TaskKnown(t, c.tasks[t])

SessionKnown ==
    \A t \in DOMAIN ssn.tasks :
      /\ t[2] <= uids[t[1]]
      /\ ssn.tasks[t] = "Running" /\ t[2] = pod[t[1]].uid => pod[t[1]].node # ""

\* The resync worker has read a state of the past.  If that had no node, the
\* pod has not been bound since by the binding it is to put right; if there
\* was no pod, the informer has not delivered a new one.
ResyncKnown ==
    /\ rs.step = "update" =>
         /\ Past(rs.e.t[1], rs.got)
         /\ rs.got.uid = rs.e.t[2] =>
              /\ podSeen[rs.e.t[1]].uid = rs.got.uid
              /\ rs.got.uid = pod[rs.e.t[1]].uid /\ rs.got.node = "" =>
                   pod[rs.e.t[1]].node # rs.e.node
    /\ rs.step \in {"delete", "node", "retry"} /\ pod[rs.e.t[1]].uid # 0 =>
          podSeen[rs.e.t[1]].uid # pod[rs.e.t[1]].uid

\* A binding is in one place only, and there only once.
ChannelOnce(e) ==
    \A i, j \in DOMAIN channel : channel[i] = e /\ channel[j] = e => i = j
BindCacheOnce(e) ==
    \A i, j \in DOMAIN bindCache : bindCache[i] = e /\ bindCache[j] = e => i = j
BatchOnce(e, b) ==
    \A i, j \in DOMAIN b.todo :
      b.todo[i] = e => e \notin b.errs /\ (b.todo[j] = e => i = j)
BindsOnce(e) ==
    /\ \A b, d \in binds : InBatch(e, b) /\ InBatch(e, d) => b = d
    /\ \A b \in binds : BatchOnce(e, b)

Once(e) ==
    /\ sending = e => /\ ~InChannel(e) /\ ~InBindCache(e) /\ ~InBinds(e)
                      /\ e \notin errTasks /\ rs.e # e
    /\ InChannel(e) => /\ ~InBindCache(e) /\ ~InBinds(e)
                       /\ e \notin errTasks /\ rs.e # e
    /\ InBindCache(e) => ~InBinds(e) /\ e \notin errTasks /\ rs.e # e
    /\ InBinds(e) => e \notin errTasks /\ rs.e # e
    /\ e \in errTasks => rs.e # e
    /\ ChannelOnce(e) /\ BindCacheOnce(e) /\ BindsOnce(e)

\* Every pod that is bound and has not ended has its place in the cache.
BoundHeld ==
    \A p \in Names : pod[p].node # "" /\ ~isTerminated(pod[p].phase) =>
                       Holds(pod[p].node, p)

\* So has every binding that is under way and undecided.
BindingsHeld ==
    \A e \in Entries : Undecided(e) /\ Underway(e) =>
                         Once(e) /\ Holds(e.node, e.t[1])

Kept == /\ NodesKept /\ EventsPast /\ PodsKnown /\ EntriesKnown /\ EvictionsKnown
        /\ TasksKnown /\ SessionKnown /\ ResyncKnown /\ BoundHeld /\ BindingsHeld

-----------------------------------------------------------------------------
(***************************************************************************)
(* Pods move on.                                                           *)
(***************************************************************************)
\* The parts of a binding: a task of this scheduler's own, and a node.
LEMMA EntryParts ==
    ASSUME NEW e \in Entries
    PROVE  /\ e.t \in OwnTids /\ e.t \in Tids /\ e.t[1] \in Names
           /\ e.t[2] \in 1 .. MaxUid /\ e.t[2] # 0 /\ JobOf[e.t[1]] # ""
           /\ e.node \in Nodes /\ e.node # "" /\ e # NoBind
<1>1. e.t \in OwnTids /\ e.node \in Nodes
  BY DEF Entries
<1>2. e.t \in Tids /\ JobOf[e.t[1]] # ""
  BY <1>1 DEF OwnTids
<1>3. e.t[1] \in Names /\ e.t[2] \in 1 .. MaxUid
  BY <1>2 DEF Tids
<1>4. e.t[2] # 0
  BY <1>3, Bounds
<1>5. e.node # ""
  BY <1>1, CacheAssumption
<1>6. e # NoBind
  <2>1. NoBind.node = ""
    BY DEF NoBind
  <2> QED
    BY <1>5, <2>1
<1> QED
  BY <1>1, <1>2, <1>3, <1>4, <1>5, <1>6

\* A task is its pod's name and uid.
LEMMA TidIs ==
    ASSUME NEW s \in Tids, NEW t \in Tids, s[1] = t[1], s[2] = t[2]
    PROVE  s = t
  BY DEF Tids

\* The pod p stays what it is or changes, goes, or is created anew.
PodMoved(p) ==
    /\ uids[p] <= uids'[p] /\ Past(p, pod[p])'
    /\ \/ pod'[p].uid = 0
       \/ pod'[p].uid > uids[p] /\ pod'[p].node = ""
       \/ /\ pod'[p].uid = pod[p].uid
          /\ pod[p].node # "" => pod'[p].node = pod[p].node
          /\ isTerminated(pod[p].phase) => isTerminated(pod'[p].phase)

PodsAdvance == \A p \in Names : PodMoved(p)

\* Uids are natural numbers.
LEMMA Uids ==
    ASSUME Types, NEW p \in Names
    PROVE  /\ uids[p] \in Nat /\ pod[p] \in PodObjects /\ podSeen[p] \in PodObjects
           /\ pod[p].uid \in Nat /\ podSeen[p].uid \in Nat
<1>1. uids[p] \in 0 .. MaxUid /\ pod[p] \in PodObjects /\ podSeen[p] \in PodObjects
  BY DEF Types, ApiTypes, WatchTypes
<1>2. \A o \in PodObjects : o.uid \in 0 .. MaxUid
  BY DEF PodObjects
<1> QED
  BY <1>1, <1>2, Bounds

\* The same after a step.
LEMMA UidsNext ==
    ASSUME Types', NEW p \in Names
    PROVE  uids'[p] \in Nat /\ pod'[p] \in PodObjects /\ pod'[p].uid \in Nat
<1>1. uids'[p] \in 0 .. MaxUid /\ pod'[p] \in PodObjects
  BY DEF Types, ApiTypes
<1>2. \A o \in PodObjects : o.uid \in 0 .. MaxUid
  BY DEF PodObjects
<1> QED
  BY <1>1, <1>2, Bounds

\* What PodsAdvance says of one pod.
LEMMA Advances ==
    ASSUME Types, Types', PodsAdvance, NEW p \in Names
    PROVE  /\ uids[p] <= uids'[p] /\ PastOf(pod'[p], uids'[p], pod'[p])
           /\ \/ pod'[p].uid = 0
              \/ pod'[p].uid > uids[p] /\ pod'[p].node = ""
              \/ /\ pod'[p].uid = pod[p].uid
                 /\ pod[p].node # "" => pod'[p].node = pod[p].node
                 /\ isTerminated(pod[p].phase) => isTerminated(pod'[p].phase)
<1>1. PodMoved(p)
  BY DEF PodsAdvance
<1> QED
  BY <1>1 DEF PodMoved, Past

\* A uid that was in use before belongs to the same pod afterwards.
LEMMA SamePod ==
    ASSUME Types, Types', PodsAdvance, NEW p \in Names, NEW u \in Nat,
           u # 0, u <= uids[p], u = pod'[p].uid
    PROVE  /\ u = pod[p].uid
           /\ pod[p].node # "" => pod'[p].node = pod[p].node
           /\ isTerminated(pod[p].phase) => isTerminated(pod'[p].phase)
<1>1. \/ pod'[p].uid = 0
      \/ pod'[p].uid > uids[p] /\ pod'[p].node = ""
      \/ /\ pod'[p].uid = pod[p].uid
         /\ pod[p].node # "" => pod'[p].node = pod[p].node
         /\ isTerminated(pod[p].phase) => isTerminated(pod'[p].phase)
  BY Advances
<1>2. ~(pod'[p].uid > uids[p]) /\ pod'[p].uid # 0
  <2>1. uids[p] \in Nat
    BY Uids
  <2>2. u <= uids[p] => ~(u > uids[p])
    BY <2>1
  <2> QED
    BY <2>2
<1> QED
  BY <1>1, <1>2

\* What was a state of the past is one, and the order stays.
LEMMA PastStays ==
    ASSUME Types, Types', PodsAdvance, NEW p \in Names, NEW o \in PodObjects,
           PastOf(pod[p], uids[p], o)
    PROVE  /\ PastOf(pod'[p], uids'[p], o)
           /\ \A new : FollowsOf(pod[p], o, new) => FollowsOf(pod'[p], o, new)
           /\ FollowsOf(pod'[p], o, pod'[p])
<1>1. uids[p] <= uids'[p] /\ uids[p] \in Nat /\ uids'[p] \in Nat /\ o.uid \in Nat
  <2>1. o.uid \in 0 .. MaxUid
    BY DEF PodObjects
  <2>2. o.uid \in Nat
    BY <2>1, Bounds
  <2> QED
    BY <2>2, Uids, UidsNext, Advances
<1>2. o.uid <= uids[p] /\ o.uid <= uids'[p]
  <2>1. o.uid <= uids[p]
    BY DEF PastOf
  <2> QED
    BY <1>1, <2>1
<1>3. o.uid = pod'[p].uid /\ o.uid # 0 =>
         /\ o.uid = pod[p].uid
         /\ pod[p].node # "" => pod'[p].node = pod[p].node
         /\ isTerminated(pod[p].phase) => isTerminated(pod'[p].phase)
  BY <1>1, <1>2, SamePod
<1>4. PastOf(pod'[p], uids'[p], o)
  BY <1>2, <1>3 DEF PastOf
<1> QED
  BY <1>3, <1>4 DEF PastOf, FollowsOf

\* A pod that the informer has delivered stays delivered while pods move on.
LEMMA SeenStays ==
    ASSUME Types, Types', PodsAdvance, UNCHANGED podSeen, NEW t \in Tids, Seen(t)
    PROVE  Seen(t)'
<1>1. t[1] \in Names /\ t[2] \in 1 .. MaxUid
  BY DEF Tids
<1>2. t[2] \in Nat /\ t[2] # 0
  BY <1>1, Bounds
<1>a. t[2] <= uids[t[1]] /\ uids[t[1]] <= uids'[t[1]]
  BY <1>1, Advances DEF Seen
<1>3. t[2] <= uids'[t[1]]
  <2>1. uids[t[1]] \in Nat /\ uids'[t[1]] \in Nat
    BY <1>1, Uids, UidsNext
  <2> QED
    BY <1>2, <1>a, <2>1
<1>4. t[2] = pod'[t[1]].uid => t[2] = pod[t[1]].uid
  BY <1>1, <1>2, <1>a, SamePod
<1> QED
  BY <1>3, <1>4 DEF Seen

\* Events are added at the end, with the state the pod has then.
LEMMA EventsStay ==
    ASSUME Types, Types', EventsPast, PodsAdvance, UNCHANGED podSeen,
           \/ UNCHANGED podWatch
           \/ \E p \in Names : podWatch' = Append(podWatch, [name |-> p, obj |-> pod'[p]])
    PROVE  EventsPast'
<1>1. podWatch \in Seq(PodEvents) /\ podWatch' \in Seq(PodEvents)
  BY DEF Types, WatchTypes
<1>2. \A x \in PodEvents : x.name \in Names /\ x.obj \in PodObjects
  BY DEF PodEvents
<1>3. \A p \in Names : /\ PastOf(pod'[p], uids'[p], pod'[p])
                       /\ podSeen[p] \in PodObjects /\ podSeen'[p] = podSeen[p]
  BY Uids, Advances
<1>4. \A p \in Names, o \in PodObjects :
        PastOf(pod[p], uids[p], o) =>
          /\ PastOf(pod'[p], uids'[p], o)
          /\ \A new : FollowsOf(pod[p], o, new) => FollowsOf(pod'[p], o, new)
          /\ FollowsOf(pod'[p], o, pod'[p])
  BY PastStays
<1>5. CASE UNCHANGED podWatch
  <2>1. \A i \in DOMAIN podWatch : podWatch[i].name \in Names /\ podWatch[i].obj \in PodObjects
    BY <1>1, <1>2
  <2> QED
    BY <1>3, <1>4, <1>5, <2>1 DEF EventsPast, Past, Newer
<1>6. ASSUME NEW p \in Names, podWatch' = Append(podWatch, [name |-> p, obj |-> pod'[p]])
      PROVE  EventsPast'
  <2>1. /\ DOMAIN podWatch' = 1 .. Len(podWatch) + 1 /\ DOMAIN podWatch = 1 .. Len(podWatch)
        /\ \A i \in DOMAIN podWatch : podWatch'[i] = podWatch[i]
        /\ podWatch'[Len(podWatch) + 1].name = p /\ podWatch'[Len(podWatch) + 1].obj = pod'[p]
        /\ Len(podWatch) \in Nat
    BY <1>1, <1>6
  <2>2. ASSUME NEW i \in DOMAIN podWatch'
        PROVE  /\ PastOf(pod'[podWatch'[i].name], uids'[podWatch'[i].name], podWatch'[i].obj)
               /\ FollowsOf(pod'[podWatch'[i].name], podSeen'[podWatch'[i].name], podWatch'[i].obj)
    <3>1. CASE i \in DOMAIN podWatch
      <4>1. podWatch[i].name \in Names /\ podWatch[i].obj \in PodObjects
        BY <1>1, <1>2, <3>1
      <4> QED
        BY <1>3, <1>4, <2>1, <3>1, <4>1 DEF EventsPast, Past, Newer
    <3>2. CASE i = Len(podWatch) + 1
      BY <1>3, <1>4, <2>1, <3>2 DEF EventsPast, Past, Newer
    <3> QED
      BY <2>1, <3>1, <3>2
  <2>3. ASSUME NEW i \in DOMAIN podWatch', NEW j \in DOMAIN podWatch',
               i < j, podWatch'[i].name = podWatch'[j].name
        PROVE  FollowsOf(pod'[podWatch'[i].name], podWatch'[i].obj, podWatch'[j].obj)
    <3>1. i \in DOMAIN podWatch
      BY <2>1, <2>3
    <3>2. /\ podWatch[i].name \in Names /\ podWatch[i].obj \in PodObjects
          /\ PastOf(pod[podWatch[i].name], uids[podWatch[i].name], podWatch[i].obj)
      BY <1>1, <1>2, <3>1 DEF EventsPast, Past
    <3>3. CASE j \in DOMAIN podWatch
      BY <1>4, <2>1, <2>3, <3>1, <3>2, <3>3 DEF EventsPast, Newer
    <3>4. CASE j = Len(podWatch) + 1
      BY <1>4, <2>1, <2>3, <3>1, <3>2, <3>4
    <3> QED
      BY <2>1, <3>3, <3>4
  <2>4. \A q \in Names : PastOf(pod'[q], uids'[q], podSeen'[q])
    BY <1>3, <1>4 DEF EventsPast, Past
  <2> QED
    BY <1>3, <2>2, <2>3, <2>4 DEF EventsPast, Past, Newer
<1> QED
  BY <1>5, <1>6

(***************************************************************************)
(* Steps that leave the cache and what the informer has seen alone.        *)
(***************************************************************************)
\* A pod that is bound by the step has its place in the cache.
BoundInPlace ==
    \A p \in Names : pod[p].node = "" /\ pod'[p].node # "" =>
      JobOf[p] # "" /\ podSeen[p].uid = pod[p].uid /\ Holds(pod'[p].node, p)

\* No binding is under way that was not, unless it is decided.
BindingsStay ==
    \A e \in Entries :
      /\ Underway(e)' => Underway(e) \/ Seen(e.t)
      /\ Undecided(e)' /\ Underway(e)' => Underway(e) /\ (Once(e) => Once(e)')

Quiet ==
    /\ UNCHANGED <<c, podSeen, node, nodeWatch>> /\ PodsAdvance
    /\ \/ UNCHANGED podWatch
       \/ \E p \in Names : podWatch' = Append(podWatch, [name |-> p, obj |-> pod'[p]])
    /\ \A v \in evictions' : \E w \in evictions : v.t = w.t
    /\ \A n \in DOMAIN ssn'.nodes : n \in DOMAIN ssn.nodes
    /\ \A t \in DOMAIN ssn'.tasks :
         t \in DOMAIN ssn.tasks /\ (ssn'.tasks[t] = "Running" => ssn.tasks[t] = "Running")
    /\ BoundInPlace /\ BindingsStay

\* A pod that is bound is one the informer has delivered, if the pods bound
\* by the step are.
LEMMA PodsStayKnown ==
    ASSUME Types, Types', PodsKnown, PodsAdvance, UNCHANGED podSeen, BoundInPlace
    PROVE  PodsKnown'
<1> SUFFICES ASSUME NEW p \in Names, pod'[p].node # ""
             PROVE  JobOf[p] # "" /\ podSeen'[p].uid = pod'[p].uid
  BY DEF PodsKnown
<1>1. pod'[p].uid = pod[p].uid
  BY Advances DEF PastOf
<1> QED
  BY <1>1 DEF PodsKnown, BoundInPlace

\* A pod that is bound keeps its place while the cache stands still.
LEMMA BoundStayHeld ==
    ASSUME Types, Types', BoundHeld, PodsAdvance, UNCHANGED c, BoundInPlace
    PROVE  BoundHeld'
<1> SUFFICES ASSUME NEW p \in Names, pod'[p].node # "", ~isTerminated(pod'[p].phase)
             PROVE  Holds(pod'[p].node, p)
  BY DEF BoundHeld, Holds
<1>1. CASE pod[p].node = ""
  BY <1>1 DEF BoundInPlace
<1>2. CASE pod[p].node # ""
  <2>1. pod'[p].node = pod[p].node /\ ~isTerminated(pod[p].phase)
    BY <1>2, Advances DEF PastOf
  <2> QED
    BY <1>2, <2>1 DEF BoundHeld
<1> QED
  BY <1>1, <1>2

\* What is known of a pod by its uid stays true.
LEMMA KnownStays ==
    ASSUME Types, Types', PodsAdvance, NEW t \in Tids, t[2] <= uids[t[1]],
           t[2] = pod'[t[1]].uid
    PROVE  /\ t[2] = pod[t[1]].uid
           /\ pod[t[1]].node # "" => pod'[t[1]].node # ""
           /\ isTerminated(pod[t[1]].phase) => isTerminated(pod'[t[1]].phase)
<1>1. t[1] \in Names /\ t[2] \in 1 .. MaxUid
  BY DEF Tids
<1>2. t[2] \in Nat /\ t[2] # 0
  BY <1>1, Bounds
<1> QED
  BY <1>1, <1>2, SamePod

\* What the cache says of a pod stays true while pods move on.
LEMMA TasksStayKnown ==
    ASSUME Types, Types', EventsPast, TasksKnown, PodsAdvance, UNCHANGED <<c, podSeen>>
    PROVE  TasksKnown'
<1> SUFFICES ASSUME NEW t \in DOMAIN c.tasks PROVE TaskKnown(t, c.tasks[t])'
  BY DEF TasksKnown
<1>1. t \in Tids /\ t[1] \in Names
  BY CacheParts DEF Types, CacheTypes, OwnTids, Tids
<1>2. TaskKnown(t, c.tasks[t])
  BY DEF TasksKnown
<1>3. t[2] <= uids[t[1]]
  BY <1>1, <1>2 DEF TaskKnown, EventsPast, Past, PastOf
<1>4. t[2] = pod'[t[1]].uid =>
        /\ t[2] = pod[t[1]].uid
        /\ pod[t[1]].node # "" => pod'[t[1]].node # ""
        /\ isTerminated(pod[t[1]].phase) => isTerminated(pod'[t[1]].phase)
  BY <1>1, <1>3, KnownStays
<1> QED
  BY <1>2, <1>4 DEF TaskKnown

\* An eviction under way stays that of a pod that is bound or gone.
LEMMA EvictionsStayKnown ==
    ASSUME Types, Types', EvictionsKnown, PodsAdvance, UNCHANGED podSeen,
           \A v \in evictions' : \E w \in evictions : v.t = w.t
    PROVE  EvictionsKnown'
<1> SUFFICES ASSUME NEW v \in evictions'
             PROVE  Seen(v.t)' /\ (v.t[2] = pod'[v.t[1]].uid => pod'[v.t[1]].node # "")
  BY DEF EvictionsKnown
<1>1. PICK w \in evictions : v.t = w.t
  OBVIOUS
<1>2. w.t \in Tids
  BY DEF Types, WorkerTypes, Evictions, OwnTids
<1>3. Seen(w.t) /\ (w.t[2] = pod[w.t[1]].uid => pod[w.t[1]].node # "")
  BY DEF EvictionsKnown
<1>4. PICK t \in Tids : t = w.t
  BY <1>2
<1>5. Seen(t)' /\ t[2] <= uids[t[1]]
  BY <1>3, <1>4, SeenStays DEF Seen
<1>6. t[2] = pod'[t[1]].uid => pod'[t[1]].node # ""
  BY <1>3, <1>4, <1>5, KnownStays
<1> QED
  BY <1>1, <1>4, <1>5, <1>6 DEF Seen

\* A task the session has Running stays that of a pod that is bound or gone.
LEMMA SessionStaysKnown ==
    ASSUME Types, Types', SessionKnown, PodsAdvance,
           \A t \in DOMAIN ssn'.tasks :
             t \in DOMAIN ssn.tasks /\ (ssn'.tasks[t] = "Running" => ssn.tasks[t] = "Running")
    PROVE  SessionKnown'
<1> SUFFICES ASSUME NEW t \in DOMAIN ssn'.tasks
             PROVE  /\ t[2] <= uids'[t[1]]
                    /\ ssn'.tasks[t] = "Running" /\ t[2] = pod'[t[1]].uid => pod'[t[1]].node # ""
  BY DEF SessionKnown
<1>1. t \in DOMAIN ssn.tasks /\ (ssn'.tasks[t] = "Running" => ssn.tasks[t] = "Running")
  OBVIOUS
<1>2. t \in Tids
  BY <1>1, SessionParts DEF Types, OwnTids
<1>3. t[1] \in Names /\ t[2] \in 1 .. MaxUid
  BY <1>2 DEF Tids
<1>4. t[2] <= uids[t[1]] /\ uids[t[1]] <= uids'[t[1]]
  BY <1>1, <1>3, Advances DEF SessionKnown
<1>5. t[2] <= uids'[t[1]]
  <2>1. uids[t[1]] \in Nat /\ uids'[t[1]] \in Nat
    BY <1>3, Uids, UidsNext
  <2>2. t[2] \in Nat
    BY <1>3, Bounds
  <2> QED
    BY <1>4, <2>1, <2>2
<1> QED
  BY <1>1, <1>2, <1>4, <1>5, KnownStays DEF SessionKnown

\* A binding under way stays that of a pod the informer has delivered.
LEMMA EntriesStayKnown ==
    ASSUME Types, Types', EntriesKnown, PodsAdvance, UNCHANGED podSeen,
           \A e \in Entries : Underway(e)' => Underway(e) \/ Seen(e.t)
    PROVE  EntriesKnown'
<1> SUFFICES ASSUME NEW e \in Entries, Underway(e)' PROVE Seen(e.t)'
  BY DEF EntriesKnown
<1>1. Seen(e.t)
  BY DEF EntriesKnown
<1>2. PICK t \in Tids : t = e.t
  BY EntryParts
<1>3. Seen(t)'
  BY <1>1, <1>2, SeenStays DEF Seen
<1> QED
  BY <1>2, <1>3 DEF Seen

\* A binding under way keeps its place while the cache stands still.
LEMMA BindingsStayHeld ==
    ASSUME Types, Types', EntriesKnown, BindingsHeld, PodsAdvance, UNCHANGED c, BindingsStay
    PROVE  BindingsHeld'
<1> SUFFICES ASSUME NEW e \in Entries, Undecided(e)', Underway(e)'
             PROVE  Once(e)' /\ Holds(e.node, e.t[1])'
  BY DEF BindingsHeld
<1>1. Underway(e) /\ (Once(e) => Once(e)')
  BY DEF BindingsStay
<1>2. Seen(e.t)
  BY <1>1 DEF EntriesKnown
<1>3. e.t \in Tids /\ e.t[2] <= uids[e.t[1]] /\ e.t[2] = pod'[e.t[1]].uid /\ pod'[e.t[1]].node = ""
  BY <1>2, EntryParts DEF Seen, Undecided
<1>4. e.t[2] = pod[e.t[1]].uid /\ pod[e.t[1]].node = ""
  BY <1>3, KnownStays
<1>5. Once(e) /\ Holds(e.node, e.t[1])
  BY <1>1, <1>4 DEF BindingsHeld, Undecided
<1> QED
  BY <1>1, <1>5 DEF Holds

\* The resync worker goes on with what it has read.
LEMMA ResyncStaysKnown ==
    ASSUME Types, Types', ResyncKnown, EventsPast, PodsAdvance, UNCHANGED <<rs, podSeen>>,
           \/ rs = Idle \/ pod'[rs.e.t[1]].node = pod[rs.e.t[1]].node
           \/ pod'[rs.e.t[1]].node # rs.e.node
    PROVE  ResyncKnown'
<1>1. CASE rs = Idle
  BY <1>1 DEF Idle, ResyncKnown
<1>2. CASE rs # Idle
  <2>0. rs.step \in {"update", "delete", "node", "retry"}
    BY <1>2 DEF Types, WorkerTypes, ResyncType
  <2> DEFINE t == rs.e.t
             p == t[1]
  <2>1. rs.e \in Entries /\ rs.got \in PodObjects /\ (rs.step = "update" => rs.got.uid # 0)
    BY <2>0, ResyncBusy
  <2>2. p \in Names /\ t \in Tids /\ t[2] # 0 /\ rs.e.node # ""
    BY <2>1, EntryParts
  <2> HIDE DEF t
  <2>3. CASE rs.step = "update"
    <3>1. PastOf(pod[p], uids[p], rs.got)
      BY <2>3 DEF ResyncKnown, Past, t
    <3>2. PastOf(pod'[p], uids'[p], rs.got)
      BY <2>1, <2>2, <3>1, PastStays
    <3>3. ASSUME rs.got.uid = t[2], rs.got.uid = pod'[p].uid, rs.got.node = ""
          PROVE  pod'[p].node # rs.e.node
      <4>1. t[2] <= uids[p]
        BY <3>1, <3>3 DEF PastOf
      <4>2. rs.got.uid = pod[p].uid
        BY <2>2, <3>3, <4>1, KnownStays
      <4>3. pod[p].node # rs.e.node
        BY <2>3, <3>3, <4>2 DEF ResyncKnown, t
      <4> QED
        BY <1>2, <4>3 DEF t
    <3>4. rs.got.uid = t[2] => podSeen'[p].uid = rs.got.uid
      BY <2>3 DEF ResyncKnown, t
    <3> QED
      BY <2>3, <3>2, <3>3, <3>4 DEF ResyncKnown, Past, t
  <2>4. CASE rs.step # "update"
    <3>1. ASSUME pod'[p].uid # 0 PROVE podSeen'[p].uid # pod'[p].uid
      <4>1. podSeen[p].uid <= uids[p] /\ podSeen[p].uid \in Nat /\ uids[p] \in Nat
        BY <2>2, Uids DEF EventsPast, Past, PastOf
      <4>2. CASE pod'[p].uid = pod[p].uid
        BY <2>0, <2>4, <3>1, <4>2 DEF ResyncKnown, t
      <4>3. CASE pod'[p].uid # pod[p].uid
        <5>1. pod'[p].uid > uids[p] /\ pod'[p].uid \in Nat
          BY <2>2, <3>1, <4>3, Advances, UidsNext
        <5> QED
          BY <4>1, <5>1
      <4> QED
        BY <4>2, <4>3
    <3> QED
      BY <2>4, <3>1 DEF ResyncKnown, t
  <2> QED
    BY <2>3, <2>4
<1> QED
  BY <1>1, <1>2

\* A quiet step keeps the invariant, once what the resync worker has read is
\* seen to.
LEMMA QuietKeeps ==
    ASSUME Types, Types', Kept, Quiet, ResyncKnown'
    PROVE  Kept'
<1>1. NodesKept'
  BY DEF Kept, NodesKept, Quiet
<1>2. EventsPast'
  BY EventsStay DEF Kept, Quiet
<1>3. PodsKnown' /\ BoundHeld'
  BY PodsStayKnown, BoundStayHeld DEF Kept, Quiet
<1>4. TasksKnown' /\ EvictionsKnown' /\ SessionKnown'
  BY TasksStayKnown, EvictionsStayKnown, SessionStaysKnown DEF Kept, Quiet
<1>5. EntriesKnown' /\ BindingsHeld'
  BY EntriesStayKnown, BindingsStayHeld DEF Kept, Quiet, BindingsStay
<1> QED
  BY <1>1, <1>2, <1>3, <1>4, <1>5 DEF Kept

-----------------------------------------------------------------------------
(***************************************************************************)
(* Bindings on their way.                                                  *)
(***************************************************************************)
\* The binding e moves on, if it is under way at all.
Moves(e) == (Underway(e)' => Underway(e)) /\ (Once(e) => Once(e)')

\* Bindings stay where they are if the workers do.
LEMMA WorkersSame ==
    ASSUME UNCHANGED <<errTasks, rs, sending, channel, bindCache, binds>>, NEW e
    PROVE  Moves(e)
  BY DEF Moves, Underway, Once, InChannel, InBindCache, InBinds, ChannelOnce,
         BindCacheOnce, BindsOnce

\* Where a binding is in a sequence that has grown, or lost its first.
LEMMA AppendIn ==
    ASSUME NEW s \in Seq(Entries), NEW x \in Entries, NEW e
    PROVE  /\ (\E i \in DOMAIN Append(s, x) : Append(s, x)[i] = e) <=>
                x = e \/ \E i \in DOMAIN s : s[i] = e
           /\ /\ \A i, j \in DOMAIN s : s[i] = e /\ s[j] = e => i = j
              /\ x = e => ~\E i \in DOMAIN s : s[i] = e
              => \A i, j \in DOMAIN Append(s, x) :
                   Append(s, x)[i] = e /\ Append(s, x)[j] = e => i = j
<1> DEFINE a == Append(s, x)
<1>1. /\ DOMAIN a = 1 .. Len(s) + 1 /\ DOMAIN s = 1 .. Len(s) /\ a[Len(s) + 1] = x
      /\ \A i \in 1 .. Len(s) : a[i] = s[i]
  OBVIOUS
<1>2. Len(s) \in Nat
  OBVIOUS
<1> HIDE DEF a
<1>3. \A i \in DOMAIN a : i \in DOMAIN s \/ i = Len(s) + 1
  BY <1>1, <1>2
<1>4. \A i \in DOMAIN s : i \in DOMAIN a /\ i # Len(s) + 1
  BY <1>1, <1>2
<1>5. Len(s) + 1 \in DOMAIN a
  BY <1>1, <1>2
<1> QED
  BY <1>1, <1>3, <1>4, <1>5 DEF a

\* What is in the tail of a sequence without repetitions, and what is not.
LEMMA TailIn ==
    ASSUME NEW s \in Seq(Entries), s # <<>>, NEW e
    PROVE  /\ (\E i \in DOMAIN Tail(s) : Tail(s)[i] = e) => \E i \in DOMAIN s : s[i] = e
           /\ (\E i \in DOMAIN s : s[i] = e) =>
                Head(s) = e \/ \E i \in DOMAIN Tail(s) : Tail(s)[i] = e
           /\ \E i \in DOMAIN s : s[i] = Head(s)
           /\ (\A i, j \in DOMAIN s : s[i] = e /\ s[j] = e => i = j) =>
                /\ \A i, j \in DOMAIN Tail(s) :
                     Tail(s)[i] = e /\ Tail(s)[j] = e => i = j
                /\ Head(s) = e => ~\E i \in DOMAIN Tail(s) : Tail(s)[i] = e
<1> DEFINE a == Tail(s)
<1>1. Len(s) \in Nat /\ Len(s) # 0
  OBVIOUS
<1>2. DOMAIN a = 1 .. Len(s) - 1 /\ DOMAIN s = 1 .. Len(s) /\ Head(s) = s[1]
  OBVIOUS
<1>3. \A i \in DOMAIN a : a[i] = s[i + 1]
  OBVIOUS
<1> HIDE DEF a
<1>4. \A i \in DOMAIN a : i \in Nat /\ i + 1 \in DOMAIN s /\ i + 1 # 1
  BY <1>1, <1>2
<1>5. \A i \in DOMAIN s : i = 1 \/ (i - 1 \in DOMAIN a /\ (i - 1) + 1 = i)
  BY <1>1, <1>2
<1>6. 1 \in DOMAIN s
  BY <1>1, <1>2
<1>7. \A i, j \in DOMAIN a : i + 1 = j + 1 => i = j
  BY <1>4
<1>8. (\E i \in DOMAIN a : a[i] = e) => \E i \in DOMAIN s : s[i] = e
  BY <1>3, <1>4
<1>9. (\E i \in DOMAIN s : s[i] = e) => Head(s) = e \/ \E i \in DOMAIN a : a[i] = e
  <2> SUFFICES ASSUME NEW i \in DOMAIN s, s[i] = e
               PROVE  Head(s) = e \/ \E j \in DOMAIN a : a[j] = e
    OBVIOUS
  <2>1. CASE i = 1
    BY <1>2, <2>1
  <2>2. CASE i # 1
    <3>1. i - 1 \in DOMAIN a /\ (i - 1) + 1 = i
      BY <1>5, <2>2
    <3>2. a[i - 1] = s[i]
      BY <1>3, <3>1
    <3> QED
      BY <3>1, <3>2
  <2> QED
    BY <2>1, <2>2
<1>10. ASSUME \A i, j \in DOMAIN s : s[i] = e /\ s[j] = e => i = j
       PROVE  /\ \A i, j \in DOMAIN a : a[i] = e /\ a[j] = e => i = j
              /\ Head(s) = e => ~\E i \in DOMAIN a : a[i] = e
  <2>1. ASSUME NEW i \in DOMAIN a, NEW j \in DOMAIN a, a[i] = e, a[j] = e PROVE i = j
    <3>1. s[i + 1] = e /\ s[j + 1] = e /\ i + 1 \in DOMAIN s /\ j + 1 \in DOMAIN s
      BY <1>3, <1>4, <2>1
    <3>2. i + 1 = j + 1
      BY <1>10, <3>1
    <3> QED
      BY <1>7, <3>2
  <2>2. ASSUME NEW i \in DOMAIN a, a[i] = e, Head(s) = e PROVE FALSE
    <3>1. s[i + 1] = e /\ i + 1 \in DOMAIN s /\ i + 1 # 1 /\ s[1] = e
      BY <1>2, <1>3, <1>4, <2>2
    <3> QED
      BY <1>6, <1>10, <3>1
  <2> QED
    BY <2>1, <2>2
<1>11. \E i \in DOMAIN s : s[i] = Head(s)
  BY <1>2, <1>6
<1> QED
  BY <1>8, <1>9, <1>10, <1>11 DEF a

\* From the sender to the channel a binding is in one place.
LEMMA SentMoves ==
    ASSUME Types, Sent, NEW e \in Entries
    PROVE  Moves(e)
<1>1. /\ sending \in Entries /\ channel \in Seq(Entries) /\ channel' = Append(channel, sending)
      /\ sending' = NoBind /\ UNCHANGED <<errTasks, rs, bindCache, binds>>
  BY DEF Sent, Free, Types, WorkerTypes
<1>2. sending' # e
  BY <1>1, EntryParts
<1>3. InChannel(e)' <=> sending = e \/ InChannel(e)
  BY <1>1, AppendIn DEF InChannel
<1>4. ChannelOnce(e) /\ (sending = e => ~InChannel(e)) => ChannelOnce(e)'
  BY <1>1, AppendIn DEF ChannelOnce, InChannel
<1>5. /\ InBindCache(e)' <=> InBindCache(e)
      /\ InBinds(e)' <=> InBinds(e)
      /\ BindCacheOnce(e) => BindCacheOnce(e)'
      /\ BindsOnce(e) => BindsOnce(e)'
  BY <1>1 DEF InBindCache, InBinds, BindCacheOnce, BindsOnce
<1> QED
  BY <1>1, <1>2, <1>3, <1>4, <1>5 DEF Moves, Underway, Once

\* So it is from the channel to the batch being collected, or to the workers.
LEMMA processBindTaskMoves ==
    ASSUME Types, processBindTask, NEW e \in Entries
    PROVE  Moves(e)
<1>1. /\ channel \in Seq(Entries) /\ bindCache \in Seq(Entries) /\ channel # <<>>
      /\ channel' = Tail(channel) /\ bindCache' = Append(bindCache, Head(channel))
      /\ UNCHANGED <<errTasks, rs, sending, binds>>
  BY DEF processBindTask, Types, WorkerTypes
<1>2. PICK x \in Entries : x = Head(channel)
  BY <1>1
<1>3. /\ InChannel(e)' => InChannel(e)
      /\ x = e => InChannel(e)
      /\ ChannelOnce(e) => ChannelOnce(e)' /\ (x = e => ~InChannel(e)')
  BY <1>1, <1>2, TailIn DEF InChannel, ChannelOnce
<1>4. bindCache' = Append(bindCache, x)
  BY <1>1, <1>2
<1>5. InBindCache(e)' <=> x = e \/ InBindCache(e)
  <2>1. (\E i \in DOMAIN Append(bindCache, x) : Append(bindCache, x)[i] = e) <=>
          x = e \/ \E i \in DOMAIN bindCache : bindCache[i] = e
    BY <1>1, AppendIn
  <2> QED
    BY <1>4, <2>1, Zenon DEF InBindCache
<1>6. BindCacheOnce(e) /\ (x = e => ~InBindCache(e)) => BindCacheOnce(e)'
  BY <1>1, <1>4, AppendIn DEF InBindCache, BindCacheOnce
<1>7. /\ InBinds(e)' <=> InBinds(e)
      /\ BindsOnce(e) => BindsOnce(e)'
  BY <1>1 DEF InBinds, BindsOnce
<1> QED
  BY <1>1, <1>3, <1>5, <1>6, <1>7 DEF Moves, Underway, Once

\* So it is from the error queue to the resync worker.
LEMMA processResyncTaskMoves ==
    ASSUME Types, NEW f, processResyncTask(f), NEW e \in Entries
    PROVE  Moves(e)
<1>1. rs = Idle /\ UNCHANGED <<sending, channel, bindCache, binds>>
  BY DEF processResyncTask
<1>2. \/ UNCHANGED <<errTasks, rs>>
      \/ f \in errTasks /\ errTasks' = errTasks \ {f} /\ rs'.e = f
  BY DEF processResyncTask
<1>3. rs.e # e
  BY <1>1, EntryParts DEF Idle
<1>4. /\ InChannel(e)' <=> InChannel(e)
      /\ InBindCache(e)' <=> InBindCache(e)
      /\ InBinds(e)' <=> InBinds(e)
      /\ ChannelOnce(e) => ChannelOnce(e)'
      /\ BindCacheOnce(e) => BindCacheOnce(e)'
      /\ BindsOnce(e) => BindsOnce(e)'
  BY <1>1 DEF InChannel, InBindCache, InBinds, ChannelOnce, BindCacheOnce, BindsOnce
<1> QED
  BY <1>1, <1>2, <1>3, <1>4 DEF Moves, Underway, Once

\* What is in a sequence after one element is removed, and what is not.
LEMMA RemoveIn ==
    ASSUME NEW s \in Seq(Entries), NEW i \in DOMAIN s, NEW e
    PROVE  /\ (\E j \in DOMAIN RemoveAt(s, i) : RemoveAt(s, i)[j] = e) =>
                \E j \in DOMAIN s : s[j] = e
           /\ (\A j, k \in DOMAIN s : s[j] = e /\ s[k] = e => j = k) =>
                /\ \A j, k \in DOMAIN RemoveAt(s, i) :
                     RemoveAt(s, i)[j] = e /\ RemoveAt(s, i)[k] = e => j = k
                /\ s[i] = e => ~\E j \in DOMAIN RemoveAt(s, i) : RemoveAt(s, i)[j] = e
<1> DEFINE r == RemoveAt(s, i)
           at(j) == IF j < i THEN j ELSE j + 1
<1>1. r \in Seq(Entries) /\ Len(r) = Len(s) - 1
  BY RemoveAtType
<1>2. \A j \in DOMAIN r : r[j] = s[at(j)]
  BY RemoveAtType
<1>3. i \in Nat /\ Len(s) \in Nat /\ i <= Len(s) /\ DOMAIN s = 1 .. Len(s)
  OBVIOUS
<1>4. DOMAIN r = 1 .. Len(s) - 1
  BY <1>1
<1> HIDE DEF r
<1>5. \A j \in DOMAIN r : at(j) \in DOMAIN s /\ at(j) # i
  BY <1>3, <1>4
<1>6. \A j, k \in DOMAIN r : at(j) = at(k) => j = k
  BY <1>3, <1>4
<1> HIDE DEF at
<1>7. (\E j \in DOMAIN r : r[j] = e) => \E j \in DOMAIN s : s[j] = e
  BY <1>2, <1>5
<1>8. ASSUME \A j, k \in DOMAIN s : s[j] = e /\ s[k] = e => j = k
      PROVE  /\ \A j, k \in DOMAIN r : r[j] = e /\ r[k] = e => j = k
             /\ s[i] = e => ~\E j \in DOMAIN r : r[j] = e
  BY <1>2, <1>5, <1>6, <1>8
<1> QED
  BY <1>7, <1>8 DEF r

\* A batch is added, or goes on.
LEMMA BatchAdded ==
    ASSUME NEW B, NEW e, binds' = binds \cup {B}
    PROVE  /\ InBinds(e)' <=> InBinds(e) \/ InBatch(e, B)
           /\ /\ BindsOnce(e) /\ BatchOnce(e, B) /\ (InBatch(e, B) => ~InBinds(e))
              => BindsOnce(e)'
<1>1. InBinds(e)' <=> InBinds(e) \/ InBatch(e, B)
  BY DEF InBinds, InBatch
<1>2. ASSUME BindsOnce(e), BatchOnce(e, B), InBatch(e, B) => ~InBinds(e)
      PROVE  BindsOnce(e)'
  <2>1. \A b, d \in binds' : InBatch(e, b) /\ InBatch(e, d) => b = d
    BY <1>2 DEF BindsOnce, InBinds
  <2>2. \A b \in binds' : BatchOnce(e, b)
    BY <1>2 DEF BindsOnce
  <2> QED
    BY <2>1, <2>2 DEF BindsOnce, InBatch, BatchOnce
<1> QED
  BY <1>1, <1>2

\* A batch replaced by what is left of it has no new binding, and none twice.
LEMMA BatchReplaced ==
    ASSUME NEW b \in binds, NEW B, NEW e, binds' = (binds \ {b}) \cup {B},
           InBatch(e, B) => InBatch(e, b)
    PROVE  /\ InBinds(e)' => InBinds(e)
           /\ BindsOnce(e) /\ BatchOnce(e, B) => BindsOnce(e)'
<1>1. InBinds(e)' => InBinds(e)
  <2>1. InBinds(e)' => \E d \in binds' : InBatch(e, d)
    BY DEF InBinds, InBatch
  <2> QED
    BY <2>1 DEF InBinds
<1>2. ASSUME BindsOnce(e), BatchOnce(e, B)
      PROVE  BindsOnce(e)'
  <2>1. \A x, y \in binds' : InBatch(e, x) /\ InBatch(e, y) => x = y
    BY <1>2 DEF BindsOnce
  <2>2. \A x \in binds' : BatchOnce(e, x)
    BY <1>2 DEF BindsOnce
  <2> QED
    BY <2>1, <2>2 DEF BindsOnce, InBatch, BatchOnce
<1> QED
  BY <1>1, <1>2

\* A batch that is done with takes its bindings away.
LEMMA BatchRemoved ==
    ASSUME NEW b \in binds, NEW e, binds' = binds \ {b}
    PROVE  /\ InBinds(e)' => InBinds(e)
           /\ BindsOnce(e) => BindsOnce(e)'
           /\ BindsOnce(e) /\ InBatch(e, b) => ~InBinds(e)'
  BY DEF BindsOnce, InBinds, InBatch, BatchOnce

\* A binding that was in the batch of the bind worker is in the batch of a
\* goroutine or among the failed ones.
LEMMA BindTaskMoves ==
    ASSUME Types, BindTask, NEW e \in Entries
    PROVE  Moves(e)
<1>1. bindCache \in Seq(Entries) /\ bindCache' = <<>> /\ UNCHANGED <<rs, sending, channel>>
  BY BindTaskCases DEF Types, WorkerTypes
<1>2. /\ ~InBindCache(e)' /\ BindCacheOnce(e)'
      /\ InChannel(e)' <=> InChannel(e)
      /\ ChannelOnce(e) => ChannelOnce(e)'
  BY <1>1 DEF InBindCache, BindCacheOnce, InChannel, ChannelOnce
<1>3. CASE binds' = binds \cup {[todo |-> bindCache, errs |-> {}]} /\ UNCHANGED errTasks
  <2> DEFINE B == [todo |-> bindCache, errs |-> {}]
  <2>1. InBatch(e, B) <=> InBindCache(e)
    BY DEF InBatch, InBindCache
  <2>2. BindCacheOnce(e) => BatchOnce(e, B)
    BY DEF BindCacheOnce, BatchOnce
  <2>3. PICK x : x = B
    OBVIOUS
  <2> HIDE DEF B
  <2>4. binds' = binds \cup {x} /\ UNCHANGED errTasks
    BY <1>3, <2>3 DEF B
  <2>5. /\ InBinds(e)' <=> InBinds(e) \/ InBatch(e, x)
        /\ /\ BindsOnce(e) /\ BatchOnce(e, x) /\ (InBatch(e, x) => ~InBinds(e))
           => BindsOnce(e)'
    BY <2>4, BatchAdded
  <2> QED
    BY <1>1, <1>2, <2>1, <2>2, <2>3, <2>4, <2>5 DEF Moves, Underway, Once
<1>4. ASSUME NEW i \in DOMAIN bindCache, errTasks' = errTasks \cup {bindCache[i]},
             \/ binds' = binds
             \/ binds' = binds \cup {[todo |-> RemoveAt(bindCache, i), errs |-> {}]}
      PROVE  Moves(e)
  <2> DEFINE B == [todo |-> RemoveAt(bindCache, i), errs |-> {}]
  <2>1. InBatch(e, B) => InBindCache(e)
    BY <1>1, RemoveIn DEF InBatch, InBindCache
  <2>2. BindCacheOnce(e) => BatchOnce(e, B) /\ (bindCache[i] = e => ~InBatch(e, B))
    BY <1>1, RemoveIn DEF BindCacheOnce, BatchOnce, InBatch
  <2>3. PICK x : x = B
    OBVIOUS
  <2>4. bindCache[i] = e => InBindCache(e)
    BY DEF InBindCache
  <2> HIDE DEF B
  <2>5. binds' = binds \/ binds' = binds \cup {x}
    BY <1>4, <2>3 DEF B
  <2>6. CASE binds' = binds
    <3>1. (InBinds(e)' <=> InBinds(e)) /\ (BindsOnce(e) => BindsOnce(e)')
      BY <2>6 DEF InBinds, BindsOnce
    <3> QED
      BY <1>1, <1>2, <1>4, <2>4, <3>1 DEF Moves, Underway, Once
  <2>7. CASE binds' = binds \cup {x}
    <3>1. /\ InBinds(e)' <=> InBinds(e) \/ InBatch(e, x)
          /\ /\ BindsOnce(e) /\ BatchOnce(e, x) /\ (InBatch(e, x) => ~InBinds(e))
             => BindsOnce(e)'
      BY <2>7, BatchAdded
    <3> QED
      BY <1>1, <1>2, <1>4, <2>1, <2>2, <2>3, <2>4, <3>1 DEF Moves, Underway, Once
  <2> QED
    BY <2>5, <2>6, <2>7
<1> QED
  BY <1>3, <1>4, BindTaskCases

\* After a call the batch goes on with the rest, or what failed goes to the
\* resync worker.
LEMMA BindNextMoves ==
    ASSUME Types, NEW b \in binds, NEW E, E \in {{}, {Head(b.todo)}}, BindNext(b, E),
           UNCHANGED <<rs, sending, channel, bindCache>>, NEW e \in Entries
    PROVE  Moves(e)
<1>1. b.todo \in Seq(Entries) /\ b.todo # <<>>
  BY DEF Types, WorkerTypes, Batches
<1> DEFINE B == [todo |-> Tail(b.todo), errs |-> b.errs \cup E]
<1>2. /\ InBindCache(e)' <=> InBindCache(e)
      /\ InChannel(e)' <=> InChannel(e)
      /\ ChannelOnce(e) => ChannelOnce(e)'
      /\ BindCacheOnce(e) => BindCacheOnce(e)'
  BY DEF InBindCache, BindCacheOnce, InChannel, ChannelOnce
<1>3. \A x \in E : x = Head(b.todo)
  OBVIOUS
<1>4. e \in E => \E i \in DOMAIN b.todo : b.todo[i] = e
  BY <1>1, <1>3, TailIn
<1>5. InBatch(e, B) => InBatch(e, b)
  BY <1>1, <1>4, TailIn DEF InBatch
<1>6. BatchOnce(e, b) => BatchOnce(e, B)
  <2> SUFFICES ASSUME BatchOnce(e, b) PROVE BatchOnce(e, B)
    OBVIOUS
  <2>1. \A i, j \in DOMAIN b.todo : b.todo[i] = e /\ b.todo[j] = e => i = j
    BY DEF BatchOnce
  <2>2. /\ \A i, j \in DOMAIN Tail(b.todo) :
             Tail(b.todo)[i] = e /\ Tail(b.todo)[j] = e => i = j
        /\ Head(b.todo) = e => ~\E i \in DOMAIN Tail(b.todo) : Tail(b.todo)[i] = e
    BY <1>1, <2>1, TailIn
  <2>3. (\E i \in DOMAIN Tail(b.todo) : Tail(b.todo)[i] = e) => e \notin b.errs
    <3>1. (\E i \in DOMAIN b.todo : b.todo[i] = e) => e \notin b.errs
      BY DEF BatchOnce
    <3> QED
      BY <1>1, <3>1, TailIn
  <2> QED
    BY <1>3, <2>2, <2>3 DEF BatchOnce
<1>7. CASE binds' = binds \ {b} /\ errTasks' = errTasks \cup (b.errs \cup E)
  <2>1. /\ InBinds(e)' => InBinds(e)
        /\ BindsOnce(e) => BindsOnce(e)'
        /\ BindsOnce(e) /\ InBatch(e, b) => ~InBinds(e)'
    BY <1>7, BatchRemoved
  <2>2. e \in errTasks' => e \in errTasks \/ InBatch(e, b)
    BY <1>4, <1>7 DEF InBatch
  <2>3. InBatch(e, b) => InBinds(e)
    BY DEF InBinds
  <2>4. e \in errTasks => e \in errTasks'
    BY <1>7
  <2> QED
    BY <1>2, <2>1, <2>2, <2>3, <2>4 DEF Moves, Underway, Once
<1>8. CASE binds' = (binds \ {b}) \cup {B} /\ errTasks' = errTasks
  <2>1. PICK x : x = B
    OBVIOUS
  <2> HIDE DEF B
  <2>2. /\ binds' = (binds \ {b}) \cup {x}
        /\ InBatch(e, x) => InBatch(e, b)
        /\ BatchOnce(e, b) => BatchOnce(e, x)
    BY <1>5, <1>6, <1>8, <2>1
  <2>3. /\ InBinds(e)' => InBinds(e)
        /\ BindsOnce(e) /\ BatchOnce(e, x) => BindsOnce(e)'
    BY <2>2, BatchReplaced
  <2>4. BindsOnce(e) => BatchOnce(e, b)
    BY DEF BindsOnce
  <2> QED
    BY <1>2, <1>8, <2>2, <2>3, <2>4 DEF Moves, Underway, Once
<1> QED
  BY <1>7, <1>8 DEF BindNext

-----------------------------------------------------------------------------
(***************************************************************************)
(* Steps that write a pod.                                                 *)
(***************************************************************************)
\* The state o may follow the state x of a pod.
Continues(x, o) ==
    \/ o = NoPod
    \/ /\ o.uid = x.uid /\ (x.node # "" => o.node = x.node)
       /\ isTerminated(x.phase) => isTerminated(o.phase)
       /\ o.uid = 0 => o.node = ""
       /\ o.phase # "Pending" \/ o.deleting = TRUE => o.node # ""

\* No pod is pending, has no uid and no node.
LEMMA NoPodIs ==
    /\ NoPod.uid = 0 /\ NoPod.node = "" /\ NoPod.phase = "Pending"
    /\ NoPod.deleting = FALSE
  BY DEF NoPod

\* A write that continues a pod moves the pods on and leaves one event.
LEMMA WriteAdvances ==
    ASSUME Types, EventsPast, NEW p \in Names, NEW o \in PodObjects,
           PutPod(p, o), Continues(pod[p], o)
    PROVE  /\ PodsAdvance /\ UNCHANGED <<podSeen, node, nodeWatch>>
           /\ \E q \in Names : podWatch' = Append(podWatch, [name |-> q, obj |-> pod'[q]])
           /\ pod'[p] = o /\ \A q \in Names : q # p => pod'[q] = pod[q]
<1>1. /\ pod' = [pod EXCEPT ![p] = o] /\ podWatch' = Append(podWatch, [name |-> p, obj |-> o])
      /\ UNCHANGED <<uids, node, nodeWatch, podSeen>>
  BY DEF PutPod
<1>2. pod'[p] = o /\ \A q \in Names : q # p => pod'[q] = pod[q]
  BY <1>1 DEF Types, ApiTypes
<1>3. \A q \in Names : uids'[q] = uids[q] /\ uids[q] \in Nat /\ uids[q] <= uids[q]
  BY <1>1, Uids
<1>4. \A q \in Names : PastOf(pod[q], uids[q], pod[q])
  BY DEF EventsPast, Past
<1>5. PastOf(pod'[p], uids'[p], o)
  <2>1. CASE o = NoPod
    <3>1. o.uid = 0 /\ o.node = "" /\ o.phase = "Pending" /\ o.deleting = FALSE
      BY <2>1, NoPodIs
    <3>2. o.uid <= uids'[p]
      <4>1. uids[p] \in Nat /\ uids'[p] = uids[p]
        BY <1>3
      <4>2. 0 <= uids[p]
        BY <4>1
      <4> QED
        BY <3>1, <4>1, <4>2
    <3> QED
      BY <3>1, <3>2 DEF PastOf
  <2>2. CASE o # NoPod
    <3>1. pod[p].uid <= uids[p]
      BY <1>4 DEF PastOf
    <3> QED
      BY <1>2, <1>3, <2>2, <3>1 DEF PastOf, Continues
  <2> QED
    BY <2>1, <2>2
<1>6. PodMoved(p)
  <2>1. o = NoPod => o.uid = 0
    BY NoPodIs
  <2> QED
    BY <1>2, <1>3, <1>5, <2>1 DEF PodMoved, Past, Continues
<1>7. \A q \in Names : q # p => PodMoved(q)
  BY <1>2, <1>3, <1>4 DEF PodMoved, Past
<1> QED
  BY <1>1, <1>2, <1>6, <1>7 DEF PodsAdvance

\* A pod is written that is not bound thereby.
LEMMA WriteKeeps ==
    ASSUME Types, Types', Kept, NEW p \in Names, NEW o \in PodObjects, PutPod(p, o),
           Continues(pod[p], o), o.node \in {"", pod[p].node},
           UNCHANGED <<c, rs>>, BindingsStay,
           \A v \in evictions' : \E w \in evictions : v.t = w.t,
           \A n \in DOMAIN ssn'.nodes : n \in DOMAIN ssn.nodes,
           \A t \in DOMAIN ssn'.tasks :
             t \in DOMAIN ssn.tasks /\ (ssn'.tasks[t] = "Running" => ssn.tasks[t] = "Running")
    PROVE  Kept'
<1>1. /\ PodsAdvance /\ UNCHANGED <<podSeen, node, nodeWatch>>
      /\ \E q \in Names : podWatch' = Append(podWatch, [name |-> q, obj |-> pod'[q]])
      /\ pod'[p] = o /\ \A q \in Names : q # p => pod'[q] = pod[q]
  BY WriteAdvances DEF Kept
<1>2. BoundInPlace
  BY <1>1 DEF BoundInPlace
<1>3. Quiet
  BY <1>1, <1>2 DEF Quiet
<1>4. \/ rs = Idle \/ pod'[rs.e.t[1]].node = pod[rs.e.t[1]].node
      \/ pod'[rs.e.t[1]].node # rs.e.node
  <2>1. CASE rs = Idle
    BY <2>1
  <2>2. CASE rs # Idle
    <3>1. rs.e \in Entries
      BY <2>2 DEF Types, WorkerTypes, ResyncType
    <3>2. rs.e.t[1] \in Names /\ rs.e.node # ""
      BY <3>1, EntryParts
    <3> QED
      BY <1>1, <3>2
  <2> QED
    BY <2>1, <2>2
<1>5. ResyncKnown'
  BY <1>1, <1>4, ResyncStaysKnown DEF Kept
<1> QED
  BY <1>3, <1>5, QuietKeeps

\* What is written: a pod that changes, and a pod that is deleted.
LEMMA PodContinues ==
    ASSUME Types, EventsPast, NEW p \in Names
    PROVE  /\ Continues(pod[p], NoPod) /\ NoPod.node = ""
           /\ Continues(pod[p], Deleted(pod[p])) /\ Deleted(pod[p]).node \in {"", pod[p].node}
           /\ \A o \in PodObjects :
                /\ o.uid = pod[p].uid /\ o.node = pod[p].node
                /\ o.deleting = TRUE => pod[p].deleting = TRUE
                /\ \/ o.phase = pod[p].phase
                   \/ ~isTerminated(pod[p].phase) /\ pod[p].node # ""
                => Continues(pod[p], o)
<1>1. PastOf(pod[p], uids[p], pod[p]) /\ pod[p] \in PodObjects
  BY Uids DEF EventsPast, Past
<1>2. Continues(pod[p], NoPod) /\ NoPod.node = ""
  BY DEF Continues, NoPod
<1>3. Continues(pod[p], Deleted(pod[p])) /\ Deleted(pod[p]).node \in {"", pod[p].node}
  <2>1. CASE pod[p].node = ""
    BY <1>2, <2>1 DEF Deleted
  <2>2. CASE pod[p].node # ""
    <3> DEFINE o == [pod[p] EXCEPT !.deleting = TRUE]
    <3>1. Deleted(pod[p]) = o
      BY <2>2 DEF Deleted
    <3>2. o.uid = pod[p].uid /\ o.node = pod[p].node /\ o.phase = pod[p].phase
      BY <1>1 DEF PodObjects
    <3> HIDE DEF o
    <3> QED
      BY <1>1, <2>2, <3>1, <3>2 DEF Continues, PastOf
  <2> QED
    BY <2>1, <2>2
<1>4. ASSUME NEW o \in PodObjects,
             o.uid = pod[p].uid, o.node = pod[p].node,
             o.deleting = TRUE => pod[p].deleting = TRUE,
             \/ o.phase = pod[p].phase
             \/ ~isTerminated(pod[p].phase) /\ pod[p].node # ""
      PROVE  Continues(pod[p], o)
  <2>1. /\ pod[p].uid = 0 => pod[p].node = ""
        /\ pod[p].phase # "Pending" \/ pod[p].deleting = TRUE => pod[p].node # ""
    BY <1>1 DEF PastOf
  <2>2. isTerminated(pod[p].phase) => isTerminated(o.phase)
    BY <1>4
  <2>3. o.phase # "Pending" \/ o.deleting = TRUE => o.node # ""
    <3>0. pod[p].phase # "Pending" => pod[p].node # ""
      BY <2>1
    <3>1. o.phase # "Pending" => o.node # ""
      BY <1>4, <3>0, Zenon
    <3>2. o.deleting = TRUE => o.node # ""
      BY <1>4, <2>1
    <3> QED
      BY <3>1, <3>2
  <2> QED
    BY <1>4, <2>1, <2>2, <2>3 DEF Continues
<1> QED
  BY <1>2, <1>3, <1>4

\* Nothing of the session or of the bindings changes.
LEMMA OthersStay ==
    ASSUME UNCHANGED <<workers, ssn>>
    PROVE  /\ BindingsStay /\ UNCHANGED rs
           /\ \A v \in evictions' : \E w \in evictions : v.t = w.t
           /\ \A n \in DOMAIN ssn'.nodes : n \in DOMAIN ssn.nodes
           /\ \A t \in DOMAIN ssn'.tasks :
                t \in DOMAIN ssn.tasks /\ (ssn'.tasks[t] = "Running" => ssn.tasks[t] = "Running")
<1>1. UNCHANGED <<errTasks, rs, sending, channel, bindCache, binds, evictions, ssn>>
  BY DEF workers
<1>2. \A e \in Entries : Moves(e)
  BY <1>1, WorkersSame
<1>3. BindingsStay
  BY <1>2 DEF BindingsStay, Moves
<1> QED
  BY <1>1, <1>3

\* Kubelets and users change pods.
LEMMA PodStepKeeps ==
    ASSUME Types, Types', Kept, OwnWorld, NEW p \in Names, PodStep(p)
    PROVE  Kept'
<1>0. ~\E n \in Nodes : ForeignBind(p, n)
  <2>1. scenario.budget["foreign"] = 0 /\ left["foreign"] <= scenario.budget["foreign"]
    BY DisturbanceNames DEF OwnWorld, Types, BudgetTypes
  <2>2. left["foreign"] \in Nat
    BY DisturbanceNames DEF Types, BudgetTypes
  <2>3. ~(left["foreign"] > 0)
    BY <2>1, <2>2
  <2> QED
    BY <2>3 DEF ForeignBind, Spend
<1>1. UNCHANGED Others
  BY DEF PodStep, KubeletRun, KubeletRemove, KubeletStatus, KubeletEnd, DeletePod,
         ForeignBind
<1>2. UNCHANGED <<workers, ssn, c>>
  BY <1>1 DEF Others
<1>3. PICK o \in PodObjects :
        PutPod(p, o) /\ Continues(pod[p], o) /\ o.node \in {"", pod[p].node}
  <2>1. pod[p] \in PodObjects /\ PastOf(pod[p], uids[p], pod[p])
    BY Uids DEF Kept, EventsPast, Past
  <2>2. ApiTypes /\ EventsPast
    BY DEF Types, Kept
  <2>3. CASE KubeletRun(p)
    <3> DEFINE o == [pod[p] EXCEPT !.phase = "Running"]
    <3>1. /\ o \in PodObjects /\ o.uid = pod[p].uid /\ o.node = pod[p].node
          /\ o.deleting = TRUE => pod[p].deleting = TRUE
      BY <2>1 DEF PodObjects
    <3>2. PutPod(p, o) /\ pod[p].node # "" /\ pod[p].phase = "Pending"
      BY <2>3 DEF KubeletRun
    <3> HIDE DEF o
    <3>3. Continues(pod[p], o)
      BY <2>2, <3>1, <3>2, PodContinues DEF isTerminated
    <3> QED
      BY <3>1, <3>2, <3>3
  <2>4. CASE KubeletEnd(p)
    <3>1. PICK s \in {"Succeeded", "Failed"} : PutPod(p, [pod[p] EXCEPT !.phase = s])
      BY <2>4 DEF KubeletEnd
    <3>2. pod[p].phase = "Running"
      BY <2>4 DEF KubeletEnd
    <3> DEFINE o == [pod[p] EXCEPT !.phase = s]
    <3>3. /\ o \in PodObjects /\ o.uid = pod[p].uid /\ o.node = pod[p].node
          /\ o.deleting = TRUE => pod[p].deleting = TRUE
      BY <2>1 DEF PodObjects
    <3>4. PutPod(p, o)
      BY <3>1
    <3> HIDE DEF o
    <3>5. pod[p].node # ""
      BY <2>1, <3>2 DEF PastOf
    <3>6. Continues(pod[p], o)
      BY <2>2, <3>2, <3>3, <3>5, PodContinues DEF isTerminated
    <3> QED
      BY <3>3, <3>4, <3>6
  <2>5. CASE KubeletStatus(p)
    <3> DEFINE o == [pod[p] EXCEPT !.evicted = FALSE]
    <3>1. /\ o \in PodObjects /\ o.uid = pod[p].uid /\ o.node = pod[p].node
          /\ o.deleting = TRUE => pod[p].deleting = TRUE
          /\ o.phase = pod[p].phase
      BY <2>1 DEF PodObjects
    <3>2. PutPod(p, o)
      BY <2>5 DEF KubeletStatus
    <3> HIDE DEF o
    <3>3. Continues(pod[p], o)
      BY <2>2, <3>1, PodContinues
    <3> QED
      BY <3>1, <3>2, <3>3
  <2>6. CASE KubeletRemove(p)
    BY <2>2, <2>6, PodContinues, NoPodType DEF KubeletRemove
  <2>7. CASE DeletePod(p)
    BY <2>2, <2>7, PodContinues, PodWrites DEF DeletePod
  <2> QED
    BY <1>0, <2>3, <2>4, <2>5, <2>6, <2>7 DEF PodStep
<1> QED
  BY <1>2, <1>3, OthersStay, WriteKeeps

\* Nothing happens to the pods.
LEMMA PodsSame ==
    ASSUME Types, EventsPast, UNCHANGED <<pod, uids>>
    PROVE  PodsAdvance
<1>1. \A p \in Names : /\ uids'[p] = uids[p] /\ uids[p] \in Nat /\ uids[p] <= uids[p]
                       /\ pod'[p] = pod[p] /\ PastOf(pod[p], uids[p], pod[p])
  BY Uids DEF EventsPast, Past
<1> QED
  BY <1>1 DEF PodsAdvance, PodMoved, Past

\* A step of the workers or of a session that changes no pod.
LEMMA MovesKeep ==
    ASSUME Types, Types', Kept, UNCHANGED <<api, watches, c>>,
           \A e \in Entries : Moves(e),
           evictions' \subseteq evictions,
           \A n \in DOMAIN ssn'.nodes : n \in DOMAIN ssn.nodes,
           \A t \in DOMAIN ssn'.tasks :
             t \in DOMAIN ssn.tasks /\ (ssn'.tasks[t] = "Running" => ssn.tasks[t] = "Running"),
           UNCHANGED rs \/ ResyncKnown'
    PROVE  Kept'
<1>1. UNCHANGED <<pod, uids, node, podWatch, nodeWatch, podSeen>>
  BY DEF api, watches
<1>2. PodsAdvance
  BY <1>1, PodsSame DEF Kept
<1>3. BindingsStay /\ BoundInPlace
  BY <1>1 DEF BindingsStay, BoundInPlace, Moves
<1>4. Quiet
  BY <1>1, <1>2, <1>3 DEF Quiet
<1>5. ResyncKnown'
  BY <1>1, <1>2, ResyncStaysKnown DEF Kept
<1> QED
  BY <1>4, <1>5, QuietKeeps

\* A binding sent to the channel keeps every place.
LEMMA SentKeeps ==
    ASSUME Types, Types', Kept, Sent
    PROVE  Kept'
<1>1. UNCHANGED <<api, watches, c, evictions, ssn, rs>>
  BY DEF Sent
<1>2. \A e \in Entries : Moves(e)
  BY SentMoves
<1> QED
  BY <1>1, <1>2, MovesKeep

\* processBindTask keeps every place.
LEMMA processBindTaskKeeps ==
    ASSUME Types, Types', Kept, processBindTask
    PROVE  Kept'
<1>1. UNCHANGED <<api, watches, c, evictions, ssn, rs>>
  BY DEF processBindTask
<1>2. \A e \in Entries : Moves(e)
  BY processBindTaskMoves
<1> QED
  BY <1>1, <1>2, MovesKeep

\* BindTask keeps every place: a binding whose volumes fail goes to the error
\* queue, not away.
LEMMA BindTaskKeeps ==
    ASSUME Types, Types', Kept, BindTask
    PROVE  Kept'
<1>1. UNCHANGED <<api, watches, c, evictions, ssn, rs>>
  BY DEF BindTask
<1>2. \A e \in Entries : Moves(e)
  BY BindTaskMoves
<1> QED
  BY <1>1, <1>2, MovesKeep

\* The end of a session keeps every place.
LEMMA CloseSessionKeeps ==
    ASSUME Types, Types', Kept, CloseSession
    PROVE  Kept'
<1>1. UNCHANGED <<api, watches, c, workers>> /\ ssn' = NoSession
  BY DEF CloseSession
<1>2. UNCHANGED <<errTasks, rs, sending, channel, bindCache, binds, evictions>>
  BY <1>1 DEF workers
<1>3. \A e \in Entries : Moves(e)
  BY <1>2, WorkersSame
<1>4. DOMAIN ssn'.nodes = {} /\ DOMAIN ssn'.tasks = {}
  BY <1>1 DEF NoSession
<1> QED
  BY <1>1, <1>2, <1>3, <1>4, MovesKeep

\* A step that writes the history or the budget only keeps every place.
LEMMA StutteringKeeps ==
    ASSUME Types, Types', Kept, UNCHANGED <<api, watches, c, workers, ssn>>
    PROVE  Kept'
<1>1. UNCHANGED <<errTasks, rs, sending, channel, bindCache, binds, evictions>>
  BY DEF workers
<1>2. \A e \in Entries : Moves(e)
  BY <1>1, WorkersSame
<1> QED
  BY <1>1, <1>2, MovesKeep

\* Of PodGroups the places know nothing.
LEMMA GroupStepKeeps ==
    ASSUME Types, Types', Kept, NEW j, GroupStep(j)
    PROVE  Kept'
<1>1. UNCHANGED <<pod, uids, node, podWatch, nodeWatch, podSeen, c, workers, ssn>>
  BY DEF GroupStep, GroupGoes, GroupBack, PutGroup, Others
<1>2. PodsAdvance
  BY <1>1, PodsSame DEF Kept
<1>3. BoundInPlace
  BY <1>1 DEF BoundInPlace
<1>4. Quiet
  BY <1>1, <1>2, <1>3, OthersStay DEF Quiet
<1>5. ResyncKnown'
  BY <1>1, <1>2, OthersStay, ResyncStaysKnown DEF Kept
<1> QED
  BY <1>4, <1>5, QuietKeeps

\* Nodes do not change.
LEMMA NodeStepNever ==
    ASSUME Types, Kept, OwnWorld, NEW n \in Nodes, NodeStep(n)
    PROVE  FALSE
<1>1. ASSUME NEW d \in {"resize", "renew"} PROVE ~(left[d] > 0)
  <2>1. d \in Disturbances
    BY DisturbanceNames
  <2>2. scenario.budget[d] = 0 /\ left[d] <= scenario.budget[d] /\ left[d] \in Nat
    BY <2>1 DEF OwnWorld, Types, BudgetTypes
  <2>3. left[d] \in Nat
    BY <2>2
  <2>4. left[d] <= 0
    BY <2>2
  <2> QED
    BY <2>3, <2>4
<1>2. node[n] = [alloc |-> Alloc[n], ready |-> TRUE, there |-> TRUE]
  BY DEF Kept, NodesKept, Full
<1>3. ~(left["resize"] > 0) /\ ~(left["renew"] > 0)
  BY <1>1
<1> QED
  BY <1>2, <1>3 DEF NodeStep, NodeWorse, NodeGoes, NodeBack, Spend

\* A task found unschedulable keeps every place.
LEMMA taskUnschedulableKeeps ==
    ASSUME Types, Types', Kept, NEW t, taskUnschedulable(t)
    PROVE  Kept'
<1>1. /\ t \in DOMAIN ssn.tasks /\ PutPod(t[1], [pod[t[1]] EXCEPT !.told = TRUE])
      /\ ssn' = SessionTask(t, "Unschedulable") /\ UNCHANGED <<c, workers>>
  BY DEF taskUnschedulable, SessionTask
<1>2. PICK p \in Names : p = t[1]
  BY <1>1, SessionParts DEF Types, OwnTids, Tids
<1> DEFINE o == [pod[p] EXCEPT !.told = TRUE]
<1>3. /\ o \in PodObjects /\ o.uid = pod[p].uid /\ o.node = pod[p].node
      /\ o.deleting = TRUE => pod[p].deleting = TRUE
      /\ o.phase = pod[p].phase
  <2>1. pod[p] \in PodObjects
    BY Uids
  <2> QED
    BY <2>1 DEF PodObjects
<1>4. PutPod(p, o)
  BY <1>1, <1>2
<1> HIDE DEF o
<1>5. Continues(pod[p], o)
  BY <1>3, PodContinues DEF Kept
<1>6. UNCHANGED <<errTasks, rs, sending, channel, bindCache, binds, evictions>>
  BY <1>1 DEF workers
<1>7. BindingsStay
  BY <1>6, WorkersSame DEF BindingsStay, Moves
<1>8. /\ ssn'.nodes = ssn.nodes
      /\ \A z \in DOMAIN ssn'.tasks : z \in DOMAIN ssn.tasks
      /\ \A z \in DOMAIN ssn.tasks :
           ssn'.tasks[z] = IF z = t THEN "Unschedulable" ELSE ssn.tasks[z]
  BY <1>1, SessionTaskType DEF Types
<1>9. \A z \in DOMAIN ssn'.tasks :
        z \in DOMAIN ssn.tasks /\ (ssn'.tasks[z] = "Running" => ssn.tasks[z] = "Running")
  BY <1>8
<1> QED
  BY <1>1, <1>3, <1>4, <1>5, <1>6, <1>7, <1>8, <1>9, WriteKeeps

\* A new pod has a uid that nothing knows.
LEMMA CreatePodKeeps ==
    ASSUME Types, Types', Kept, NEW p \in Names, CreatePod(p)
    PROVE  Kept'
<1> DEFINE u == uids[p] + 1
           o == [NoPod EXCEPT !.uid = u]
<1>1. uids[p] \in Nat /\ u \in Nat /\ u > uids[p] /\ u # 0 /\ uids[p] <= u /\ u <= u
  BY Uids
<1>2. pod'[p] = o
  BY DEF CreatePod, Types, ApiTypes
<1>3. /\ o.uid = u /\ o.node = "" /\ o.phase = "Pending" /\ o.deleting = FALSE
  BY DEF NoPod
<1>4. /\ uids' = [uids EXCEPT ![p] = u] /\ pod' = [pod EXCEPT ![p] = o]
      /\ podWatch' = Append(podWatch, [name |-> p, obj |-> pod'[p]])
      /\ UNCHANGED <<node, nodeWatch, podSeen, Others>> /\ pod[p].uid = 0
  BY <1>2 DEF CreatePod
<1> HIDE DEF u, o
<1>5. /\ pod'[p] = o /\ uids'[p] = u
      /\ \A q \in Names : q # p => pod'[q] = pod[q] /\ uids'[q] = uids[q]
  BY <1>4 DEF Types, ApiTypes
<1>6. UNCHANGED <<c, workers, ssn>>
  BY <1>4 DEF Others
<1>7. PodsAdvance
  <2>1. PodMoved(p)
    <3>1. PastOf(o, u, o)
      BY <1>1, <1>3 DEF PastOf
    <3> QED
      BY <1>1, <1>3, <1>5, <3>1 DEF PodMoved, Past
  <2>2. ASSUME NEW q \in Names, q # p PROVE PodMoved(q)
    <3>1. PastOf(pod[q], uids[q], pod[q]) /\ uids[q] \in Nat /\ uids[q] <= uids[q]
      BY Uids DEF Kept, EventsPast, Past
    <3> QED
      BY <1>5, <2>2, <3>1 DEF PodMoved, Past
  <2> QED
    BY <2>1, <2>2 DEF PodsAdvance
<1>8. \A q \in Names : pod'[q].node = "" \/ pod'[q].node = pod[q].node
  BY <1>3, <1>5
<1>9. BoundInPlace
  BY <1>8 DEF BoundInPlace
<1>10. Quiet
  BY <1>4, <1>6, <1>7, <1>9, OthersStay DEF Quiet
<1>11. \/ rs = Idle \/ pod'[rs.e.t[1]].node = pod[rs.e.t[1]].node
       \/ pod'[rs.e.t[1]].node # rs.e.node
  <2>1. CASE rs # Idle
    <3>1. rs.e \in Entries
      BY <2>1 DEF Types, WorkerTypes, ResyncType
    <3>2. rs.e.t[1] \in Names /\ rs.e.node # ""
      BY <3>1, EntryParts
    <3> QED
      BY <1>8, <3>2
  <2> QED
    BY <2>1
<1>12. ResyncKnown'
  BY <1>4, <1>6, <1>7, <1>11, OthersStay, ResyncStaysKnown DEF Kept
<1> QED
  BY <1>10, <1>12, QuietKeeps

\* The resync worker reads the pod as it is.
LEMMA processResyncTaskKeeps ==
    ASSUME Types, Types', Kept, NEW e, processResyncTask(e)
    PROVE  Kept'
<1>1. UNCHANGED <<api, watches, c, evictions, ssn>> /\ e \in errTasks
  BY DEF processResyncTask
<1>2. \A f \in Entries : Moves(f)
  BY processResyncTaskMoves
<1>3. UNCHANGED rs \/ ResyncKnown'
  <2>1. CASE ~UNCHANGED rs
    <3>1. /\ rs'.e = e /\ rs'.got = pod[e.t[1]]
          /\ rs'.step = IF pod[e.t[1]].uid = 0 THEN "delete" ELSE "update"
      BY <2>1 DEF processResyncTask
    <3>2. e \in Entries
      BY <1>1 DEF Types, WorkerTypes
    <3> DEFINE p == e.t[1]
    <3>3. p \in Names /\ e.node # "" /\ Seen(e.t)
      BY <1>1, <3>2, EntryParts DEF Kept, EntriesKnown, Underway
    <3>4. PastOf(pod[p], uids[p], pod[p])
      BY <3>3 DEF Kept, EventsPast, Past
    <3>5. UNCHANGED <<pod, uids, podSeen>>
      BY <1>1 DEF api, watches
    <3> QED
      BY <3>1, <3>3, <3>4, <3>5 DEF ResyncKnown, Past, Seen
  <2> QED
    BY <2>1
<1> QED
  BY <1>1, <1>2, <1>3, MovesKeep

\* The bind worker's call is accepted only if the pod has no node yet: its
\* binding was undecided, so it has its place.
LEMMA BindKeeps ==
    ASSUME Types, Types', Kept, NEW b, Bind(b)
    PROVE  Kept'
<1>1. /\ b \in binds /\ Head(b.todo) \in Entries
      /\ UNCHANGED <<c, rs, sending, channel, bindCache, evictions, ssn>>
  BY BindCases
<1>2. PICK e \in Entries : e = Head(b.todo)
  BY <1>1
<1>3. \A f \in Entries : Moves(f)
  <2>1. BindNext(b, {}) \/ BindNext(b, {Head(b.todo)})
    BY BindCases
  <2>2. {} \in {{}, {Head(b.todo)}} /\ {Head(b.todo)} \in {{}, {Head(b.todo)}}
    OBVIOUS
  <2> QED
    BY <1>1, <2>1, <2>2, BindNextMoves
<1>4. CASE UNCHANGED <<api, watches>>
  BY <1>1, <1>3, <1>4, MovesKeep
<1>5. CASE Accepts(Head(b.todo)) /\ PutPod(Head(b.todo).t[1],
             [pod[Head(b.todo).t[1]] EXCEPT !.node = Head(b.todo).node, !.told = FALSE])
  <2>1. PICK p \in Names : p = e.t[1]
    BY EntryParts
  <2> DEFINE o == [pod[p] EXCEPT !.node = e.node, !.told = FALSE]
  <2>2. PutPod(p, o)
    BY <1>2, <1>5, <2>1
  <2>3. pod[p].uid = e.t[2] /\ pod[p].node = "" /\ pod[p].deleting # TRUE
    BY <1>2, <1>5, <2>1 DEF Accepts
  <2>4. /\ pod[p] \in PodObjects /\ PastOf(pod[p], uids[p], pod[p])
        /\ e.node \in Nodes /\ e.node # "" /\ e.t[2] # 0 /\ JobOf[p] # ""
    BY <2>1, Uids, EntryParts DEF Kept, EventsPast, Past
  <2>5. /\ o \in PodObjects /\ o.uid = pod[p].uid /\ o.node = e.node
        /\ o.phase = pod[p].phase
    BY <2>4 DEF PodObjects
  <2> HIDE DEF o
  <2>6. Continues(pod[p], o)
    BY <2>3, <2>4, <2>5 DEF Continues
  <2>7. EventsPast
    BY DEF Kept
  <2>8. /\ PodsAdvance /\ UNCHANGED <<podSeen, node, nodeWatch>>
        /\ \E q \in Names : podWatch' = Append(podWatch, [name |-> q, obj |-> pod'[q]])
        /\ pod'[p] = o /\ \A q \in Names : q # p => pod'[q] = pod[q]
    BY <2>2, <2>5, <2>6, <2>7, WriteAdvances
  <2>9. Undecided(e) /\ InBinds(e) /\ Underway(e)
    <3>1. b.todo \in Seq(Entries) /\ b.todo # <<>>
      BY <1>1 DEF Types, WorkerTypes, Batches
    <3>2. \E i \in DOMAIN b.todo : b.todo[i] = e
      BY <1>2, <3>1, TailIn
    <3>3. InBinds(e)
      BY <1>1, <3>2 DEF InBinds, InBatch
    <3> QED
      BY <2>1, <2>3, <3>3 DEF Undecided, Underway
  <2>10. Once(e) /\ Holds(e.node, p) /\ Seen(e.t)
    BY <2>1, <2>9 DEF Kept, BindingsHeld, EntriesKnown
  <2>11. podSeen[p].uid = pod[p].uid
    BY <2>1, <2>3, <2>10 DEF Seen
  <2>12. BoundInPlace
    BY <2>4, <2>5, <2>8, <2>10, <2>11 DEF BoundInPlace
  <2>13. BindingsStay
    BY <1>3 DEF BindingsStay, Moves
  <2>14. Quiet
    BY <1>1, <2>8, <2>12, <2>13 DEF Quiet
  <2>15. ResyncKnown'
    <3>1. CASE rs = Idle \/ pod'[rs.e.t[1]].node # rs.e.node
      BY <1>1, <2>7, <2>8, <3>1, ResyncStaysKnown DEF Kept
    <3>2. CASE rs # Idle /\ pod'[rs.e.t[1]].node = rs.e.node
      <4>1. rs.e \in Entries /\ rs.step \in {"update", "delete", "node", "retry"}
        BY <3>2 DEF Types, WorkerTypes, ResyncType
      <4>2. rs.e.t[1] \in Names /\ rs.e.node # ""
        BY <4>1, EntryParts
      <4>3. CASE rs.e.t[1] # p
        BY <1>1, <2>7, <2>8, <4>2, <4>3, ResyncStaysKnown DEF Kept
      <4>4. CASE rs.e.t[1] = p
        <5>1. rs.e.node = e.node /\ rs.e # e
          BY <2>5, <2>8, <2>9, <2>10, <3>2, <4>4 DEF Once
        <5>2. rs.e.t # e.t
          BY <4>1, <5>1 DEF Entries
        <5>3. rs.e.t[2] # e.t[2]
          BY <2>1, <4>1, <4>4, <5>2, EntryParts, TidIs
        <5>4. pod'[p].uid # rs.e.t[2] /\ pod'[p].uid = pod[p].uid
          BY <2>3, <2>5, <2>8, <5>3
        <5>5. rs.step # "update" => podSeen[p].uid # pod[p].uid
          BY <2>3, <2>4, <4>1, <4>4 DEF Kept, ResyncKnown
        <5>6. rs.step = "update"
          BY <2>11, <5>5
        <5>7. PastOf(pod[p], uids[p], rs.got) /\ rs.got \in PodObjects
          BY <4>1, <4>4, <5>6, ResyncBusy DEF Kept, ResyncKnown, Past
        <5>8. PastOf(pod'[p], uids'[p], rs.got)
          BY <2>8, <5>7, PastStays
        <5>9. rs.got.uid = rs.e.t[2] => podSeen[p].uid = rs.got.uid
          BY <4>4, <5>6 DEF Kept, ResyncKnown
        <5> QED
          BY <1>1, <2>8, <4>4, <5>4, <5>6, <5>8, <5>9 DEF ResyncKnown, Past
      <4> QED
        BY <4>3, <4>4
    <3> QED
      BY <3>1, <3>2
  <2> QED
    BY <2>14, <2>15, QuietKeeps
<1> QED
  BY <1>4, <1>5, BindCases

\* The evictor changes a pod that is bound; a task it sends back to the resync
\* worker is no binding that is undecided.
LEMMA EvictionKeeps ==
    ASSUME Types, Types', Kept, NEW v, EvictStatus(v) \/ EvictDelete(v)
    PROVE  Kept'
<1>1. /\ v \in evictions /\ v.t \in OwnTids /\ EntryOf(v) \in Entries
      /\ UNCHANGED <<c, rs, sending, channel, bindCache, binds, ssn>>
      /\ errTasks' \in {errTasks, errTasks \cup {EntryOf(v)}}
  BY EvictionCases
<1>2. \A w \in evictions' : \E x \in evictions : w.t = x.t
  <2>1. evictions' = evictions \ {v} \/ evictions' = (evictions \ {v}) \cup {[v EXCEPT !.step = "delete"]}
    BY EvictionCases
  <2>2. [v EXCEPT !.step = "delete"].t = v.t
    BY <1>1 DEF Types, WorkerTypes, Evictions
  <2> QED
    BY <1>1, <2>1, <2>2
<1>3. /\ \A n \in DOMAIN ssn'.nodes : n \in DOMAIN ssn.nodes
      /\ \A t \in DOMAIN ssn'.tasks :
           t \in DOMAIN ssn.tasks /\ (ssn'.tasks[t] = "Running" => ssn.tasks[t] = "Running")
  BY <1>1
<1>4. PICK f \in Entries : f = EntryOf(v)
  BY <1>1
<1>5. f.t = v.t /\ f.t \in Tids
  BY <1>4, EntryParts DEF EntryOf
<1>6. Seen(f.t) /\ (f.t[2] = pod[f.t[1]].uid => pod[f.t[1]].node # "")
  BY <1>1, <1>5 DEF Kept, EvictionsKnown
<1>7. ASSUME PodsAdvance PROVE BindingsStay
  <2>1. ASSUME NEW e \in Entries, e # f \/ errTasks' = errTasks PROVE Moves(e)
    <3>1. e \in errTasks' <=> e \in errTasks
      BY <1>1, <1>4, <2>1
    <3>2. /\ InChannel(e)' <=> InChannel(e)
          /\ InBindCache(e)' <=> InBindCache(e)
          /\ InBinds(e)' <=> InBinds(e)
          /\ ChannelOnce(e) => ChannelOnce(e)'
          /\ BindCacheOnce(e) => BindCacheOnce(e)'
          /\ BindsOnce(e) => BindsOnce(e)'
      BY <1>1 DEF InChannel, InBindCache, InBinds, ChannelOnce, BindCacheOnce, BindsOnce
    <3> QED
      BY <1>1, <3>1, <3>2 DEF Moves, Underway, Once
  <2>2. ~Undecided(f)'
    <3>1. f.t[2] <= uids[f.t[1]]
      BY <1>6 DEF Seen
    <3>2. f.t[2] = pod'[f.t[1]].uid => pod'[f.t[1]].node # ""
      BY <1>5, <1>6, <1>7, <3>1, KnownStays
    <3> QED
      BY <3>2 DEF Undecided
  <2> QED
    BY <1>6, <2>1, <2>2 DEF BindingsStay, Moves
<1>8. CASE UNCHANGED <<api, watches>>
  <2>1. UNCHANGED <<pod, uids, node, podWatch, nodeWatch, podSeen>>
    BY <1>8 DEF api, watches
  <2>2. PodsAdvance
    BY <2>1, PodsSame DEF Kept
  <2>3. BoundInPlace
    BY <2>1 DEF BoundInPlace
  <2>4. Quiet
    BY <1>1, <1>2, <1>3, <1>7, <2>1, <2>2, <2>3 DEF Quiet
  <2>5. ResyncKnown'
    BY <1>1, <2>1, <2>2, ResyncStaysKnown DEF Kept
  <2> QED
    BY <2>4, <2>5, QuietKeeps
<1>9. ASSUME NEW o \in PodObjects, NEW p \in Names, p = v.t[1], PutPod(p, o),
             Continues(pod[p], o), o.node \in {"", pod[p].node}
      PROVE  Kept'
  <2>1. PodsAdvance
    BY <1>9, WriteAdvances DEF Kept
  <2> QED
    BY <1>1, <1>2, <1>3, <1>7, <1>9, <2>1, WriteKeeps
<1>10. PICK p \in Names : p = v.t[1]
  BY EvictionCases
<1>11. CASE PutPod(v.t[1], [pod[v.t[1]] EXCEPT !.evicted = TRUE])
  <2> DEFINE o == [pod[p] EXCEPT !.evicted = TRUE]
  <2>1. /\ o \in PodObjects /\ o.uid = pod[p].uid /\ o.node = pod[p].node
        /\ o.deleting = TRUE => pod[p].deleting = TRUE
        /\ o.phase = pod[p].phase
    <3>1. pod[p] \in PodObjects
      BY Uids
    <3> QED
      BY <3>1 DEF PodObjects
  <2>2. PutPod(p, o)
    BY <1>10, <1>11
  <2> HIDE DEF o
  <2>3. Continues(pod[p], o)
    BY <2>1, PodContinues DEF Kept
  <2> QED
    BY <1>9, <1>10, <2>1, <2>2, <2>3
<1>12. CASE PutPod(v.t[1], Deleted(pod[v.t[1]]))
  <2> DEFINE o == Deleted(pod[p])
  <2>1. o \in PodObjects /\ Continues(pod[p], o) /\ o.node \in {"", pod[p].node}
    BY PodWrites, PodContinues DEF Kept, Types
  <2>2. PutPod(p, o)
    BY <1>10, <1>12
  <2> HIDE DEF o
  <2> QED
    BY <1>9, <1>10, <2>1, <2>2
<1> QED
  BY <1>8, <1>11, <1>12, EvictionCases

\* Only a node that has its Node object is ready.
LEMMA ReadyIsSet ==
    ASSUME NEW ni \in GoodNodes, ni.ready
    PROVE  ni.set = TRUE
<1>1. ni \in NodeInfoType /\ Accounted(ni) /\ ni.set \in BOOLEAN
  BY DEF GoodNodes, NodeInfoType
<1>2. CASE ~ni.set
  <2>1. [ni EXCEPT !.tasks = UnsetNodeInfo.tasks] = UnsetNodeInfo
    BY <1>1, <1>2 DEF Accounted
  <2>2. [ni EXCEPT !.tasks = UnsetNodeInfo.tasks].ready = ni.ready
    BY <1>1 DEF NodeInfoType
  <2>3. UnsetNodeInfo.ready = FALSE
    BY DEF UnsetNodeInfo
  <2> QED
    BY <2>1, <2>2, <2>3
<1> QED
  BY <1>1, <1>2

\* A session takes the nodes that are ready and the status of the tasks.
LEMMA SnapshotKeeps ==
    ASSUME Types, Types', Kept, Snapshot
    PROVE  Kept'
<1>1. UNCHANGED <<api, watches, c, workers>>
  BY DEF Snapshot
<1>2. UNCHANGED <<pod, uids, node, podWatch, nodeWatch, podSeen, errTasks, rs, sending,
                  channel, bindCache, binds, evictions>>
  BY <1>1 DEF api, watches, workers
<1>3. /\ \A n \in DOMAIN ssn'.nodes : n \in DOMAIN c.nodes /\ c.nodes[n].ready
      /\ \A t \in DOMAIN ssn'.tasks : t \in DOMAIN c.tasks /\ ssn'.tasks[t] = c.tasks[t].status
  BY DEF Snapshot
<1>4. PodsAdvance
  BY <1>2, PodsSame DEF Kept
<1>5. NodesKept'
  <2>1. \A n \in DOMAIN c.nodes : c.nodes[n].ready => c.nodes[n].set = TRUE
    BY CacheParts, ReadyIsSet DEF Types, CacheTypes
  <2> QED
    BY <1>1, <1>2, <1>3, <2>1 DEF Kept, NodesKept
<1>6. SessionKnown'
  <2> SUFFICES ASSUME NEW t \in DOMAIN ssn'.tasks
               PROVE  /\ t[2] <= uids[t[1]]
                      /\ ssn'.tasks[t] = "Running" /\ t[2] = pod[t[1]].uid => pod[t[1]].node # ""
    BY <1>2 DEF SessionKnown
  <2>1. t \in DOMAIN c.tasks /\ ssn'.tasks[t] = c.tasks[t].status
    BY <1>3
  <2>2. TaskKnown(t, c.tasks[t]) /\ t[1] \in Names
    BY <2>1, CacheParts DEF Kept, TasksKnown, Types, CacheTypes, OwnTids, Tids
  <2>3. podSeen[t[1]].uid <= uids[t[1]]
    BY <2>2 DEF Kept, EventsPast, Past, PastOf
  <2> QED
    BY <2>1, <2>2, <2>3 DEF TaskKnown
<1>7. EventsPast' /\ PodsKnown' /\ BoundHeld' /\ TasksKnown' /\ EvictionsKnown'
  <2>1. BoundInPlace
    BY <1>2 DEF BoundInPlace
  <2>2. \A v \in evictions' : \E w \in evictions : v.t = w.t
    BY <1>2
  <2> QED
    BY <1>1, <1>2, <1>4, <2>1, <2>2, EventsStay, PodsStayKnown, BoundStayHeld,
       TasksStayKnown, EvictionsStayKnown DEF Kept
<1>8. EntriesKnown' /\ BindingsHeld' /\ ResyncKnown'
  <2>1. \A e \in Entries : Moves(e)
    BY <1>2, WorkersSame
  <2>2. BindingsStay
    BY <2>1 DEF BindingsStay, Moves
  <2> QED
    BY <1>1, <1>2, <1>4, <2>2, EntriesStayKnown, BindingsStayHeld, ResyncStaysKnown
    DEF Kept, BindingsStay
<1> QED
  BY <1>5, <1>6, <1>7, <1>8 DEF Kept

\* A list has the state that every pod has now.
LEMMA RelistKeeps ==
    ASSUME Types, Types', Kept, Relist
    PROVE  Kept'
<1>1. UNCHANGED <<pod, uids, node, nodeWatch, podSeen, c, workers, ssn>>
  BY DEF Relist, api, Others
<1>2. UNCHANGED <<errTasks, rs, sending, channel, bindCache, binds, evictions>>
  BY <1>1 DEF workers
<1>3. PodsAdvance
  BY <1>1, PodsSame DEF Kept
<1>4. EventsPast'
  <2>1. CASE UNCHANGED podWatch
    BY <1>1, <1>3, <2>1, EventsStay DEF Kept
  <2>2. CASE podWatch' = Listed({p \in Names : Changed(p)}, PodEvent)
    <3>1. /\ podWatch' \in Seq(PodEvents)
          /\ \A i \in DOMAIN podWatch' : podWatch'[i].obj = pod[podWatch'[i].name]
      BY <2>2, PodListType DEF Types
    <3>2. \A i \in DOMAIN podWatch' : podWatch'[i].name \in Names
      <4>1. \A x \in PodEvents : x.name \in Names
        BY DEF PodEvents
      <4> QED
        BY <3>1, <4>1
    <3>3. \A p \in Names : /\ PastOf(pod[p], uids[p], pod[p]) /\ PastOf(pod[p], uids[p], podSeen[p])
                           /\ FollowsOf(pod[p], podSeen[p], pod[p])
                           /\ FollowsOf(pod[p], pod[p], pod[p])
      BY DEF Kept, EventsPast, Past, PastOf, FollowsOf
    <3> QED
      BY <1>1, <3>1, <3>2, <3>3 DEF EventsPast, Past, Newer
  <2> QED
    BY <2>1, <2>2 DEF Relist
<1>5. NodesKept' /\ SessionKnown'
  BY <1>1 DEF Kept, NodesKept, SessionKnown
<1>6. PodsKnown' /\ BoundHeld' /\ TasksKnown' /\ EvictionsKnown'
  <2>1. BoundInPlace
    BY <1>1 DEF BoundInPlace
  <2>2. \A v \in evictions' : \E w \in evictions : v.t = w.t
    BY <1>2
  <2> QED
    BY <1>1, <1>2, <1>3, <2>1, <2>2, PodsStayKnown, BoundStayHeld,
       TasksStayKnown, EvictionsStayKnown DEF Kept
<1>7. EntriesKnown' /\ BindingsHeld' /\ ResyncKnown'
  <2>1. \A e \in Entries : Moves(e)
    BY <1>2, WorkersSame
  <2>2. BindingsStay
    BY <2>1 DEF BindingsStay, Moves
  <2> QED
    BY <1>1, <1>2, <1>3, <2>2, EntriesStayKnown, BindingsStayHeld, ResyncStaysKnown
    DEF Kept, BindingsStay
<1> QED
  BY <1>4, <1>5, <1>6, <1>7 DEF Kept

-----------------------------------------------------------------------------
(***************************************************************************)
(* Steps that change the cache.                                            *)
(***************************************************************************)
\* Holds, for a cache.
HeldIn(k, n, p) ==
    n \in DOMAIN k.nodes /\ k.nodes[n].set = TRUE /\ k.nodes[n].tasks[p] # "None"

\* The nodes of a cache that have their Node object have what they had at first.
KeptIn(k) == \A n \in DOMAIN k.nodes : k.nodes[n].set = TRUE => k.nodes[n].alloc = Alloc[n]

\* Every place but that of pod p on node n is kept from k to m.
PlacesStay(k, m, n, p) ==
    \A y \in Nodes, q \in Names : (y # n \/ q # p) /\ HeldIn(k, y, q) => HeldIn(m, y, q)

\* The nodes that had their Node object have it.
NodesStay(k, m) ==
    \A y \in DOMAIN k.nodes :
      y \in DOMAIN m.nodes /\ (k.nodes[y].set = TRUE => m.nodes[y].set = TRUE)

\* Nothing leaves a node that has only grown.
LEMMA GrownStays ==
    ASSUME NEW k \in Caches, NEW m \in Caches, Grown(k, m), KeptIn(k)
    PROVE  KeptIn(m) /\ NodesStay(k, m) /\ \A n, p : PlacesStay(k, m, n, p)
<1>1. \A n \in DOMAIN m.nodes : m.nodes[n].set \in BOOLEAN
  BY CacheParts DEF GoodNodes, NodeInfoType
<1> QED
  BY <1>1 DEF Grown, KeptIn, NodesStay, PlacesStay, HeldIn

\* Where one pod has left a node the other places are kept.
LEMMA ShrunkStays ==
    ASSUME NEW k \in Caches, NEW m \in Caches, NEW n, NEW p, Shrunk(k, m, n, p), KeptIn(k)
    PROVE  KeptIn(m) /\ NodesStay(k, m) /\ PlacesStay(k, m, n, p)
  BY DEF Shrunk, KeptIn, NodesStay, PlacesStay, HeldIn

\* The event of a node that has what it had at first changes no place.
LEMMA RefreshedStays ==
    ASSUME NEW k \in Caches, NEW m \in Caches, NEW n \in Nodes, NEW obj,
           NodeRefreshed(k, m, n, obj), obj.alloc = Alloc[n], KeptIn(k)
    PROVE  KeptIn(m) /\ NodesStay(k, m) /\ \A y, q : PlacesStay(k, m, y, q)
<1>1. KeptIn(m)
  BY DEF NodeRefreshed, KeptIn
<1> QED
  BY <1>1 DEF NodeRefreshed, NodesStay, PlacesStay, HeldIn

\* Places depend on the nodes of the cache alone.
LEMMA SameStays ==
    ASSUME NEW k, NEW m, m.nodes = k.nodes, KeptIn(k)
    PROVE  KeptIn(m) /\ NodesStay(k, m) /\ \A n, p : PlacesStay(k, m, n, p)
  BY DEF KeptIn, NodesStay, PlacesStay, HeldIn

\* What stays in two changes of the cache stays in both together.
LEMMA StayTwice ==
    ASSUME NEW k, NEW h, NEW m, NEW n, NEW p,
           NodesStay(k, h), NodesStay(h, m), PlacesStay(k, h, n, p), PlacesStay(h, m, n, p)
    PROVE  NodesStay(k, m) /\ PlacesStay(k, m, n, p)
  BY DEF NodesStay, PlacesStay

\* The nodes have what they had at first after a step that leaves the API
\* server's nodes alone.
LEMMA NodesStayKept ==
    ASSUME NodesKept, UNCHANGED node, KeptIn(c'), NodesStay(c, c'),
           \A n \in DOMAIN ssn'.nodes : n \in DOMAIN ssn.nodes,
           \A i \in DOMAIN nodeWatch' : nodeWatch'[i].obj = Full(nodeWatch'[i].name)
    PROVE  NodesKept'
  BY DEF NodesKept, KeptIn, NodesStay, Full

\* A pod that is bound keeps its place.
BoundPlacesStay ==
    \A p \in Names :
      /\ pod[p].node # "" /\ ~isTerminated(pod[p].phase)
      /\ HeldIn(c, pod[p].node, p)
      => HeldIn(c', pod[p].node, p)

\* So does a binding; one that is new has a place, and is nowhere else.
BindingPlacesStay ==
    \A e \in Entries : Undecided(e) /\ Underway(e)' =>
      \/ Once(e)' /\ HeldIn(c', e.node, e.t[1])
      \/ /\ Underway(e) /\ (Once(e) => Once(e)')
         /\ HeldIn(c, e.node, e.t[1]) => HeldIn(c', e.node, e.t[1])

\* If the places of pods that are bound and of bindings stay, every such pod
\* and binding has its place.
LEMMA PlacesKeep ==
    ASSUME Types, BoundHeld, BindingsHeld, UNCHANGED pod, BoundPlacesStay, BindingPlacesStay
    PROVE  BoundHeld' /\ BindingsHeld'
<1>1. BoundHeld'
  BY DEF BoundHeld, BoundPlacesStay, Holds, HeldIn
<1>2. BindingsHeld'
  <2> SUFFICES ASSUME NEW e \in Entries, Undecided(e)', Underway(e)'
               PROVE  Once(e)' /\ Holds(e.node, e.t[1])'
    BY DEF BindingsHeld
  <2>1. Undecided(e)
    BY DEF Undecided
  <2>2. CASE Once(e)' /\ HeldIn(c', e.node, e.t[1])
    BY <2>2 DEF HeldIn, Holds
  <2>3. CASE /\ Underway(e) /\ (Once(e) => Once(e)')
             /\ HeldIn(c, e.node, e.t[1]) => HeldIn(c', e.node, e.t[1])
    <3>1. Once(e) /\ Holds(e.node, e.t[1])
      BY <2>1, <2>3 DEF BindingsHeld
    <3> QED
      BY <2>3, <3>1 DEF HeldIn, Holds
  <2> QED
    BY <2>1, <2>2, <2>3 DEF BindingPlacesStay
<1> QED
  BY <1>1, <1>2

\* Steps of the cache without the informer of the pods.
LEMMA CacheKeeps ==
    ASSUME Types, Types', Kept, UNCHANGED <<pod, uids, podSeen, podWatch>>,
           NodesKept', TasksKnown', EvictionsKnown', SessionKnown', ResyncKnown',
           BoundPlacesStay, BindingPlacesStay,
           \A e \in Entries : Underway(e)' => Underway(e) \/ Seen(e.t)
    PROVE  Kept'
<1>1. PodsAdvance
  BY PodsSame DEF Kept
<1>2. BoundInPlace
  BY DEF BoundInPlace
<1>3. EventsPast' /\ PodsKnown' /\ EntriesKnown'
  BY <1>1, <1>2, EventsStay, PodsStayKnown, EntriesStayKnown DEF Kept
<1>4. BoundHeld' /\ BindingsHeld'
  BY PlacesKeep DEF Kept
<1> QED
  BY <1>3, <1>4 DEF Kept

\* Places stay where no pod leaves a node.
LEMMA EveryPlaceStays ==
    ASSUME NEW k, NEW m, \A n, p : PlacesStay(k, m, n, p)
    PROVE  \A n \in Nodes, p \in Names : HeldIn(k, n, p) => HeldIn(m, n, p)
<1> TAKE n \in Nodes, p \in Names
<1>1. n # ""
  BY CacheAssumption
<1>2. PlacesStay(k, m, "", p)
  OBVIOUS
<1> QED
  BY <1>1, <1>2 DEF PlacesStay

\* If all places stay and bindings only move on, those places do.
LEMMA AllPlacesStay ==
    ASSUME Types, \A n, p : PlacesStay(c, c', n, p), \A e \in Entries : Moves(e)
    PROVE  /\ BoundPlacesStay /\ BindingPlacesStay
           /\ \A e \in Entries : Underway(e)' => Underway(e) \/ Seen(e.t)
<1>1. \A n \in Nodes, p \in Names : HeldIn(c, n, p) => HeldIn(c', n, p)
  BY EveryPlaceStays
<1>2. BoundPlacesStay
  <2>1. \A p \in Names : pod[p].node # "" => pod[p].node \in Nodes
    BY Uids DEF PodObjects
  <2> QED
    BY <1>1, <2>1 DEF BoundPlacesStay
<1>3. \A e \in Entries : e.node \in Nodes /\ e.t[1] \in Names
  BY EntryParts
<1> QED
  BY <1>1, <1>2, <1>3 DEF BindingPlacesStay, Moves

\* Nothing but tasks leaves the cache.
LEMMA TasksStayIn ==
    ASSUME TasksKnown, NEW S, TasksGone(c, c', S), UNCHANGED <<pod, podSeen>>
    PROVE  TasksKnown'
  BY DEF TasksKnown, TaskKnown, TasksGone

\* Steps that take no pod off its node and tell the cache of no pod.
LEMMA PlainKeeps ==
    ASSUME Types, Types', Kept, UNCHANGED <<api, podSeen, podWatch, evictions, ssn>>,
           UNCHANGED rs \/ ResyncKnown',
           \A e \in Entries : Moves(e),
           KeptIn(c'), NodesStay(c, c'), \A n, p : PlacesStay(c, c', n, p),
           \E S : TasksGone(c, c', S),
           \A i \in DOMAIN nodeWatch' : nodeWatch'[i].obj = Full(nodeWatch'[i].name)
    PROVE  Kept'
<1>1. UNCHANGED <<pod, uids, node>>
  BY DEF api
<1>2. PodsAdvance
  BY <1>1, PodsSame DEF Kept
<1>3. NodesKept'
  BY <1>1, NodesStayKept DEF Kept
<1>4. TasksKnown'
  BY <1>1, TasksStayIn DEF Kept
<1>5. EvictionsKnown' /\ SessionKnown' /\ ResyncKnown'
  BY <1>1, <1>2, EvictionsStayKnown, SessionStaysKnown, ResyncStaysKnown DEF Kept
<1> QED
  BY <1>1, <1>3, <1>4, <1>5, AllPlacesStay, CacheKeeps

\* An event of a node handled keeps every place: the Node object is the one
\* the node had.
LEMMA HandleNodeKeeps ==
    ASSUME Types, Types', Kept, HandleNode
    PROVE  Kept'
<1> DEFINE h == Head(nodeWatch)
<1>1. /\ UNCHANGED <<api, podSeen, podWatch, workers, ssn>> /\ nodeWatch # <<>>
      /\ nodeWatch' = Tail(nodeWatch)
  BY DEF HandleNode
<1>2. UNCHANGED <<errTasks, rs, sending, channel, bindCache, binds, evictions>>
  BY <1>1 DEF workers
<1>3. nodeWatch \in Seq(NodeEvents)
  BY DEF Types, WatchTypes
<1>4. /\ h = nodeWatch[1] /\ 1 \in DOMAIN nodeWatch /\ h \in NodeEvents
      /\ \A i \in DOMAIN nodeWatch' : i + 1 \in DOMAIN nodeWatch /\ nodeWatch'[i] = nodeWatch[i + 1]
  BY <1>1, <1>3
<1>5. h.obj = Full(h.name) /\ \A i \in DOMAIN nodeWatch' : nodeWatch'[i].obj = Full(nodeWatch'[i].name)
  BY <1>4 DEF Kept, NodesKept
<1>6. h.name \in Nodes /\ h.obj \in NodeObject /\ h.obj.alloc = Alloc[h.name] /\ h.obj.there
  BY <1>4, <1>5 DEF NodeEvents, Full
<1>7. c' \in {addNode(c, h.name, h.obj), updateNode(c, h.name, h.obj)}
  BY <1>6 DEF HandleNode
<1>8. c \in Caches
  BY DEF Types, CacheTypes
<1>9. c' \in Caches /\ c'.tasks = c.tasks /\ NodeRefreshed(c, c', h.name, h.obj)
  BY <1>6, <1>7, <1>8, addNodeType, updateNodeType
<1>10. KeptIn(c)
  BY DEF Kept, NodesKept, KeptIn
<1> HIDE DEF h
<1>11. KeptIn(c') /\ NodesStay(c, c') /\ \A n, p : PlacesStay(c, c', n, p)
  BY <1>6, <1>8, <1>9, <1>10, RefreshedStays
<1>12. TasksGone(c, c', {})
  BY <1>9 DEF TasksGone
<1>13. \A e \in Entries : Moves(e)
  BY <1>2, WorkersSame
<1> QED
  BY <1>1, <1>2, <1>5, <1>11, <1>12, <1>13, PlainKeeps

\* The PodGroups and the tasks of the Jobs have nothing to do with places.
LEMMA JobsKeep ==
    ASSUME Types, Types', Kept, UNCHANGED <<api, podSeen, podWatch, nodeWatch, workers, ssn>>,
           c'.nodes = c.nodes, NEW S, TasksGone(c, c', S)
    PROVE  Kept'
<1>1. UNCHANGED <<errTasks, rs, sending, channel, bindCache, binds, evictions>>
  BY DEF workers
<1>2. KeptIn(c)
  BY DEF Kept, NodesKept, KeptIn
<1>3. KeptIn(c') /\ NodesStay(c, c') /\ \A n, p : PlacesStay(c, c', n, p)
  BY <1>2, SameStays
<1>4. \A e \in Entries : Moves(e)
  BY <1>1, WorkersSame
<1>5. \A i \in DOMAIN nodeWatch' : nodeWatch'[i].obj = Full(nodeWatch'[i].name)
  BY DEF Kept, NodesKept
<1> QED
  BY <1>1, <1>3, <1>4, <1>5, PlainKeeps

\* An event of a pod group handled keeps every place.
LEMMA HandleGroupKeeps ==
    ASSUME Types, Types', Kept, HandleGroup
    PROVE  Kept'
<1>1. UNCHANGED <<api, podSeen, podWatch, nodeWatch, workers, ssn>> /\ groupWatch # <<>>
  BY DEF HandleGroup
<1>2. c \in Caches
  BY DEF Types, CacheTypes
<1>3. Head(groupWatch).job \in Jobs
  <2>1. groupWatch \in Seq(GroupEvents)
    BY DEF Types, WatchTypes
  <2>2. Head(groupWatch) \in GroupEvents
    BY <1>1, <2>1
  <2> QED
    BY <2>2 DEF GroupEvents
<1>4. c'.nodes = c.nodes /\ TasksGone(c, c', {})
  <2> DEFINE j == Head(groupWatch).job
  <2>1. CASE c' = setPodGroup(c, j)
    BY <1>2, <1>3, <2>1, setPodGroupType DEF TasksGone
  <2>2. CASE UNCHANGED c
    BY <2>2 DEF TasksGone
  <2>3. CASE j \in DOMAIN c.jobs /\ c' = MarkJob(c, j, FALSE)
    BY <1>2, <2>3, MarkJobType DEF TasksGone
  <2> QED
    BY <2>1, <2>2, <2>3 DEF HandleGroup, MarkJob
<1> QED
  BY <1>1, <1>4, JobsKeep

\* processCleanupJob keeps every place.
LEMMA CleanupKeeps ==
    ASSUME Types, Types', Kept, Cleanup
    PROVE  Kept'
<1>1. PICK e : CleanupDue(e) \/ processCleanupJob(e)
  BY DEF Cleanup
<1>2. UNCHANGED <<api, watches, workers, ssn>>
  BY <1>1 DEF CleanupDue, processCleanupJob
<1>3. UNCHANGED <<podSeen, podWatch, nodeWatch>>
  BY <1>2 DEF watches
<1>4. c' = c \/ c' = DropJob(c, e.job)
  BY <1>1 DEF CleanupDue, processCleanupJob
<1>5. c'.nodes = c.nodes /\ TasksGone(c, c', {})
  <2>1. c \in Caches /\ Owned(c)
    BY DEF Types, CacheTypes
  <2> QED
    BY <1>4, <2>1, DropJobType DEF TasksGone
<1> QED
  BY <1>2, <1>3, <1>5, JobsKeep

\* The first half of syncTask, which moves the task in its job, keeps every
\* place.
LEMMA syncTaskJobKeeps ==
    ASSUME Types, Types', Kept, syncTaskJob
    PROVE  Kept'
<1>1. /\ UNCHANGED <<api, watches, errTasks, sending, channel, bindCache, binds, evictions, ssn>>
      /\ rs.step = "delete" /\ c' = DropTask(c, rs.e.t)
      /\ rs' = [rs EXCEPT !.step = IF deleteTaskFails(c, rs.e.t) THEN "retry" ELSE "node"]
  BY DEF syncTaskJob
<1>2. UNCHANGED <<pod, podSeen, podWatch, nodeWatch>>
  BY <1>1 DEF api, watches
<1>3. rs \in [e : Entries, got : PodObjects, step : {"update", "delete", "node", "retry"}]
  BY <1>1, ResyncBusy
<1>4. rs'.e = rs.e /\ rs'.step \in {"node", "retry"}
  BY <1>1, <1>3
<1>5. ResyncKnown'
  BY <1>1, <1>2, <1>4 DEF Kept, ResyncKnown
<1>6. \A e \in Entries : Moves(e)
  BY <1>1, <1>4 DEF Moves, Underway, Once, InChannel, InBindCache, InBinds,
                    ChannelOnce, BindCacheOnce, BindsOnce
<1>7. c'.nodes = c.nodes /\ TasksGone(c, c', {rs.e.t})
  BY <1>1, DropTaskType DEF Types, CacheTypes
<1>8. KeptIn(c)
  BY DEF Kept, NodesKept, KeptIn
<1>9. KeptIn(c') /\ NodesStay(c, c') /\ \A n, p : PlacesStay(c, c', n, p)
  BY <1>7, <1>8, SameStays
<1>10. \A i \in DOMAIN nodeWatch' : nodeWatch'[i].obj = Full(nodeWatch'[i].name)
  BY <1>2 DEF Kept, NodesKept
<1> QED
  BY <1>1, <1>2, <1>5, <1>6, <1>7, <1>9, <1>10, PlainKeeps

\* The informer has delivered the pods that have a task.
LEMMA TaskSeen ==
    ASSUME Types, Kept, NEW t \in DOMAIN c.tasks
    PROVE  TaskKnown(t, c.tasks[t]) /\ Seen(t) /\ t \in OwnTids /\ t[1] \in Names
<1>1. TaskKnown(t, c.tasks[t])
  BY DEF Kept, TasksKnown
<1>2. t \in OwnTids /\ t[1] \in Names
  BY CacheParts DEF Types, CacheTypes, OwnTids, Tids
<1>3. podSeen[t[1]].uid <= uids[t[1]]
  BY <1>2 DEF Kept, EventsPast, Past, PastOf
<1> QED
  BY <1>1, <1>2, <1>3 DEF TaskKnown, Seen

\* AddBindTask puts the binding f on its way, which was not.
LEMMA NewBindingMoves ==
    ASSUME Types, sending = NoBind, NEW f \in Entries, NEW e \in Entries,
           \/ channel' = Append(channel, f) /\ UNCHANGED sending
           \/ sending' = f /\ UNCHANGED channel,
           UNCHANGED <<errTasks, rs, bindCache, binds>>
    PROVE  /\ Underway(e)' => Underway(e) \/ e = f
           /\ e # f => (Once(e) => Once(e)')
           /\ e = f /\ ~Underway(e) => Once(e)'
<1>1. channel \in Seq(Entries) /\ sending # e
  BY EntryParts DEF Types, WorkerTypes
<1>2. /\ InBindCache(e)' <=> InBindCache(e)
      /\ InBinds(e)' <=> InBinds(e)
      /\ BindCacheOnce(e)' <=> BindCacheOnce(e)
      /\ BindsOnce(e)' <=> BindsOnce(e)
  BY DEF InBindCache, InBinds, BindCacheOnce, BindsOnce
<1>3. ~InBindCache(e) /\ ~InBinds(e) => BindCacheOnce(e) /\ BindsOnce(e)
  BY DEF InBindCache, InBinds, BindCacheOnce, BindsOnce, InBatch, BatchOnce
<1>4. ~InChannel(e) => ChannelOnce(e)
  BY DEF InChannel, ChannelOnce
<1>5. CASE channel' = Append(channel, f) /\ UNCHANGED sending
  <2>1. InChannel(e)' <=> f = e \/ InChannel(e)
    BY <1>1, <1>5, AppendIn DEF InChannel
  <2>2. ChannelOnce(e) /\ (f = e => ~InChannel(e)) => ChannelOnce(e)'
    BY <1>1, <1>5, AppendIn DEF ChannelOnce, InChannel
  <2> QED
    BY <1>1, <1>2, <1>3, <1>4, <1>5, <2>1, <2>2 DEF Underway, Once
<1>6. CASE sending' = f /\ UNCHANGED channel
  <2>1. (InChannel(e)' <=> InChannel(e)) /\ (ChannelOnce(e)' <=> ChannelOnce(e))
    BY <1>6 DEF InChannel, ChannelOnce
  <2> QED
    BY <1>1, <1>2, <1>3, <1>4, <1>6, <2>1 DEF Underway, Once
<1> QED
  BY <1>5, <1>6

\* AddBindTask keeps every place and takes one for the new binding, which is
\* under way nowhere else.
LEMMA DispatchKeeps ==
    ASSUME Types, Types', Kept, NEW t, NEW n, Dispatch(t, n)
    PROVE  Kept'
<1>1. /\ t \in DOMAIN ssn.tasks /\ n \in DOMAIN ssn.nodes /\ sending = NoBind
      /\ CanAddTask(ssn.nodes[n], t[1], "Allocated") /\ AddBindTask(t, n)
      /\ ssn' = SessionPlaced(t, "Allocated", n, AddTask(ssn.nodes[n], t[1], "Allocated"))
      /\ UNCHANGED <<api, watches, errTasks, rs, bindCache, binds, evictions>>
  BY DEF Dispatch, SessionPlaced, Free
<1>2. UNCHANGED <<pod, uids, node, podWatch, nodeWatch, podSeen>>
  BY <1>1 DEF api, watches
<1>3. /\ \A z \in DOMAIN ssn'.nodes : z \in DOMAIN ssn.nodes
      /\ \A z \in DOMAIN ssn'.tasks :
           z \in DOMAIN ssn.tasks /\ (ssn'.tasks[z] = "Running" => ssn.tasks[z] = "Running")
  <2>1. ssn.nodes[n] \in GoodNodes /\ t[1] \in Names
    BY <1>1, SessionParts DEF Types, OwnTids, Tids
  <2>2. "Allocated" \in TaskStatuses
    BY DEF TaskStatuses
  <2>3. AddTask(ssn.nodes[n], t[1], "Allocated") \in GoodNodes
    BY <1>1, <2>1, <2>2, GoodAdd
  <2> QED
    BY <1>1, <2>2, <2>3, SessionPlacedType DEF Types
<1>4. CASE UNCHANGED <<c, channel, sending>>
  <2>1. \A e \in Entries : Moves(e)
    BY <1>1, <1>4, WorkersSame
  <2> QED
    BY <1>1, <1>3, <1>4, <2>1, MovesKeep
<1>5. CASE ~UNCHANGED <<c, channel, sending>>
  <2> DEFINE f == [t |-> t, node |-> n]
  <2>1. /\ Bindable(t, n) /\ c' = BoundCache(c, t, n) /\ f \in Entries
        /\ \/ channel' = Append(channel, f) /\ UNCHANGED sending
           \/ sending' = f /\ UNCHANGED channel
    BY <1>1, <1>5, AddBindTaskCases
  <2>2. /\ t \in DOMAIN c.tasks /\ n \in DOMAIN c.nodes /\ c.nodes[n].tasks[t[1]] = "None"
        /\ CanAddTask(c.nodes[n], t[1], "Binding") /\ c.nodes[n].set = TRUE
    BY <1>1, <2>1 DEF Bindable, CanAddTask, Kept, NodesKept
  <2>3. c \in Caches /\ Owned(c) /\ c' \in Caches
    BY DEF Types, CacheTypes
  <2>4. /\ Grown(c, c') /\ c'.nodes[n].tasks[t[1]] # "None"
        /\ \A z \in DOMAIN c'.tasks :
             /\ z \in DOMAIN c.tasks
             /\ IF z = t THEN c'.tasks[z].status = "Binding" ELSE c'.tasks[z] = c.tasks[z]
    BY <2>1, <2>2, <2>3, BoundCacheType
  <2>5. KeptIn(c)
    BY DEF Kept, NodesKept, KeptIn
  <2>6. KeptIn(c') /\ NodesStay(c, c') /\ \A y, p : PlacesStay(c, c', y, p)
    BY <2>3, <2>4, <2>5, GrownStays
  <2>7. NodesKept'
    <3>1. \A i \in DOMAIN nodeWatch' : nodeWatch'[i].obj = Full(nodeWatch'[i].name)
      BY <1>2 DEF Kept, NodesKept
    <3> QED
      BY <1>2, <1>3, <2>6, <3>1, NodesStayKept DEF Kept
  <2>8. TaskKnown(t, c.tasks[t]) /\ Seen(t) /\ t[1] \in Names
    BY <2>2, TaskSeen
  <2>9. TasksKnown'
    BY <1>2, <2>4, <2>8 DEF Kept, TasksKnown, TaskKnown, isTerminated
  <2>10. EvictionsKnown' /\ SessionKnown' /\ ResyncKnown'
    <3>1. PodsAdvance
      BY <1>2, PodsSame DEF Kept
    <3> QED
      BY <1>1, <1>2, <1>3, <3>1, EvictionsStayKnown, SessionStaysKnown, ResyncStaysKnown DEF Kept
  <2>11. f.t = t /\ f.node = n
    OBVIOUS
  <2>12. Undecided(f) => ~Underway(f)
    BY <2>1, <2>2, <2>11 DEF Kept, BindingsHeld, Holds
  <2>13. HeldIn(c', n, t[1])
    BY <2>2, <2>4 DEF HeldIn, Grown
  <2> HIDE DEF f
  <2>14. \A e \in Entries : /\ Underway(e)' => Underway(e) \/ e = f
                            /\ e # f => (Once(e) => Once(e)')
                            /\ e = f /\ ~Underway(e) => Once(e)'
    BY <1>1, <2>1, NewBindingMoves
  <2>15. \A y \in Nodes, p \in Names : HeldIn(c, y, p) => HeldIn(c', y, p)
    BY <2>6, EveryPlaceStays
  <2>16. BoundPlacesStay
    <3>1. \A p \in Names : pod[p].node # "" => pod[p].node \in Nodes
      BY Uids DEF PodObjects
    <3> QED
      BY <2>15, <3>1 DEF BoundPlacesStay
  <2>17. BindingPlacesStay
    <3> SUFFICES ASSUME NEW e \in Entries, Undecided(e), Underway(e)'
                 PROVE  \/ Once(e)' /\ HeldIn(c', e.node, e.t[1])
                        \/ /\ Underway(e) /\ (Once(e) => Once(e)')
                           /\ HeldIn(c, e.node, e.t[1]) => HeldIn(c', e.node, e.t[1])
      BY DEF BindingPlacesStay
    <3>1. CASE e = f
      BY <2>11, <2>12, <2>13, <2>14, <3>1
    <3>2. CASE e # f
      BY <2>14, <2>15, <3>2, EntryParts
    <3> QED
      BY <3>1, <3>2
  <2>18. \A e \in Entries : Underway(e)' => Underway(e) \/ Seen(e.t)
    BY <2>8, <2>11, <2>14
  <2> QED
    BY <1>2, <2>7, <2>9, <2>10, <2>16, <2>17, <2>18, CacheKeeps
<1> QED
  BY <1>4, <1>5

\* cache.Evict keeps every place: the task is Releasing and still on its
\* node.
LEMMA EvictKeeps ==
    ASSUME Types, Types', Kept, NEW t, Evict(t), ~crashed'
    PROVE  Kept'
<1>1. ~Reboot
  BY DEF Reboot
<1>2. /\ t \in DOMAIN ssn.tasks /\ ssn.tasks[t] = "Running" /\ UNCHANGED api
      /\ ssn' = SessionTask(t, "Releasing")
      /\ UNCHANGED <<watches, errTasks, rs, sending, channel, bindCache, binds>>
  BY <1>1, EvictCases
<1>3. UNCHANGED <<pod, uids, node, podWatch, nodeWatch, podSeen>>
  BY <1>2 DEF api, watches
<1>4. /\ \A z \in DOMAIN ssn'.nodes : z \in DOMAIN ssn.nodes
      /\ \A z \in DOMAIN ssn'.tasks :
           z \in DOMAIN ssn.tasks /\ (ssn'.tasks[z] = "Running" => ssn.tasks[z] = "Running")
  <2>1. "Releasing" \in TaskStatuses \cup {"Unschedulable"}
    BY DEF TaskStatuses
  <2> QED
    BY <1>2, <2>1, SessionTaskType DEF Types
<1>5. \A e \in Entries : Moves(e)
  BY <1>2, WorkersSame
<1>6. CASE UNCHANGED <<c, evictions>>
  BY <1>2, <1>4, <1>5, <1>6, MovesKeep
<1>7. CASE ~UNCHANGED <<c, evictions>>
  <2> DEFINE v == [t |-> t, node |-> c.tasks[t].node, pod |-> c.tasks[t].pod,
                   step |-> "status"]
  <2>1. /\ t \in DOMAIN c.tasks /\ c.tasks[t].node \in DOMAIN c.nodes
        /\ CanUpdateTask(c.nodes[c.tasks[t].node], t[1], "Releasing")
        /\ c' = EvictedCache(c, t) /\ evictions' = evictions \cup {v}
    BY <1>1, <1>7, EvictCases
  <2>2. v.t = t
    OBVIOUS
  <2> HIDE DEF v
  <2>3. c \in Caches /\ Owned(c) /\ c' \in Caches
    BY DEF Types, CacheTypes
  <2>4. /\ Grown(c, c')
        /\ \A z \in DOMAIN c'.tasks :
             /\ z \in DOMAIN c.tasks
             /\ IF z = t THEN c'.tasks[z].status = "Releasing" ELSE c'.tasks[z] = c.tasks[z]
    BY <2>1, <2>3, EvictedCacheType
  <2>5. KeptIn(c)
    BY DEF Kept, NodesKept, KeptIn
  <2>6. KeptIn(c') /\ NodesStay(c, c') /\ \A y, p : PlacesStay(c, c', y, p)
    BY <2>3, <2>4, <2>5, GrownStays
  <2>7. NodesKept'
    <3>1. \A i \in DOMAIN nodeWatch' : nodeWatch'[i].obj = Full(nodeWatch'[i].name)
      BY <1>3 DEF Kept, NodesKept
    <3> QED
      BY <1>3, <1>4, <2>6, <3>1, NodesStayKept DEF Kept
  <2>8. TaskKnown(t, c.tasks[t]) /\ Seen(t) /\ t[1] \in Names
    BY <2>1, TaskSeen
  <2>9. t[2] = pod[t[1]].uid => pod[t[1]].node # ""
    BY <1>2 DEF Kept, SessionKnown
  <2>10. TasksKnown'
    BY <1>3, <2>4, <2>8, <2>9 DEF Kept, TasksKnown, TaskKnown, isTerminated
  <2>11. EvictionsKnown'
    BY <1>3, <2>1, <2>2, <2>8, <2>9 DEF Kept, EvictionsKnown, Seen
  <2>12. SessionKnown' /\ ResyncKnown'
    <3>1. PodsAdvance
      BY <1>3, PodsSame DEF Kept
    <3> QED
      BY <1>2, <1>3, <1>4, <3>1, SessionStaysKnown, ResyncStaysKnown DEF Kept
  <2> QED
    BY <1>3, <1>5, <2>6, <2>7, <2>10, <2>11, <2>12, AllPlacesStay, CacheKeeps
<1> QED
  BY <1>6, <1>7

\* The resync worker is done with its task, which may have to wait again.
LEMMA ResyncedMoves ==
    ASSUME Types, rs' = Idle, errTasks' \in {errTasks, errTasks \cup {rs.e}},
           UNCHANGED <<sending, channel, bindCache, binds>>, NEW e \in Entries
    PROVE  Moves(e)
<1>1. rs'.e # e
  BY EntryParts DEF Idle
<1>2. /\ InChannel(e)' <=> InChannel(e)
      /\ InBindCache(e)' <=> InBindCache(e)
      /\ InBinds(e)' <=> InBinds(e)
      /\ ChannelOnce(e)' <=> ChannelOnce(e)
      /\ BindCacheOnce(e)' <=> BindCacheOnce(e)
      /\ BindsOnce(e)' <=> BindsOnce(e)
  BY DEF InChannel, InBindCache, InBinds, ChannelOnce, BindCacheOnce, BindsOnce
<1>3. /\ e \in errTasks' => e \in errTasks \/ rs.e = e
      /\ UNCHANGED sending
  OBVIOUS
<1> QED
  BY <1>1, <1>2, <1>3 DEF Moves, Underway, Once

\* A task as it is read off a state of the past.
LEMMA InfoKnown ==
    ASSUME NEW now, NEW last, NEW o \in PodObjects, o.uid # 0, PastOf(now, last, o)
    PROVE  /\ InfoOf(o).status # "Pipelined"
           /\ InfoOf(o).status = "Pending" => InfoOf(o).node = ""
           /\ o.uid = now.uid =>
                /\ InfoOf(o).status \notin {"Pending", "Binding"} => now.node # ""
                /\ isTerminated(InfoOf(o).status) => isTerminated(now.phase)
<1>1. InfoOf(o).status = getTaskStatus(o) /\ InfoOf(o).node = o.node
  BY DEF InfoOf
<1>2. getTaskStatus(o) # "Pipelined" /\ (getTaskStatus(o) = "Pending" => o.node = "")
  BY TaskStatusType
<1>3. ASSUME o.uid = now.uid, getTaskStatus(o) # "Pending"
      PROVE  now.node # ""
  <2>1. o.node # ""
    <3>1. o.deleting \in BOOLEAN
      BY DEF PodObjects
    <3> QED
      BY <1>3, <3>1, TaskStatusType DEF PastOf
  <2> QED
    BY <1>3, <2>1 DEF PastOf
<1>4. ASSUME o.uid = now.uid, isTerminated(getTaskStatus(o))
      PROVE  isTerminated(now.phase)
  BY <1>4, TaskStatusType DEF PastOf
<1> QED
  BY <1>1, <1>2, <1>3, <1>4

\* Tasks go, and one is written of the pod the informer has delivered.
LEMMA WrittenKnown ==
    ASSUME Types, TasksKnown, UNCHANGED pod, NEW k \in Caches, NEW p \in Names,
           NEW o \in PodObjects, o.uid # 0, PastOf(pod[p], uids[p], o),
           podSeen'[p].uid = o.uid,
           \A z \in DOMAIN k.tasks : z \in DOMAIN c.tasks /\ k.tasks[z] = c.tasks[z]
                                     /\ podSeen'[z[1]].uid = podSeen[z[1]].uid,
           TaskWritten(k, c', p, o)
    PROVE  TasksKnown'
<1> SUFFICES ASSUME NEW z \in DOMAIN c'.tasks
             PROVE  TaskKnown(z, c.tasks[z])'
  BY DEF TasksKnown
<1> DEFINE s == <<p, o.uid>>
<1>1. CASE z \in DOMAIN k.tasks /\ c'.tasks[z] = k.tasks[z]
  BY <1>1 DEF TasksKnown, TaskKnown
<1>2. CASE z = s /\ c'.tasks[z] = InfoOf(o)
  <2>1. z[1] = p /\ z[2] = o.uid
    BY <1>2
  <2> QED
    BY <1>2, <2>1, InfoKnown DEF TaskKnown
<1>3. \/ z \in DOMAIN k.tasks /\ c'.tasks[z] = k.tasks[z]
      \/ z = s /\ c'.tasks[z] = InfoOf(o)
  <2>1. CASE c'.tasks = k.tasks
    BY <2>1
  <2>2. CASE c'.tasks = Put(k.tasks, s, InfoOf(o))
    <3> HIDE DEF s
    <3>1. /\ DOMAIN Put(k.tasks, s, InfoOf(o)) = DOMAIN k.tasks \cup {s}
          /\ Put(k.tasks, s, InfoOf(o))[s] = InfoOf(o)
          /\ \A y \in DOMAIN k.tasks : y # s => Put(k.tasks, s, InfoOf(o))[y] = k.tasks[y]
      BY DEF Put
    <3> QED
      BY <2>2, <3>1
  <2> QED
    BY <2>1, <2>2 DEF TaskWritten
<1> QED
  BY <1>1, <1>2, <1>3

\* updateTask deletes the task and adds it as it was read.  A pod that is bound
\* where its task was comes back where it was; an undecided binding is not that
\* of the task.
LEMMA updateTaskKeeps ==
    ASSUME Types, Types', Kept, updateTask, ~overtaken'
    PROVE  Kept'
<1> DEFINE p == rs.e.t[1]
           n == rs.e.node
           o == rs.got
           k == deleteTask(c, rs.e.t, n)
<1>1. /\ rs.step = "update" /\ rs' = Idle /\ o.uid = rs.e.t[2]
      /\ UNCHANGED <<api, watches, sending, channel, bindCache, binds, evictions, ssn>>
      /\ c' = addTask(k, p, o)
      /\ errTasks' = errTasks \cup IF addTaskFails(k, p, o) THEN {rs.e} ELSE {}
  BY DEF updateTask
<1>2. UNCHANGED <<pod, uids, node, podWatch, nodeWatch, podSeen>>
  BY <1>1 DEF api, watches
<1>3. rs.e \in Entries /\ o \in PodObjects /\ o.uid # 0
  BY <1>1, ResyncBusy
<1>4. p \in Names /\ n \in Nodes /\ n # "" /\ rs.e.t \in Tids
  BY <1>3, EntryParts
<1>5. /\ PastOf(pod[p], uids[p], o) /\ podSeen[p].uid = o.uid
      /\ o.uid = pod[p].uid /\ o.node = "" => pod[p].node # n
  BY <1>1 DEF Kept, ResyncKnown, Past
<1>6. c \in Caches /\ Owned(c) /\ c' \in Caches
  BY DEF Types, CacheTypes
<1>7. /\ k \in Caches /\ Owned(k) /\ TasksGone(c, k, {rs.e.t}) /\ Shrunk(c, k, n, p)
  BY <1>4, <1>6, deleteTaskType
<1>8. addTaskFails(k, p, o) => o.node # ""
  BY DEF addTaskFails
<1> HIDE DEF k
<1>9. /\ TaskWritten(k, c', p, o) /\ Grown(k, c')
      /\ /\ o.node \in DOMAIN k.nodes /\ k.nodes[o.node].set
         /\ ~isTerminated(o.phase) /\ Req[p] <= k.nodes[o.node].idle
         => c'.nodes[o.node].tasks[p] # "None"
  BY <1>1, <1>3, <1>4, <1>7, addTaskType
<1> HIDE DEF p, n, o
<1>10. KeptIn(c)
  BY DEF Kept, NodesKept, KeptIn
<1>11. KeptIn(k) /\ NodesStay(c, k) /\ PlacesStay(c, k, n, p)
  BY <1>6, <1>7, <1>10, ShrunkStays
<1>12. KeptIn(c') /\ NodesStay(k, c') /\ PlacesStay(k, c', n, p)
  BY <1>6, <1>7, <1>9, <1>11, GrownStays
<1>13. NodesStay(c, c') /\ PlacesStay(c, c', n, p)
  BY <1>11, <1>12, StayTwice
<1>14. NodesKept'
  <2>1. /\ \A i \in DOMAIN nodeWatch' : nodeWatch'[i].obj = Full(nodeWatch'[i].name)
        /\ \A y \in DOMAIN ssn'.nodes : y \in DOMAIN ssn.nodes
    BY <1>1, <1>2 DEF Kept, NodesKept
  <2> QED
    BY <1>2, <1>12, <1>13, <2>1, NodesStayKept DEF Kept
<1>15. TasksKnown'
  <2>1. \A z \in DOMAIN k.tasks : z \in DOMAIN c.tasks /\ k.tasks[z] = c.tasks[z]
                                  /\ podSeen'[z[1]].uid = podSeen[z[1]].uid
    BY <1>2, <1>7 DEF TasksGone
  <2> QED
    BY <1>2, <1>3, <1>4, <1>5, <1>7, <1>9, <2>1, WrittenKnown DEF Kept
<1>16. EvictionsKnown' /\ SessionKnown' /\ ResyncKnown'
  <2>1. PodsAdvance
    BY <1>2, PodsSame DEF Kept
  <2>2. ResyncKnown'
    BY <1>1 DEF ResyncKnown, Idle
  <2> QED
    BY <1>1, <1>2, <2>1, <2>2, EvictionsStayKnown, SessionStaysKnown DEF Kept
<1>17. \A e \in Entries : Moves(e)
  BY <1>1, ResyncedMoves
<1>18. BoundPlacesStay
  <2> SUFFICES ASSUME NEW q \in Names, pod[q].node # "", ~isTerminated(pod[q].phase),
                      HeldIn(c, pod[q].node, q)
               PROVE  HeldIn(c', pod[q].node, q)
    BY DEF BoundPlacesStay
  <2>1. pod[q].node \in Nodes
    BY Uids DEF PodObjects
  <2>2. CASE q # p \/ pod[q].node # n
    BY <1>13, <2>1, <2>2 DEF PlacesStay
  <2>3. CASE q = p /\ pod[q].node = n
    <3>1. pod[p].uid = o.uid
      BY <1>4, <1>5, <2>3 DEF Kept, PodsKnown
    <3>2. o.node = n /\ ~isTerminated(o.phase)
      BY <1>3, <1>5, <2>3, <3>1 DEF PastOf
    <3>3. n \in DOMAIN c.nodes /\ c.nodes[n].set = TRUE /\ c.nodes[n].tasks[p] # "None"
      BY <2>3 DEF HeldIn
    <3>4. n \in DOMAIN k.nodes /\ k.nodes[n].set = TRUE /\ Req[p] <= k.nodes[n].idle
      BY <1>7, <3>3 DEF Shrunk
    <3>5. n \in DOMAIN c'.nodes /\ c'.nodes[n].set = TRUE
      BY <1>9, <3>4 DEF Grown
    <3>6. c'.nodes[n].tasks[p] # "None"
      BY <1>9, <3>2, <3>4
    <3> QED
      BY <2>3, <3>5, <3>6 DEF HeldIn
  <2> QED
    BY <2>2, <2>3
<1>19. BindingPlacesStay
  <2> SUFFICES ASSUME NEW e \in Entries, Undecided(e), Underway(e)'
               PROVE  /\ Underway(e) /\ (Once(e) => Once(e)')
                      /\ HeldIn(c, e.node, e.t[1]) => HeldIn(c', e.node, e.t[1])
    BY DEF BindingPlacesStay
  <2>1. Underway(e) /\ (Once(e) => Once(e)')
    BY <1>17 DEF Moves
  <2>2. CASE e.node # n \/ e.t[1] # p
    BY <1>13, <2>1, <2>2, EntryParts DEF PlacesStay
  <2>3. CASE e.node = n /\ e.t[1] = p
    <3>1. Seen(e.t)
      BY <2>1 DEF Kept, EntriesKnown
    <3>2. e.t[2] = o.uid /\ pod[p].uid = o.uid /\ pod[p].node = ""
      BY <1>5, <2>3, <3>1 DEF Seen, Undecided
    <3>3. e = rs.e
      <4>1. e.t = rs.e.t
        BY <1>1, <1>4, <2>3, <3>2, EntryParts, TidIs DEF p, o
      <4> QED
        BY <1>3, <2>3, <4>1 DEF n, Entries
    <3>4. Once(e)
      BY <2>1 DEF Kept, BindingsHeld
    <3>5. /\ sending # e /\ ~InChannel(e) /\ ~InBindCache(e) /\ ~InBinds(e)
          /\ e \notin errTasks
      BY <3>3, <3>4 DEF Once
    <3>6. ~InChannel(e)' /\ ~InBindCache(e)' /\ ~InBinds(e)'
      BY <1>1, <3>5 DEF InChannel, InBindCache, InBinds
    <3>7. rs'.e # e
      BY <1>1, EntryParts DEF Idle
    <3>8. e \in errTasks'
      BY <1>1, <3>5, <3>6, <3>7 DEF Underway
    <3>9. o.node # ""
      BY <1>1, <1>8, <3>5, <3>8
    <3> QED
      BY <1>3, <1>5, <3>2, <3>9 DEF PastOf
  <2> QED
    BY <2>1, <2>2, <2>3
<1>20. \A e \in Entries : Underway(e)' => Underway(e) \/ Seen(e.t)
  BY <1>17 DEF Moves
<1> QED
  BY <1>2, <1>14, <1>15, <1>16, <1>18, <1>19, <1>20, CacheKeeps

\* There was no pod when the resync worker read it, and there is none that the
\* informer has delivered: what it takes off the node is no pod's place.
LEMMA syncTaskNodeKeeps ==
    ASSUME Types, Types', Kept, syncTaskNode
    PROVE  Kept'
<1> DEFINE p == rs.e.t[1]
           n == rs.e.node
<1>1. /\ rs.step \in {"node", "retry"} /\ rs' = Idle
      /\ UNCHANGED <<api, watches, sending, channel, bindCache, binds, evictions, ssn>>
      /\ c' = RemoveFrom(c, n, p) /\ errTasks' \in {errTasks, errTasks \cup {rs.e}}
  BY DEF syncTaskNode
<1>2. UNCHANGED <<pod, uids, node, podWatch, nodeWatch, podSeen>>
  BY <1>1 DEF api, watches
<1>3. rs.e \in Entries
  BY <1>1, ResyncBusy
<1>4. p \in Names /\ n \in Nodes /\ n # "" /\ rs.e.t \in Tids
  BY <1>3, EntryParts
<1>5. pod[p].uid # 0 => podSeen[p].uid # pod[p].uid
  BY <1>1 DEF Kept, ResyncKnown
<1>6. c \in Caches /\ c' \in Caches
  BY DEF Types, CacheTypes
<1>7. c'.tasks = c.tasks /\ Shrunk(c, c', n, p)
  BY <1>1, <1>4, <1>6, RemoveFromType
<1> HIDE DEF p, n
<1>8. KeptIn(c)
  BY DEF Kept, NodesKept, KeptIn
<1>9. KeptIn(c') /\ NodesStay(c, c') /\ PlacesStay(c, c', n, p)
  BY <1>6, <1>7, <1>8, ShrunkStays
<1>10. NodesKept'
  <2>1. /\ \A i \in DOMAIN nodeWatch' : nodeWatch'[i].obj = Full(nodeWatch'[i].name)
        /\ \A y \in DOMAIN ssn'.nodes : y \in DOMAIN ssn.nodes
    BY <1>1, <1>2 DEF Kept, NodesKept
  <2> QED
    BY <1>2, <1>9, <2>1, NodesStayKept DEF Kept
<1>11. TasksKnown'
  BY <1>2, <1>7 DEF Kept, TasksKnown, TaskKnown
<1>12. EvictionsKnown' /\ SessionKnown' /\ ResyncKnown'
  <2>1. PodsAdvance
    BY <1>2, PodsSame DEF Kept
  <2>2. ResyncKnown'
    BY <1>1 DEF ResyncKnown, Idle
  <2> QED
    BY <1>1, <1>2, <2>1, <2>2, EvictionsStayKnown, SessionStaysKnown DEF Kept
<1>13. \A e \in Entries : Moves(e)
  BY <1>1, ResyncedMoves
<1>14. BoundPlacesStay
  <2> SUFFICES ASSUME NEW q \in Names, pod[q].node # "", HeldIn(c, pod[q].node, q)
               PROVE  HeldIn(c', pod[q].node, q)
    BY DEF BoundPlacesStay
  <2>1. pod[q].node \in Nodes
    BY Uids DEF PodObjects
  <2>2. q # p
    BY <1>5 DEF Kept, PodsKnown, EventsPast, Past, PastOf
  <2> QED
    BY <1>9, <2>1, <2>2 DEF PlacesStay
<1>15. BindingPlacesStay
  <2> SUFFICES ASSUME NEW e \in Entries, Undecided(e), Underway(e)'
               PROVE  /\ Underway(e) /\ (Once(e) => Once(e)')
                      /\ HeldIn(c, e.node, e.t[1]) => HeldIn(c', e.node, e.t[1])
    BY DEF BindingPlacesStay
  <2>1. Underway(e) /\ (Once(e) => Once(e)')
    BY <1>13 DEF Moves
  <2>2. e.t[1] # p
    <3>1. Seen(e.t) /\ e.t[2] # 0
      BY <2>1, EntryParts DEF Kept, EntriesKnown
    <3> QED
      BY <1>5, <3>1 DEF Seen, Undecided
  <2> QED
    BY <1>9, <2>1, <2>2, EntryParts DEF PlacesStay
<1>16. \A e \in Entries : Underway(e)' => Underway(e) \/ Seen(e.t)
  BY <1>13 DEF Moves
<1> QED
  BY <1>2, <1>10, <1>11, <1>12, <1>14, <1>15, <1>16, CacheKeeps

-----------------------------------------------------------------------------
(***************************************************************************)
(* The handler of the pods.                                                *)
(***************************************************************************)
\* A pod that is deleted and added again is where it was, if the new state has
\* that node.
LEMMA ReplacedPlaces ==
    ASSUME NEW k \in Caches, Owned(k), KeptIn(k), NEW p \in Names,
           NEW old \in PodObjects, old.uid # 0, NEW new \in PodObjects, new.uid # 0,
           NEW h, h = deletePod(k, p, old), NEW m, m = addTask(h, p, new),
           NEW n, n = NodeOf(k, p, old)
    PROVE  /\ h \in Caches /\ TasksGone(k, h, {<<p, old.uid>>}) /\ TaskWritten(h, m, p, new)
           /\ KeptIn(m) /\ NodesStay(k, m) /\ PlacesStay(k, m, n, p)
           /\ new.node = n /\ HeldIn(k, n, p) /\ ~isTerminated(new.phase) => HeldIn(m, n, p)
<1>1. /\ h \in Caches /\ Owned(h) /\ TasksGone(k, h, {<<p, old.uid>>}) /\ Shrunk(k, h, n, p)
  BY deletePodType
<1>2. /\ m \in Caches /\ TaskWritten(h, m, p, new) /\ Grown(h, m)
      /\ /\ new.node \in DOMAIN h.nodes /\ h.nodes[new.node].set
         /\ ~isTerminated(new.phase) /\ Req[p] <= h.nodes[new.node].idle
         => m.nodes[new.node].tasks[p] # "None"
  BY <1>1, addTaskType
<1>3. KeptIn(h) /\ NodesStay(k, h) /\ PlacesStay(k, h, n, p)
  BY <1>1, ShrunkStays
<1>4. KeptIn(m) /\ NodesStay(h, m) /\ PlacesStay(h, m, n, p)
  BY <1>1, <1>2, <1>3, GrownStays
<1>5. NodesStay(k, m) /\ PlacesStay(k, m, n, p)
  BY <1>3, <1>4, StayTwice
<1>6. ASSUME new.node = n, HeldIn(k, n, p), ~isTerminated(new.phase)
      PROVE  HeldIn(m, n, p)
  <2>1. n \in DOMAIN k.nodes /\ k.nodes[n].set = TRUE /\ k.nodes[n].tasks[p] # "None"
    BY <1>6 DEF HeldIn
  <2>2. n \in DOMAIN h.nodes /\ h.nodes[n].set = TRUE /\ Req[p] <= h.nodes[n].idle
    BY <1>1, <2>1 DEF Shrunk
  <2>3. n \in DOMAIN m.nodes /\ m.nodes[n].set = TRUE
    BY <1>2, <2>2 DEF Grown
  <2>4. m.nodes[n].tasks[p] # "None"
    BY <1>2, <1>6, <2>2
  <2> QED
    BY <2>3, <2>4 DEF HeldIn
<1> QED
  BY <1>1, <1>2, <1>4, <1>5, <1>6

\* What a pod's event finds: states of the past, in their order, and if the
\* informer had delivered the pod there is, this is about the same pod.
LEMMA EventFinds ==
    ASSUME Types, EventsPast, podWatch # <<>>, NEW p, p = Head(podWatch).name,
           NEW new, new = Head(podWatch).obj
    PROVE  /\ p \in Names /\ new \in PodObjects /\ podSeen[p] \in PodObjects
           /\ PastOf(pod[p], uids[p], new) /\ PastOf(pod[p], uids[p], podSeen[p])
           /\ FollowsOf(pod[p], podSeen[p], new)
           /\ podSeen[p].uid = pod[p].uid /\ pod[p].uid # 0 => new.uid = pod[p].uid
<1>1. p \in Names /\ new \in PodObjects /\ podSeen[p] \in PodObjects
  BY FirstPodEvent DEF Types
<1>2. podWatch \in Seq(PodEvents)
  BY DEF Types, WatchTypes
<1>3. 1 \in DOMAIN podWatch /\ Head(podWatch) = podWatch[1]
  BY <1>2
<1>4. PastOf(pod[p], uids[p], new) /\ FollowsOf(pod[p], podSeen[p], new)
  BY <1>3 DEF EventsPast, Past, Newer
<1>5. PastOf(pod[p], uids[p], podSeen[p])
  BY <1>1 DEF EventsPast, Past
<1> QED
  BY <1>1, <1>4, <1>5 DEF FollowsOf

\* The events after the one handled follow it, and are states of the past in
\* their order.
LEMMA EventsHandled ==
    ASSUME Types, Types', EventsPast, podWatch # <<>>, UNCHANGED <<pod, uids>>,
           NEW p, p = Head(podWatch).name,
           NEW new, new = Head(podWatch).obj,
           podSeen' = [podSeen EXCEPT ![p] = new], podWatch' = Tail(podWatch)
    PROVE  EventsPast'
<1>1. /\ p \in Names /\ PastOf(pod[p], uids[p], new)
  BY EventFinds
<1>2. podWatch \in Seq(PodEvents)
  BY DEF Types, WatchTypes
<1>3. 1 \in DOMAIN podWatch /\ Head(podWatch) = podWatch[1]
  BY <1>2
<1>4. /\ \A i \in DOMAIN podWatch' : i + 1 \in DOMAIN podWatch /\ 1 < i + 1
                                     /\ podWatch'[i] = podWatch[i + 1]
      /\ \A i, j \in DOMAIN podWatch' : i < j => i + 1 < j + 1
  BY <1>2
<1>5. \A q \in Names : podSeen'[q] = IF q = p THEN new ELSE podSeen[q]
  BY DEF Types, WatchTypes
<1>6. \A q \in Names : Past(q, pod[q])' /\ Past(q, podSeen[q])'
  BY <1>1, <1>5 DEF EventsPast, Past
<1>7. ASSUME NEW i \in DOMAIN podWatch'
      PROVE  /\ PastOf(pod'[podWatch'[i].name], uids'[podWatch'[i].name], podWatch'[i].obj)
             /\ FollowsOf(pod'[podWatch'[i].name], podSeen'[podWatch'[i].name], podWatch'[i].obj)
  <2>1. podWatch'[i] = podWatch[i + 1] /\ i + 1 \in DOMAIN podWatch /\ 1 < i + 1
    BY <1>4
  <2>2. PICK x : x = podWatch[i + 1]
    OBVIOUS
  <2>3. x.name \in Names
    <3>1. x \in PodEvents
      BY <1>2, <2>1, <2>2
    <3> QED
      BY <3>1 DEF PodEvents
  <2>4. PastOf(pod[x.name], uids[x.name], x.obj) /\ FollowsOf(pod[x.name], podSeen[x.name], x.obj)
    BY <2>1, <2>2 DEF EventsPast, Past, Newer
  <2>5. x.name = p => FollowsOf(pod[p], new, x.obj)
    BY <1>3, <2>1, <2>2 DEF EventsPast, Newer
  <2> QED
    BY <1>5, <2>1, <2>2, <2>3, <2>4, <2>5
<1>8. ASSUME NEW i \in DOMAIN podWatch', NEW j \in DOMAIN podWatch', i < j,
             podWatch'[i].name = podWatch'[j].name
      PROVE  FollowsOf(pod'[podWatch'[i].name], podWatch'[i].obj, podWatch'[j].obj)
  BY <1>4, <1>8 DEF EventsPast, Newer
<1> QED
  BY <1>6, <1>7, <1>8 DEF EventsPast, Past, Newer

\* What the handler does: it leaves the cache alone, where it has no task of a
\* pod of another uid; adds a pod it had no task of; replaces or deletes one.
LEMMA HandlePodCases ==
    ASSUME Types, Kept, HandlePod, NEW p, p = Head(podWatch).name,
           NEW new, new = Head(podWatch).obj, NEW old, old = podSeen[p]
    PROVE  \/ /\ c' = c
              /\ \/ ~\E z \in DOMAIN c.tasks : z[1] = p
                 \/ new.uid = old.uid
           \/ /\ ~Visible(p, old) /\ new.uid # 0 /\ c' = addTask(c, p, new)
              /\ ~\E z \in DOMAIN c.tasks : z[1] = p
           \/ /\ Visible(p, old) /\ old.uid # 0 /\ new.uid # 0
              /\ ~(allocatedPodInCache(c, <<p, new.uid>>) /\ new.node = "")
              /\ c' = addTask(deletePod(c, p, old), p, new)
           \/ ~Visible(p, new) /\ old.uid # 0 /\ c' = deletePod(c, p, old)
<1>1. podWatch # <<>>
  BY DEF HandlePod
<1>2. ASSUME ~Visible(p, old), NEW z \in DOMAIN c.tasks, z[1] = p
      PROVE  FALSE
  <2>1. z[2] = old.uid /\ z \in OwnTids
    BY <1>2, TaskSeen DEF TaskKnown
  <2>2. JobOf[p] # ""
    BY <1>2, <2>1 DEF OwnTids
  <2>3. z[2] # 0
    <3>1. z[2] \in 1 .. MaxUid
      BY <2>1 DEF OwnTids, Tids
    <3> QED
      BY <3>1, Bounds
  <2> QED
    BY <1>2, <2>1, <2>2, <2>3 DEF Visible
<1>3. ASSUME allocatedPodInCache(c, <<p, new.uid>>)
      PROVE  new.uid = old.uid
  <2>1. PICK z \in DOMAIN c.tasks : z = <<p, new.uid>>
    BY <1>3 DEF allocatedPodInCache
  <2>2. z[1] = p /\ z[2] = new.uid
    BY <2>1
  <2> QED
    BY <2>2, TaskSeen DEF TaskKnown
<1>4. CASE ~Visible(p, old) /\ Visible(p, new)
  BY <1>2, <1>4 DEF HandlePod, Visible
<1>5. CASE Visible(p, old) /\ Visible(p, new)
  <2>1. c' = updatePod(c, p, old, new)
    BY <1>5 DEF HandlePod
  <2>2. old.uid # 0 /\ new.uid # 0
    BY <1>5 DEF Visible
  <2> QED
    BY <1>3, <1>5, <2>1, <2>2 DEF updatePod
<1>6. CASE Visible(p, old) /\ ~Visible(p, new)
  BY <1>6 DEF HandlePod, Visible
<1>7. CASE ~Visible(p, old) /\ ~Visible(p, new)
  BY <1>2, <1>7 DEF HandlePod
<1> QED
  BY <1>4, <1>5, <1>6, <1>7

\* An event of a pod handled takes at most the place where the pod was.
LEMMA HandlePodPlaces ==
    ASSUME Types, Types', Kept, HandlePod, NEW p, p = Head(podWatch).name,
           NEW new, new = Head(podWatch).obj, NEW old, old = podSeen[p]
    PROVE  /\ KeptIn(c') /\ NodesStay(c, c') /\ TasksKnown'
           /\ PlacesStay(c, c', NodeOf(c, p, old), p)
<1>1. podWatch # <<>> /\ UNCHANGED api /\ podSeen' = [podSeen EXCEPT ![p] = new]
  BY DEF HandlePod
<1>2. UNCHANGED <<pod, uids>>
  BY <1>1 DEF api
<1>3. /\ p \in Names /\ new \in PodObjects /\ old \in PodObjects
      /\ PastOf(pod[p], uids[p], new)
  BY <1>1, EventFinds DEF Kept
<1>4. podSeen'[p] = new /\ \A q \in Names : q # p => podSeen'[q] = podSeen[q]
  BY <1>1, <1>3 DEF Types, WatchTypes
<1>5. c \in Caches /\ Owned(c) /\ KeptIn(c) /\ c' \in Caches
  BY DEF Types, CacheTypes, Kept, NodesKept, KeptIn
<1>6. \A z \in DOMAIN c.tasks : z[1] \in Names
  BY TaskSeen
<1>7. ASSUME NEW k, \A z \in DOMAIN k.tasks : z \in DOMAIN c.tasks /\ k.tasks[z] = c.tasks[z],
             ~\E z \in DOMAIN k.tasks : z[1] = p
      PROVE  \A z \in DOMAIN k.tasks : z \in DOMAIN c.tasks /\ k.tasks[z] = c.tasks[z]
                                     /\ podSeen'[z[1]].uid = podSeen[z[1]].uid
  BY <1>4, <1>6, <1>7
<1>8. ASSUME NEW k, TasksGone(c, k, {<<p, old.uid>>})
      PROVE  ~\E z \in DOMAIN k.tasks : z[1] = p
  <2> SUFFICES ASSUME NEW z \in DOMAIN k.tasks, z[1] = p
               PROVE  FALSE
    OBVIOUS
  <2>1. z \in DOMAIN c.tasks /\ z # <<p, old.uid>>
    BY <1>8 DEF TasksGone
  <2>2. z[2] = old.uid /\ z \in Tids
    BY <2>1, TaskSeen DEF TaskKnown, OwnTids
  <2>3. z = <<z[1], z[2]>>
    BY <2>2 DEF Tids
  <2> QED
    BY <2>1, <2>2, <2>3
<1>9. CASE c' = c /\ (~(\E z \in DOMAIN c.tasks : z[1] = p) \/ new.uid = old.uid)
  <2>1. KeptIn(c') /\ NodesStay(c, c') /\ \A n, q : PlacesStay(c, c', n, q)
    BY <1>5, <1>9, SameStays
  <2>2. \A z \in DOMAIN c.tasks : podSeen'[z[1]].uid = podSeen[z[1]].uid
    BY <1>4, <1>6, <1>9
  <2>3. TasksKnown'
    BY <1>2, <1>9, <2>2 DEF Kept, TasksKnown, TaskKnown
  <2> QED
    BY <2>1, <2>3
<1>10. CASE /\ new.uid # 0 /\ c' = addTask(c, p, new)
            /\ ~\E z \in DOMAIN c.tasks : z[1] = p
  <2>1. TaskWritten(c, c', p, new) /\ Grown(c, c')
    BY <1>3, <1>5, <1>10, addTaskType
  <2>2. KeptIn(c') /\ NodesStay(c, c') /\ \A n, q : PlacesStay(c, c', n, q)
    BY <1>5, <2>1, GrownStays
  <2>3. TasksKnown'
    BY <1>2, <1>3, <1>4, <1>5, <1>7, <1>10, <2>1, WrittenKnown DEF Kept
  <2> QED
    BY <2>2, <2>3
<1>11. CASE /\ old.uid # 0 /\ new.uid # 0
            /\ c' = addTask(deletePod(c, p, old), p, new)
  <2>1. PICK h : h = deletePod(c, p, old)
    OBVIOUS
  <2>2. /\ h \in Caches /\ TasksGone(c, h, {<<p, old.uid>>}) /\ TaskWritten(h, c', p, new)
        /\ KeptIn(c') /\ NodesStay(c, c') /\ PlacesStay(c, c', NodeOf(c, p, old), p)
    BY <1>3, <1>5, <1>11, <2>1, ReplacedPlaces
  <2>3. \A z \in DOMAIN h.tasks : z \in DOMAIN c.tasks /\ h.tasks[z] = c.tasks[z]
                                  /\ podSeen'[z[1]].uid = podSeen[z[1]].uid
    BY <1>7, <1>8, <2>2 DEF TasksGone
  <2>4. TasksKnown'
    BY <1>2, <1>3, <1>4, <1>11, <2>2, <2>3, WrittenKnown DEF Kept
  <2> QED
    BY <2>2, <2>4
<1>12. CASE old.uid # 0 /\ c' = deletePod(c, p, old)
  <2>1. TasksGone(c, c', {<<p, old.uid>>}) /\ Shrunk(c, c', NodeOf(c, p, old), p)
    BY <1>3, <1>5, <1>12, deletePodType
  <2>2. KeptIn(c') /\ NodesStay(c, c') /\ PlacesStay(c, c', NodeOf(c, p, old), p)
    BY <1>5, <2>1, ShrunkStays
  <2>3. \A z \in DOMAIN c'.tasks : z \in DOMAIN c.tasks /\ c'.tasks[z] = c.tasks[z]
                                   /\ podSeen'[z[1]].uid = podSeen[z[1]].uid
    BY <1>7, <1>8, <2>1 DEF TasksGone
  <2>4. TasksKnown'
    BY <1>2, <2>3 DEF Kept, TasksKnown, TaskKnown
  <2> QED
    BY <2>2, <2>4
<1> QED
  BY <1>9, <1>10, <1>11, <1>12, HandlePodCases

\* Updating a pod keeps its place: an event with its node puts the pod back; one
\* without a node finds a task that is allocated, and changes nothing, or one
\* that has no place or is leaving.
LEMMA HandlePodOwnPlace ==
    ASSUME Types, Types', Kept, HandlePod, ~displaced', NEW p, p = Head(podWatch).name,
           NEW new, new = Head(podWatch).obj, NEW old, old = podSeen[p],
           NEW n \in Nodes, HeldIn(c, n, p), JobOf[p] # "",
           old.uid = pod[p].uid, pod[p].uid # 0,
           \/ n = pod[p].node /\ ~isTerminated(pod[p].phase)
           \/ pod[p].node = ""
    PROVE  HeldIn(c', n, p)
<1>1. podWatch # <<>> /\ ~Late(p, new)
  BY DEF HandlePod
<1>2. /\ p \in Names /\ new \in PodObjects /\ old \in PodObjects
      /\ PastOf(pod[p], uids[p], new) /\ FollowsOf(pod[p], old, new)
      /\ new.uid = pod[p].uid
  BY <1>1, EventFinds DEF Kept
<1>3. Visible(p, old) /\ Visible(p, new)
  BY <1>2 DEF Visible
<1>4. n # ""
  BY CacheAssumption
<1>5. CASE c' = c
  BY <1>5
<1>6. CASE n # NodeOf(c, p, old)
  BY <1>2, <1>6, HandlePodPlaces DEF PlacesStay
<1>7. CASE c' # c /\ n = NodeOf(c, p, old)
  <2>1. /\ ~(allocatedPodInCache(c, <<p, new.uid>>) /\ new.node = "")
        /\ c' = addTask(deletePod(c, p, old), p, new)
    BY <1>3, <1>7, HandlePodCases
  <2>2. CASE new.node # ""
    <3>1. new.node = pod[p].node /\ new.node = n /\ ~isTerminated(new.phase)
      BY <1>2, <2>2 DEF PastOf
    <3>2. c \in Caches /\ Owned(c) /\ KeptIn(c)
      BY DEF Types, CacheTypes, Kept, NodesKept, KeptIn
    <3>3. PICK h : h = deletePod(c, p, old)
      OBVIOUS
    <3>4. c' = addTask(h, p, new) /\ old.uid # 0 /\ new.uid # 0
      BY <1>2, <2>1, <3>3
    <3>5. new.node = n /\ HeldIn(c, n, p) /\ ~isTerminated(new.phase) => HeldIn(c', n, p)
      BY <1>2, <1>7, <3>2, <3>3, <3>4, ReplacedPlaces, ZenonT(60)
    <3> QED
      BY <3>1, <3>5
  <2>3. CASE new.node = ""
    <3>1. old.node = ""
      BY <1>2, <2>3 DEF FollowsOf
    <3>2. PICK t \in DOMAIN c.tasks : t = <<p, old.uid>> /\ c.tasks[t].node = n
      BY <1>4, <1>7, <3>1 DEF NodeOf
    <3>3. t[1] = p /\ t[2] = pod[p].uid /\ t = <<p, new.uid>>
      BY <1>2, <3>2
    <3>4. TaskKnown(t, c.tasks[t]) /\ c.tasks[t].status \in TaskStatuses
      BY TaskSeen, CacheParts DEF Types, CacheTypes, TaskEntries
    <3>5. c.tasks[t].status \notin {"Pending", "Pipelined"}
      BY <1>4, <3>2, <3>4 DEF TaskKnown
    <3>6. c.tasks[t].status # "Releasing"
      BY <1>1, <2>3, <3>3 DEF Late
    <3>7. ~AllocatedStatus(c.tasks[t].status)
      BY <2>1, <2>3, <3>3 DEF allocatedPodInCache
    <3>8. isTerminated(c.tasks[t].status)
      BY <3>4, <3>5, <3>6, <3>7 DEF TaskStatuses, AllocatedStatus, isTerminated
    <3>9. isTerminated(pod[p].phase) /\ pod[p].node # ""
      BY <3>3, <3>4, <3>8 DEF TaskKnown, isTerminated
    <3> QED
      BY <3>9
  <2> QED
    BY <2>2, <2>3
<1> QED
  BY <1>5, <1>6, <1>7

\* An event of a pod handled keeps the invariant, unless it overtook a
\* reading or came late.
LEMMA HandlePodKeeps ==
    ASSUME Types, Types', Kept, HandlePod, ~overtaken', ~displaced'
    PROVE  Kept'
<1>1. /\ podWatch # <<>> /\ podWatch' = Tail(podWatch)
      /\ UNCHANGED <<api, nodeWatch, workers, ssn>>
  BY DEF HandlePod
<1>2. UNCHANGED <<pod, uids, node, errTasks, rs, sending, channel, bindCache, binds, evictions>>
  BY <1>1 DEF api, workers
<1>3. PICK p : p = Head(podWatch).name
  OBVIOUS
<1>4. PICK new : new = Head(podWatch).obj
  OBVIOUS
<1>5. PICK old : old = podSeen[p]
  OBVIOUS
<1>6. podSeen' = [podSeen EXCEPT ![p] = new] /\ (rs = Idle \/ rs.e.t[1] # p)
  BY <1>3, <1>4 DEF HandlePod
<1>7. /\ p \in Names /\ (old.uid = pod[p].uid /\ pod[p].uid # 0 => new.uid = pod[p].uid)
  BY <1>1, <1>3, <1>4, <1>5, EventFinds DEF Kept
<1>8. podSeen'[p] = new /\ \A q \in Names : q # p => podSeen'[q] = podSeen[q]
  BY <1>6, <1>7 DEF Types, WatchTypes
<1>9. \A q \in Names : podSeen[q].uid = pod[q].uid /\ pod[q].uid # 0 =>
                         podSeen'[q].uid = pod[q].uid
  BY <1>5, <1>7, <1>8
<1>10. EventsPast'
  BY <1>1, <1>2, <1>3, <1>4, <1>6, EventsHandled DEF Kept
<1>11. KeptIn(c') /\ NodesStay(c, c') /\ TasksKnown' /\ PlacesStay(c, c', NodeOf(c, p, old), p)
  BY <1>3, <1>4, <1>5, HandlePodPlaces
<1>12. NodesKept'
  <2>1. /\ \A i \in DOMAIN nodeWatch' : nodeWatch'[i].obj = Full(nodeWatch'[i].name)
        /\ \A y \in DOMAIN ssn'.nodes : y \in DOMAIN ssn.nodes
    BY <1>1 DEF Kept, NodesKept
  <2> QED
    BY <1>2, <1>11, <2>1, NodesStayKept DEF Kept
<1>13. PodsKnown'
  <2>1. \A q \in Names : pod[q].node # "" => pod[q].uid # 0
    BY DEF Kept, EventsPast, Past, PastOf
  <2> QED
    BY <1>2, <1>9, <2>1 DEF Kept, PodsKnown
<1>14. \A t \in Tids : Seen(t) => Seen(t)'
  <2> SUFFICES ASSUME NEW t \in Tids, Seen(t)
               PROVE  Seen(t)'
    OBVIOUS
  <2>1. t[1] \in Names /\ t[2] \in 1 .. MaxUid
    BY DEF Tids
  <2>2. t[2] # 0
    BY <2>1, Bounds
  <2> QED
    BY <1>2, <1>9, <2>1, <2>2 DEF Seen
<1>15. \A e \in Entries : Moves(e) /\ e.t \in Tids
  BY <1>2, WorkersSame, EntryParts
<1>16. EntriesKnown'
  BY <1>14, <1>15 DEF Kept, EntriesKnown, Moves
<1>17. EvictionsKnown'
  <2>1. \A v \in evictions : v.t \in Tids
    BY DEF Types, WorkerTypes, Evictions, OwnTids
  <2> QED
    BY <1>2, <1>14, <2>1 DEF Kept, EvictionsKnown
<1>18. SessionKnown'
  BY <1>1, <1>2 DEF Kept, SessionKnown
<1>19. ResyncKnown'
  <2>1. CASE rs = Idle
    BY <1>2, <2>1 DEF ResyncKnown, Idle
  <2>2. CASE rs # Idle
    <3>1. rs.e \in Entries
      BY <2>2 DEF Types, WorkerTypes, ResyncType
    <3>2. podSeen'[rs.e.t[1]] = podSeen[rs.e.t[1]]
      BY <1>6, <1>8, <2>2, <3>1, EntryParts
    <3> QED
      BY <1>2, <3>2 DEF Kept, ResyncKnown, Past
  <2> QED
    BY <2>1, <2>2
<1>20. BoundPlacesStay
  <2> SUFFICES ASSUME NEW q \in Names, pod[q].node # "", ~isTerminated(pod[q].phase),
                      HeldIn(c, pod[q].node, q)
               PROVE  HeldIn(c', pod[q].node, q)
    BY DEF BoundPlacesStay
  <2>1. pod[q].node \in Nodes
    BY Uids DEF PodObjects
  <2>2. CASE q # p
    BY <1>11, <2>1, <2>2 DEF PlacesStay
  <2>3. CASE q = p
    <3>1. JobOf[p] # "" /\ old.uid = pod[p].uid /\ pod[p].uid # 0
      BY <1>5, <2>3 DEF Kept, PodsKnown, EventsPast, Past, PastOf
    <3> QED
      BY <1>3, <1>4, <1>5, <2>1, <2>3, <3>1, HandlePodOwnPlace
  <2> QED
    BY <2>2, <2>3
<1>21. BindingPlacesStay
  <2> SUFFICES ASSUME NEW e \in Entries, Undecided(e), Underway(e)'
               PROVE  /\ Underway(e) /\ (Once(e) => Once(e)')
                      /\ HeldIn(c, e.node, e.t[1]) => HeldIn(c', e.node, e.t[1])
    BY DEF BindingPlacesStay
  <2>1. Underway(e) /\ (Once(e) => Once(e)')
    BY <1>15 DEF Moves
  <2>2. ASSUME HeldIn(c, e.node, e.t[1])
        PROVE  HeldIn(c', e.node, e.t[1])
    <3>1. e.t[1] \in Names /\ e.node \in Nodes /\ e.t[2] # 0 /\ JobOf[e.t[1]] # ""
      BY EntryParts
    <3>2. CASE e.t[1] # p
      BY <1>11, <2>2, <3>1, <3>2 DEF PlacesStay
    <3>3. CASE e.t[1] = p
      <4>1. Seen(e.t)
        BY <2>1 DEF Kept, EntriesKnown
      <4>2. old.uid = pod[p].uid /\ pod[p].uid # 0 /\ pod[p].node = ""
        BY <1>5, <3>1, <3>3, <4>1 DEF Undecided, Seen
      <4> QED
        BY <1>3, <1>4, <1>5, <2>2, <3>1, <3>3, <4>2, HandlePodOwnPlace
    <3> QED
      BY <3>2, <3>3
  <2> QED
    BY <2>1, <2>2
<1>22. BoundHeld' /\ BindingsHeld'
  BY <1>2, <1>20, <1>21, PlacesKeep DEF Kept
<1> QED
  BY <1>10, <1>11, <1>12, <1>13, <1>16, <1>17, <1>18, <1>19, <1>22 DEF Kept

-----------------------------------------------------------------------------
(***************************************************************************)
(* The invariant and the theorem.                                          *)
(***************************************************************************)
\* At first no pod is bound and no binding is under way.
LEMMA InitKept == Init => Kept
<1> SUFFICES ASSUME Init PROVE Kept
  OBVIOUS
<1>1. Types
  BY InitTypes
<1>2. /\ DOMAIN c.nodes = {} /\ DOMAIN c.tasks = {}
      /\ DOMAIN ssn.nodes = {} /\ DOMAIN ssn.tasks = {}
  BY PartialEmpty DEF Init, EmptyCache, NoSession
<1>3. \A p \in Names : /\ pod[p].uid = uids[p] /\ pod[p].node = ""
                       /\ pod[p].phase = "Pending" /\ pod[p].deleting = FALSE
                       /\ podSeen[p] = NoPod
  BY DEF Init, NoPod
<1>4. \A p \in Names : PastOf(pod[p], uids[p], pod[p]) /\ PastOf(pod[p], uids[p], podSeen[p])
  <2> TAKE p \in Names
  <2>1. uids[p] <= uids[p] /\ 0 <= uids[p]
    <3>1. uids[p] \in Nat
      BY <1>1, Uids
    <3> QED
      BY <3>1
  <2>2. pod[p].uid <= uids[p] /\ NoPod.uid <= uids[p]
    BY <1>3, <2>1, NoPodIs
  <2> QED
    BY <1>3, <2>2, NoPodIs DEF PastOf, isTerminated
<1>5. NodesKept
  <2>1. \A n \in Nodes : node[n] = Full(n)
    BY DEF Init, Full
  <2>2. nodeWatch = Listed(Nodes, NodeEvent) /\ nodeWatch \in Seq(NodeEvents)
    BY <1>1 DEF Init, Types, WatchTypes
  <2>3. \A i \in DOMAIN nodeWatch : nodeWatch[i].obj = node[nodeWatch[i].name]
    BY <1>1, <2>2, NodeListType DEF Types
  <2>4. \A i \in DOMAIN nodeWatch : nodeWatch[i].name \in Nodes
    <3>1. \A x \in NodeEvents : x.name \in Nodes
      BY DEF NodeEvents
    <3> QED
      BY <2>2, <3>1
  <2> QED
    BY <1>2, <2>1, <2>3, <2>4 DEF NodesKept
<1>6. EventsPast
  <2>1. scenario.pods \in SUBSET Names
    BY CacheAssumption DEF Init
  <2>2. podWatch = Listed(scenario.pods, PodEvent) /\ podWatch \in Seq(PodEvents)
    BY <1>1 DEF Init, Types, WatchTypes
  <2>3. \A i \in DOMAIN podWatch : podWatch[i].obj = pod[podWatch[i].name]
    BY <1>1, <2>1, <2>2, PodListType DEF Types
  <2>4. \A i \in DOMAIN podWatch : podWatch[i].name \in Names
    <3>1. \A x \in PodEvents : x.name \in Names
      BY DEF PodEvents
    <3> QED
      BY <2>2, <3>1
  <2>5. \A p \in Names : /\ FollowsOf(pod[p], podSeen[p], pod[p])
                         /\ FollowsOf(pod[p], pod[p], pod[p])
    BY <1>3, NoPodIs DEF FollowsOf
  <2> QED
    BY <1>4, <2>3, <2>4, <2>5 DEF EventsPast, Past, Newer
<1>7. PodsKnown /\ TasksKnown /\ SessionKnown /\ BoundHeld
  BY <1>2, <1>3 DEF PodsKnown, TasksKnown, SessionKnown, BoundHeld
<1>8. EvictionsKnown /\ ResyncKnown
  BY DEF Init, EvictionsKnown, ResyncKnown, Idle
<1>9. \A e \in Entries : ~Underway(e)
  <2> TAKE e \in Entries
  <2>1. sending # e /\ rs.e # e /\ e \notin errTasks /\ binds = {}
    BY EntryParts DEF Init, Idle
  <2>2. DOMAIN channel = {} /\ DOMAIN bindCache = {}
    BY DEF Init
  <2> QED
    BY <2>1, <2>2 DEF Underway, InChannel, InBindCache, InBinds
<1>10. EntriesKnown /\ BindingsHeld
  BY <1>9 DEF EntriesKnown, BindingsHeld
<1> QED
  BY <1>5, <1>6, <1>7, <1>8, <1>10 DEF Kept

\* What is out of date stays so.
LEMMA HistoryGrows ==
    ASSUME Types, [Next]_vars, Calm'
    PROVE  Calm
<1>1. ASSUME UNCHANGED <<history, scenario>>
      PROVE  Calm
  BY <1>1 DEF Calm, OwnWorld, history
<1>2. ASSUME Reboot
      PROVE  FALSE
  BY <1>2 DEF Reboot, Calm
<1>3. CASE HandlePod
  <2>1. /\ UNCHANGED scenario /\ (overtaken => overtaken') /\ (displaced => displaced')
      /\ UNCHANGED crashed
    BY <1>3 DEF HandlePod
  <2> QED
    BY <2>1 DEF Calm, OwnWorld
<1>4. CASE updateTask
  <2>1. /\ UNCHANGED scenario /\ (overtaken => overtaken') /\ (displaced => displaced')
      /\ UNCHANGED crashed
    BY <1>4 DEF updateTask
  <2> QED
    BY <2>1 DEF Calm, OwnWorld
<1>5. ASSUME NEW t, Evict(t)
      PROVE  Calm
  <2>1. UNCHANGED <<overtaken, displaced, crashed, scenario>>
    BY <1>2, <1>5, EvictCases
  <2> QED
    BY <2>1 DEF Calm, OwnWorld
<1>6. CASE Crash
  BY <1>2, <1>6 DEF Crash
<1>7. CASE HandleNode \/ HandleGroup \/ Cleanup
  BY <1>1, <1>7 DEF HandleNode, HandleGroup, Cleanup, CleanupDue, processCleanupJob
<1>8. CASE Snapshot \/ CloseSession \/ Sent
  BY <1>1, <1>8 DEF Snapshot, CloseSession, Sent
<1>9. ASSUME NEW t, taskUnschedulable(t) \/ \E n : Dispatch(t, n)
      PROVE  Calm
  BY <1>1, <1>9 DEF taskUnschedulable, Dispatch
<1>10. ASSUME NEW e, processResyncTask(e)
       PROVE  Calm
  BY <1>1, <1>10 DEF processResyncTask
<1>11. CASE syncTaskJob \/ syncTaskNode \/ BindWorker
  BY <1>1, <1>11 DEF syncTaskJob, syncTaskNode, BindWorker, processBindTask, BindTask
<1>12. CASE Goroutines
  BY <1>1, <1>12 DEF Goroutines, Bind, EvictStatus, EvictDelete
<1>13. ASSUME NEW p, PodStep(p) \/ CreatePod(p)
       PROVE  Calm
  BY <1>1, <1>13 DEF PodStep, KubeletRun, KubeletRemove, KubeletStatus, KubeletEnd, DeletePod,
                     ForeignBind, CreatePod, Others
<1>14. CASE Relist \/ (\E n : NodeStep(n)) \/ (\E j : GroupStep(j))
  BY <1>1, <1>14 DEF Relist, NodeStep, GroupStep, NodeWorse, NodeGoes, NodeBack, PutNode,
                     GroupGoes, GroupBack, PutGroup, Others
<1>15. CASE UNCHANGED vars
  BY <1>1, <1>15 DEF vars, history
<1>16. CASE Session
  BY <1>5, <1>8, <1>9, <1>16 DEF Session
<1>17. CASE Resync
  BY <1>4, <1>10, <1>11, <1>17 DEF Resync
<1>18. CASE Kubelet \/ Environment
  BY <1>6, <1>13, <1>14, <1>18 DEF Kubelet, Environment, PodStep, NodeStep, GroupStep
<1> QED
  BY <1>3, <1>7, <1>11, <1>12, <1>15, <1>16, <1>17, <1>18 DEF Next, Handlers

\* Every step between calm states keeps the invariant.
LEMMA NextKeeps ==
    ASSUME Types, Types', Kept, Calm, Calm', [Next]_vars
    PROVE  Kept'
<1>1. OwnWorld /\ ~overtaken' /\ ~displaced' /\ ~crashed'
  BY DEF Calm
<1>2. CASE Handlers
  BY <1>1, <1>2, HandlePodKeeps, HandleNodeKeeps, HandleGroupKeeps DEF Handlers
<1>3. CASE Cleanup
  BY <1>3, CleanupKeeps
<1>4. CASE Session
  BY <1>1, <1>4, SnapshotKeeps, CloseSessionKeeps, SentKeeps, taskUnschedulableKeeps,
     EvictKeeps, DispatchKeeps DEF Session
<1>5. CASE Resync
  BY <1>1, <1>5, processResyncTaskKeeps, updateTaskKeeps, syncTaskJobKeeps, syncTaskNodeKeeps
  DEF Resync
<1>6. CASE BindWorker
  BY <1>6, processBindTaskKeeps, BindTaskKeeps DEF BindWorker
<1>7. CASE Goroutines
  BY <1>7, BindKeeps, EvictionKeeps DEF Goroutines
<1>8. CASE Kubelet
  BY <1>1, <1>8, PodStepKeeps DEF Kubelet, PodStep
<1>9. ASSUME Crash
      PROVE  FALSE
  BY <1>1, <1>9 DEF Crash, Reboot
<1>10. CASE Environment
  BY <1>1, <1>9, <1>10, RelistKeeps, PodStepKeeps, CreatePodKeeps, NodeStepNever,
     GroupStepKeeps DEF Environment, PodStep, NodeStep, GroupStep
<1>11. CASE UNCHANGED vars
  <2>1. UNCHANGED <<api, watches, c, workers, ssn>>
    BY <1>11 DEF vars, api, watches, workers
  <2> QED
    BY <2>1, StutteringKeeps
<1> QED
  BY <1>2, <1>3, <1>4, <1>5, <1>6, <1>7, <1>8, <1>10, <1>11 DEF Next

\* The pods on a node are among those that have a place on it, and these fit.
LEMMA KeptSuffices ==
    ASSUME Types, Calm => Kept
    PROVE  NoOvercommit
<1> SUFFICES ASSUME OwnWorld, ~overtaken, ~displaced, ~crashed, NEW n \in Nodes
             PROVE  Total(On(n)) <= node[n].alloc
  BY DEF NoOvercommit
<1>1. Kept
  BY DEF Calm
<1>2. n # "" /\ node[n].alloc = Alloc[n]
  <2>1. node[n] = Full(n)
    BY <1>1 DEF Kept, NodesKept
  <2>2. n # ""
    BY CacheAssumption
  <2>3. Full(n).alloc = Alloc[n]
    BY DEF Full
  <2> QED
    BY <2>1, <2>2, <2>3
<1>3. CASE On(n) = {}
  <2>1. Total(On(n)) = 0
    BY <1>3, TotalEmpty
  <2>2. Alloc[n] \in Nat
    BY CacheAssumption
  <2>3. 0 <= Alloc[n]
    BY <2>2
  <2> QED
    BY <1>2, <2>1, <2>3
<1>4. CASE On(n) # {}
  <2>1. \A p \in On(n) : p \in Names /\ Holds(n, p)
    BY <1>1, <1>2 DEF On, Kept, BoundHeld
  <2>2. n \in DOMAIN c.nodes /\ c.nodes[n].set = TRUE
    BY <1>4, <2>1 DEF Holds
  <2>3. c.nodes[n] \in GoodNodes
    BY <2>2, CacheParts DEF Types, CacheTypes
  <2>4. On(n) \in SUBSET Holding(c.nodes[n])
    BY <2>1, <2>3 DEF Holds, Holding, GoodNodes
  <2>5. Total(On(n)) <= c.nodes[n].alloc
    BY <2>2, <2>3, <2>4, HeldFits DEF GoodNodes
  <2>6. c.nodes[n].alloc = Alloc[n]
    BY <1>1, <2>2 DEF Kept, NodesKept
  <2> QED
    BY <1>2, <2>5, <2>6
<1> QED
  BY <1>3, <1>4

\* As long as only this scheduler binds pods, nodes keep what they have and no
\* event or reading was out of date where it matters, the pods the API server
\* has bound to a node fit the node: for every number of pods, nodes and Jobs,
\* every capacity of the channel and of the batches, and every order of events,
\* bindings, evictions, failures and resynchronisations (AddBindTask,
\* updatePod, syncTask).
THEOREM NeverOvercommitted == Spec => []NoOvercommit
<1>1. Init => Types /\ (Calm => Kept)
  BY InitTypes, InitKept
<1>2. Types /\ (Calm => Kept) /\ [Next]_vars => Types' /\ (Calm' => Kept')
  BY NextTypes, HistoryGrows, NextKeeps
<1>3. Types /\ (Calm => Kept) => NoOvercommit
  BY KeptSuffices
<1> QED
  BY <1>1, <1>2, <1>3, PTL DEF Spec

=============================================================================
