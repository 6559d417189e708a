-------------------------- MODULE SchedulerPlugins --------------------------
(***************************************************************************)
(* What the plugins answer when an action of the scheduler asks them, and  *)
(* how the session combines their answers tier by tier.  Everything is an  *)
(* operator on a session record s:                                         *)
(*   status, host    the tasks of the jobs, and where each one was put     *)
(*   node            the NodeInfo of every node of the snapshot            *)
(*   phase           the phase of the PodGroup of every job                *)
(*   tiers           the configured plugins, tier by tier                  *)
(*   qalloc, jalloc  what proportion and drf have counted per queue, job   *)
(*   deserved, cap, elastic, inqueue    the queueAttr of proportion        *)
(*   idle, overInqueue    overcommit;    quota    resourcequota            *)
(* A pod that asks for nothing is a best-effort task.  Which of several    *)
(* jobs or tasks of the same priority goes first is left open.             *)
(***************************************************************************)
EXTENDS SchedulerApi, Sequences, SequencesExt

CONSTANTS Jobs, JobOf,        \* the job of each pod
          Role, MinTask,      \* its task in the job; the TaskMinAvailable
          MinAvailable,       \* of the job
          MinRes,             \* MinResources of the PodGroup, 0: not given
          JobPriority, TaskPriority,
          Queues, QueueOf,    \* of a job
          Weight, Guarantee, Capability,
          Reclaimables,       \* queues with spec.reclaimable
          Preemptables,       \* pods with the preemptable annotation
          Critical,           \* pods conformance protects
          Cooling,            \* pods in the cooldown time of cdp
          Overdue,            \* jobs waiting longer than their sla time
          RevocableNodes,     \* nodes of the revocable zone of tdm
          Revocable,          \* pods that may use them
          PreemptableJobs,    \* jobs with the preemptable annotation
          Budget,             \* of a job: kind "max", "min" or "", and n
          Usage,              \* measured utilization of a node, in percent
          LowAt, HighAt,      \* thresholds and targetThresholds
          Hard                \* the resource quota of the namespace

ASSUME PluginAssumption ==
    /\ JobOf \in [Names -> Jobs] /\ QueueOf \in [Jobs -> Queues]
    /\ MinAvailable \in [Jobs -> Nat] /\ MinRes \in [Jobs -> Nat]
    /\ Weight \in [Queues -> Nat \ {0}]
    /\ Guarantee \in [Queues -> Nat] /\ Capability \in [Queues -> Nat]
    /\ Preemptables \subseteq Names /\ Critical \subseteq Names

\* FoldLeft with each intermediate value computed once.
Through(op(_, _), base, seq) ==
    FoldLeft(LAMBDA acc, x : CHOOSE y \in {op(a, x) : a \in {acc}} : TRUE,
             base, seq)

TasksOf(j)    == {p \in Names : JobOf[p] = j}
JobsOf(q)     == {j \in Jobs : QueueOf[j] = q}
With(s, j, S) == {p \in TasksOf(j) : s.status[p] \in S}
Allocated     == {st \in TaskStatuses : AllocatedStatus(st)}
BestEffort(p) == Req[p] = 0

(***************************************************************************)
(* JobInfo                                                                 *)
(***************************************************************************)

Ready(s, j) ==
    With(s, j, Allocated \union {"Succeeded"})
        \union {p \in With(s, j, {"Pending"}) : BestEffort(p)}

ReadyTaskNum(s, j)   == Cardinality(Ready(s, j))
WaitingTaskNum(s, j) == Cardinality(With(s, j, {"Pipelined"}))
ValidTasks(s, j) ==
    With(s, j, Allocated \union {"Succeeded", "Pipelined", "Pending"})

\* Each role of the job has its minimum in S, unless the minima of the roles
\* add up to more than that of the job.
EachTask(j, S) ==
    \/ MinAvailable[j] < MapThenSumSet(LAMBDA r : MinTask[j][r],
                                       DOMAIN MinTask[j])
    \/ \A r \in DOMAIN MinTask[j] :
          Cardinality({p \in S : Role[p] = r}) >= MinTask[j][r]

CheckTaskValid(s, j)     == EachTask(j, ValidTasks(s, j))
CheckTaskReady(s, j)     == EachTask(j, Ready(s, j))
CheckTaskPipelined(s, j) ==
    EachTask(j, Ready(s, j) \union With(s, j, {"Pipelined"}))

IsPending(s, j)       == s.phase[j] = "Pending"
HasPendingTasks(s, j) == With(s, j, {"Pending"}) # {}

JobAllocated(s, j)        == Total(With(s, j, Allocated))
GetElasticResources(s, j) == Max({0, JobAllocated(s, j) - MinRes[j]})

FutureIdle(ni) == ni.idle + ni.releasing - ni.pipelined

(***************************************************************************)
(* The combination of the answers                                          *)
(***************************************************************************)

Configured(s) == UNION {ToSet(s.tiers[i]) : i \in DOMAIN s.tiers}
On(s, plugin) == plugin \in Configured(s)

\* Votes: the first tier in which somebody is for it decides, and whoever is
\* against it ends the matter.
Vote(s, votes) ==
    LET Tier(i)   == {votes[g] : g \in ToSet(s.tiers[i]) \cap DOMAIN votes}
        settled   == {i \in DOMAIN s.tiers : Tier(i) \cap {1, -1} # {}}
    IN  settled # {} => -1 \notin Tier(Min(settled))

\* Victims: inside a tier everybody must agree, and a tier that names some
\* decides.  A plugin that names none ends its tier; init, once set, makes
\* every later answer an intersection.
Agreed(s, registered, Answer(_)) ==
    LET ask(acc, g) ==
            IF acc.stop \/ g \notin registered THEN acc
            ELSE LET cand == Answer(g)
                 IN  IF cand = <<>>
                     THEN [acc EXCEPT !.stop = TRUE, !.victims = <<>>]
                     ELSE [acc EXCEPT !.init = TRUE,
                              !.victims = IF ~acc.init THEN cand
                                          ELSE SelectSeq(acc.victims,
                                            LAMBDA v : v \in ToSet(cand))]
        tier(acc, plugins) ==
            IF acc.victims # <<>> THEN acc
            ELSE Through(ask, [acc EXCEPT !.stop = FALSE], plugins)
    IN  Through(tier, [victims |-> <<>>, init |-> FALSE, stop |-> FALSE],
                 s.tiers).victims

(***************************************************************************)
(* gang, priority, conformance, cdp, drf: whom they give up                *)
(***************************************************************************)

\* Mutant: one task too many.
MutgangEvictable(s, cand) ==
    SelectSeq(cand, LAMBDA p :
        ReadyTaskNum(s, JobOf[p]) >= MinAvailable[JobOf[p]])

\* gang gives up tasks of a job while more than MinAvailable are ready.
gangEvictable(s, cand) ==
    LET spare(acc, p) ==
            LET j == JobOf[p]
            IN  IF acc.occupied[j] > MinAvailable[j]
                THEN [occupied |-> [acc.occupied EXCEPT ![j] = @ - 1],
                      victims |-> Append(acc.victims, p)]
                ELSE acc
    IN  Through(spare, [occupied |-> [j \in Jobs |-> ReadyTaskNum(s, j)],
                         victims |-> <<>>], cand).victims

priorityPreemptable(t, cand) ==
    SelectSeq(cand, LAMBDA p :
        IF JobOf[p] # JobOf[t] THEN JobPriority[JobOf[p]] < JobPriority[JobOf[t]]
        ELSE TaskPriority[p] < TaskPriority[t])

conformanceEvictable(cand) == SelectSeq(cand, LAMBDA p : p \notin Critical)

cdpPreemptable(cand) == SelectSeq(cand, LAMBDA p : p \notin Cooling)

\* drf gives up a task if its job keeps at least the share the job of t will
\* have: shares of one cluster compare like the amounts.  What a job has left
\* goes down with every task looked at, given up or not.
drfPreemptable(s, t, cand) ==
    LET share == s.jalloc[JobOf[t]] + Req[t]
        look(acc, p) ==
            LET left == acc.left[JobOf[p]] - Req[p]
            IN  [left |-> [acc.left EXCEPT ![JobOf[p]] = left],
                 victims |-> IF share <= left THEN Append(acc.victims, p)
                             ELSE acc.victims]
    IN  Through(look, [left |-> s.jalloc, victims |-> <<>>], cand).victims

\* How many tasks of a job tdm may take at once, by the job's budget.
getMaxPodEvictNum(s, j) ==
    LET running == Cardinality(With(s, j, {"Running"}))
        tasks   == Cardinality(With(s, j, TaskStatuses))
        out     == tasks - running
                     - Cardinality(With(s, j, {"Succeeded", "Failed"}))
    IN  CASE Budget[j].kind = "max" -> Max({0, Budget[j].n - out})
          [] Budget[j].kind = "min" /\ running >= Budget[j].n ->
               running - Budget[j].n
          [] OTHER -> 1

\* maxVictims takes the first ones of each job.
maxVictims(s, cand) ==
    LET take(acc, p) ==
            IF Cardinality({q \in ToSet(acc) : JobOf[q] = JobOf[p]})
                 < getMaxPodEvictNum(s, JobOf[p])
            THEN Append(acc, p) ELSE acc
    IN  Through(take, <<>>, cand)

\* tdm clears the ordinary nodes for tasks that cannot go elsewhere.
tdmPreemptable(s, t, cand) ==
    IF t \in Preemptables \union Revocable THEN <<>>
    ELSE maxVictims(s, SelectSeq(cand, LAMBDA p :
             /\ p \in Preemptables /\ s.status[p] = "Running"
             /\ s.host[p] \in DOMAIN s.node \ RevocableNodes))

Preemptable(s, t, cand) ==
    Agreed(s, {"priority", "gang", "conformance", "cdp", "drf", "tdm"},
           LAMBDA g :
               CASE g = "priority"    -> priorityPreemptable(t, cand)
                 [] g = "gang"        -> gangEvictable(s, cand)
                 [] g = "conformance" -> conformanceEvictable(cand)
                 [] g = "cdp"         -> cdpPreemptable(cand)
                 [] g = "tdm"         -> tdmPreemptable(s, t, cand)
                 [] g = "drf"         -> drfPreemptable(s, t, cand))

(***************************************************************************)
(* proportion                                                              *)
(***************************************************************************)

TotalResource(s) ==
    MapThenSumSet(LAMBDA n : s.node[n].alloc, DOMAIN s.node)

TotalGuarantee == MapThenSumSet(LAMBDA q : Guarantee[q], Queues)

\* Only queues with a job have attributes.
Served == {QueueOf[j] : j \in Jobs}

Requested(s, q) ==
    Total({p \in Names : QueueOf[JobOf[p]] = q
                /\ s.status[p] \in Allocated \union {"Pending"}})

realCapability(s, q) ==
    LET rest == TotalResource(s) - TotalGuarantee + Guarantee[q]
    IN  IF Capability[q] = 0 THEN rest ELSE Min({rest, Capability[q]})

\* One round over the queues that have not met their request yet: each gets
\* its part of what remains by weight, up to its capability and its request
\* but never less than its guarantee.
Share(s, r) ==
    LET open   == Served \ r.meet
        weight == MapThenSumSet(LAMBDA q : Weight[q], open)
        given  == [q \in Queues |->
                     IF q \notin open THEN r.deserved[q]
                     ELSE Max({Guarantee[q],
                               Min({r.deserved[q]
                                      + (r.remaining * Weight[q]) \div weight,
                                    realCapability(s, q), Requested(s, q)})})]
        spent  == MapThenSumSet(LAMBDA q : given[q] - r.deserved[q], Queues)
    IN  IF r.over \/ open = {} THEN [r EXCEPT !.over = TRUE]
        ELSE [deserved |-> given, remaining |-> r.remaining - spent,
              meet |-> r.meet \union
                  {q \in open : \/ Requested(s, q) <= given[q]
                                \/ given[q] = r.deserved[q]},
              over |-> r.remaining - spent <= 0 \/ spent = 0]

\* Every round but the last lets some queue meet its request or leaves less
\* to divide, so there are at most as many as units of resource and queues.
Shared(s) ==
    LET first == [deserved |-> [q \in Queues |-> 0], over |-> FALSE,
                  remaining |-> TotalResource(s), meet |-> {}]
    IN  Through(LAMBDA r, k : Share(s, r), first,
                 [k \in 1..(TotalResource(s) + Cardinality(Queues)) |-> k])

\* GetInqueueResource: what a running job may still claim of its minimum.
StillInqueue(s, j) ==
    IF /\ s.phase[j] = "Running"
       /\ Cardinality(With(s, j, Allocated)) >= MinAvailable[j]
       /\ MinRes[j] > 0
    THEN Max({0, MinRes[j] - JobAllocated(s, j)})
    ELSE IF s.phase[j] = "Inqueue" THEN MinRes[j] ELSE 0

\* Resource.Sub asserts that nothing becomes negative.
OpenPanics(s) ==
    On(s, "proportion") /\ (\/ TotalGuarantee > TotalResource(s)
                            \/ Shared(s).remaining < 0)

proportionOpen(s) ==
    [s EXCEPT
       !.deserved = Shared(s).deserved,
       !.qalloc   = [q \in Queues |-> MapThenSumSet(
                        LAMBDA j : JobAllocated(s, j), JobsOf(q))],
       !.cap      = [q \in Queues |-> realCapability(s, q)],
       !.elastic  = [q \in Queues |-> MapThenSumSet(
                        LAMBDA j : GetElasticResources(s, j), JobsOf(q))],
       !.inqueue  = [q \in Queues |-> MapThenSumSet(
                        LAMBDA j : StillInqueue(s, j), JobsOf(q))]]

\* Mutant: a queue gives up tasks down to nothing, not to its deserved share.
MutproportionReclaimable(s, t, cand) ==
    SelectSeq(cand, LAMBDA p : s.qalloc[QueueOf[JobOf[p]]] > 0)

\* A queue gives up tasks while it has more than it deserves and at least
\* what the reclaimer asks for.
proportionReclaimable(s, t, cand) ==
    LET look(acc, p) ==
            LET q == QueueOf[JobOf[p]]
            IN  IF acc.left[q] < Req[t] \/ acc.left[q] <= s.deserved[q]
                THEN acc
                ELSE [left |-> [acc.left EXCEPT ![q] = @ - Req[p]],
                      victims |-> Append(acc.victims, p)]
    IN  Through(look, [left |-> s.qalloc, victims |-> <<>>], cand).victims

Reclaimable(s, t, cand) ==
    Agreed(s, {"gang", "conformance", "proportion"},
           LAMBDA g :
               CASE g = "gang"        -> gangEvictable(s, cand)
                 [] g = "conformance" -> conformanceEvictable(cand)
                 [] g = "proportion"  -> proportionReclaimable(s, t, cand))

proportionOverused(s, q) == s.deserved[q] <= s.qalloc[q]

Overused(s, q) == On(s, "proportion") /\ proportionOverused(s, q)

proportionAllocatable(s, q, t) ==
    Req[t] <= Max({0, s.deserved[q] - s.qalloc[q]})

Allocatable(s, q, t) ==
    On(s, "proportion") => proportionAllocatable(s, q, t)

\* The event handlers; sign is -1 for a deallocation.
proportionEvent(s, p, sign) ==
    [s EXCEPT !.qalloc[QueueOf[JobOf[p]]] = @ + sign * Req[p]]

drfEvent(s, p, sign) == [s EXCEPT !.jalloc[JobOf[p]] = @ + sign * Req[p]]

Event(s, p, sign) == drfEvent(proportionEvent(s, p, sign), p, sign)

(***************************************************************************)
(* The other questions                                                     *)
(***************************************************************************)

overcommitOpen(s, factor) ==
    LET used  == MapThenSumSet(LAMBDA n : s.node[n].used, DOMAIN s.node)
    IN  [s EXCEPT
           !.idle = (TotalResource(s) * factor) \div 10 - used,
           !.overInqueue = MapThenSumSet(LAMBDA j : StillInqueue(s, j), Jobs)]

\* gang: enough tasks exist at all.
gangValid(s, j) ==
    /\ CheckTaskValid(s, j)
    /\ Cardinality(ValidTasks(s, j)) >= MinAvailable[j]

JobValid(s, j) == On(s, "gang") => gangValid(s, j)

gangReady(s, j) ==
    /\ CheckTaskReady(s, j)
    /\ ReadyTaskNum(s, j) >= MinAvailable[j]

JobReady(s, j) == On(s, "gang") => gangReady(s, j)

\* When the session closes gang marks the jobs that are short of tasks, by
\* the minimum of the job alone.
gangUnschedulable(s, j) ==
    On(s, "gang") /\ ReadyTaskNum(s, j) < MinAvailable[j]

slaPermits(j) == IF j \in Overdue THEN 1 ELSE 0

gangPipelined(s, j) ==
    IF /\ CheckTaskPipelined(s, j)
       /\ ReadyTaskNum(s, j) + WaitingTaskNum(s, j) >= MinAvailable[j]
    THEN 1 ELSE -1

Occupied(s, j) == ReadyTaskNum(s, j) + WaitingTaskNum(s, j)

tdmPipelined(s, j) == IF Occupied(s, j) >= MinAvailable[j] THEN 1 ELSE -1

JobPipelined(s, j) ==
    Vote(s, [gang |-> gangPipelined(s, j), sla |-> slaPermits(j),
             tdm  |-> tdmPipelined(s, j)])

gangStarving(s, j) == Occupied(s, j) < MinAvailable[j]

priorityStarving(s, j) ==
    Occupied(s, j) < Cardinality(With(s, j, TaskStatuses))

tdmStarving(s, j) == j \notin PreemptableJobs /\ HasPendingTasks(s, j)

\* The first tier with an opinion decides; there everybody must say so.
JobStarving(s, j) ==
    LET Says(g)  == CASE g = "gang"     -> gangStarving(s, j)
                      [] g = "priority" -> priorityStarving(s, j)
                      [] g = "tdm"      -> tdmStarving(s, j)
        Asked(i) == ToSet(s.tiers[i]) \cap {"gang", "priority", "tdm"}
        tiers    == {i \in DOMAIN s.tiers : Asked(i) # {}}
    IN  tiers # {} /\ \A g \in Asked(Min(tiers)) : Says(g)

(***************************************************************************)
(* Whether a job may be enqueued: each answer is a vote, for, against or   *)
(* none, and the data of the plugin afterwards.  proportion and            *)
(* resourcequota note the job's minimum as soon as they are for it,        *)
(* whatever the others say.                                                *)
(***************************************************************************)

Answer(vote, s) == [vote |-> vote, s |-> s]

overcommitEnqueueable(s, j) ==
    Answer(IF s.overInqueue + MinRes[j] <= s.idle THEN 1 ELSE -1, s)

proportionEnqueueable(s, j) ==
    LET q == QueueOf[j]
    IN  IF MinRes[j] + s.qalloc[q] + s.inqueue[q] - s.elastic[q] <= s.cap[q]
        THEN Answer(1, [s EXCEPT !.inqueue[q] = @ + MinRes[j]])
        ELSE Answer(-1, s)

quotaEnqueueable(s, j) ==
    IF s.quota + MinRes[j] <= Hard
    THEN Answer(1, [s EXCEPT !.quota = @ + MinRes[j]]) ELSE Answer(-1, s)

JobEnqueueable(s, j) ==
    LET ask(acc, g) ==
            IF acc.no THEN acc
            ELSE LET a == CASE g = "overcommit" -> overcommitEnqueueable(acc.s, j)
                            [] g = "proportion" -> proportionEnqueueable(acc.s, j)
                            [] g = "resourcequota" -> quotaEnqueueable(acc.s, j)
                            [] g = "sla" -> Answer(slaPermits(j), acc.s)
                            [] OTHER -> Answer(0, acc.s)
                 IN  [no |-> a.vote < 0, yes |-> acc.yes \/ a.vote > 0, s |-> a.s]
        tier(acc, plugins) ==
            IF acc.no \/ acc.yes THEN acc ELSE Through(ask, acc, plugins)
    IN  Through(tier, [no |-> FALSE, yes |-> FALSE, s |-> s], s.tiers)

overcommitEnqueued(s, j) == [s EXCEPT !.overInqueue = @ + MinRes[j]]

\* Only overcommit listens.
JobEnqueued(s, j) ==
    IF On(s, "overcommit") THEN overcommitEnqueued(s, j) ELSE s

(***************************************************************************)
(* Orders and victims                                                      *)
(***************************************************************************)

First(S, priority) == {x \in S : \A y \in S : priority[y] <= priority[x]}

FirstJobs(S)  == First(S, JobPriority)
FirstTasks(S) == First(S, TaskPriority)

\* A node of the revocable zone takes a pod only while the zone is open, and
\* only if the pod may use it.
tdmPredicate(s, zone, t, n) ==
    On(s, "tdm") /\ n \in RevocableNodes => zone /\ t \in Revocable

Stranded(s) ==
    {p \in Preemptables : /\ s.status[p] = "Running"
                          /\ s.host[p] \in RevocableNodes \cap DOMAIN s.node}

\* When the zone is closed its preemptable tasks have to go, up to the budget
\* of each job; tdm names nobody before its period is over.
tdmVictims(s, zone) ==
    {{}} \union IF zone THEN {}
                ELSE {ToSet(maxVictims(s, o)) : o \in SetToSeqs(Stranded(s))}

\* The order in which rescheduling looks at the pods of the loaded nodes: by
\* node, the busiest first, then by priority, then best-effort pods first.
Removable(s, high) ==
    {o \in SetToSeqs({p \in Names : s.host[p] \in high /\
                        s.node[s.host[p]].tasks[p] # "None"}) :
        \A i, k \in DOMAIN o : i < k =>
            LET m == s.host[o[i]]
                n == s.host[o[k]]
            IN  IF m # n THEN Usage[m] >= Usage[n]
                ELSE \/ TaskPriority[o[i]] < TaskPriority[o[k]]
                     \/ /\ TaskPriority[o[i]] = TaskPriority[o[k]]
                        /\ BestEffort(o[k]) => BestEffort(o[i])}

\* Pods leave a loaded node while its usage is at the target and the room on
\* the other nodes is not exactly zero.
isContinueEvictPods(acc, n) == acc.usage[n] >= HighAt /\ acc.room # 0

evictFrom(s, given, acc, p) ==
    LET n == s.host[p]
    IN  IF ~isContinueEvictPods(acc, n) \/ p \notin given THEN acc
        ELSE [usage   |-> [acc.usage EXCEPT ![n] =
                              @ - (Req[p] * 100) \div s.node[n].alloc],
              room    |-> acc.room - Req[p],
              victims |-> acc.victims \union {p}]

evictPodsFromSourceNodes(s, low, high, given) ==
    LET part(n, percent) == (percent * s.node[n].alloc) \div 100
        evict(acc, p)    == evictFrom(s, given, acc, p)
        first == [usage |-> Usage, victims |-> {}, room |-> MapThenSumSet(
                     LAMBDA n : part(n, HighAt) - part(n, Usage[n]), low)]
    IN  {Through(evict, first, o).victims : o \in Removable(s, high)}

lowNodes(s)  == {n \in DOMAIN s.node : Usage[n] < LowAt}
highNodes(s) == {n \in DOMAIN s.node \ lowNodes(s) : Usage[n] > HighAt}

\* rescheduling, which is not asked in every session.
lowNodeUtilization(s, given) ==
    {{}} \union
        IF lowNodes(s) = {} \/ highNodes(s) = {} THEN {}
        ELSE evictPodsFromSourceNodes(s, lowNodes(s), highNodes(s), given)

\* The sets of victims that may be named: those of the first tier that names
\* some.
VictimTasks(s, zone, given) ==
    LET Tier(v, i) == UNION {v[g] : g \in ToSet(s.tiers[i]) \cap DOMAIN v}
        Named(v)   == LET t == {i \in DOMAIN s.tiers : Tier(v, i) # {}}
                      IN  IF t = {} THEN {} ELSE Tier(v, Min(t))
    IN  {Named([tdm |-> a, rescheduling |-> b]) :
            a \in tdmVictims(s, zone), b \in lowNodeUtilization(s, given)}

=============================================================================
