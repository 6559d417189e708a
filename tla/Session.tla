------------------------------ MODULE Session ------------------------------
(***************************************************************************)
(* The scheduler loop: sessions on a snapshot of the cache, the actions of *)
(* the configuration one after the other, and what they ask of the cache.  *)
(* A session is a single thread on its own copy, so only what the cluster  *)
(* does to the cache meanwhile (a pod that vanishes) can interfere, and it *)
(* does so through the calls that commit something.  cl is the cache, seen *)
(* from here: SchedulerCache has its details.                              *)
(***************************************************************************)
EXTENDS SchedulerPlugins

CONSTANTS Nodes, Size,     \* the nodes and what can be allocated on each
          Feasible,        \* the nodes a pod passes the predicates of
          Claims,          \* pods whose volumes may fail to be allocated
          Factor,          \* overcommit-factor, in tenths
          Confs,           \* scheduler configurations that may be loaded
          Fragile,         \* bound: the pods that may vanish at any time
          Scenarios        \* initial states of the cluster, with budgets

VARIABLES cl,       \* status and host of the pods, phase of the PodGroups
          conf,     \* the loaded configuration: actions and tiers
          ssn,      \* the session
          at,       \* how many actions it has executed; -1: no session
          w,        \* local variables of the action in progress
          st,       \* the statement in progress
          done,     \* what the session has sent to the cache so far
          left      \* how often each disturbance may still happen

vars == <<cl, conf, ssn, at, w, st, done, left>>

Blank == [status |-> <<>>, host |-> <<>>, node |-> <<>>, phase |-> <<>>,
          tiers |-> <<>>, qalloc |-> <<>>, jalloc |-> <<>>,
          deserved |-> <<>>, cap |-> <<>>, elastic |-> <<>>,
          inqueue |-> <<>>, idle |-> 0, overInqueue |-> 0, quota |-> 0]

NoWork == [queues |-> {}, jobs |-> {}, under |-> {}, left |-> <<>>,
           tried |-> {}, failed |-> {}, stage |-> "", queue |-> "", todo |-> {}]

\* kind says on whose behalf it was opened, ended how the last one ended.
NoStatement == [kind |-> "", job |-> "", task |-> "", assigned |-> FALSE,
                ops |-> <<>>, base |-> Blank, ended |-> ""]

Nothing == [sent |-> {}, evicted |-> {}, refused |-> {}]

Init ==
    /\ \E sc \in Scenarios : cl = sc.cl /\ left = sc.left /\ conf = sc.conf
    /\ ssn = Blank /\ at = -1 /\ w = NoWork /\ st = NoStatement
    /\ done = Nothing

(***************************************************************************)
(* Operations on the session                                               *)
(***************************************************************************)

OnNode(s, p) == s.host[p] \in DOMAIN s.node

\* The status of a task, in its job and, by UpdateTask, on its node.
SetBoth(s, p, status) ==
    LET t == [s EXCEPT !.status[p] = status]
    IN  IF OnNode(s, p)
        THEN [t EXCEPT !.node[s.host[p]] = UpdateTask(@, p, status)] ELSE t

\* Mutant: the plugins hear of an eviction twice.
MutEvictIn(s, p) == Event(Event(SetBoth(s, p, "Releasing"), p, -1), p, -1)

\* Statement.Evict and ssn.Evict, once the cache has agreed, are alike.
EvictIn(s, p) == Event(SetBoth(s, p, "Releasing"), p, -1)

\* An eviction is undone to Running, whatever the task was.
unevict(s, p) == Event(SetBoth(s, p, "Running"), p, 1)

PutOn(s, p, n, status) ==
    [s EXCEPT !.status[p] = status, !.host[p] = n,
              !.node[n] = IF CanAddTask(@, p, status)
                          THEN AddTask(@, p, status) ELSE @]

\* A node that does not take the task is only logged.
PipelineIn(s, p, n) == Event(PutOn(s, p, n, "Pipelined"), p, 1)

\* A node that does not take the task ends the call before the plugins hear
\* of it.
AllocateIn(s, p, n) ==
    LET t == PutOn(s, p, n, "Allocated")
    IN  IF CanAddTask(s.node[n], p, "Allocated") THEN Event(t, p, 1) ELSE t

\* Mutant: the plugins are not told.
MutTakeOff(s, p) ==
    [s EXCEPT !.status[p] = "Pending", !.host[p] = "",
              !.node[s.host[p]] = RemoveTask(@, p)]

\* unpipeline and unallocate.  The node's name that Allocate wrote into the
\* pod's own copy stays there; the session reads only the task's.
TakeOff(s, p) ==
    Event([s EXCEPT !.status[p] = "Pending", !.host[p] = "",
                    !.node[s.host[p]] = RemoveTask(@, p)], p, -1)

\* Mutant: evictions stay.
MutDiscard(s, ops) ==
    Through(LAMBDA t, op : IF op.name = "Evict" THEN t ELSE TakeOff(t, op.task),
            s, Reverse(ops))

\* Discard undoes the operations of the statement, the last one first.
Discard(s, ops) ==
    Through(LAMBDA t, op : IF op.name = "Evict" THEN unevict(t, op.task)
                            ELSE TakeOff(t, op.task),
             s, Reverse(ops))

\* The calls to the cache find the task there or return an error.
Known(c, p) == c.status[p] # "Gone"

CacheEvict(e, p) ==
    IF Known(e.cl, p)
    THEN [e EXCEPT !.cl.status[p] = "Releasing", !.done.evicted = @ \union {p}]
    ELSE [e EXCEPT !.done.refused = @ \union {p}]

AddBindTask(e, p) ==
    IF Known(e.cl, p)
    THEN [e EXCEPT !.cl.status[p] = "Binding", !.cl.host[p] = e.s.host[p],
                   !.done.sent = @ \union {p}]
    ELSE [e EXCEPT !.done.refused = @ \union {p}]

\* Statement.allocate and ssn.dispatch: the node keeps the task as Allocated.
dispatch(e, p) ==
    IF Known(e.cl, p)
    THEN [AddBindTask(e, p) EXCEPT !.s.status[p] = "Binding"]
    ELSE AddBindTask(e, p)

\* Statement.evict: an eviction the cache refuses is undone in the session;
\* the tasks that were promised its place keep their promise.
commitEvict(e, p) ==
    LET f == CacheEvict(e, p)
    IN  IF Known(e.cl, p) THEN f ELSE [f EXCEPT !.s = unevict(@, p)]

Commit(e, ops) ==
    Through(LAMBDA f, op : CASE op.name = "Evict"    -> commitEvict(f, op.task)
                              [] op.name = "Allocate" -> dispatch(f, op.task)
                              [] OTHER                -> f,
             e, ops)

\* ssn.Evict asks the cache first.
ssnEvict(e, p) ==
    LET f == CacheEvict(e, p)
    IN  IF Known(e.cl, p) THEN [f EXCEPT !.s = EvictIn(@, p)] ELSE f

Effects == [s |-> ssn, cl |-> cl, done |-> done]

Apply(e) == \E f \in {e} : ssn' = f.s /\ cl' = f.cl /\ done' = f.done

(***************************************************************************)
(* runOnce                                                                 *)
(***************************************************************************)

Up == {n \in Nodes : cl.up[n]}

Snapshot ==
    LET on(n) == {p \in Names : cl.host[p] = n
                      /\ cl.status[p] \in {"Binding", "Running", "Releasing"}}
    IN  [Blank EXCEPT
           !.status = cl.status, !.host = cl.host, !.phase = cl.phase,
           !.tiers = conf.tiers,
           !.node = [n \in Up |-> setNode([UnsetNodeInfo EXCEPT !.ready = TRUE,
                        !.tasks = [p \in Names |-> IF p \in on(n)
                                     THEN cl.status[p] ELSE "None"]],
                        [alloc |-> Size[n]])],
           !.jalloc = [j \in Jobs |-> 0]]

\* The plugins prepare their data; drf counts what each job has.
OpenSession ==
    /\ at = -1
    /\ \E s \in {Snapshot} :
         /\ ~OpenPanics(s)
         /\ \E t \in {proportionOpen(s)} :
              ssn' = [overcommitOpen(t, Factor) EXCEPT
                         !.jalloc = [j \in Jobs |-> JobAllocated(t, j)]]
    /\ at' = 0 /\ done' = Nothing
    /\ UNCHANGED <<cl, conf, w, st, left>>

Running == at >= 0 /\ at < Len(conf.actions)
Doing(action) == Running /\ conf.actions[at + 1] = action

\* Valid jobs that are not waiting to be enqueued.
Eligible(s) == {j \in Jobs : ~IsPending(s, j) /\ JobValid(s, j)}

Fresh == w = NoWork /\ st.kind = ""

EndAction ==
    at' = at + 1 /\ w' = NoWork /\ st' = NoStatement

Begin(kind, j) ==
    st' = [NoStatement EXCEPT !.kind = kind, !.job = j, !.base = ssn]

EndStatement(how) == st' = [NoStatement EXCEPT !.base = st.base, !.ended = how]

Idle == st.kind = ""

PredicateFn(t, n) == n \in Feasible[t] /\ tdmPredicate(ssn, cl.zone, t, n)

\* The nodes among S that pass the predicates.  Their scores are not modelled:
\* any of them may be the best.  A node that failed is not asked again for
\* tasks of the same role, for one job in allocate and as long as preempt runs.
Key(t, n) == <<JobOf[t], Role[t], n>>

PredicateNodes(t, S) ==
    {n \in S : Key(t, n) \notin w.failed /\ PredicateFn(t, n)}

Failed(t, passed) ==
    w.failed \union {Key(t, n) : n \in DOMAIN ssn.node \ passed}

\* What jobStatus makes of the phase when the session closes.
closePhase(s, j) ==
    LET held  == With(s, j, Allocated \union {"Succeeded"})
    IN  IF With(s, j, {"Running"}) # {} /\ gangUnschedulable(s, j)
        THEN "Unknown"
        ELSE IF Cardinality(held) < MinAvailable[j]
        THEN IF s.phase[j] = "Inqueue" THEN "Inqueue" ELSE "Pending"
        ELSE IF held = With(s, j, {"Succeeded"}) THEN "Completed" ELSE "Running"

CloseSession ==
    /\ at = Len(conf.actions)
    /\ cl' = [cl EXCEPT !.phase = [j \in Jobs |-> closePhase(ssn, j)]]
    /\ ssn' = Blank /\ at' = -1 /\ done' = Nothing
    /\ UNCHANGED <<conf, w, st, left>>

\* FutureIdle is computed with Resource.Sub, whose assertion ends the
\* process: the session is lost and what it had sent stays sent.
Panics == \E n \in DOMAIN ssn.node : FutureIdle(ssn.node[n]) < 0

Panic ==
    /\ Running /\ Panics
    /\ ssn' = Blank /\ at' = -1 /\ w' = NoWork /\ st' = NoStatement
    /\ done' = Nothing
    /\ UNCHANGED <<cl, conf, left>>

(***************************************************************************)
(* enqueue                                                                 *)
(***************************************************************************)

EnqueueStart ==
    /\ Doing("enqueue") /\ Fresh
    /\ IF \E j \in Jobs : IsPending(ssn, j)
       THEN /\ w' = [NoWork EXCEPT !.jobs = {j \in Jobs : IsPending(ssn, j)},
                                   !.queues = Queues]
            /\ UNCHANGED <<at, st>>
       ELSE EndAction
    /\ UNCHANGED <<cl, conf, ssn, done, left>>

Enqueued(s, j) == JobEnqueued([s EXCEPT !.phase[j] = "Inqueue"], j)

EnqueueJob(q) ==
    /\ Doing("enqueue") /\ w.jobs \cap JobsOf(q) # {}
    /\ \E j \in FirstJobs(w.jobs \cap JobsOf(q)) :
         LET answer == JobEnqueueable(ssn, j)
         IN  /\ ssn' = IF MinRes[j] = 0 THEN Enqueued(ssn, j)
                       ELSE IF answer.no THEN answer.s
                       ELSE Enqueued(answer.s, j)
             /\ IF w.jobs = {j} THEN EndAction
                ELSE w' = [w EXCEPT !.jobs = @ \ {j}] /\ UNCHANGED <<at, st>>
    /\ UNCHANGED <<cl, conf, done, left>>

(***************************************************************************)
(* allocate                                                                *)
(***************************************************************************)

\* Without the enqueue action a pending job counts as enqueued.
AllocateStart ==
    /\ Doing("allocate") /\ Fresh
    /\ LET s    == IF "enqueue" \in ToSet(conf.actions) THEN ssn
                   ELSE [ssn EXCEPT !.phase = [j \in Jobs |->
                           IF IsPending(ssn, j) THEN "Inqueue" ELSE @[j]]]
           jobs == Eligible(s)
       IN  /\ ssn' = s
           /\ IF jobs = {} THEN EndAction
              ELSE /\ w' = [NoWork EXCEPT
                              !.jobs = jobs,
                              !.queues = {QueueOf[j] : j \in jobs},
                              !.left = [j \in jobs |->
                                  {p \in With(s, j, {"Pending"}) :
                                      ~BestEffort(p)}]]
                   /\ UNCHANGED <<at, st>>
    /\ UNCHANGED <<cl, conf, done, left>>

\* A queue leaves the heap when it is overused or has no more jobs.
AllocateQueue(q) ==
    /\ Doing("allocate") /\ Idle /\ q \in w.queues
    /\ LET jobs == w.jobs \cap JobsOf(q)
       IN  IF Overused(ssn, q) \/ jobs = {}
           THEN /\ IF w.queues = {q} THEN EndAction
                   ELSE /\ w' = [w EXCEPT !.queues = @ \ {q}]
                        /\ UNCHANGED <<at, st>>
           ELSE \E j \in FirstJobs(jobs) :
                  /\ w' = [w EXCEPT !.jobs = @ \ {j}, !.failed = {}]
                  /\ IF w.left[j] = {} THEN UNCHANGED st
                     ELSE Begin("allocate", j)
                  /\ UNCHANGED at
    /\ UNCHANGED <<cl, conf, ssn, done, left>>

\* One task of the job: on idle resources it is allocated, on resources that
\* are about to be released it is pipelined.  The statement is over when a
\* task finds no node, when none are left, or when the job is ready; a ready
\* job with more tasks comes again.
AllocateTask ==
    /\ Doing("allocate") /\ st.kind = "allocate" /\ st.task = "" /\ ~Panics
    /\ \E t \in FirstTasks(w.left[st.job]) :
         LET rest  == w.left[st.job] \ {t}
             nodes == PredicateNodes(t, {n \in DOMAIN ssn.node :
                          Req[t] <= FutureIdle(ssn.node[n])})
             op(name) == [name |-> name, task |-> t]
             over(s)  == IF rest = {} \/ JobReady(s, st.job) THEN t ELSE ""
             after(s, ops) ==
                 /\ ssn' = s
                 /\ st' = [st EXCEPT !.ops = @ \o ops, !.task = over(s)]
                 /\ w' = [w EXCEPT !.left[st.job] = rest,
                            !.failed = Failed(t, nodes),
                            !.jobs = IF JobReady(s, st.job) /\ rest # {}
                                     THEN @ \union {st.job} ELSE @]
         IN  \/ /\ ~Allocatable(ssn, QueueOf[st.job], t)
                /\ ssn' = ssn /\ w' = [w EXCEPT !.left[st.job] = rest]
                /\ st' = [st EXCEPT !.task = IF rest = {} THEN t ELSE ""]
             \/ /\ Allocatable(ssn, QueueOf[st.job], t) /\ nodes = {}
                /\ ssn' = ssn /\ w' = [w EXCEPT !.left[st.job] = rest]
                /\ st' = [st EXCEPT !.task = t]
             \/ /\ Allocatable(ssn, QueueOf[st.job], t)
                /\ \E n \in nodes :
                     \/ /\ Req[t] <= ssn.node[n].idle
                        /\ \/ after(AllocateIn(ssn, t, n), <<op("Allocate")>>)
                           \/ t \in Claims /\ after(ssn, <<>>)
                     \/ /\ Req[t] > ssn.node[n].idle
                        /\ after(PipelineIn(ssn, t, n), <<op("Pipeline")>>)
    /\ UNCHANGED <<cl, conf, at, done, left>>

\* Mutant: what was found is sent even when the gang is not complete.
MutAllocateEnd ==
    /\ Doing("allocate") /\ st.kind = "allocate" /\ st.task # ""
    /\ Apply(Commit(Effects, st.ops)) /\ EndStatement("commit")
    /\ UNCHANGED <<conf, at, w, left>>

\* Ready: bind.  Not even with what will be released: give everything back.
\* In between the tasks stay where they are in the session, and nothing is
\* sent.
AllocateEnd ==
    /\ Doing("allocate") /\ st.kind = "allocate" /\ st.task # ""
    /\ \/ /\ JobReady(ssn, st.job)
          /\ Apply(Commit(Effects, st.ops)) /\ EndStatement("commit")
       \/ /\ ~JobReady(ssn, st.job) /\ ~JobPipelined(ssn, st.job)
          /\ Apply([Effects EXCEPT !.s = Discard(@, st.ops)])
          /\ EndStatement("discard")
       \/ /\ ~JobReady(ssn, st.job) /\ JobPipelined(ssn, st.job)
          /\ Apply(Effects) /\ EndStatement("keep")
    /\ UNCHANGED <<conf, at, w, left>>

(***************************************************************************)
(* backfill                                                                *)
(***************************************************************************)

BackfillStart ==
    /\ Doing("backfill") /\ Fresh
    /\ LET jobs == Eligible(ssn)
           best(j) == {p \in With(ssn, j, {"Pending"}) : BestEffort(p)}
       IN  IF \A j \in jobs : best(j) = {} THEN EndAction
           ELSE /\ w' = [NoWork EXCEPT !.jobs = {j \in jobs : best(j) # {}},
                                       !.left = [j \in jobs |-> best(j)]]
                /\ UNCHANGED <<at, st>>
    /\ UNCHANGED <<cl, conf, ssn, done, left>>

\* ssn.Allocate: a ready job sends all its allocated tasks, in any order up
\* to the first that the cache refuses; ok is its nil error.
ssnAllocate(t, n, order) ==
    Through(LAMBDA f, p : IF ~f.ok THEN f
                          ELSE [e |-> dispatch(f.e, p), ok |-> Known(f.e.cl, p)],
            [e  |-> [Effects EXCEPT !.s = AllocateIn(@, t, n)],
             ok |-> CanAddTask(ssn.node[n], t, "Allocated")], order)

BackfillNext(j, t) ==
    LET l == [w.left EXCEPT ![j] = @ \ {t}]
    IN  IF \A k \in DOMAIN l : l[k] = {} THEN EndAction
        ELSE w' = [w EXCEPT !.left = l, !.tried = {}, !.jobs = {k \in @ : l[k] # {}}]
             /\ st' = NoStatement /\ UNCHANGED at

\* One task and one node; after an error the next node is tried.
BackfillTask(j, t) ==
    /\ Doing("backfill") /\ j \in w.jobs /\ t \in w.left[j]
    /\ st.task \in {"", t}
    /\ LET nodes == {n \in DOMAIN ssn.node \ w.tried : PredicateFn(t, n)}
       IN  IF nodes = {} THEN Apply(Effects) /\ BackfillNext(j, t)
           ELSE \E n \in nodes :
             LET s == AllocateIn(ssn, t, n)
                 orders == IF JobReady(s, j)
                           THEN SetToSeqs(With(s, j, {"Allocated"})) ELSE {<<>>}
                 again == /\ w' = [w EXCEPT !.tried = @ \union {n}]
                          /\ st' = [NoStatement EXCEPT !.task = t]
                          /\ UNCHANGED at
             IN  \/ \E order \in orders :
                      LET r == ssnAllocate(t, n, order)
                      IN  /\ Apply(r.e)
                          /\ IF r.ok THEN BackfillNext(j, t) ELSE again
                 \/ t \in Claims /\ Apply(Effects) /\ again
    /\ UNCHANGED <<conf, left>>

(***************************************************************************)
(* preempt                                                                 *)
(***************************************************************************)

PreemptStart ==
    /\ Doing("preempt") /\ Fresh
    /\ LET jobs     == Eligible(ssn)
           starving == {j \in jobs : JobStarving(ssn, j)}
       IN  w' = [NoWork EXCEPT
                   !.stage = "queue", !.queues = {QueueOf[j] : j \in jobs},
                   !.jobs = starving, !.under = starving,
                   !.left = [j \in starving |-> With(ssn, j, {"Pending"})]]
    /\ UNCHANGED <<cl, conf, ssn, at, st, done, left>>

\* The queues one after the other; then victimTasks evicts for tdm.
PreemptQueue ==
    /\ Doing("preempt") /\ w.stage = "queue"
    /\ \/ \E q \in w.queues :
            /\ w' = [w EXCEPT !.stage = "between", !.queue = q,
                              !.queues = @ \ {q}]
            /\ UNCHANGED <<ssn, cl, done, at, st>>
       \/ /\ w.queues = {}
          /\ \E victims \in VictimTasks(ssn, cl.zone, {}) :
             \E named \in SetToSeqs(victims) :
                 Apply(Commit([Effects EXCEPT !.s = Through(EvictIn, @, named)],
                              [i \in DOMAIN named |->
                                  [name |-> "Evict", task |-> named[i]]]))
          /\ EndAction
    /\ UNCHANGED <<conf, left>>

\* Between the jobs of a queue: one statement for each starving job.  Then,
\* for every queue again, inside each of the starving jobs of all queues.
PreemptJob ==
    /\ Doing("preempt") /\ Idle /\ w.stage \in {"between", "within"}
    /\ LET between == w.stage = "between"
           jobs    == IF between THEN w.jobs \cap JobsOf(w.queue) ELSE w.todo
       IN  IF jobs = {}
           THEN /\ w' = IF between
                        THEN [w EXCEPT !.stage = "within", !.todo = w.under]
                        ELSE [w EXCEPT !.stage = "queue"]
                /\ UNCHANGED st
           ELSE \E j \in IF between THEN FirstJobs(jobs) ELSE jobs :
                  /\ w' = IF between THEN [w EXCEPT !.jobs = @ \ {j}]
                          ELSE [w EXCEPT !.todo = @ \ {j},
                                   !.left[j] = With(ssn, j, {"Pending"})]
                  /\ Begin(w.stage, j)
    /\ UNCHANGED <<cl, conf, ssn, at, done, left>>

Preempting(kind) == Doing("preempt") /\ st.kind = kind

\* No more preemptors, or none needed any more.
Sated == w.left[st.job] = {}
            \/ (st.kind = "between" /\ ~JobStarving(ssn, st.job))

PreemptTask ==
    /\ Doing("preempt") /\ ~Idle /\ st.task = "" /\ ~Sated
    /\ st.kind = "within" => st.ops = <<>>
    /\ \E t \in FirstTasks(w.left[st.job]) :
         /\ \E passed \in {PredicateNodes(t, DOMAIN ssn.node)} :
               w' = [w EXCEPT !.left[st.job] = @ \ {t},
                              !.tried = DOMAIN ssn.node \ passed,
                              !.failed = Failed(t, passed)]
         /\ st' = [st EXCEPT !.task = t]
    /\ UNCHANGED <<cl, conf, ssn, at, done, left>>

\* Whom the preemptor t may replace on node n.
Preemptees(t, n) ==
    {p \in Names :
        /\ ssn.node[n].tasks[p] = "Running" /\ ~BestEffort(p)
        /\ IF st.kind = "within" THEN JobOf[p] = JobOf[t]
           ELSE /\ p \in Preemptables /\ JobOf[p] # JobOf[t]
                /\ QueueOf[JobOf[p]] = QueueOf[JobOf[t]]}

ValidateVictims(t, n, victims) ==
    /\ victims # <<>>
    /\ Req[t] <= FutureIdle(ssn.node[n]) + Total(ToSet(victims))

\* The victims in the order they are taken: the least important first.
Queued(victims) ==
    {o \in SetToSeqs(ToSet(victims)) :
        \A i, k \in DOMAIN o : i < k =>
            /\ JobPriority[JobOf[o[i]]] <= JobPriority[JobOf[o[k]]]
            /\ JobOf[o[i]] = JobOf[o[k]] =>
                  TaskPriority[o[i]] <= TaskPriority[o[k]]}

\* Mutant: the share of the queue is looked at, the node is not.
MutRoom(s, t, n) == ~Overused(s, QueueOf[JobOf[t]])

Room(s, t, n) ==
    ~Overused(s, QueueOf[JobOf[t]]) /\ Req[t] <= FutureIdle(s.node[n])

\* Evict victims until there is room; what was evicted in vain stays in the
\* statement.
Replace(t, n, order) ==
    Through(LAMBDA acc, p :
                IF Room(acc.s, t, n) THEN acc
                ELSE [s |-> EvictIn(acc.s, p),
                      ops |-> Append(acc.ops, [name |-> "Evict", task |-> p])],
             [s |-> ssn, ops |-> st.ops], order)

PreemptNode ==
    /\ Doing("preempt") /\ ~Idle /\ st.task # "" /\ ~Panics
    /\ \E n \in DOMAIN ssn.node \ w.tried :
       \E cand \in SetToSeqs(Preemptees(st.task, n)) :
         LET t == st.task
             victims == Preemptable(ssn, t, cand)
         IN  \/ /\ ~ValidateVictims(t, n, victims)
                /\ w' = [w EXCEPT !.tried = @ \union {n}]
                /\ UNCHANGED <<ssn, st>>
             \/ /\ ValidateVictims(t, n, victims)
                /\ \E order \in Queued(victims) :
                     LET r == Replace(t, n, order)
                     IN  IF Room(r.s, t, n)
                         THEN /\ ssn' = PipelineIn(r.s, t, n)
                              /\ st' = [st EXCEPT !.task = "", !.assigned = TRUE,
                                   !.ops = Append(r.ops, [name |-> "Pipeline",
                                                          task |-> t])]
                              /\ w' = [w EXCEPT !.tried = {}]
                         ELSE /\ ssn' = r.s /\ st' = [st EXCEPT !.ops = r.ops]
                              /\ w' = [w EXCEPT !.tried = @ \union {n}]
    /\ UNCHANGED <<cl, conf, at, done, left>>

\* No node for this preemptor: on to the next one, or to the next job.
PreemptNone ==
    /\ Doing("preempt") /\ ~Idle /\ st.task # ""
    /\ DOMAIN ssn.node \subseteq w.tried
    /\ st' = [st EXCEPT !.task = ""]
    /\ w' = [w EXCEPT !.tried = {},
               !.left[st.job] = IF st.kind = "within" THEN {} ELSE @]
    /\ UNCHANGED <<cl, conf, ssn, at, done, left>>

\* Mutant: a job comes again whether it was given something or not.
MutPreemptEnd ==
    /\ Preempting("between") /\ st.task = "" /\ Sated
    /\ JobPipelined(ssn, st.job)
    /\ Apply(Commit(Effects, st.ops)) /\ EndStatement("commit")
    /\ w' = [w EXCEPT !.jobs = @ \union {st.job}]
    /\ UNCHANGED <<conf, at, left>>

\* Between jobs the statement counts only if the job is pipelined, and the
\* job comes again if it was given something.
PreemptEnd ==
    /\ Preempting("between") /\ st.task = "" /\ Sated
    /\ \/ /\ JobPipelined(ssn, st.job)
          /\ Apply(Commit(Effects, st.ops)) /\ EndStatement("commit")
          /\ w' = [w EXCEPT !.jobs = IF st.assigned THEN @ \union {st.job}
                                     ELSE @]
       \/ /\ ~JobPipelined(ssn, st.job)
          /\ Apply([Effects EXCEPT !.s = Discard(@, st.ops)])
          /\ EndStatement("discard") /\ UNCHANGED w
    /\ UNCHANGED <<conf, at, left>>

\* Inside a job every preemptor has a statement of its own, and it is
\* committed whatever became of it.
PreemptWithinEnd ==
    /\ Preempting("within") /\ st.task = "" /\ (st.ops # <<>> \/ Sated)
    /\ Apply(Commit(Effects, st.ops))
    /\ st' = IF Sated THEN [NoStatement EXCEPT !.base = st.base,
                                               !.ended = "commit"]
             ELSE [st EXCEPT !.ops = <<>>, !.base = ssn', !.assigned = FALSE]
    /\ UNCHANGED <<conf, at, w, left>>

(***************************************************************************)
(* reclaim and shuffle                                                     *)
(***************************************************************************)

ReclaimStart ==
    /\ Doing("reclaim") /\ Fresh
    /\ LET jobs == Eligible(ssn)
       IN  IF jobs = {} THEN EndAction
           ELSE /\ w' = [NoWork EXCEPT
                      !.queues = {QueueOf[j] : j \in jobs},
                      !.jobs = {j \in jobs : HasPendingTasks(ssn, j)},
                      !.left = [j \in jobs |-> With(ssn, j, {"Pending"})]]
                /\ UNCHANGED <<at, st>>
    /\ UNCHANGED <<cl, conf, ssn, done, left>>

\* A queue whose turn ends without a reclaimer is not pushed back.
ReclaimQueue(q) ==
    /\ Doing("reclaim") /\ Idle /\ q \in w.queues
    /\ LET jobs == w.jobs \cap JobsOf(q)
           drop(gone) ==
               IF w.queues = {q} THEN EndAction
               ELSE /\ w' = [w EXCEPT !.queues = @ \ {q}, !.jobs = @ \ gone]
                    /\ UNCHANGED <<at, st>>
       IN  \/ (Overused(ssn, q) \/ jobs = {}) /\ drop({})
           \/ /\ ~Overused(ssn, q)
              /\ \E j \in FirstJobs(jobs) :
                   \/ w.left[j] = {} /\ drop({j})
                   \/ \E t \in FirstTasks(w.left[j]) :
                        \/ ~Allocatable(ssn, q, t) /\ drop({j})
                        \/ /\ Allocatable(ssn, q, t)
                           /\ w' = [w EXCEPT !.jobs = @ \ {j}, !.tried = {},
                                             !.left[j] = @ \ {t}]
                           /\ st' = [NoStatement EXCEPT !.kind = "reclaim",
                                        !.job = j, !.task = t]
                           /\ UNCHANGED at
    /\ UNCHANGED <<cl, conf, ssn, done, left>>

Reclaimees(j, n) ==
    {p \in Names : /\ ssn.node[n].tasks[p] = "Running" /\ p \in Preemptables
                   /\ QueueOf[JobOf[p]] \in Reclaimables \ {QueueOf[j]}}

\* Evict until what was reclaimed, by itself, is enough for t.
Reclaim(t, victims) ==
    Through(LAMBDA acc, p :
                IF acc.got # -1 /\ acc.got >= Req[t] THEN acc
                ELSE [e |-> ssnEvict(acc.e, p),
                      got |-> IF Known(acc.e.cl, p)
                              THEN Max({0, acc.got}) + Req[p] ELSE acc.got],
             [e |-> Effects, got |-> -1], victims)

Enough(t, got) == Req[t] <= Max({0, got})

ReclaimNode ==
    /\ Doing("reclaim") /\ ~Idle /\ ~Panics
    /\ \E n \in {n \in DOMAIN ssn.node \ w.tried : PredicateFn(st.task, n)} :
       \E cand \in SetToSeqs(Reclaimees(st.job, n)) :
         LET t == st.task
             victims == IF cand = <<>> THEN <<>> ELSE Reclaimable(ssn, t, cand)
             r == Reclaim(t, victims)
         IN  \/ /\ ~ValidateVictims(t, n, victims)
                /\ w' = [w EXCEPT !.tried = @ \union {n}]
                /\ Apply(Effects) /\ UNCHANGED st
             \/ /\ ValidateVictims(t, n, victims) /\ Enough(t, r.got)
                /\ Apply([r.e EXCEPT !.s = PipelineIn(@, t, n)])
                /\ w' = [w EXCEPT !.jobs = @ \union {st.job}, !.tried = {}]
                /\ st' = NoStatement
             \/ /\ ValidateVictims(t, n, victims) /\ ~Enough(t, r.got)
                /\ Apply(r.e) /\ UNCHANGED st
                /\ w' = [w EXCEPT !.tried = @ \union {n}]
    /\ UNCHANGED <<conf, at, left>>

ReclaimNone ==
    /\ Doing("reclaim") /\ ~Idle
    /\ \A n \in DOMAIN ssn.node \ w.tried : ~PredicateFn(st.task, n)
    /\ st' = NoStatement /\ w' = [w EXCEPT !.tried = {}]
    /\ UNCHANGED <<cl, conf, ssn, at, done, left>>

Shuffle ==
    /\ Doing("shuffle")
    /\ \E victims \in VictimTasks(ssn, cl.zone,
                         {p \in Names : ssn.status[p] = "Running"}) :
       \E named \in SetToSeqs(victims) :
          Apply(Through(ssnEvict, Effects, named))
    /\ EndAction
    /\ UNCHANGED <<conf, left>>

(***************************************************************************)
(* The cluster                                                             *)
(***************************************************************************)

Spend(b) == left[b] > 0 /\ left' = [left EXCEPT ![b] = @ - 1]
Still == UNCHANGED <<conf, ssn, at, w, st, done>>

Vanish(p) ==
    /\ Spend("vanish") /\ cl.status[p] \notin {"Gone", "Succeeded"} /\ Still
    /\ cl' = [cl EXCEPT !.status[p] = "Gone", !.host[p] = ""]

\* Between two sessions: the kubelet starts what was bound, or the bind fails
\* and the cache reads the pod again; an evicted pod ends, and the job
\* controller makes a new one; tasks complete; nodes fail and come back.
Becomes(p, from, to, host) ==
    /\ at = -1 /\ cl.status[p] = from /\ Still
    /\ cl' = [cl EXCEPT !.status[p] = to, !.host[p] = host]

Starts(p)    == Becomes(p, "Binding", "Running", cl.host[p]) /\ UNCHANGED left
BindFails(p) == Becomes(p, "Binding", "Pending", "") /\ Spend("bind")
Ends(p)      == Becomes(p, "Releasing", "Gone", "") /\ UNCHANGED left
Recreate(p)  == Becomes(p, "Gone", "Pending", "") /\ UNCHANGED left
Completes(p) == /\ Becomes(p, "Running", "Succeeded", cl.host[p])
                /\ Spend("complete")

NodeChanges(n) ==
    /\ at = -1 /\ Still /\ Spend("node")
    /\ cl' = [cl EXCEPT !.up[n] = ~@]

\* The revocable zone opens and closes by the clock.
ZoneChanges ==
    /\ Still /\ Spend("zone") /\ cl' = [cl EXCEPT !.zone = ~@]

loadSchedulerConf ==
    /\ at = -1 /\ Spend("conf") /\ conf' \in Confs \ {conf}
    /\ UNCHANGED <<cl, ssn, at, w, st, done>>

\* The process dies when a session is opened: nothing was done yet.
PanicAtOpen == at = -1 /\ (\E s \in {Snapshot} : OpenPanics(s)) /\ UNCHANGED vars

-----------------------------------------------------------------------------

Scheduler ==
    \/ OpenSession \/ CloseSession \/ Panic \/ PanicAtOpen
    \/ EnqueueStart \/ \E q \in Queues : EnqueueJob(q)
    \/ AllocateStart \/ \E q \in Queues : AllocateQueue(q)
    \/ AllocateTask \/ AllocateEnd
    \/ BackfillStart \/ \E p \in Names : BackfillTask(JobOf[p], p)
    \/ PreemptStart \/ PreemptQueue \/ PreemptJob \/ PreemptTask
    \/ PreemptNode \/ PreemptNone \/ PreemptEnd \/ PreemptWithinEnd
    \/ ReclaimStart \/ \E q \in Queues : ReclaimQueue(q)
    \/ ReclaimNode \/ ReclaimNone \/ Shuffle

Cluster(p) == Starts(p) \/ Ends(p) \/ Recreate(p)

Disturb ==
    \/ \E p \in Fragile : Vanish(p)
    \/ \E p \in Names : BindFails(p) \/ Completes(p)
    \/ \E n \in Nodes : NodeChanges(n)
    \/ loadSchedulerConf \/ ZoneChanges

Next == Scheduler \/ Disturb \/ \E p \in Names : Cluster(p)

Spec == Init /\ [][Next]_vars

FairSpec == Spec /\ WF_vars(Scheduler)

(***************************************************************************)
(* Properties                                                              *)
(***************************************************************************)

Statuses == TaskStatuses \union {"Gone"}

\* The types of the variables, in particular that the arithmetic of the
\* plugins (proportion.go, overcommit.go, drf.go) never counts below zero.
TypeOK ==
    /\ cl \in [status : [Names -> Statuses], host : [Names -> Nodes \union {""}],
               phase : [Jobs -> {"Pending", "Inqueue", "Running", "Unknown",
                                 "Completed"}], up : [Nodes -> BOOLEAN], zone : BOOLEAN]
    /\ at \in -1..Len(conf.actions)
    /\ st.task \in Names \union {""} /\ st.job \in Jobs \union {""}
    /\ at >= 0 => /\ ssn.qalloc \in [Queues -> Nat]
                  /\ ssn.jalloc \in [Jobs -> Nat]
                  /\ ssn.deserved \in [Queues -> Nat]
                  /\ ssn.host \in [Names -> Nodes \union {""}]

\* Statement, the actions and the event handlers keep three counts of the
\* same thing: the tasks of the jobs, the totals of the nodes (node_info.go)
\* and the shares of proportion and drf.  They agree after every operation
\* and every undo, as long as the cache refused nothing.
SessionAccounting ==
    at >= 0 /\ done.refused = {} =>
        /\ \A n \in DOMAIN ssn.node :
              /\ Accounted(ssn.node[n])
              /\ \A p \in Names :
                    ssn.node[n].tasks[p] # "None" <=>
                        /\ ssn.host[p] = n
                        /\ ssn.status[p] \notin {"Pending", "Gone", "Succeeded"}
        /\ \A j \in Jobs :
              ssn.jalloc[j] = Total(With(ssn, j, Allocated \union {"Pipelined"}))
        /\ \A q \in Queues :
              ssn.qalloc[q] = MapThenSumSet(LAMBDA j : ssn.jalloc[j], JobsOf(q))

\* A place is promised only against resources that are idle or being
\* released (allocate.go, preempt.go, reclaim.go): otherwise FutureIdle
\* asserts and the scheduler dies.  A victim the cache refuses to evict takes
\* its place back and breaks the promise, see Statement.evict.
PromisesCovered ==
    at >= 0 /\ done.refused = {} =>
        \A n \in DOMAIN ssn.node : FutureIdle(ssn.node[n]) >= 0

\* A discarded statement leaves no trace (statement.go, Discard): jobs,
\* nodes and shares are what they were when it was opened.
DiscardRestores ==
    [][st'.ended = "discard" /\ st.kind # "" => ssn' = st.base]_vars

\* Tasks are bound only together with enough of their job: after every step
\* that sends some to the cache, the cache holds MinAvailable ready tasks of
\* the job, those that need nothing included (gang.go, JobReady).
GangDispatch ==
    [][\A j \in Jobs :
          done'.sent \cap TasksOf(j) \subseteq done.sent \/ done'.refused # {}
            \/ ReadyTaskNum([status |-> cl'.status], j) >= MinAvailable[j]
            \/ ~On(ssn, "gang")]_vars

\* One tier: everybody has a say.  In several, the first one that names
\* victims decides alone.
OneTier == Len(conf.tiers) = 1 /\ On(ssn, "gang") /\ On(ssn, "proportion")

\* Where gang has its say, the evictions of preempt and reclaim, for however
\* many preemptors and on however many nodes, never take a job below its
\* MinAvailable as the session knows it (gang.go, preemptableFn: it counts
\* afresh each time it is asked).
GangSpared ==
    [][OneTier /\ (Doing("preempt") \/ Doing("reclaim")) =>
       \A p \in done'.evicted \ done.evicted :
          at' >= 0 => ReadyTaskNum(ssn', JobOf[p]) >= MinAvailable[JobOf[p]]]_vars

\* Where proportion has its say, reclaim takes nothing from a queue that has
\* no more than it deserves (proportion.go, ReclaimableFn).
DeservedKept ==
    [][Doing("reclaim") /\ OneTier =>
       \A p \in done'.evicted \ done.evicted :
          LET q    == QueueOf[JobOf[p]]
              gone == {r \in done'.evicted \ done.evicted : QueueOf[JobOf[r]] = q}
          IN  ssn.qalloc[q] - Total(gone \ {p}) > ssn.deserved[q]]_vars

\* Every session ends: no action goes round in circles over its heaps.
SessionEnds == []<>(at = -1)

=============================================================================
