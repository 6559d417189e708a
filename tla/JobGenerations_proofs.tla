----------------------- MODULE JobGenerations_proofs ------------------------
(***************************************************************************)
(* Theorems about the generations of a Job's pods, for every value of the  *)
(* constants of JobController: no pod, event or request carries a version  *)
(* the Job has not reached; a lifecycle policy acts on current pods only;  *)
(* and syncJob creates pods of the current generation of a live Job.       *)
(*                                                                         *)
(* The first two rest on one more invariant of everything that carries a   *)
(* version (Below): a version is copied from the Job to its pods, from the *)
(* pods to events, requests and the worker, and on the way it can only get *)
(* old.  The third needs to know what the cache may hold when the worker   *)
(* starts (Known): whatever the informer and the cache hold is the current *)
(* phase and version, or older than what the cache will keep.              *)
(***************************************************************************)
EXTENDS JobController_proofs

\* Every event of a pod, every request and every Job of a stream carries
\* version v at most.
EventsBelow(s, v) == \A i \in 1 .. Len(s) : s[i].obj.ver <= v

RequestsBelow(s, v) == \A i \in 1 .. Len(s) : s[i].ver <= v

JobsBelow(s, v) == \A i \in 1 .. Len(s) : s[i].version <= v

\* The same of the pods of a store.
PodsBelow(f, v) == \A p \in Pods : f[p].ver <= v

\* And of the worker: the request in work, the copy it started from and the
\* copy it changes, which killJob gives a version of its own.
WorkerBelow(x, v) ==
    /\ x.pc # "idle" => x.req.ver <= v /\ x.job.version <= v
    /\ x.pc \notin {"idle", "kill"} => x.new.version <= v

\* The inductive invariant behind PodGenerations, by parts: the pods, ...
PodSide(v) ==
    /\ PodsBelow(pod, v) /\ PodsBelow(podSeen, v) /\ PodsBelow(cpod, v)
    /\ EventsBelow(podWatch, v) /\ EventsBelow(rs, v)

\* ... the queue, ...
QueueSide(v) == RequestsBelow(reqs, v) /\ \A r \in delayed : r.ver <= v

\* ... and the copies of the Job.
JobSide(v) ==
    /\ JobsBelow(jobWatch, v)
    /\ cjob # NoJob => cjob.version <= v

Below(v) == PodSide(v) /\ QueueSide(v) /\ JobSide(v) /\ WorkerBelow(w, v)

\* Below contains PodGenerations.
LEMMA BelowSuffices ==
    ASSUME Inv, Below(job.version)
    PROVE  PodGenerations
<1>1. podWatch \in Seq(PodEventType) /\ reqs \in Seq(RequestType)
  BY DEF Inv, PodsOK, QueueOK
<1>2. DOMAIN podWatch = 1 .. Len(podWatch)
  BY <1>1
<1>3. \A r \in ToSet(reqs) : r.ver <= job.version
  BY <1>1 DEF ToSet, Below, QueueSide, RequestsBelow
<1> QED
  BY <1>2, <1>3 DEF PodGenerations, Below, PodSide, QueueSide, PodsBelow, EventsBelow

\* A queue that takes one more request, and one that gives its first.
LEMMA RequestsMoved ==
    ASSUME NEW v, NEW s \in Seq(RequestType), RequestsBelow(s, v)
    PROVE  /\ \A r \in RequestType : r.ver <= v => RequestsBelow(Append(s, r), v)
           /\ s # <<>> => Head(s).ver <= v /\ RequestsBelow(Tail(s), v)
<1>1. ASSUME NEW r \in RequestType, r.ver <= v, NEW i \in 1 .. Len(Append(s, r))
      PROVE  Append(s, r)[i].ver <= v
  <2>1. CASE i \in 1 .. Len(s)
    BY <2>1 DEF RequestsBelow
  <2>2. CASE i = Len(s) + 1
    BY <1>1, <2>2
  <2> QED
    BY <2>1, <2>2
<1>2. ASSUME s # <<>>
      PROVE  Head(s).ver <= v /\ RequestsBelow(Tail(s), v)
  <2>1. Len(s) \in Nat \ {0} /\ Head(s) = s[1]
    BY <1>2
  <2>2. ASSUME NEW i \in 1 .. Len(Tail(s))
        PROVE  Tail(s)[i].ver <= v
    <3>1. i + 1 \in 1 .. Len(s) /\ Tail(s)[i] = s[i + 1]
      BY <1>2, <2>1
    <3> QED
      BY <3>1 DEF RequestsBelow
  <2> QED
    BY <2>1, <2>2 DEF RequestsBelow
<1> QED
  BY <1>1, <1>2 DEF RequestsBelow

\* The same of the events of pods ...
LEMMA EventsMoved ==
    ASSUME NEW v, NEW s \in Seq(PodEventType), EventsBelow(s, v)
    PROVE  /\ \A e \in PodEventType : e.obj.ver <= v => EventsBelow(Append(s, e), v)
           /\ s # <<>> => Head(s).obj.ver <= v /\ EventsBelow(Tail(s), v)
<1>1. ASSUME NEW e \in PodEventType, e.obj.ver <= v, NEW i \in 1 .. Len(Append(s, e))
      PROVE  Append(s, e)[i].obj.ver <= v
  <2>1. CASE i \in 1 .. Len(s)
    BY <2>1 DEF EventsBelow
  <2>2. CASE i = Len(s) + 1
    BY <1>1, <2>2
  <2> QED
    BY <2>1, <2>2
<1>2. ASSUME s # <<>>
      PROVE  Head(s).obj.ver <= v /\ EventsBelow(Tail(s), v)
  <2>1. Len(s) \in Nat \ {0} /\ Head(s) = s[1]
    BY <1>2
  <2>2. ASSUME NEW i \in 1 .. Len(Tail(s))
        PROVE  Tail(s)[i].obj.ver <= v
    <3>1. i + 1 \in 1 .. Len(s) /\ Tail(s)[i] = s[i + 1]
      BY <1>2, <2>1
    <3> QED
      BY <3>1 DEF EventsBelow
  <2> QED
    BY <2>1, <2>2 DEF EventsBelow
<1> QED
  BY <1>1, <1>2 DEF EventsBelow

\* ... and of those of the Job.
LEMMA JobsMoved ==
    ASSUME NEW v, NEW s \in Seq(JobType), JobsBelow(s, v)
    PROVE  /\ \A j \in JobType : j.version <= v => JobsBelow(Append(s, j), v)
           /\ s # <<>> => Head(s).version <= v /\ JobsBelow(Tail(s), v)
<1>1. ASSUME NEW j \in JobType, j.version <= v, NEW i \in 1 .. Len(Append(s, j))
      PROVE  Append(s, j)[i].version <= v
  <2>1. CASE i \in 1 .. Len(s)
    BY <2>1 DEF JobsBelow
  <2>2. CASE i = Len(s) + 1
    BY <1>1, <2>2
  <2> QED
    BY <2>1, <2>2
<1>2. ASSUME s # <<>>
      PROVE  Head(s).version <= v /\ JobsBelow(Tail(s), v)
  <2>1. Len(s) \in Nat \ {0} /\ Head(s) = s[1]
    BY <1>2
  <2>2. ASSUME NEW i \in 1 .. Len(Tail(s))
        PROVE  Tail(s)[i].version <= v
    <3>1. i + 1 \in 1 .. Len(s) /\ Tail(s)[i] = s[i + 1]
      BY <1>2, <2>1
    <3> QED
      BY <3>1 DEF JobsBelow
  <2> QED
    BY <2>1, <2>2 DEF JobsBelow
<1> QED
  BY <1>1, <1>2 DEF JobsBelow

-----------------------------------------------------------------------------
\* What is below a version is below every later one.
LEMMA BelowRaised ==
    ASSUME Inv, NEW v \in Nat, NEW u \in Nat, v <= u, Below(v)
    PROVE  Below(u)
<1>1. PodSide(u)
  <2>1. \A x \in PodType : x.ver <= v => x.ver <= u
    BY DEF PodType
  <2>2. ASSUME NEW f \in [Pods -> PodType], PodsBelow(f, v)
        PROVE  PodsBelow(f, u)
    BY <2>1, <2>2 DEF PodsBelow
  <2>3. ASSUME NEW s \in Seq(PodEventType), EventsBelow(s, v)
        PROVE  EventsBelow(s, u)
    <3>1. \A i \in 1 .. Len(s) : s[i] \in PodEventType
      OBVIOUS
    <3>2. \A e \in PodEventType : e.obj \in PodType
      BY DEF PodEventType
    <3> QED
      BY <2>1, <2>3, <3>1, <3>2 DEF EventsBelow
  <2> QED
    BY <2>2, <2>3 DEF Below, PodSide, Inv, PodsOK
<1>2. QueueSide(u)
  <2>1. \A r \in RequestType : r.ver <= v => r.ver <= u
    BY DEF RequestType
  <2> QED
    BY <2>1 DEF Below, QueueSide, RequestsBelow, Inv, QueueOK
<1>3. \A j \in JobType : j.version <= v => j.version <= u
  BY DEF JobType
<1>4. JobSide(u)
  BY <1>3 DEF Below, JobSide, JobsBelow, Inv, JobsOK
<1>5. WorkerBelow(w, u)
  <2>1. w.req.ver \in Nat /\ w.job \in JobType /\ w.new \in JobType
    BY DEF Inv, WorkerOK, WorkerType, RequestType
  <2> QED
    BY <1>3, <2>1 DEF Below, WorkerBelow
<1> QED
  BY <1>1, <1>2, <1>4, <1>5 DEF Below

\* killJob and syncJob start from the request and the copy they are given.
LEMMA ExecuteBelow ==
    ASSUME NEW v, NEW j \in JobType, NEW pods, NEW r, NEW act, NEW last,
           r.ver <= v, j.version <= v
    PROVE  WorkerBelow(Execute(j, pods, r, act, last), v)
  BY DEF Execute, killJob, syncJob, WorkerBelow

\* Nothing is said of an idle worker.
LEMMA IdleBelow ==
    ASSUME NEW v
    PROVE  WorkerBelow(Idle, v)
  BY DEF Idle, WorkerBelow

\* workqueue.Add.
LEMMA AddBelow ==
    ASSUME QueueOK, NEW v, QueueSide(v), NEW r \in RequestType, r.ver <= v, Add(r),
           delayed' \subseteq delayed
    PROVE  QueueSide(v)'
<1>1. reqs \in Seq(RequestType)
  BY DEF QueueOK
<1>2. reqs' \in {reqs, Append(reqs, r)}
  BY DEF Add
<1>3. RequestsBelow(Append(reqs, r), v)
  BY <1>1, RequestsMoved DEF QueueSide
<1>4. RequestsBelow(reqs', v)
  BY <1>2, <1>3 DEF QueueSide
<1> QED
  BY <1>4 DEF QueueSide, RequestsBelow

\* workqueue.Done, and what follows a request that succeeded.
LEMMA DoneBelow ==
    ASSUME Inv, NEW v, QueueSide(v), WorkerBelow(w, v), w.pc # "idle", Done,
           delayed' \subseteq delayed \cup {w.req}
    PROVE  QueueSide(v)' /\ WorkerBelow(w', v)
<1>1. reqs \in Seq(RequestType) /\ w.req \in RequestType /\ w.req.ver <= v
  BY DEF Inv, QueueOK, WorkerOK, WorkerType, WorkerBelow
<1>2. reqs' \in {reqs, Append(reqs, w.req)}
  BY DEF Done
<1>3. RequestsBelow(Append(reqs, w.req), v)
  BY <1>1, RequestsMoved DEF QueueSide
<1>4. RequestsBelow(reqs', v)
  BY <1>2, <1>3 DEF QueueSide
<1>5. QueueSide(v)'
  BY <1>1, <1>4 DEF QueueSide, RequestsBelow
<1>6. w' = Idle
  BY DEF Done
<1> QED
  BY <1>5, <1>6, IdleBelow

\* What follows a request that failed, the last attempt included.
LEMMA RequeueBelow ==
    ASSUME Inv, NEW v, QueueSide(v), WorkerBelow(w, v), w.pc # "idle", Requeue
    PROVE  QueueSide(v)' /\ WorkerBelow(w', v)
<1>1. CASE Done /\ delayed' \subseteq delayed \cup {w.req}
  BY <1>1, DoneBelow
<1>2. CASE /\ w' = Execute(w.job, w.pods, w.req, "Terminate", TRUE)
           /\ UNCHANGED queue
  <2>1. w.job \in JobType /\ w.req.ver <= v /\ w.job.version <= v
    BY DEF Inv, WorkerOK, WorkerType, WorkerBelow
  <2>2. WorkerBelow(w', v)
    BY <1>2, <2>1, ExecuteBelow
  <2>3. QueueSide(v)'
    BY <1>2 DEF QueueSide, RequestsBelow, queue
  <2> QED
    BY <2>2, <2>3
<1> QED
  BY <1>1, <1>2 DEF Requeue, Succeed

\* The parts hold on where their variables are left alone.
LEMMA PodSideFrame ==
    ASSUME NEW v, PodSide(v), UNCHANGED <<pod, podSeen, cpod, podWatch, rs>>
    PROVE  PodSide(v)'
  BY DEF PodSide, PodsBelow, EventsBelow

\* The queue, left alone.
LEMMA QueueSideFrame ==
    ASSUME NEW v, QueueSide(v), UNCHANGED <<reqs, delayed>>
    PROVE  QueueSide(v)'
  BY DEF QueueSide, RequestsBelow

\* The copies of the Job, left alone.
LEMMA JobSideFrame ==
    ASSUME NEW v, JobSide(v), UNCHANGED <<jobWatch, cjob>>
    PROVE  JobSide(v)'
  BY DEF JobSide, JobsBelow

\* The pods, when one of them is written.
LEMMA StorePodBelow ==
    ASSUME PodsOK, NEW v, PodSide(v), NEW p \in Pods, NEW x \in PodType, x.ver <= v,
           StorePod(p, x) \/ UNCHANGED <<pod, podWatch>>,
           UNCHANGED <<podSeen, cpod, rs>>
    PROVE  PodSide(v)'
<1>1. CASE UNCHANGED <<pod, podWatch>>
  BY <1>1, PodSideFrame
<1>2. CASE StorePod(p, x)
  <2>1. PodsBelow(pod', v)
    BY <1>2 DEF StorePod, PodSide, PodsBelow, PodsOK
  <2>2. [name |-> p, obj |-> x] \in PodEventType /\ podWatch \in Seq(PodEventType)
    BY DEF PodEventType, PodsOK
  <2>3. EventsBelow(podWatch', v)
    BY <1>2, <2>2, EventsMoved DEF StorePod, PodSide
  <2> QED
    BY <2>1, <2>3 DEF PodSide, PodsBelow, EventsBelow
<1> QED
  BY <1>1, <1>2

-----------------------------------------------------------------------------
\* processNextReq: the worker starts from the cache and a queued request.
LEMMA ProcessNextReqBelow ==
    ASSUME Inv, NEW v, Below(v), processNextReq
    PROVE  Below(v)'
<1>0. PodSide(v) /\ QueueSide(v) /\ JobSide(v) /\ WorkerBelow(w, v)
  BY DEF Below
<1>1. reqs \in Seq(RequestType) /\ reqs # <<>> /\ reqs' = Tail(reqs)
  BY DEF Inv, QueueOK, processNextReq
<1>2. Head(reqs).ver <= v /\ RequestsBelow(Tail(reqs), v)
  BY <1>0, <1>1, RequestsMoved DEF QueueSide
<1>3. QueueSide(v)'
  BY <1>0, <1>1, <1>2 DEF QueueSide, RequestsBelow, processNextReq
<1>4. WorkerBelow(w', v)
  <2>1. CASE UNCHANGED w
    BY <1>0, <2>1
  <2>2. CASE /\ cjob # NoJob
             /\ w' = Execute(cjob, cpod, Head(reqs),
                             applyPolicies(cjob, Head(reqs)), FALSE)
    <3>1. cjob \in JobType /\ cjob.version <= v
      BY <1>0, <2>2 DEF Inv, JobsOK, JobSide
    <3> QED
      BY <1>2, <2>2, <3>1, ExecuteBelow
  <2> QED
    BY <2>1, <2>2 DEF processNextReq
<1>5. PodSide(v)' /\ JobSide(v)'
  BY <1>0, PodSideFrame, JobSideFrame DEF processNextReq, api, watch
<1> QED
  BY <1>3, <1>4, <1>5 DEF Below

\* deleteJobPod and createPod: what is created has the version of the copy
\* the worker changes.
LEMMA PodCallBelow ==
    ASSUME Inv, NEW v, Below(v), NEW p \in Pods, deleteJobPod(p) \/ createPod(p)
    PROVE  Below(v)'
<1>0. PodSide(v) /\ QueueSide(v) /\ JobSide(v) /\ WorkerBelow(w, v)
  BY DEF Below
<1>1. w \in WorkerType /\ w.new \in JobType /\ w.pc \in {"kill", "sync"}
  BY DEF Inv, WorkerOK, WorkerType, deleteJobPod, createPod
<1>2. PodSide(v)'
  <2>1. pod[p] \in PodType /\ pod[p].ver <= v /\ PodsOK
    BY <1>0 DEF Inv, PodsOK, PodSide, PodsBelow
  <2>2. PICK x \in PodType : /\ x.ver <= v
                             /\ StorePod(p, x) \/ UNCHANGED <<pod, podWatch>>
    <3>1. CASE deleteJobPod(p)
      <4>1. /\ [pod[p] EXCEPT !.deleting = TRUE] \in PodType
            /\ [pod[p] EXCEPT !.deleting = TRUE].ver = pod[p].ver
        BY <2>1 DEF PodType
      <4> QED
        BY <2>1, <3>1, <4>1 DEF deleteJobPod, DeleteByName
    <3>2. CASE createPod(p)
      <4>1. createJobPod(w.new) \in PodType
        BY <1>1 DEF createJobPod, PodType, PodPhases, JobType
      <4>2. createJobPod(w.new).ver <= v
        BY <1>0, <3>2 DEF createJobPod, createPod, WorkerBelow
      <4> QED
        BY <3>2, <4>1, <4>2 DEF createPod
    <3> QED
      BY <3>1, <3>2
  <2>3. UNCHANGED <<podSeen, cpod, rs>>
    BY DEF deleteJobPod, createPod
  <2> QED
    BY <1>0, <2>1, <2>2, <2>3, StorePodBelow
<1>3. QueueSide(v)' /\ JobSide(v)'
  BY <1>0, QueueSideFrame, JobSideFrame DEF deleteJobPod, createPod, queue
<1>4. WorkerBelow(w', v)
  <2>1. /\ w'.pc = w.pc /\ w'.req = w.req /\ w'.job = w.job
        /\ w'.new.version = w.new.version
    <3>1. ASSUME NEW h \in Counted,
                 \/ w' = [w EXCEPT !.todo = @ \ {p}, !.extra = @ \ {p}, !.new.obs[p] = h]
                 \/ w' = [w EXCEPT !.todo = @ \ {p}, !.new.obs[p] = h]
          PROVE  /\ w'.pc = w.pc /\ w'.req = w.req /\ w'.job = w.job
                 /\ w'.new = [w.new EXCEPT !.obs[p] = h]
      BY <1>1, <3>1 DEF WorkerType
    <3>2. \A h \in Counted : [w.new EXCEPT !.obs[p] = h].version = w.new.version
      BY <1>1, ObsType
    <3>3. CASE \/ w' = [w EXCEPT !.todo = @ \ {p}, !.extra = @ \ {p}, !.err = TRUE]
               \/ w' = [w EXCEPT !.todo = @ \ {p}, !.extra = {}, !.err = TRUE]
      BY <1>1, <3>3 DEF WorkerType
    <3>4. {"Terminating", "Pending", "Unknown"} \subseteq Counted
      BY DEF Counted, PodPhases
    <3>5. CASE \E h \in Counted :
                 \/ w' = [w EXCEPT !.todo = @ \ {p}, !.extra = @ \ {p}, !.new.obs[p] = h]
                 \/ w' = [w EXCEPT !.todo = @ \ {p}, !.new.obs[p] = h]
      BY <3>1, <3>2, <3>5
    <3> QED
      BY <3>3, <3>4, <3>5 DEF deleteJobPod, createPod
  <2> QED
    BY <1>0, <2>1 DEF WorkerBelow
<1> QED
  BY <1>2, <1>3, <1>4 DEF Below

\* The steps of the worker that write neither the Job nor pods.
LEMMA WorkerStepBelow ==
    ASSUME Inv, NEW v, Below(v),
           \/ podCallsFailed \/ createOrUpdatePodGroup \/ readPodGroup
           \/ \E t \in Tasks : waitDependsOnTaskMeetCondition(t)
    PROVE  Below(v)'
<1>0. PodSide(v) /\ QueueSide(v) /\ JobSide(v) /\ WorkerBelow(w, v)
  BY DEF Below
<1>1. PodSide(v)' /\ JobSide(v)'
  BY <1>0, PodSideFrame, JobSideFrame
  DEF podCallsFailed, createOrUpdatePodGroup, readPodGroup,
      waitDependsOnTaskMeetCondition, api, watch
<1>2. w \in WorkerType /\ w.new \in JobType /\ w.pc # "idle"
  BY DEF Inv, WorkerOK, WorkerType, podCallsFailed, CallsDone, createOrUpdatePodGroup,
         readPodGroup, waitDependsOnTaskMeetCondition
<1>3. CASE Requeue
  BY <1>0, <1>1, <1>2, <1>3, RequeueBelow DEF Below
<1>4. ASSUME UNCHANGED queue, w'.req = w.req, w'.job = w.job,
             w'.new.version = w.new.version, w.pc # "kill"
      PROVE  Below(v)'
  <2>1. QueueSide(v)'
    BY <1>0, <1>4, QueueSideFrame DEF queue
  <2>2. WorkerBelow(w', v)
    BY <1>0, <1>2, <1>4 DEF WorkerBelow
  <2> QED
    BY <1>1, <2>1, <2>2 DEF Below
<1>5. CASE w.pc = "podgroup" /\ PodGroupDone
  BY <1>2, <1>4, <1>5 DEF PodGroupDone, WorkerType
<1>6. CASE readPodGroup
  <2>1. CASE w' = [w EXCEPT !.pc = "sync"]
    BY <1>2, <1>4, <1>6, <2>1 DEF readPodGroup, WorkerType
  <2>2. CASE classifyPods
    <3>1. PICK c, a, b, d :
            w' = [w EXCEPT !.pc = "sync", !.todo = a, !.extra = b, !.new.obs = c,
                           !.new.smin = w.new.min, !.pods = d]
      BY <2>2 DEF classifyPods
    <3>2. w'.req = w.req /\ w'.job = w.job /\ w'.new.version = w.new.version
      BY <1>2, <3>1 DEF WorkerType, JobType
    <3> QED
      BY <1>4, <1>6, <3>2 DEF readPodGroup
  <2> QED
    BY <1>6, <2>1, <2>2 DEF readPodGroup
<1>7. CASE \E t \in Tasks : waitDependsOnTaskMeetCondition(t)
  <2>1. w'.req = w.req /\ w'.job = w.job /\ w'.new = w.new
    BY <1>2, <1>7 DEF waitDependsOnTaskMeetCondition, WorkerType
  <2> QED
    BY <1>4, <1>7, <2>1 DEF waitDependsOnTaskMeetCondition
<1> QED
  BY <1>3, <1>5, <1>6, <1>7 DEF podCallsFailed, createOrUpdatePodGroup

\* UpdateStatus: what is written and comes back has the version of the Job
\* then stored.
LEMMA UpdateStatusBelow ==
    ASSUME Inv, NEW v, Below(v), UpdateStatus, job'.version <= v, job' \in JobType
    PROVE  Below(v)'
<1>0. PodSide(v) /\ QueueSide(v) /\ JobSide(v) /\ WorkerBelow(w, v)
  BY DEF Below
<1>1. PodSide(v)' /\ cjob' = cjob
  BY <1>0, PodSideFrame DEF UpdateStatus
<1>2. w \in WorkerType /\ w.pc \in {"init", "kill", "sync"}
  BY DEF Inv, WorkerOK, UpdateStatus, CallsDone
<1>3. JobSide(v)'
  <2>1. jobWatch' = jobWatch \/ jobWatch' = Append(jobWatch, job')
    BY DEF UpdateStatus, StoreJob
  <2>2. RequestsBelow(reqs, v) /\ jobWatch \in Seq(JobType)
    BY <1>0 DEF QueueSide, Inv, JobsOK
  <2>3. JobsBelow(jobWatch', v)
    BY <1>0, <2>1, <2>2, JobsMoved DEF JobSide
  <2> QED
    BY <1>0, <1>1, <2>3 DEF JobSide, JobsBelow
<1>4. CASE Requeue
  BY <1>0, <1>1, <1>2, <1>3, <1>4, RequeueBelow DEF Below
<1>5. CASE /\ w' = [w EXCEPT !.new = job',
                             !.pc = CASE @ = "kill" -> "killed"
                                      [] @ = "init" -> "inited"
                                      [] @ = "sync" -> "synced"]
           /\ UNCHANGED <<queue, budget>>
  <2>1. w'.new = job' /\ w'.req = w.req /\ w'.job = w.job
    BY <1>2, <1>5 DEF WorkerType
  <2>2. WorkerBelow(w', v)
    BY <1>0, <1>2, <2>1 DEF WorkerBelow
  <2>3. QueueSide(v)'
    BY <1>0, <1>5, QueueSideFrame DEF queue
  <2> QED
    BY <1>1, <1>3, <2>2, <2>3 DEF Below
<1> QED
  BY <1>4, <1>5 DEF UpdateStatus

\* cache.Update, the end of killJob and of syncJob.
LEMMA CacheUpdateBelow ==
    ASSUME Inv, NEW v, Below(v), cacheUpdate
    PROVE  Below(v)'
<1>0. PodSide(v) /\ QueueSide(v) /\ JobSide(v) /\ WorkerBelow(w, v)
  BY DEF Below
<1>1. w \in WorkerType /\ w.pc \in {"killed", "inited", "synced"} /\ w.pc # "idle"
  BY DEF Inv, WorkerOK, cacheUpdate
<1>2. PodSide(v)'
  BY <1>0, PodSideFrame DEF cacheUpdate
<1>3. JobSide(v)'
  <2>1. w.new.version <= v /\ cjob' \in {cjob, w.new} /\ jobWatch' = jobWatch
    BY <1>0, <1>1 DEF WorkerBelow, cacheUpdate
  <2> QED
    BY <1>0, <2>1 DEF JobSide, JobsBelow
<1>4. CASE Requeue
  BY <1>0, <1>1, <1>2, <1>3, <1>4, RequeueBelow DEF Below
<1>5. CASE Succeed
  <2>1. Done /\ delayed' \subseteq delayed \cup {w.req}
    BY <1>5 DEF Succeed
  <2> QED
    BY <1>0, <1>1, <1>2, <1>3, <2>1, DoneBelow DEF Below
<1>6. CASE w' = [w EXCEPT !.pc = "podgroup"] /\ UNCHANGED queue
  <2>1. w'.new = w.new /\ w'.req = w.req /\ w'.job = w.job
    BY <1>1, <1>6 DEF WorkerType
  <2>2. WorkerBelow(w', v)
    BY <1>0, <1>1, <2>1 DEF WorkerBelow
  <2>3. QueueSide(v)'
    BY <1>0, <1>6, QueueSideFrame DEF queue
  <2> QED
    BY <1>2, <1>3, <2>2, <2>3 DEF Below
<1> QED
  BY <1>4, <1>5, <1>6 DEF cacheUpdate, deletePodGroup

\* addJob and updateJob.
LEMMA JobHandlersBelow ==
    ASSUME Inv, NEW v \in Nat, Below(v), addJob \/ updateJob
    PROVE  Below(v)'
<1>0. PodSide(v) /\ QueueSide(v) /\ JobSide(v) /\ WorkerBelow(w, v)
  BY DEF Below
<1>1. PodSide(v)' /\ WorkerBelow(w', v)
  BY <1>0, PodSideFrame DEF addJob, updateJob, api
<1>2. QueueSide(v)'
  <2>1. OutOfSync(0) \in RequestType /\ OutOfSync(0).ver <= v
    BY OutOfSyncIn DEF OutOfSync, Request
  <2>2. Add(OutOfSync(0)) \/ UNCHANGED reqs
    BY DEF addJob, updateJob
  <2>3. delayed' = delayed /\ QueueOK
    BY DEF addJob, updateJob, Inv
  <2> QED
    BY <1>0, <2>1, <2>2, <2>3, AddBelow, QueueSideFrame
<1>3. JobSide(v)'
  <2>1. /\ jobWatch \in Seq(JobType) /\ jobWatch # <<>> /\ jobWatch' = Tail(jobWatch)
        /\ cjob' \in {cjob, Head(jobWatch)}
    BY DEF addJob, updateJob, Inv, JobsOK
  <2>2. Head(jobWatch).version <= v /\ JobsBelow(jobWatch', v)
    BY <1>0, <2>1, JobsMoved DEF JobSide
  <2> QED
    BY <1>0, <2>1, <2>2 DEF JobSide, JobsBelow
<1> QED
  BY <1>1, <1>2, <1>3 DEF Below

\* addPod, updatePod and deletePod: a request carries the version of the pod
\* it is about, as the event or the informer has it.
LEMMA PodHandlersBelow ==
    ASSUME Inv, NEW v \in Nat, Below(v), addPod \/ updatePod \/ deletePod
    PROVE  Below(v)'
<1>0. PodSide(v) /\ QueueSide(v) /\ JobSide(v) /\ WorkerBelow(w, v)
  BY DEF Below
<1>1. JobSide(v)' /\ WorkerBelow(w', v)
  BY <1>0, JobSideFrame DEF addPod, updatePod, deletePod, NextPodEvent
<1>2. /\ podWatch \in Seq(PodEventType) /\ podWatch # <<>> /\ podWatch' = Tail(podWatch)
      /\ PodEvent \in PodEventType /\ QueueOK
      /\ podSeen \in [Pods -> PodType] /\ cpod \in [Pods -> PodType]
  BY DEF addPod, updatePod, deletePod, NextPodEvent, Inv, PodsOK, PodEvent
<1>3. /\ PodEvent.name \in Pods /\ PodEvent.name[1] \in Tasks
      /\ PodEvent.obj \in PodType /\ PodEvent.obj.ver \in Nat
      /\ podSeen[PodEvent.name].ver \in Nat
  BY <1>2 DEF PodEventType, Pods, PodType
<1>4. /\ PodEvent.obj.ver <= v /\ EventsBelow(podWatch', v)
      /\ podSeen[PodEvent.name].ver <= v
  BY <1>0, <1>2, <1>3, EventsMoved DEF PodEvent, PodSide, PodsBelow
<1>5. PodSide(v)'
  <2>1. UNCHANGED <<pod, rs>> /\ podSeen' = [podSeen EXCEPT ![PodEvent.name] = PodEvent.obj]
    BY DEF addPod, updatePod, deletePod, NextPodEvent, api
  <2>2. PodsBelow(podSeen', v)
    BY <1>0, <1>2, <1>3, <1>4, <2>1 DEF PodSide, PodsBelow
  <2>3. PICK x \in {NoPod, PodEvent.obj} :
          cpod' = cpod \/ cpod' = [cpod EXCEPT ![PodEvent.name] = x]
    BY DEF addPod, updatePod, deletePod, UpdatePodIn
  <2>4. x.ver <= v
    BY <1>4, <2>3 DEF NoPod
  <2>5. PodsBelow(cpod', v)
    BY <1>0, <1>2, <1>3, <2>3, <2>4 DEF PodSide, PodsBelow
  <2> QED
    BY <1>0, <1>4, <2>1, <2>2, <2>5 DEF PodSide, PodsBelow, EventsBelow
<1>6. QueueSide(v)'
  <2>1. PICK e \in Events, t \in Tasks \cup {"None"},
             x \in {PodEvent.obj.ver, podSeen[PodEvent.name].ver} :
          Add(Request(e, t, x, "None"))
    <3>1. CASE addPod
      BY <3>1 DEF addPod, OutOfSync, Events
    <3>2. CASE updatePod
      <4>1. \A pods, p, old, x : PodUpdateEvent(pods, p, old, x) \in Events
        BY DEF PodUpdateEvent, Events
      <4> QED
        BY <1>3, <3>2, <4>1 DEF updatePod
    <3>3. CASE deletePod
      BY <1>3, <3>3 DEF deletePod, Events
    <3> QED
      BY <3>1, <3>2, <3>3
  <2>2. Request(e, t, x, "None") \in RequestType /\ Request(e, t, x, "None").ver <= v
    BY <1>3, <1>4, RequestIn DEF Request
  <2>3. delayed' = delayed
    BY DEF addPod, updatePod, deletePod, NextPodEvent
  <2> QED
    BY <1>0, <1>2, <2>1, <2>2, <2>3, AddBelow
<1> QED
  BY <1>1, <1>5, <1>6 DEF Below

\* The requests of PodGroup events and of commands carry no version, a
\* delayed request the one it had.
LEMMA OtherRequestsBelow ==
    ASSUME Inv, NEW v \in Nat, Below(v),
           \/ updatePodGroup
           \/ \E r \in delayed : AddDelayed(r)
           \/ \E c \in cmds : processNextCommand(c)
    PROVE  Below(v)'
<1>0. PodSide(v) /\ QueueSide(v) /\ JobSide(v) /\ WorkerBelow(w, v) /\ QueueOK
  BY DEF Below, Inv
<1>1. PodSide(v)' /\ JobSide(v)' /\ WorkerBelow(w', v)
  BY <1>0, PodSideFrame, JobSideFrame
  DEF updatePodGroup, AddDelayed, processNextCommand, api, watch
<1>2. \/ UNCHANGED <<reqs, delayed>>
      \/ \E r \in RequestType : r.ver <= v /\ Add(r) /\ delayed' \subseteq delayed
  <2>1. CASE updatePodGroup
    <3>1. \A e \in {"Unknown", "None"} :
            /\ Request(e, "None", 0, "None") \in RequestType
            /\ Request(e, "None", 0, "None").ver <= v
      BY RequestIn DEF Events, Request
    <3> QED
      BY <2>1, <3>1 DEF updatePodGroup
  <2>2. CASE \E r \in delayed : AddDelayed(r)
    BY <1>0, <2>2 DEF AddDelayed, QueueOK, QueueSide
  <2>3. CASE \E c \in cmds : processNextCommand(c)
    <3>1. PICK c \in cmds : processNextCommand(c)
      BY <2>3
    <3>2. c \in Actions
      BY ConstantsAssumption DEF Inv, UsersOK
    <3>3. Request("CommandIssued", "None", 0, c) \in RequestType
      BY <3>2, RequestIn DEF Events
    <3>4. Request("CommandIssued", "None", 0, c).ver <= v
      BY DEF Request
    <3> QED
      BY <3>1, <3>3, <3>4 DEF processNextCommand
  <2> QED
    BY <2>1, <2>2, <2>3
<1>3. QueueSide(v)'
  BY <1>0, <1>2, AddBelow, QueueSideFrame
<1> QED
  BY <1>1, <1>3 DEF Below

\* The resync loop: what it reads and puts into the cache are stored pods.
LEMMA ResyncBelow ==
    ASSUME Inv, NEW v \in Nat, Below(v), resyncApply \/ \E p \in errTasks : resyncGet(p)
    PROVE  Below(v)'
<1>0. /\ PodSide(v) /\ QueueSide(v) /\ JobSide(v) /\ WorkerBelow(w, v)
      /\ PodsOK
  BY DEF Below, Inv
<1>1. QueueSide(v)' /\ JobSide(v)' /\ WorkerBelow(w', v)
  BY <1>0, QueueSideFrame, JobSideFrame DEF resyncApply, resyncGet, queue, watch
<1>2. UNCHANGED <<pod, podWatch, podSeen>>
  BY DEF resyncApply, resyncGet, api, watch
<1>3. CASE resyncApply
  <2>1. Head(rs) \in PodEventType /\ rs \in Seq(PodEventType) /\ rs # <<>> /\ rs' = <<>>
    BY <1>0, <1>3 DEF resyncApply, PodsOK
  <2>2. Head(rs).name \in Pods /\ Head(rs).obj.ver <= v
    BY <1>0, <2>1, EventsMoved DEF PodEventType, PodSide
  <2>3. PICK x \in {NoPod, Head(rs).obj} :
          cpod' = cpod \/ cpod' = [cpod EXCEPT ![Head(rs).name] = x]
    BY <1>3 DEF resyncApply, UpdatePodIn
  <2>4. x.ver <= v
    BY <2>2, <2>3 DEF NoPod
  <2>5. PodsBelow(cpod', v)
    BY <1>0, <2>2, <2>3, <2>4 DEF PodSide, PodsBelow, PodsOK
  <2>6. EventsBelow(rs', v)
    BY <2>1 DEF EventsBelow
  <2>7. PodSide(v)'
    BY <1>0, <1>2, <2>5, <2>6 DEF PodSide, PodsBelow, EventsBelow
  <2> QED
    BY <1>1, <2>7 DEF Below
<1>4. CASE \E p \in errTasks : resyncGet(p)
  <2>1. PICK p \in errTasks : resyncGet(p)
    BY <1>4
  <2>2. p \in Pods /\ rs' = <<[name |-> p, obj |-> pod[p]]>> /\ cpod' = cpod
    BY <1>0, <2>1 DEF resyncGet, PodsOK
  <2>3. EventsBelow(rs', v)
    BY <1>0, <2>2 DEF EventsBelow, PodSide, PodsBelow
  <2>4. PodSide(v)'
    BY <1>0, <1>2, <2>2, <2>3 DEF PodSide, PodsBelow, EventsBelow
  <2> QED
    BY <1>1, <2>4 DEF Below
<1> QED
  BY <1>3, <1>4

\* Nodes and other clients change pods without changing their version.
LEMMA PodEnvironmentBelow ==
    ASSUME Inv, NEW v \in Nat, Below(v), NEW p \in Pods,
           PodChanges(p) \/ EvictPod(p) \/ RestartContainer(p)
    PROVE  Below(v)'
<1>0. /\ PodSide(v) /\ QueueSide(v) /\ JobSide(v) /\ WorkerBelow(w, v)
      /\ PodsOK
  BY DEF Below, Inv
<1>1. QueueSide(v)' /\ JobSide(v)' /\ WorkerBelow(w', v) /\ UNCHANGED <<podSeen, cpod, rs>>
  BY <1>0, QueueSideFrame, JobSideFrame
  DEF PodChanges, EvictPod, RestartContainer, ctl, queue
<1>2. pod[p] \in PodType /\ pod[p].ver <= v
  BY <1>0 DEF PodsOK, PodSide, PodsBelow
<1>3. PICK x \in PodType : /\ x.ver <= v
                           /\ StorePod(p, x) \/ UNCHANGED <<pod, podWatch>>
  <2>1. CASE PodChanges(p)
    <3>1. \A ph \in PodPhases : /\ [pod[p] EXCEPT !.phase = ph] \in PodType
                                /\ [pod[p] EXCEPT !.phase = ph].ver = pod[p].ver
      BY <1>2 DEF PodType
    <3>2. {"Running", "Succeeded", "Failed"} \subseteq PodPhases
      BY DEF PodPhases
    <3>3. NoPod \in PodType /\ NoPod.ver <= v
      BY NoPodType DEF NoPod
    <3> QED
      BY <1>2, <2>1, <3>1, <3>2, <3>3 DEF PodChanges, RunPod, FinishPod, RemovePod
  <2>2. CASE EvictPod(p)
    <3>1. /\ [pod[p] EXCEPT !.deleting = TRUE] \in PodType
          /\ [pod[p] EXCEPT !.deleting = TRUE].ver = pod[p].ver
      BY <1>2 DEF PodType
    <3> QED
      BY <1>2, <2>2, <3>1 DEF EvictPod, DeleteByName
  <2>3. CASE RestartContainer(p)
    <3>1. pod[p].restarts + 1 \in Nat
      BY <1>2 DEF PodType
    <3>2. \A n \in Nat : /\ [pod[p] EXCEPT !.restarts = n] \in PodType
                         /\ [pod[p] EXCEPT !.restarts = n].ver = pod[p].ver
      BY <1>2 DEF PodType
    <3>3. StorePod(p, [pod[p] EXCEPT !.restarts = pod[p].restarts + 1])
      BY <2>3 DEF RestartContainer
    <3> QED
      BY <1>2, <3>1, <3>2, <3>3
  <2> QED
    BY <2>1, <2>2, <2>3
<1>4. PodSide(v)'
  BY <1>0, <1>1, <1>3, StorePodBelow
<1> QED
  BY <1>1, <1>4 DEF Below

\* Users and the scheduler touch no version; an edited Job keeps its own.
LEMMA UsersBelow ==
    ASSUME Inv, NEW v \in Nat, Below(v), job'.version <= v, job' \in JobType,
           \/ PodGroupChanges \/ DeleteJob
           \/ \E t \in Tasks : ScaleTask(t)
           \/ \E c \in Commands : IssueCommand(c)
    PROVE  Below(v)'
<1>0. PodSide(v) /\ QueueSide(v) /\ JobSide(v) /\ WorkerBelow(w, v)
  BY DEF Below
<1>1. PodSide(v)' /\ QueueSide(v)' /\ WorkerBelow(w', v) /\ cjob' = cjob
  BY <1>0, PodSideFrame, QueueSideFrame
  DEF PodGroupChanges, DeleteJob, ScaleTask, IssueCommand, ctl, queue, watch
<1>2. jobWatch' = jobWatch \/ jobWatch' = Append(jobWatch, job')
  BY DEF PodGroupChanges, DeleteJob, ScaleTask, IssueCommand, watch, StoreJob
<1>3. JobsBelow(jobWatch', v)
  BY <1>0, <1>2, JobsMoved DEF JobSide, Inv, JobsOK
<1>4. JobSide(v)'
  BY <1>0, <1>1, <1>3 DEF JobSide, JobsBelow
<1> QED
  BY <1>1, <1>4 DEF Below

\* A restart of the controller: only what the API server holds is left.
LEMMA CrashBelow ==
    ASSUME Inv, NEW v \in Nat, Below(v), job.version <= v, Crash
    PROVE  Below(v)'
<1>1. WorkerBelow(w', v)
  BY IdleBelow DEF Crash
<1>2. QueueSide(v)'
  BY DEF Crash, QueueSide, RequestsBelow
<1>3. JobSide(v)'
  BY DEF Crash, JobSide, JobsBelow
<1>4. PodSide(v)'
  <2>1. PodsBelow(pod, v) /\ pod' = pod
    BY DEF Below, PodSide, Crash, api
  <2>2. PodsBelow([p \in Pods |-> NoPod], v)
    BY DEF PodsBelow, NoPod
  <2>3. EventsBelow(podWatch', v)
    <3>1. PICK s \in SetToSeqs({p \in Pods : pod[p] # NoPod}) :
            podWatch' = [i \in DOMAIN s |-> [name |-> s[i], obj |-> pod[s[i]]]]
      BY DEF Crash
    <3> DEFINE N == Cardinality({p \in Pods : pod[p] # NoPod})
    <3>2. N \in Nat
      <4>1. IsFiniteSet({p \in Pods : pod[p] # NoPod})
        BY PodsFinite, FS_Subset
      <4> QED
        BY <4>1, FS_CardinalityType
    <3>3. DOMAIN s = 1 .. N /\ \A i \in 1 .. N : s[i] \in Pods
      BY <3>1 DEF SetToSeqs
    <3> HIDE DEF N
    <3>4. podWatch' \in [1 .. N -> [name : Pods, obj : {pod[p] : p \in Pods}]]
      BY <3>1, <3>3
    <3>5. Len(podWatch') = N
      BY <3>2, <3>4
    <3>6. \A i \in 1 .. N : podWatch'[i].obj = pod[s[i]]
      BY <3>1, <3>3
    <3> QED
      BY <2>1, <3>3, <3>5, <3>6 DEF EventsBelow, PodsBelow
  <2>4. EventsBelow(rs', v)
    BY DEF Crash, EventsBelow
  <2>5. podSeen' = [p \in Pods |-> NoPod] /\ cpod' = [p \in Pods |-> NoPod]
    BY DEF Crash
  <2>6. PodsBelow(podSeen', v) /\ PodsBelow(cpod', v)
    BY <2>2, <2>5
  <2> QED
    BY <2>1, <2>3, <2>4, <2>6 DEF PodSide, PodsBelow, EventsBelow
<1> QED
  BY <1>1, <1>2, <1>3, <1>4 DEF Below

-----------------------------------------------------------------------------
\* The version of the Job only grows.
LEMMA FollowsVersion ==
    ASSUME NEW s \in JobType, NEW t \in JobType, Follows(s, t)
    PROVE  s.version <= t.version
<1>1. s.version \in Nat /\ t.version \in Nat
  BY DEF JobType
<1> QED
  BY <1>1 DEF Follows, P!SyncStep, P!KillStep

\* What is below a version that the Job does not exceed stays below it; one
\* case per action.
LEMMA StepBelow ==
    ASSUME Inv, NEW v \in Nat, Below(v), job.version <= v, job'.version <= v,
           job' \in JobType, [Next]_vars
    PROVE  Below(v)'
<1>1. CASE Worker
  BY <1>1, ProcessNextReqBelow, PodCallBelow, WorkerStepBelow,
     UpdateStatusBelow, CacheUpdateBelow DEF Worker
<1>2. CASE Handlers
  <2>1. CASE addJob \/ updateJob
    BY <2>1, JobHandlersBelow
  <2>2. CASE addPod \/ updatePod \/ deletePod
    BY <2>2, PodHandlersBelow
  <2>3. CASE \/ updatePodGroup
             \/ \E r \in delayed : AddDelayed(r)
             \/ \E c \in cmds : processNextCommand(c)
    BY <2>3, OtherRequestsBelow
  <2>4. CASE resyncApply \/ \E p \in errTasks : resyncGet(p)
    BY <2>4, ResyncBelow
  <2> QED
    BY <1>2, <2>1, <2>2, <2>3, <2>4 DEF Handlers
<1>3. CASE Environment
  BY <1>3, PodEnvironmentBelow, UsersBelow, CrashBelow DEF Environment
<1>4. CASE UNCHANGED vars
  <2>1. PodSide(v)' /\ QueueSide(v)' /\ JobSide(v)' /\ WorkerBelow(w', v)
    BY <1>4, PodSideFrame, QueueSideFrame, JobSideFrame DEF Below, vars
  <2> QED
    BY <2>1 DEF Below
<1> QED
  BY <1>1, <1>2, <1>3, <1>4 DEF Next

\* No step takes a version above that of the Job.
LEMMA NextBelow ==
    ASSUME Inv, Below(job.version), [Next]_vars
    PROVE  Below(job.version)'
<1>1. job \in JobType /\ job' \in JobType /\ job.version <= job'.version
  BY NextOK, FollowsVersion DEF Inv, JobsOK
<1>2. job.version \in Nat /\ job'.version \in Nat
  BY <1>1 DEF JobType
<1>3. ASSUME NEW v \in Nat, v = job'.version
      PROVE  Below(v)'
  <2>1. Below(v)
    BY <1>1, <1>2, <1>3, BelowRaised
  <2>2. job.version <= v /\ job'.version <= v
    BY <1>1, <1>2, <1>3
  <2> QED
    BY <1>1, <2>1, <2>2, StepBelow
<1>4. ASSUME NEW v, v = job'.version, Below(v)'
      PROVE  Below(job.version)'
  BY <1>4 DEF Below, PodSide, QueueSide, JobSide, PodsBelow, EventsBelow,
              RequestsBelow, JobsBelow, WorkerBelow
<1> QED
  BY <1>2, <1>3, <1>4

\* Nothing carries a version the Job has not reached when it has just been
\* created.
LEMMA InitBelow ==
    Init => Below(job.version)
<1> SUFFICES ASSUME Init
             PROVE  Below(job.version)
  OBVIOUS
<1>1. job.version = 0
  BY DEF Init, NewJob
<1>2. PodsBelow([p \in Pods |-> NoPod], 0)
  BY DEF PodsBelow, NoPod
<1>3. PodSide(0)
  BY <1>2 DEF Init, PodSide, EventsBelow
<1>4. QueueSide(0)
  BY DEF Init, QueueSide, RequestsBelow
<1>5. JobSide(0)
  BY <1>1 DEF Init, JobSide, JobsBelow
<1>6. WorkerBelow(w, 0)
  BY IdleBelow DEF Init
<1> QED
  BY <1>1, <1>3, <1>4, <1>5, <1>6 DEF Below

\* Below holds of every reachable state.
LEMMA BelowInvariance ==
    Spec => []Below(job.version)
<1>1. Inv /\ Below(job.version) /\ [Next]_vars => Below(job.version)'
  BY NextBelow
<1> QED
  BY <1>1, InitBelow, Invariance, PTL DEF Spec

\* No pod, in the API server or in the cache, no event and no request carries
\* a generation the Job has not reached: whatever is delayed, repeated, lost
\* or read again, a version is only ever copied from the Job.
THEOREM GenerationsReached ==
    Spec => []PodGenerations
<1>1. Inv /\ Below(job.version) => PodGenerations
  BY BelowSuffices
<1> QED
  BY <1>1, Invariance, BelowInvariance, PTL

-----------------------------------------------------------------------------
\* applyPolicies kills a live Job for a request that asks for no action only
\* when the request is not of an older generation than the copy of the Job.
PolicyOK(x) ==
    x.pc = "kill" /\ x.req.action = "None" /\ ~x.last /\ x.job.phase \in P!Live =>
      x.req.ver >= x.job.version

\* applyPolicies answers "Sync" to an outdated request.
LEMMA PolicyStarts ==
    ASSUME NEW j \in JobType, NEW pods, NEW r \in RequestType
    PROVE  PolicyOK(Execute(j, pods, r, applyPolicies(j, r), FALSE))
<1> DEFINE x == Execute(j, pods, r, applyPolicies(j, r), FALSE)
<1>1. x.req = r /\ x.job = j
  BY DEF Execute, killJob, syncJob
<1>2. x.pc = "kill" => IsKill(j.phase, applyPolicies(j, r))
  BY DEF Execute, killJob, syncJob
<1>3. ASSUME r.action = "None", r.ver < j.version
      PROVE  applyPolicies(j, r) \notin KillActions
  BY <1>3 DEF applyPolicies, KillActions
<1>4. r.ver \in Nat /\ j.version \in Nat
  BY DEF RequestType, JobType
<1> HIDE DEF x
<1>5. PolicyOK(x)
  BY <1>1, <1>2, <1>3, <1>4 DEF PolicyOK, IsKill
<1> QED
  BY <1>5 DEF x

\* No other step starts killJob but the last attempt.
LEMMA RequeuePolicy ==
    ASSUME Requeue
    PROVE  PolicyOK(w')
<1>1. CASE w' = Idle
  BY <1>1 DEF Idle, PolicyOK
<1>2. CASE w' = Execute(w.job, w.pods, w.req, "Terminate", TRUE)
  BY <1>2 DEF Execute, killJob, syncJob, PolicyOK
<1> QED
  BY <1>1, <1>2 DEF Requeue, Succeed, Done

\* Every step keeps PolicyOK.
LEMMA NextPolicy ==
    ASSUME Inv, PolicyOK(w), [Next]_vars
    PROVE  PolicyOK(w')
<1>0. w \in WorkerType /\ QueueOK /\ JobsOK
  BY DEF Inv, WorkerOK
<1>1. CASE UNCHANGED w
  BY <1>1
<1>2. CASE Requeue
  BY <1>2, RequeuePolicy
<1>3. CASE w' = Idle
  BY <1>3 DEF Idle, PolicyOK
<1>4. CASE w'.pc # "kill"
  BY <1>4 DEF PolicyOK
<1>5. CASE processNextReq
  <2>1. reqs # <<>> /\ Head(reqs) \in RequestType
    BY <1>0, <1>5 DEF processNextReq, QueueOK
  <2>2. cjob # NoJob => cjob \in JobType
    BY <1>0 DEF JobsOK
  <2> QED
    BY <1>1, <1>5, <2>1, <2>2, PolicyStarts DEF processNextReq
<1>6. CASE \E p \in Pods : deleteJobPod(p)
  <2>1. w'.pc = w.pc /\ w'.req = w.req /\ w'.job = w.job /\ w'.last = w.last
    BY <1>0, <1>6, ZenonT(60) DEF deleteJobPod, WorkerType
  <2> QED
    BY <2>1 DEF PolicyOK
<1>7. CASE \E p \in Pods : createPod(p)
  BY <1>0, <1>4, <1>7 DEF createPod, WorkerType
<1>8. CASE \/ podCallsFailed \/ createOrUpdatePodGroup \/ readPodGroup
           \/ \E t \in Tasks : waitDependsOnTaskMeetCondition(t)
  BY <1>0, <1>2, <1>4, <1>8
  DEF podCallsFailed, createOrUpdatePodGroup, PodGroupDone, readPodGroup, classifyPods,
      waitDependsOnTaskMeetCondition, WorkerType
<1>9. CASE UpdateStatus
  <2>1. w.pc \in {"init", "kill", "sync"}
    BY <1>9 DEF UpdateStatus, CallsDone
  <2> QED
    BY <1>0, <1>2, <1>4, <1>9, <2>1 DEF UpdateStatus, WorkerType
<1>10. CASE cacheUpdate
  BY <1>0, <1>2, <1>3, <1>4, <1>10
  DEF cacheUpdate, deletePodGroup, Succeed, Done, WorkerType
<1>11. CASE Handlers
  BY <1>1, <1>11
  DEF Handlers, addJob, updateJob, addPod, updatePod, deletePod, NextPodEvent,
      updatePodGroup, AddDelayed, processNextCommand, resyncGet, resyncApply
<1>12. CASE Environment
  BY <1>1, <1>3, <1>12
  DEF Environment, PodGroupChanges, PodChanges, EvictPod, RestartContainer, ScaleTask,
      DeleteJob, IssueCommand, Crash, ctl
<1> QED
  BY <1>1, <1>5, <1>6, <1>7, <1>8, <1>9, <1>10, <1>11, <1>12 DEF Next, Worker, vars

\* A lifecycle policy acts only on what happened to the current pods: when a
\* Job leaves a live phase because of an event of a pod, that pod is of the
\* generation the API server holds at that moment, however old the cache
\* that applyPolicies looked at, because UpdateStatus is refused when it is.
THEOREM PoliciesCurrent ==
    Spec => NoStalePolicy
<1>1. Init => PolicyOK(w)
  BY DEF Init, Idle, PolicyOK
<1>2. Inv /\ PolicyOK(w) /\ [Next]_vars => PolicyOK(w)'
  <2>1. Inv /\ PolicyOK(w) /\ [Next]_vars => PolicyOK(w')
    BY NextPolicy
  <2> QED
    BY <2>1 DEF PolicyOK
<1>3. Inv /\ PolicyOK(w) /\ Below(job.version) /\ [Next]_vars =>
        [( /\ job.phase \in P!Live
           /\ job'.phase \in {"Restarting", "Aborting", "Completing", "Terminating"}
           /\ w.req.action = "None" /\ ~w.last )
         => w.req.ver = job.version]_vars
  <2> SUFFICES ASSUME Inv, PolicyOK(w), Below(job.version), [Next]_vars,
                      job.phase \in P!Live,
                      job'.phase \in {"Restarting", "Aborting", "Completing", "Terminating"},
                      w.req.action = "None", ~w.last
               PROVE  w.req.ver = job.version
    OBVIOUS
  <2>1. job.phase # job'.phase
    BY DEF P!Live
  <2>2. UpdateStatus
    <3>1. ~(DeleteJob \/ \E t \in Tasks : ScaleTask(t))
      BY <2>1, JobEditedOK
    <3> QED
      BY <2>1, <3>1
      DEF Next, Worker, Handlers, Environment, vars, api, processNextReq, podCallsFailed,
          cacheUpdate, createOrUpdatePodGroup, readPodGroup, deleteJobPod, createPod,
          waitDependsOnTaskMeetCondition, addJob, updateJob, addPod, updatePod,
          deletePod, NextPodEvent, updatePodGroup, AddDelayed, processNextCommand,
          resyncGet, resyncApply, PodGroupChanges, Crash, PodChanges, EvictPod,
          RestartContainer, IssueCommand
  <2>3. ~Conflict /\ StoreJob(NewStatus) /\ w.pc \in {"init", "kill", "sync"}
    BY <2>1, <2>2 DEF UpdateStatus, CallsDone
  <2>4. /\ w.new \in JobType /\ w.job \in JobType /\ job \in JobType
        /\ w.req \in RequestType /\ WorkerOK(w, job) /\ JobsOK
    BY DEF Inv, JobsOK, WorkerOK, WorkerType
  <2>5. NewStatus \in JobType /\ job'.phase = NewStatus.phase
    BY <2>3, <2>4, NewStatusFollows, StoreJobOK
  <2>6. w.pc = "kill"
    <3>1. CASE w.pc = "init"
      BY <2>3, <2>5, <3>1, NewStatusFollows
    <3>2. CASE w.pc = "sync"
      <4>1. NewStatus = syncStatus(w.job, w.new)
        BY <3>2 DEF NewStatus
      <4>2. NewStatus.phase \in {w.new.phase, "Completed", "Failed", "Running"}
        BY <2>4, <4>1, SyncStatusResult
      <4>3. w.new.phase \in {"Running", "Pending"}
        BY <2>4, <3>2 DEF WorkerOK
      <4> QED
        BY <2>5, <4>2, <4>3
    <3> QED
      BY <2>3, <3>1, <3>2
  <2>7. w.job.phase = job.phase /\ w.job.version = job.version
    BY <2>3, <2>4, <2>6 DEF WorkerOK, Copy, Conflict
  <2>8. w.req.ver >= job.version
    BY <2>6, <2>7 DEF PolicyOK
  <2>9. w.req.ver <= job.version
    BY <2>6 DEF Below, WorkerBelow
  <2> QED
    BY <2>4, <2>8, <2>9 DEF RequestType, JobType
<1> QED
  BY <1>1, <1>2, <1>3, Invariance, BelowInvariance, PTL DEF Spec, NoStalePolicy

-----------------------------------------------------------------------------
\* Two Jobs of the same phase and generation.
Same(j, o) == j.phase = o.phase /\ j.version = o.version

\* The worker has the reply to a status write and has not yet given it to
\* the cache.
Written == {"killed", "inited", "synced"}

\* The Job j, in a stream or in the cache c, is older than what the cache
\* keeps once the worker x has given it what it has.
Outdated(j, x, c) ==
    IF x.pc \in Written THEN j.rv < x.new.rv ELSE c # NoJob /\ j.rv < c.rv

Fresh(j, x, c, o) == Same(j, o) \/ Outdated(j, x, c)

\* What the informer q, the cache c and the worker x know of the Job o as
\* long as every reply has arrived: the copy syncJob works on is of the
\* current phase and generation, and so is every copy the cache may keep.
Known(q, c, x, o) ==
    /\ c = NoJob => x.pc = "idle"
    /\ x.pc \notin {"idle", "kill"} => Same(x.new, o)
    /\ c # NoJob => Fresh(c, x, c, o)
    /\ \A i \in 1 .. Len(q) : Fresh(q[i], x, c, o)

\* A step of the worker around the calls that do not write the Job.
LEMMA WorkerKnown ==
    ASSUME NEW q, NEW c, NEW x, NEW o, NEW y, Known(q, c, x, o),
           x.pc \notin Written, y.pc \notin Written,
           c = NoJob => y.pc = "idle",
           y.pc \notin {"idle", "kill"} => Same(y.new, o)
    PROVE  Known(q, c, y, o)
  BY DEF Known, Fresh, Outdated

\* The steps that neither write the Job nor change the cache.
LEMMA WorkerStepKnown ==
    ASSUME Inv, Known(jobWatch, cjob, w, job),
           \/ processNextReq \/ podCallsFailed \/ createOrUpdatePodGroup \/ readPodGroup
           \/ \E p \in Pods : deleteJobPod(p) \/ createPod(p)
           \/ \E t \in Tasks : waitDependsOnTaskMeetCondition(t)
    PROVE  Known(jobWatch, cjob, w', job)
<1>0. w \in WorkerType /\ w.new \in JobType /\ JobsOK
  BY DEF Inv, WorkerOK, WorkerType
<1>1. w.pc \notin Written
  BY DEF Written, processNextReq, podCallsFailed, CallsDone, createOrUpdatePodGroup,
         readPodGroup, deleteJobPod, createPod, waitDependsOnTaskMeetCondition
<1>2. CASE w'.pc = "idle"
  BY <1>1, <1>2, WorkerKnown DEF Written
<1>3. CASE Requeue /\ w.pc # "idle"
  <2>1. cjob # NoJob
    BY <1>3 DEF Known
  <2>2. CASE w' = Idle
    BY <1>2, <2>2 DEF Idle
  <2>3. CASE w' = Execute(w.job, w.pods, w.req, "Terminate", TRUE)
    <3>1. w'.pc = "kill"
      BY <2>3 DEF Execute, IsKill, KillActions, killJob
    <3> QED
      BY <1>1, <2>1, <3>1, WorkerKnown DEF Written
  <2> QED
    BY <1>3, <2>2, <2>3 DEF Requeue, Succeed, Done
<1>4. CASE processNextReq
  <2>1. CASE UNCHANGED w
    BY <2>1
  <2>2. CASE /\ cjob # NoJob
             /\ w' = Execute(cjob, cpod, Head(reqs),
                             applyPolicies(cjob, Head(reqs)), FALSE)
    <3>1. Same(cjob, job)
      <4>1. cjob \in JobType /\ cjob.rv \in Nat
        BY <1>0, <2>2 DEF JobsOK, JobType
      <4>2. Same(cjob, job) \/ cjob.rv < cjob.rv
        BY <1>1, <2>2 DEF Known, Fresh, Outdated
      <4> QED
        BY <4>1, <4>2
    <3>2. /\ w'.pc \in {"kill", "init", "podgroup"}
          /\ w'.pc # "kill" => w'.new = cjob
      BY <2>2 DEF Execute, killJob, syncJob
    <3>3. w'.pc \notin Written
      BY <3>2 DEF Written
    <3>4. w'.pc \notin {"idle", "kill"} => Same(w'.new, job)
      BY <3>1, <3>2
    <3> QED
      BY <1>1, <2>2, <3>3, <3>4, WorkerKnown
  <2> QED
    BY <1>4, <2>1, <2>2 DEF processNextReq
<1>5. ASSUME w'.pc \in {"kill", "listed", "sync"}, w.pc # "idle",
             w.pc = "kill" <=> w'.pc = "kill",
             w'.new.phase = w.new.phase, w'.new.version = w.new.version
      PROVE  Known(jobWatch, cjob, w', job)
  <2>1. cjob # NoJob /\ w'.pc \notin Written
    BY <1>5 DEF Known, Written
  <2>2. w'.pc \notin {"idle", "kill"} => Same(w'.new, job)
    BY <1>5 DEF Known, Same
  <2> QED
    BY <1>1, <2>1, <2>2, WorkerKnown
<1>6. CASE w.pc = "podgroup" /\ PodGroupDone
  BY <1>0, <1>5, <1>6 DEF PodGroupDone, WorkerType
<1>7. CASE readPodGroup
  <2>1. CASE w' = [w EXCEPT !.pc = "sync"]
    BY <1>0, <1>5, <1>7, <2>1 DEF readPodGroup, WorkerType
  <2>2. CASE classifyPods
    <3>1. PICK k, a, b, d :
            w' = [w EXCEPT !.pc = "sync", !.todo = a, !.extra = b, !.new.obs = k,
                           !.new.smin = w.new.min, !.pods = d]
      BY <2>2 DEF classifyPods
    <3>2. /\ w'.pc = "sync" /\ w'.new.phase = w.new.phase
          /\ w'.new.version = w.new.version
      BY <1>0, <3>1 DEF WorkerType, JobType
    <3> QED
      BY <1>5, <1>7, <3>2 DEF readPodGroup
  <2> QED
    BY <1>7, <2>1, <2>2 DEF readPodGroup
<1>8. CASE \E t \in Tasks : waitDependsOnTaskMeetCondition(t)
  <2>1. w'.pc = "sync" /\ w.pc = "sync" /\ w'.new = w.new
    BY <1>0, <1>8 DEF waitDependsOnTaskMeetCondition, WorkerType
  <2> QED
    BY <1>5, <2>1
<1>9. CASE \E p \in Pods : deleteJobPod(p) \/ createPod(p)
  <2>1. PICK p \in Pods : deleteJobPod(p) \/ createPod(p)
    BY <1>9
  <2>2. w.pc \in {"kill", "sync"}
    BY <2>1 DEF deleteJobPod, createPod
  <2>3. ASSUME NEW h \in Counted,
               \/ w' = [w EXCEPT !.todo = @ \ {p}, !.extra = @ \ {p}, !.new.obs[p] = h]
               \/ w' = [w EXCEPT !.todo = @ \ {p}, !.new.obs[p] = h]
        PROVE  w'.pc = w.pc /\ w'.new = [w.new EXCEPT !.obs[p] = h]
    BY <1>0, <2>3 DEF WorkerType
  <2>4. \A h \in Counted : /\ [w.new EXCEPT !.obs[p] = h].version = w.new.version
                           /\ [w.new EXCEPT !.obs[p] = h].phase = w.new.phase
    BY <1>0, ObsType
  <2>5. CASE \/ w' = [w EXCEPT !.todo = @ \ {p}, !.extra = @ \ {p}, !.err = TRUE]
             \/ w' = [w EXCEPT !.todo = @ \ {p}, !.extra = {}, !.err = TRUE]
    <3>1. w'.pc = w.pc /\ w'.new = w.new
      BY <1>0, <2>5 DEF WorkerType
    <3> QED
      BY <1>5, <2>2, <3>1
  <2>6. {"Terminating", "Pending", "Unknown"} \subseteq Counted
    BY DEF Counted, PodPhases
  <2>7. CASE \E h \in Counted :
               \/ w' = [w EXCEPT !.todo = @ \ {p}, !.extra = @ \ {p}, !.new.obs[p] = h]
               \/ w' = [w EXCEPT !.todo = @ \ {p}, !.new.obs[p] = h]
    BY <1>5, <2>2, <2>3, <2>4, <2>7
  <2> QED
    BY <2>1, <2>5, <2>6, <2>7 DEF deleteJobPod, createPod
<1> QED
  BY <1>3, <1>4, <1>6, <1>7, <1>8, <1>9
  DEF podCallsFailed, CallsDone, createOrUpdatePodGroup

\* UpdateStatus: with the reply the worker has what is stored, and every
\* other copy is older or equal to it.
LEMMA UpdateStatusKnown ==
    ASSUME Inv, Inv', Known(jobWatch, cjob, w, job), UpdateStatus, ~unanswered'
    PROVE  Known(jobWatch', cjob', w', job')
<1>0. w \in WorkerType /\ w.pc \in {"init", "kill", "sync"} /\ cjob' = cjob
  BY DEF Inv, WorkerOK, UpdateStatus, CallsDone
<1>1. w.pc \notin Written /\ cjob # NoJob
  BY <1>0 DEF Written, Known
<1>2. CASE Requeue /\ UNCHANGED <<job, jobWatch>>
  <2>1. w'.pc \in {"idle", "kill"}
    BY <1>2 DEF Requeue, Succeed, Done, Idle, Execute, IsKill, KillActions, killJob
  <2>2. Known(jobWatch, cjob, w', job)
    BY <1>1, <2>1, WorkerKnown DEF Written
  <2> QED
    BY <1>0, <1>2, <2>2
<1>3. CASE w' = [w EXCEPT !.new = job',
                          !.pc = CASE @ = "kill" -> "killed"
                                   [] @ = "init" -> "inited"
                                   [] @ = "sync" -> "synced"]
  <2>1. w'.new = job' /\ w'.pc \in Written
    BY <1>0, <1>3 DEF WorkerType, Written
  <2>2. ASSUME NEW j \in JobType, Copy(j, job')
        PROVE  Fresh(j, w', cjob', job')
    <3>1. j.rv \in Nat /\ job'.rv \in Nat
      BY DEF JobType, Inv, JobsOK
    <3> QED
      BY <2>1, <2>2, <3>1 DEF Copy, Fresh, Same, Outdated
  <2>3. /\ jobWatch' \in Seq(JobType) /\ cjob' \in JobType \cup {NoJob}
        /\ \A i \in 1 .. Len(jobWatch') : Copy(jobWatch'[i], job')
        /\ cjob' # NoJob => Copy(cjob', job')
    BY DEF Inv, JobsOK, Copy
  <2>4. \A i \in 1 .. Len(jobWatch') : Fresh(jobWatch'[i], w', cjob', job')
    BY <2>2, <2>3
  <2>5. cjob' # NoJob => Fresh(cjob', w', cjob', job')
    BY <2>2, <2>3
  <2> QED
    BY <1>0, <1>1, <2>1, <2>4, <2>5 DEF Known, Same
<1>4. CASE Spend("lost")
  BY <1>4 DEF Spend
<1> QED
  BY <1>2, <1>3, <1>4 DEF UpdateStatus

\* cache.Update with the reply: the cache holds what the worker has, or
\* something newer.
LEMMA CacheUpdateKnown ==
    ASSUME Inv, Known(jobWatch, cjob, w, job), cacheUpdate
    PROVE  Known(jobWatch, cjob', w', job)
<1>0. /\ w \in WorkerType /\ w.new \in JobType /\ w.new.rv \in Nat
      /\ w.pc \in Written /\ w.pc \notin {"idle", "kill"}
  BY DEF Inv, WorkerOK, WorkerType, JobType, cacheUpdate, Written
<1>1. cjob # NoJob /\ Same(w.new, job)
  BY <1>0 DEF Known
<1>2. cjob \in JobType /\ cjob.rv \in Nat /\ jobWatch \in Seq(JobType)
  BY <1>1 DEF Inv, JobsOK, JobType
<1>3. /\ Same(cjob, job) \/ cjob.rv < w.new.rv
      /\ \A i \in 1 .. Len(jobWatch) : Same(jobWatch[i], job) \/ jobWatch[i].rv < w.new.rv
  BY <1>0, <1>1 DEF Known, Fresh, Outdated
<1>4. /\ w'.pc \in {"idle", "kill", "podgroup"}
      /\ w'.pc = "podgroup" => w'.new = w.new
      /\ w'.pc = "podgroup" => cjob' = w.new
  <2>1. CASE Requeue
    BY <2>1 DEF Requeue, Succeed, Done, Idle, Execute, IsKill, KillActions, killJob
  <2>2. CASE Succeed
    BY <2>2 DEF Succeed, Done, Idle
  <2>3. CASE w' = [w EXCEPT !.pc = "podgroup"] /\ cjob' = w.new
    BY <1>0, <2>3 DEF WorkerType
  <2> QED
    BY <2>1, <2>2, <2>3 DEF cacheUpdate, deletePodGroup
<1>5. w'.pc \notin Written
  BY <1>4 DEF Written
<1>6. NoJob # w.new
  BY <1>0 DEF NoJob, JobType
<1>7. /\ cjob' # NoJob /\ Same(cjob', job)
      /\ \A i \in 1 .. Len(jobWatch) : Same(jobWatch[i], job) \/ jobWatch[i].rv < cjob'.rv
  <2>1. CASE w.new.rv < cjob.rv /\ cjob' = cjob
    <3>1. Same(cjob, job)
      BY <1>0, <1>2, <1>3, <2>1
    <3>2. \A i \in 1 .. Len(jobWatch) : jobWatch[i].rv \in Nat
      <4>1. \A i \in 1 .. Len(jobWatch) : jobWatch[i] \in JobType
        BY <1>2
      <4>2. \A j \in JobType : j.rv \in Nat
        BY DEF JobType
      <4> QED
        BY <4>1, <4>2
    <3>3. \A i \in 1 .. Len(jobWatch) : Same(jobWatch[i], job) \/ jobWatch[i].rv < cjob.rv
      BY <1>0, <1>2, <1>3, <2>1, <3>2
    <3> QED
      BY <1>1, <2>1, <3>1, <3>3
  <2>2. CASE cjob' = w.new
    BY <1>1, <1>3, <1>6, <2>2
  <2> QED
    BY <2>1, <2>2 DEF cacheUpdate
<1> QED
  BY <1>1, <1>4, <1>5, <1>7 DEF Known, Fresh, Outdated

\* addJob and updateJob: the cache keeps the newer of what it holds and what
\* the informer brings.
LEMMA JobHandlersKnown ==
    ASSUME Inv, Known(jobWatch, cjob, w, job), addJob \/ updateJob
    PROVE  Known(jobWatch', cjob', w, job)
<1>1. /\ jobWatch \in Seq(JobType) /\ jobWatch # <<>> /\ jobWatch' = Tail(jobWatch)
      /\ cjob \in JobType \cup {NoJob}
  BY DEF addJob, updateJob, Inv, JobsOK
<1>2. /\ Head(jobWatch) = jobWatch[1] /\ Len(jobWatch) \in Nat \ {0}
      /\ jobWatch' \in Seq(JobType) /\ Len(jobWatch') = Len(jobWatch) - 1
      /\ \A i \in 1 .. Len(jobWatch') : jobWatch'[i] = jobWatch[i + 1]
  BY <1>1
<1>3. PICK h \in JobType : h = Head(jobWatch)
  BY <1>1
<1>4. Fresh(h, w, cjob, job) /\ h # NoJob /\ h.rv \in Nat \ {0}
  BY <1>2, <1>3 DEF Known, NoJob, JobType
<1>5. ASSUME NEW i \in 1 .. Len(jobWatch')
      PROVE  Fresh(jobWatch'[i], w, cjob, job) /\ jobWatch'[i].rv \in Nat
  <2>1. i + 1 \in 1 .. Len(jobWatch) /\ jobWatch'[i] = jobWatch[i + 1]
    BY <1>2
  <2>2. jobWatch'[i] \in JobType
    BY <1>2
  <2>3. \A j \in JobType : j.rv \in Nat
    BY DEF JobType
  <2> QED
    BY <2>1, <2>2, <2>3 DEF Known
<1>6. CASE cjob' = cjob
  BY <1>5, <1>6 DEF Known
<1>7. CASE cjob' = h /\ w.pc \in Written
  <2>1. \A j, c, d : Fresh(j, w, c, job) => Fresh(j, w, d, job)
    BY <1>7 DEF Fresh, Outdated
  <2> QED
    BY <1>4, <1>5, <1>7, <2>1 DEF Known
<1>8. CASE cjob' = h /\ w.pc \notin Written /\ cjob = NoJob
  <2>1. Same(h, job) /\ \A i \in 1 .. Len(jobWatch') : Same(jobWatch'[i], job)
    BY <1>4, <1>5, <1>8 DEF Fresh, Outdated
  <2> QED
    BY <1>4, <1>8, <2>1 DEF Known, Fresh
<1>9. CASE cjob' = h /\ w.pc \notin Written /\ cjob # NoJob
  <2>1. cjob.rv \in Nat /\ cjob.rv <= h.rv
    <3>1. cjob.rv \in Nat
      BY <1>1, <1>9 DEF JobType
    <3>2. CASE cjob = h
      BY <1>4, <3>2
    <3>3. CASE cjob # h
      <4>1. ~(h.rv < cjob.rv)
        BY <1>3, <1>9, <3>3 DEF addJob, updateJob
      <4> QED
        BY <1>4, <3>1, <4>1
    <3> QED
      BY <3>1, <3>2, <3>3
  <2>2. Same(h, job)
    <3>1. Same(h, job) \/ h.rv < cjob.rv
      BY <1>4, <1>9 DEF Fresh, Outdated
    <3> QED
      BY <1>4, <2>1, <3>1
  <2>3. \A i \in 1 .. Len(jobWatch') : Same(jobWatch'[i], job) \/ jobWatch'[i].rv < h.rv
    <3>1. \A i \in 1 .. Len(jobWatch') : Same(jobWatch'[i], job) \/ jobWatch'[i].rv < cjob.rv
      BY <1>5, <1>9 DEF Fresh, Outdated
    <3> QED
      BY <1>4, <1>5, <2>1, <3>1
  <2> QED
    BY <1>4, <1>9, <2>2, <2>3 DEF Known, Fresh, Outdated
<1>10. cjob' \in {cjob, h}
  BY <1>3 DEF addJob, updateJob
<1> QED
  BY <1>6, <1>7, <1>8, <1>9, <1>10

\* A user who edits the Job leaves its phase and generation alone.
LEMMA JobEditedKnown ==
    ASSUME Inv, Known(jobWatch, cjob, w, job), DeleteJob \/ \E t \in Tasks : ScaleTask(t)
    PROVE  Known(jobWatch', cjob', w', job')
<1>1. Inv' /\ Same(job', job)
  BY JobEditedOK DEF Same
<1>2. /\ w' = w /\ cjob' = cjob
      /\ jobWatch' = jobWatch \/ jobWatch' = Append(jobWatch, job')
  BY DEF DeleteJob, ScaleTask, StoreJob, ctl
<1>3. \A j, x, c : Fresh(j, x, c, job) => Fresh(j, x, c, job')
  BY <1>1 DEF Fresh, Same
<1>4. job' \in JobType /\ jobWatch \in Seq(JobType)
  BY <1>1 DEF Inv, JobsOK
<1>5. ASSUME NEW i \in 1 .. Len(jobWatch')
      PROVE  Fresh(jobWatch'[i], w, cjob, job')
  <2>1. CASE i \in 1 .. Len(jobWatch) /\ jobWatch'[i] = jobWatch[i]
    BY <1>3, <2>1 DEF Known
  <2>2. CASE jobWatch'[i] = job'
    BY <2>2 DEF Fresh, Same
  <2>3. \/ i \in 1 .. Len(jobWatch) /\ jobWatch'[i] = jobWatch[i]
        \/ jobWatch'[i] = job'
    <3>1. CASE jobWatch' = jobWatch
      BY <3>1
    <3>2. CASE jobWatch' = Append(jobWatch, job')
      BY <1>4, <3>2
    <3> QED
      BY <1>2, <3>1, <3>2
  <2> QED
    BY <2>1, <2>2, <2>3
<1>6. w.pc \notin {"idle", "kill"} => Same(w.new, job')
  BY <1>1 DEF Known, Same
<1> QED
  BY <1>2, <1>3, <1>5, <1>6 DEF Known

\* After a restart of the controller there is nothing but the Job itself.
LEMMA CrashKnown ==
    ASSUME Crash
    PROVE  Known(jobWatch', cjob', w', job')
<1>1. /\ jobWatch' = <<job>> /\ cjob' = NoJob /\ w' = Idle /\ job' = job
      /\ Idle.pc = "idle"
  BY DEF Crash, api, Idle
<1>2. \A i \in 1 .. Len(<<job>>) : <<job>>[i] = job
  OBVIOUS
<1> QED
  BY <1>1, <1>2 DEF Known, Fresh, Same

\* As long as every reply to a status write has arrived.
KnownInv == ~unanswered => Known(jobWatch, cjob, w, job)

\* Only a restart of the controller makes good for a lost reply.
LEMMA AnsweredAgain ==
    ASSUME Inv, [Next]_vars, ~unanswered', unanswered
    PROVE  Crash
<1>1. ASSUME NEW d \in Disturbances \ {"crash"}, Spend(d)
      PROVE  FALSE
  BY <1>1 DEF Spend
<1>2. Disturbances \ {"crash"} =
        {"err", "lost", "scale", "delete", "evict", "cmd", "drop", "restart"}
  BY DEF Disturbances
<1>3. CASE UNCHANGED budget
  BY <1>3 DEF budget
<1>4. CASE Worker
  BY <1>1, <1>2, <1>3, <1>4
  DEF Worker, processNextReq, deleteJobPod, createPod, waitDependsOnTaskMeetCondition,
      podCallsFailed, UpdateStatus, cacheUpdate, deletePodGroup, createOrUpdatePodGroup,
      readPodGroup
<1>5. CASE Handlers
  BY <1>1, <1>2, <1>3, <1>5
  DEF Handlers, addJob, updateJob, addPod, updatePod, deletePod, NextPodEvent,
      updatePodGroup, AddDelayed, processNextCommand, resyncGet, resyncApply
<1>6. CASE Environment
  BY <1>1, <1>2, <1>3, <1>6
  DEF Environment, PodGroupChanges, PodChanges, EvictPod, RestartContainer, ScaleTask,
      DeleteJob, IssueCommand
<1> QED
  BY <1>3, <1>4, <1>5, <1>6 DEF Next, vars, budget

\* Every step keeps KnownInv; one case per kind of action.
LEMMA NextKnown ==
    ASSUME Inv, KnownInv, [Next]_vars
    PROVE  KnownInv'
<1> SUFFICES ASSUME ~unanswered'
             PROVE  Known(jobWatch', cjob', w', job')
  BY DEF KnownInv, Known, Fresh, Same, Outdated
<1>0. Inv'
  BY NextOK
<1>1. CASE Crash
  BY <1>1, CrashKnown
<1>2. CASE ~Crash
  <2>1. Known(jobWatch, cjob, w, job)
    BY <1>2, AnsweredAgain DEF KnownInv
  <2>2. CASE UNCHANGED <<jobWatch, cjob, w, job>>
    BY <2>1, <2>2
  <2>3. CASE \/ processNextReq \/ podCallsFailed \/ createOrUpdatePodGroup \/ readPodGroup
             \/ \E p \in Pods : deleteJobPod(p) \/ createPod(p)
             \/ \E t \in Tasks : waitDependsOnTaskMeetCondition(t)
    <3>1. UNCHANGED <<jobWatch, cjob, job>>
      BY <2>3 DEF processNextReq, podCallsFailed, createOrUpdatePodGroup, readPodGroup,
                  deleteJobPod, createPod, waitDependsOnTaskMeetCondition, api, watch
    <3>2. Known(jobWatch, cjob, w', job)
      BY <2>1, <2>3, WorkerStepKnown
    <3> QED
      BY <3>1, <3>2
  <2>4. CASE UpdateStatus
    BY <1>0, <2>1, <2>4, UpdateStatusKnown
  <2>5. CASE cacheUpdate
    <3>1. UNCHANGED <<jobWatch, job>>
      BY <2>5 DEF cacheUpdate
    <3>2. Known(jobWatch, cjob', w', job)
      BY <2>1, <2>5, CacheUpdateKnown
    <3> QED
      BY <3>1, <3>2
  <2>6. CASE addJob \/ updateJob
    <3>1. UNCHANGED <<w, job>>
      BY <2>6 DEF addJob, updateJob, api
    <3>2. Known(jobWatch', cjob', w, job)
      BY <2>1, <2>6, JobHandlersKnown
    <3> QED
      BY <3>1, <3>2
  <2>7. CASE DeleteJob \/ \E t \in Tasks : ScaleTask(t)
    BY <2>1, <2>7, JobEditedKnown
  <2>8. CASE \/ addPod \/ updatePod \/ deletePod \/ updatePodGroup
             \/ \E r \in delayed : AddDelayed(r)
             \/ \E c \in cmds : processNextCommand(c)
             \/ \E p \in errTasks : resyncGet(p)
             \/ resyncApply
    BY <2>2, <2>8 DEF addPod, updatePod, deletePod, NextPodEvent, updatePodGroup,
                      AddDelayed, processNextCommand, resyncGet, resyncApply, api, watch
  <2>9. CASE \/ PodGroupChanges
             \/ \E p \in Pods : PodChanges(p) \/ EvictPod(p) \/ RestartContainer(p)
             \/ \E c \in Commands : IssueCommand(c)
    BY <2>2, <2>9 DEF PodGroupChanges, PodChanges, EvictPod, RestartContainer,
                      IssueCommand, watch, ctl
  <2> QED
    BY <1>2, <2>2, <2>3, <2>4, <2>5, <2>6, <2>7, <2>8, <2>9
    DEF Next, Worker, Handlers, Environment, vars
<1> QED
  BY <1>1, <1>2

\* syncJob creates pods only for a Job that the API server has in Pending or
\* Running, and gives them its current generation, as long as no reply to a
\* status write has been lost since the controller started: cache.Update and
\* the resource versions keep the worker from starting on a status that has
\* been replaced, however far the informer is behind.
THEOREM CreatesForLiveJob ==
    Spec => PodsOfLiveJob
<1>1. Init => KnownInv
  <2> SUFFICES ASSUME Init
               PROVE  Known(jobWatch, cjob, w, job)
    BY DEF KnownInv
  <2>1. jobWatch = <<job>> /\ cjob = NoJob /\ w = Idle /\ Idle.pc = "idle"
    BY DEF Init, Idle
  <2>2. \A i \in 1 .. Len(<<job>>) : <<job>>[i] = job
    OBVIOUS
  <2> QED
    BY <2>1, <2>2 DEF Known, Fresh, Same
<1>2. Inv /\ KnownInv /\ [Next]_vars => KnownInv'
  BY NextKnown
<1>3. Inv /\ KnownInv /\ [Next]_vars =>
        [\A p \in Pods :
           ~unanswered /\ pod[p] = NoPod /\ pod'[p] # NoPod =>
             /\ job.phase \in {"Pending", "Running"}
             /\ pod'[p].ver = job.version]_vars
  <2> SUFFICES ASSUME Inv, KnownInv, [Next]_vars, NEW p \in Pods,
                      ~unanswered, pod[p] = NoPod, pod'[p] # NoPod
               PROVE  job.phase \in {"Pending", "Running"} /\ pod'[p].ver = job.version
    OBVIOUS
  <2>0. pod \in [Pods -> PodType] /\ NoPod.phase = "Absent" /\ NoPod.deleting = FALSE
    BY DEF Inv, PodsOK, NoPod
  <2>1. ASSUME NEW q \in Pods, NEW x, StorePod(q, x)
        PROVE  q = p /\ pod'[p] = x
    BY <2>0, <2>1 DEF StorePod
  <2>2. createPod(p) /\ StorePod(p, createJobPod(w.new))
    <3>1. ASSUME NEW q \in Pods, DeleteByName(q)
          PROVE  FALSE
      BY <2>1, <3>1 DEF DeleteByName
    <3>2. ~\E q \in Pods : deleteJobPod(q)
      BY <3>1 DEF deleteJobPod
    <3>3. ~\E q \in Pods : PodChanges(q) \/ EvictPod(q) \/ RestartContainer(q)
      <4>1. ASSUME NEW q \in Pods, PodChanges(q)
            PROVE  FALSE
        <5>1. PICK x : StorePod(q, x)
          BY <4>1 DEF PodChanges, RunPod, FinishPod, RemovePod
        <5>2. q = p
          BY <2>1, <5>1
        <5> QED
          BY <2>0, <4>1, <5>2 DEF PodChanges, RunPod, FinishPod, RemovePod
      <4>2. ASSUME NEW q \in Pods, RestartContainer(q)
            PROVE  FALSE
        <5>1. PICK x : StorePod(q, x)
          BY <4>2 DEF RestartContainer
        <5>2. q = p
          BY <2>1, <5>1
        <5> QED
          BY <2>0, <4>2, <5>2 DEF RestartContainer
      <4> QED
        BY <3>1, <4>1, <4>2 DEF EvictPod
    <3>4. pod' # pod
      OBVIOUS
    <3>5. PICK q \in Pods : createPod(q)
      BY <3>2, <3>3, <3>4
      DEF Next, Worker, Handlers, Environment, vars, api, processNextReq, podCallsFailed,
          UpdateStatus, cacheUpdate, createOrUpdatePodGroup, readPodGroup,
          waitDependsOnTaskMeetCondition, addJob, updateJob, addPod, updatePod,
          deletePod, NextPodEvent, updatePodGroup, AddDelayed, processNextCommand,
          resyncGet, resyncApply, PodGroupChanges, Crash, ScaleTask, DeleteJob,
          IssueCommand
    <3>6. StorePod(q, createJobPod(w.new))
      BY <3>4, <3>5 DEF createPod
    <3> QED
      BY <2>1, <3>5, <3>6
  <2>3. pod'[p].ver = w.new.version /\ w.pc = "sync"
    BY <2>1, <2>2 DEF createJobPod, createPod
  <2>4. Same(w.new, job)
    BY <2>3 DEF KnownInv, Known
  <2>5. w.new.phase \in {"Pending", "Running"}
    BY <2>3 DEF Inv, WorkerOK
  <2> QED
    BY <2>3, <2>4, <2>5 DEF Same
<1> QED
  BY <1>1, <1>2, <1>3, Invariance, PTL DEF Spec, PodsOfLiveJob

=============================================================================
