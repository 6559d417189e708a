------------------------ MODULE JobController_proofs ------------------------
(***************************************************************************)
(* Theorems about the job controller, proved for every value of its        *)
(* constants: type correctness, the refinement of JobPhase and the bound   *)
(* on restarts.  The argument: every copy of the Job, in the informer, the *)
(* cache and the worker, is a copy of the stored Job or of an older one,   *)
(* and its resource version tells which (Copy).  A write based on an older *)
(* one is refused; any other write is based on what is stored (WorkerOK),  *)
(* and the state package makes of that a status that follows from it.      *)
(***************************************************************************)
EXTENDS JobController, TLAPS, FiniteSetTheorems, SequenceTheorems

\* A status with another phase, and one that is restarted.
WithPhase(s, ph) == [s EXCEPT !.phase = ph]

Restarted(s) == [s EXCEPT !.phase = "Restarting", !.retry = @ + 1]

\* Writing a phase into a status touches neither the retry count nor the
\* version.
LEMMA WithPhaseType ==
    ASSUME NEW s \in JobType, NEW ph \in P!Phases
    PROVE  /\ WithPhase(s, ph) \in JobType
           /\ WithPhase(s, ph).phase = ph
           /\ WithPhase(s, ph).retry = s.retry
           /\ WithPhase(s, ph).version = s.version
  BY DEF JobType, WithPhase

\* A restart (liveKill, resume) adds one to the retry count and leaves the
\* version alone.
LEMMA RestartedType ==
    ASSUME NEW s \in JobType
    PROVE  /\ Restarted(s) \in JobType
           /\ Restarted(s).phase = "Restarting"
           /\ Restarted(s).retry = s.retry + 1
           /\ Restarted(s).version = s.version
<1>1. s.retry + 1 \in Nat
  BY DEF JobType
<1>2. \A n \in Nat : [s EXCEPT !.phase = "Restarting", !.retry = n] \in JobType
  BY DEF JobType, P!Phases
<1>3. Restarted(s) \in JobType
  BY <1>1, <1>2 DEF Restarted
<1> QED
  BY <1>3 DEF Restarted, JobType

\* t is a status that the kill functions of the state package may make of s:
\* a restart that uses up a retry, or another move that does not, Failed
\* being the way out of Restarting exactly when the retries are used up.
KillResult(s, t) ==
    /\ t \in JobType
    /\ t.version = s.version
    /\ \/ /\ <<s.phase, t.phase>> \in P!RestartMoves
          /\ t.retry = s.retry + 1
       \/ /\ <<s.phase, t.phase>> \in P!StopMoves \cup P!EndMoves \cup P!KillAgain
          /\ t.retry = s.retry
          /\ s.phase = "Restarting" => (t.phase = "Failed" <=> s.retry >= MaxRetry)

\* pendingState.Execute and runningState.Execute on an action that kills.
LEMMA LiveKillResult ==
    ASSUME NEW s \in JobType, NEW act \in KillActions, s.phase \in P!Live
    PROVE  KillResult(s, liveKill(s, act))
<1>1. CASE act = "Restart"
  <2>1. liveKill(s, act) = Restarted(s)
    BY <1>1 DEF liveKill, Restarted
  <2> QED
    BY <2>1, RestartedType DEF KillResult, P!RestartMoves, P!Live
<1>2. ASSUME NEW ph \in {"Aborting", "Terminating", "Completing"}
      PROVE  KillResult(s, WithPhase(s, ph))
  BY <1>2, WithPhaseType DEF KillResult, P!StopMoves, P!Live, P!Phases
<1>3. act # "Restart" =>
        liveKill(s, act) \in {WithPhase(s, "Aborting"), WithPhase(s, "Terminating"),
                              WithPhase(s, "Completing")}
  BY DEF KillActions, liveKill, WithPhase
<1> QED
  BY <1>1, <1>2, <1>3

\* Every Execute of the state package that ends in KillJob makes a
\* KillResult of the status it is given, one case per state.
LEMMA KillStatusResult ==
    ASSUME NEW s \in JobType, NEW act, IsKill(s.phase, act)
    PROVE  KillResult(s, killStatus(s, act))
<1>0. s.phase \in P!Phases /\ s.retry \in Nat /\ MaxRetry \in Nat
  BY ConstantsAssumption DEF JobType
<1>1. ASSUME s.phase \notin P!Live, s.retry < MaxRetry \/ s.phase # "Restarting"
      PROVE  KillResult(s, s)
  BY <1>0, <1>1 DEF KillResult, P!KillAgain
<1>2. ASSUME NEW ph, <<s.phase, ph>> \in P!EndMoves,
             s.phase = "Restarting" => (ph = "Failed" <=> s.retry >= MaxRetry)
      PROVE  KillResult(s, WithPhase(s, ph))
  <2>1. ph \in P!Phases
    BY <1>2 DEF P!EndMoves, P!Phases
  <2> QED
    BY <1>2, <2>1, WithPhaseType DEF KillResult
<1>3. CASE s.phase \in P!Live
  <2>1. act \in KillActions
    BY <1>3 DEF IsKill
  <2>2. killStatus(s, act) = liveKill(s, act)
    BY <1>3 DEF killStatus, P!Live, P!Finished
  <2> QED
    BY <1>3, <2>1, <2>2, LiveKillResult
<1>4. CASE s.phase = "Restarting"
  <2>1. \/ s.retry >= MaxRetry /\ killStatus(s, act) = WithPhase(s, "Failed")
        \/ s.retry < MaxRetry /\ killStatus(s, act) \in {s, WithPhase(s, "Pending")}
    BY <1>0, <1>4 DEF killStatus, restartingState, WithPhase, P!Live, P!Finished
  <2>2. CASE s.retry >= MaxRetry
    BY <1>0, <1>2, <1>4, <2>1, <2>2 DEF P!EndMoves
  <2>3. CASE s.retry < MaxRetry
    BY <1>0, <1>1, <1>2, <1>4, <2>1, <2>3 DEF P!EndMoves, P!Live
  <2> QED
    BY <1>0, <2>2, <2>3
<1>5. CASE s.phase \in {"Aborting", "Aborted"}
  <2>1. KillResult(s, Restarted(s))
    BY <1>5, RestartedType DEF KillResult, P!RestartMoves
  <2>2. \/ killStatus(s, act) \in {s, Restarted(s)}
        \/ s.phase = "Aborting" /\ killStatus(s, act) = WithPhase(s, "Aborted")
    BY <1>5 DEF killStatus, abortingState, abortedState, WhenNoneAlive, resume,
                WithPhase, Restarted, P!Live, P!Finished
  <2> QED
    BY <1>1, <1>2, <1>5, <2>1, <2>2 DEF P!EndMoves, P!Live
<1>6. CASE s.phase \in {"Completing", "Terminating"}
  <2>1. \/ killStatus(s, act) = s
        \/ s.phase = "Completing" /\ killStatus(s, act) = WithPhase(s, "Completed")
        \/ s.phase = "Terminating" /\ killStatus(s, act) = WithPhase(s, "Terminated")
    BY <1>6 DEF killStatus, completingState, terminatingState, WhenNoneAlive,
                WithPhase, P!Live, P!Finished
  <2> QED
    BY <1>1, <1>2, <1>6, <2>1 DEF P!EndMoves, P!Live
<1>7. CASE s.phase \in P!Finished
  BY <1>1, <1>7 DEF killStatus, finishedState, P!Finished, P!Live
<1> QED
  BY <1>0, <1>3, <1>4, <1>5, <1>6, <1>7 DEF P!Phases, P!Live, P!Finished

\* Every Execute that ends in SyncJob keeps the retry count and the version:
\* pendingState may go on to Running, runningState to Completed or Failed.
LEMMA SyncStatusResult ==
    ASSUME NEW j \in JobType, NEW s \in JobType
    PROVE  /\ syncStatus(j, s) \in JobType
           /\ syncStatus(j, s).version = s.version
           /\ syncStatus(j, s).retry = s.retry
           /\ syncStatus(j, s).phase \in
                {s.phase} \cup (IF j.phase = "Running" THEN {"Completed", "Failed"}
                                ELSE {"Running"})
<1>1. syncStatus(j, s) \in
        {s} \cup (IF j.phase = "Running"
                  THEN {WithPhase(s, "Completed"), WithPhase(s, "Failed")}
                  ELSE {WithPhase(s, "Running")})
  BY DEF syncStatus, runningSync, pendingSync, WithPhase
<1>2. ASSUME NEW ph \in {"Completed", "Failed", "Running"}
      PROVE  /\ WithPhase(s, ph) \in JobType
             /\ WithPhase(s, ph).version = s.version
             /\ WithPhase(s, ph).retry = s.retry
             /\ WithPhase(s, ph).phase = ph
  BY WithPhaseType DEF P!Phases
<1>3. CASE syncStatus(j, s) = s
  BY <1>3
<1>4. CASE j.phase = "Running" /\ syncStatus(j, s) = WithPhase(s, "Completed")
  BY <1>2, <1>4
<1>5. CASE j.phase = "Running" /\ syncStatus(j, s) = WithPhase(s, "Failed")
  BY <1>2, <1>5
<1>6. CASE j.phase # "Running" /\ syncStatus(j, s) = WithPhase(s, "Running")
  BY <1>2, <1>6
<1> QED
  BY <1>1, <1>3, <1>4, <1>5, <1>6

\* The worker's record is well typed once Execute has entered killJob or
\* syncJob.
LEMMA ExecuteType ==
    ASSUME NEW j \in JobType, NEW pods \in [Pods -> PodType],
           NEW r \in RequestType, NEW act \in Actions, NEW last \in BOOLEAN
    PROVE  Execute(j, pods, r, act, last) \in WorkerType
<1>1. CASE IsKill(j.phase, act)
  <2> DEFINE count == [p \in Pods |-> IF pods[p].deleting THEN "Terminating"
                                     ELSE pods[p].phase]
             new == [j EXCEPT !.version = @ + 1, !.obs = count]
  <2>1. count \in [Pods -> Counted]
    BY DEF PodType, Counted, PodPhases
  <2>2. \A n \in Nat : [j EXCEPT !.version = n, !.obs = count] \in JobType
    BY <2>1 DEF JobType
  <2>3. j.version + 1 \in Nat
    BY DEF JobType
  <2>4. new \in JobType
    BY <2>2, <2>3
  <2> QED
    BY <1>1, <2>4 DEF Execute, killJob, WorkerType, Idle
<1>2. CASE ~IsKill(j.phase, act)
  BY <1>2 DEF Execute, syncJob, WorkerType, Idle
<1> QED
  BY <1>1, <1>2

-----------------------------------------------------------------------------
\* j is a copy of the Job o of the API server, or of an older one: the
\* resource version tells which, and an equal resource version means equal
\* phase, retry count and version.
Copy(j, o) ==
    /\ j.rv <= o.rv
    /\ j.rv = o.rv => /\ j.phase = o.phase
                      /\ j.retry = o.retry
                      /\ j.version = o.version

\* What holds of the worker x while the API server holds o. Its copies are
\* copies of o or older. In killJob the status it is changing is the copy
\* with the version raised by one and nothing else that JobPhase looks at
\* changed; in syncJob it is the copy itself. So a write that the API server
\* does not refuse is based on o.
WorkerOK(x, o) ==
    /\ x \in WorkerType
    /\ x.pc # "idle" => Copy(x.job, o)
    /\ x.pc \notin {"idle", "kill"} => Copy(x.new, o)
    /\ x.pc = "kill" => /\ IsKill(x.new.phase, x.act)
                        /\ x.new.rv = x.job.rv /\ x.new.phase = x.job.phase
                        /\ x.new.retry = x.job.retry
                        /\ x.new.version = x.job.version + 1
    /\ x.pc = "init" => x.job.phase = "New" /\ x.new.phase = "New"
    /\ x.pc = "inited" => x.job.phase = "New" /\ x.new.phase = "Pending"
    /\ x.pc \in {"podgroup", "listed", "sync"} =>
         x.new.phase = IF x.job.phase = "Running" THEN "Running" ELSE "Pending"

\* A copy stays a copy when the API server moves on: its resource version
\* only grows.
LEMMA CopyOfNewer ==
    ASSUME NEW j \in JobType, NEW o \in JobType, NEW n \in JobType,
           n = o \/ n.rv > o.rv, Copy(j, o)
    PROVE  Copy(j, n)
  BY DEF Copy, JobType

\* So does everything said of the worker.
LEMMA WorkerOfNewer ==
    ASSUME NEW x, NEW o \in JobType, NEW n \in JobType,
           n = o \/ n.rv > o.rv, WorkerOK(x, o)
    PROVE  WorkerOK(x, n)
<1>1. x.job \in JobType /\ x.new \in JobType
  BY DEF WorkerOK, WorkerType
<1> QED
  BY <1>1, CopyOfNewer DEF WorkerOK

\* The placeholders of an idle worker have their types.
LEMMA EmptyJobType ==
    EmptyJob \in JobType
  BY ConstantsAssumption DEF EmptyJob, NewJob, JobType, P!Phases, Counted

\* A name that is not in use has the type of a pod.
LEMMA NoPodType ==
    NoPod \in PodType
  BY DEF NoPod, PodType

\* Nothing is claimed of an idle worker but its type.
LEMMA IdleOK ==
    ASSUME NEW o
    PROVE  WorkerOK(Idle, o)
<1>1. Idle \in WorkerType
  BY EmptyJobType, NoPodType
  DEF Idle, WorkerType, OutOfSync, Request, RequestType, Events, Actions
<1>2. Idle.pc = "idle"
  BY DEF Idle
<1> QED
  BY <1>1, <1>2 DEF WorkerOK

\* Execute, given a copy of the Job, starts killJob or syncJob in a state
\* the invariant allows.
LEMMA ExecuteOK ==
    ASSUME NEW o \in JobType, NEW j \in JobType, Copy(j, o),
           NEW pods \in [Pods -> PodType], NEW r \in RequestType,
           NEW act \in Actions, NEW last \in BOOLEAN
    PROVE  WorkerOK(Execute(j, pods, r, act, last), o)
<1> DEFINE x == Execute(j, pods, r, act, last)
<1>1. x \in WorkerType
  BY ExecuteType
<1>2. x.job = j /\ x.act = act
  BY DEF Execute, killJob, syncJob
<1>3. CASE IsKill(j.phase, act)
  <2>1. x.pc = "kill"
    BY <1>3 DEF Execute, killJob
  <2>2. /\ x.new.rv = j.rv /\ x.new.phase = j.phase
        /\ x.new.retry = j.retry /\ x.new.version = j.version + 1
    BY <1>3 DEF Execute, killJob, JobType
  <2> QED
    BY <1>1, <1>2, <1>3, <2>1, <2>2 DEF WorkerOK
<1>4. CASE ~IsKill(j.phase, act)
  <2>1. x.new = j /\ x.pc = IF j.phase = "New" THEN "init" ELSE "podgroup"
    BY <1>4 DEF Execute, syncJob
  <2>2. j.phase \in {"New", "Pending", "Running"}
    BY <1>4 DEF IsKill, P!Live
  <2> QED
    BY <1>1, <1>2, <2>1, <2>2 DEF WorkerOK
<1> QED
  BY <1>3, <1>4

\* applyPolicies always answers with an action.
LEMMA ApplyPoliciesType ==
    ASSUME NEW j, NEW r \in RequestType
    PROVE  applyPolicies(j, r) \in Actions
<1>1. /\ r.action \in Actions \cup {"None"} /\ r.event \in Events
      /\ "None" \notin Actions /\ "Sync" \in Actions
  BY DEF RequestType, Actions
<1>2. /\ JobPolicy[r.event] \in Actions \cup {"None"}
      /\ r.task \in Tasks => TaskPolicy[r.task][r.event] \in Actions \cup {"None"}
  BY <1>1, ConstantsAssumption
<1> QED
  BY <1>1, <1>2 DEF applyPolicies

-----------------------------------------------------------------------------
\* The inductive invariant, by parts: the work queue, ...
QueueOK ==
    /\ reqs \in Seq(RequestType) /\ again \in BOOLEAN
    /\ delayed \subseteq RequestType
    /\ DOMAIN tries \subseteq RequestType
    /\ \A r \in DOMAIN tries : tries[r] \in Nat

\* ... the pods in the API server, on their way and in the cache, ...
PodsOK ==
    /\ pod \in [Pods -> PodType] /\ podWatch \in Seq(PodEventType)
    /\ podSeen \in [Pods -> PodType] /\ cpod \in [Pods -> PodType]
    /\ rs \in Seq(PodEventType) /\ errTasks \subseteq Pods

\* ... the PodGroup, ...
GroupOK == pg \in PGType /\ pgSeen \in PGType /\ pgWatch \in Seq(PGType)

\* ... what users may still do, ...
UsersOK ==
    /\ cmds \subseteq Commands
    /\ left \in [Disturbances -> Nat] /\ unanswered \in BOOLEAN

\* ... and the Job: whatever the informer still has to deliver and whatever
\* the cache holds is a copy of it.
JobsOK ==
    /\ job \in JobType
    /\ jobWatch \in Seq(JobType)
    /\ \A i \in 1 .. Len(jobWatch) : Copy(jobWatch[i], job)
    /\ jobSeen \in JobType \cup {NoJob}
    /\ cjob \in JobType \cup {NoJob}
    /\ cjob # NoJob => Copy(cjob, job)

\* The whole of it.
Inv == QueueOK /\ PodsOK /\ GroupOK /\ UsersOK /\ JobsOK /\ WorkerOK(w, job)

\* The inductive invariant contains the type invariant.
LEMMA InvImpliesTypeOK ==
    Inv => TypeOK
  BY DEF Inv, QueueOK, PodsOK, GroupOK, UsersOK, JobsOK, WorkerOK, TypeOK

\* workqueue.Add keeps the queue well typed.
LEMMA AddOK ==
    ASSUME QueueOK, NEW r \in RequestType, Add(r)
    PROVE  reqs' \in Seq(RequestType) /\ again' \in BOOLEAN
<1>1. reqs \in Seq(RequestType) /\ again \in BOOLEAN
  BY DEF QueueOK
<1>2. Append(reqs, r) \in Seq(RequestType)
  BY <1>1
<1>3. reqs' \in {reqs, Append(reqs, r)}
  BY DEF Add
<1>4. again' \in {TRUE, again}
  BY DEF Add
<1> QED
  BY <1>1, <1>2, <1>3, <1>4

\* workqueue.Forget keeps the retry counters well typed.
LEMMA ForgetOK ==
    ASSUME QueueOK, NEW r, Forget(r)
    PROVE  /\ DOMAIN tries' \subseteq RequestType
           /\ \A x \in DOMAIN tries' : tries'[x] \in Nat
  BY DEF QueueOK, Forget

\* workqueue.AddRateLimited keeps the retry counters well typed.
LEMMA CountRequeueOK ==
    ASSUME QueueOK, NEW r \in RequestType, CountRequeue(r)
    PROVE  /\ DOMAIN tries' \subseteq RequestType
           /\ \A x \in DOMAIN tries' : tries'[x] \in Nat
<1>1. NumRequeues(r) + 1 \in Nat
  BY DEF QueueOK, NumRequeues
<1> QED
  BY <1>1 DEF QueueOK, CountRequeue

\* workqueue.Done puts a request that came again back into the queue and
\* frees the worker.
LEMMA DoneOK ==
    ASSUME QueueOK, WorkerOK(w, job), Done
    PROVE  /\ reqs' \in Seq(RequestType) /\ again' \in BOOLEAN
           /\ \A o : WorkerOK(w', o)
<1>1. w.req \in RequestType
  BY DEF WorkerOK, WorkerType
<1>2. reqs \in Seq(RequestType) /\ Append(reqs, w.req) \in Seq(RequestType)
  BY <1>1 DEF QueueOK
<1>3. reqs' \in {reqs, Append(reqs, w.req)} /\ again' = FALSE /\ w' = Idle
  BY DEF Done
<1> QED
  BY <1>2, <1>3, IdleOK

\* The end of processNextReq for a request that succeeded.
LEMMA SucceedOK ==
    ASSUME QueueOK, WorkerOK(w, job), Succeed
    PROVE  QueueOK' /\ \A o : WorkerOK(w', o)
<1>1. reqs' \in Seq(RequestType) /\ again' \in BOOLEAN /\ \A o : WorkerOK(w', o)
  BY DoneOK DEF Succeed
<1>2. /\ DOMAIN tries' \subseteq RequestType
      /\ \A x \in DOMAIN tries' : tries'[x] \in Nat
  BY ForgetOK DEF Succeed
<1>3. delayed' \subseteq RequestType
  BY DEF Succeed, QueueOK
<1> QED
  BY <1>1, <1>2, <1>3 DEF QueueOK

\* The end of processNextReq for a request that failed, the last attempt
\* with TerminateJob included: it starts from the same copy of the Job as
\* the attempt before it.
LEMMA RequeueOK ==
    ASSUME Inv, w.pc # "idle", Requeue
    PROVE  QueueOK' /\ WorkerOK(w', job)
<1>0. /\ QueueOK /\ WorkerOK(w, job) /\ job \in JobType
      /\ w.req \in RequestType /\ w.job \in JobType /\ Copy(w.job, job)
      /\ w.pods \in [Pods -> PodType]
  BY DEF Inv, JobsOK, WorkerOK, WorkerType
<1>1. CASE /\ Done
           /\ delayed' = delayed \cup {w.req}
           /\ IF MaxRequeueNum = -1 THEN UNCHANGED tries ELSE CountRequeue(w.req)
  <2>1. reqs' \in Seq(RequestType) /\ again' \in BOOLEAN /\ WorkerOK(w', job)
    BY <1>0, <1>1, DoneOK
  <2>2. /\ DOMAIN tries' \subseteq RequestType
        /\ \A x \in DOMAIN tries' : tries'[x] \in Nat
    BY <1>0, <1>1, CountRequeueOK DEF QueueOK
  <2>3. delayed' \subseteq RequestType
    BY <1>0, <1>1 DEF QueueOK
  <2> QED
    BY <2>1, <2>2, <2>3 DEF QueueOK
<1>2. CASE /\ w' = Execute(w.job, w.pods, w.req, "Terminate", TRUE)
           /\ UNCHANGED queue
  <2>1. WorkerOK(w', job)
    BY <1>0, <1>2, ExecuteOK DEF Actions
  <2>2. QueueOK'
    BY <1>0, <1>2 DEF queue, QueueOK
  <2> QED
    BY <2>1, <2>2
<1>3. CASE Succeed
  BY <1>0, <1>3, SucceedOK
<1> QED
  BY <1>1, <1>2, <1>3 DEF Requeue

\* A write of the Job raises the resource version or changes nothing, and
\* every copy anywhere is still a copy.
LEMMA StoreJobOK ==
    ASSUME JobsOK, NEW j \in JobType, StoreJob(j)
    PROVE  /\ job' \in JobType /\ jobWatch' \in Seq(JobType)
           /\ \A i \in 1 .. Len(jobWatch') : Copy(jobWatch'[i], job')
           /\ job' = job \/ job'.rv > job.rv
           /\ job'.phase = j.phase /\ job'.retry = j.retry
           /\ job'.version = j.version
           /\ cjob # NoJob => Copy(cjob, job')
<1>1. CASE j = job
  BY <1>1 DEF StoreJob, JobsOK
<1>2. CASE j # job
  <2>1. job' = [j EXCEPT !.rv = job.rv + 1] /\ jobWatch' = Append(jobWatch, job')
    BY <1>2 DEF StoreJob
  <2>2. \A n \in Nat \ {0} : [j EXCEPT !.rv = n] \in JobType
    BY DEF JobType
  <2>3. job' \in JobType
    <3>1. job.rv + 1 \in Nat \ {0}
      BY DEF JobType, JobsOK
    <3> QED
      BY <2>1, <2>2, <3>1
  <2>4. /\ job'.rv = job.rv + 1 /\ job'.phase = j.phase /\ job'.retry = j.retry
        /\ job'.version = j.version
    BY <2>1 DEF JobType
  <2>5. job'.rv > job.rv
    BY <2>4 DEF JobType, JobsOK
  <2>6. \A c \in JobType : Copy(c, job) => Copy(c, job')
    BY <2>3, <2>5, CopyOfNewer DEF JobsOK
  <2>7. jobWatch' \in Seq(JobType)
    BY <2>1, <2>3 DEF JobsOK
  <2>8. ASSUME NEW i \in 1 .. Len(jobWatch')
        PROVE  Copy(jobWatch'[i], job')
    <3>1. jobWatch \in Seq(JobType) /\ Len(jobWatch) \in Nat
      BY DEF JobsOK
    <3>2. CASE i \in 1 .. Len(jobWatch)
      <4>1. jobWatch'[i] = jobWatch[i] /\ jobWatch[i] \in JobType
        BY <2>1, <2>3, <3>1, <3>2
      <4> QED
        BY <2>6, <3>2, <4>1 DEF JobsOK
    <3>3. CASE i = Len(jobWatch) + 1
      <4>1. jobWatch'[i] = job'
        BY <2>1, <2>3, <3>1, <3>3
      <4> QED
        BY <4>1, <2>3 DEF Copy, JobType
    <3> QED
      BY <2>1, <2>3, <3>1, <3>2, <3>3
  <2>9. cjob # NoJob => Copy(cjob, job')
    BY <2>6 DEF JobsOK
  <2> QED
    BY <2>3, <2>4, <2>5, <2>7, <2>8, <2>9
<1> QED
  BY <1>1, <1>2

-----------------------------------------------------------------------------
\* A step of the worker that keeps what WorkerOK speaks of keeps WorkerOK.
LEMMA WorkerKept ==
    ASSUME NEW x, NEW y, NEW o, WorkerOK(x, o), y \in WorkerType,
           y.pc = x.pc, y.act = x.act, y.job = x.job, y.new.rv = x.new.rv,
           y.new.phase = x.new.phase, y.new.retry = x.new.retry,
           y.new.version = x.new.version
    PROVE  WorkerOK(y, o)
  BY DEF WorkerOK, Copy

\* Counting a pod under another heading keeps phase, retry count, version
\* and resource version.
LEMMA ObsType ==
    ASSUME NEW s \in JobType, NEW p \in Pods, NEW h \in Counted
    PROVE  /\ [s EXCEPT !.obs[p] = h] \in JobType
           /\ [s EXCEPT !.obs[p] = h].rv = s.rv
           /\ [s EXCEPT !.obs[p] = h].phase = s.phase
           /\ [s EXCEPT !.obs[p] = h].retry = s.retry
           /\ [s EXCEPT !.obs[p] = h].version = s.version
<1>1. [s.obs EXCEPT ![p] = h] \in [Pods -> Counted]
  BY DEF JobType
<1>2. \A f \in [Pods -> Counted] : [s EXCEPT !.obs = f] \in JobType
  BY DEF JobType
<1> QED
  BY <1>1, <1>2 DEF JobType

\* The worker after one of its calls about pods has come back.
WithCalls(x, n, a, b, e) == [x EXCEPT !.new = n, !.todo = a, !.extra = b, !.err = e]

\* A call about pods that has come back keeps WorkerOK ...
LEMMA WithCallsOK ==
    ASSUME NEW x, NEW o, WorkerOK(x, o), NEW n \in JobType,
           n.rv = x.new.rv, n.phase = x.new.phase, n.retry = x.new.retry,
           n.version = x.new.version,
           NEW a \in SUBSET Pods, NEW b \in SUBSET Pods, NEW e \in BOOLEAN
    PROVE  WorkerOK(WithCalls(x, n, a, b, e), o)
<1> DEFINE y == WithCalls(x, n, a, b, e)
<1>1. x \in WorkerType
  BY DEF WorkerOK
<1>2. y \in WorkerType
  BY <1>1 DEF WorkerType, WithCalls
<1>3. y.pc = x.pc /\ y.act = x.act /\ y.job = x.job /\ y.new = n
  BY <1>1 DEF WorkerType, WithCalls
<1> QED
  BY <1>2, <1>3, WorkerKept

\* ... when it succeeded and the pod is counted ...
LEMMA CountedPodOK ==
    ASSUME NEW x, NEW o, WorkerOK(x, o), NEW p \in Pods, NEW h \in Counted,
           NEW a \in SUBSET Pods, NEW b \in SUBSET Pods
    PROVE  WorkerOK([x EXCEPT !.todo = a, !.extra = b, !.new.obs[p] = h], o)
<1>1. x \in WorkerType /\ x.new \in JobType /\ x.err \in BOOLEAN
  BY DEF WorkerOK, WorkerType
<1> DEFINE n == [x.new EXCEPT !.obs[p] = h]
<1>2. WorkerOK(WithCalls(x, n, a, b, x.err), o)
  <2>1. /\ n \in JobType /\ n.rv = x.new.rv /\ n.phase = x.new.phase
        /\ n.retry = x.new.retry /\ n.version = x.new.version
    BY <1>1, ObsType
  <2> HIDE DEF n
  <2> QED
    BY <1>1, <2>1, WithCallsOK
<1>3. [x EXCEPT !.todo = a, !.extra = b, !.new.obs[p] = h]
        = WithCalls(x, n, a, b, x.err)
  BY <1>1 DEF WithCalls, WorkerType
<1> QED
  BY <1>2, <1>3

\* ... and when it failed.
LEMMA FailedCallOK ==
    ASSUME NEW x, NEW o, WorkerOK(x, o),
           NEW a \in SUBSET Pods, NEW b \in SUBSET Pods
    PROVE  WorkerOK([x EXCEPT !.todo = a, !.extra = b, !.err = TRUE], o)
<1>1. x \in WorkerType /\ x.new \in JobType
  BY DEF WorkerOK, WorkerType
<1>2. WorkerOK(WithCalls(x, x.new, a, b, TRUE), o)
  BY <1>1, WithCallsOK
<1>3. [x EXCEPT !.todo = a, !.extra = b, !.err = TRUE]
        = WithCalls(x, x.new, a, b, TRUE)
  BY <1>1 DEF WithCalls, WorkerType
<1> QED
  BY <1>2, <1>3

-----------------------------------------------------------------------------
\* A disturbance takes one from its budget.
LEMMA SpendOK ==
    ASSUME UsersOK, NEW d \in Disturbances, Spend(d), cmds' \subseteq Commands
    PROVE  UsersOK'
<1>1. left \in [Disturbances -> Nat] /\ left[d] - 1 \in Nat
  BY DEF UsersOK, Spend
<1>2. left' = [left EXCEPT ![d] = left[d] - 1]
  BY DEF Spend
<1>3. left' \in [Disturbances -> Nat]
  BY <1>1, <1>2
<1>4. unanswered' \in BOOLEAN
  BY DEF Spend
<1> QED
  BY <1>3, <1>4 DEF UsersOK

\* A write of a pod, and the event it causes.
LEMMA StorePodOK ==
    ASSUME PodsOK, NEW p \in Pods, NEW x \in PodType, StorePod(p, x)
    PROVE  pod' \in [Pods -> PodType] /\ podWatch' \in Seq(PodEventType)
<1>1. [name |-> p, obj |-> x] \in PodEventType
  BY DEF PodEventType
<1>2. podWatch' \in Seq(PodEventType)
  BY <1>1 DEF PodsOK, StorePod
<1>3. pod' \in [Pods -> PodType]
  BY DEF PodsOK, StorePod
<1> QED
  BY <1>2, <1>3

\* A deletion of a pod, and the event it causes.
LEMMA DeleteByNameOK ==
    ASSUME PodsOK, NEW p \in Pods, DeleteByName(p)
    PROVE  pod' \in [Pods -> PodType] /\ podWatch' \in Seq(PodEventType)
<1>1. CASE UNCHANGED <<pod, podWatch>>
  BY <1>1 DEF PodsOK
<1>2. CASE StorePod(p, [pod[p] EXCEPT !.deleting = TRUE])
  <2>1. [pod[p] EXCEPT !.deleting = TRUE] \in PodType
    BY DEF PodsOK, PodType
  <2> QED
    BY <1>2, <2>1, StorePodOK
<1> QED
  BY <1>1, <1>2 DEF DeleteByName

\* A write of the PodGroup, and the event it causes.
LEMMA StorePGOK ==
    ASSUME GroupOK, NEW x \in PGType, StorePG(x)
    PROVE  pg' \in PGType /\ pgWatch' \in Seq(PGType)
  BY DEF GroupOK, StorePG

\* The parts of the invariant hold on where their variables are left alone.
LEMMA QueueFrame ==
    ASSUME QueueOK, UNCHANGED queue
    PROVE  QueueOK'
  BY DEF QueueOK, queue

\* The pods, left alone.
LEMMA PodsFrame ==
    ASSUME PodsOK, UNCHANGED <<pod, podWatch, podSeen, cpod, rs, errTasks>>
    PROVE  PodsOK'
  BY DEF PodsOK

\* The PodGroup, left alone.
LEMMA GroupFrame ==
    ASSUME GroupOK, UNCHANGED <<pg, pgSeen, pgWatch>>
    PROVE  GroupOK'
  BY DEF GroupOK

\* Users and budgets, left alone.
LEMMA UsersFrame ==
    ASSUME UsersOK, UNCHANGED <<cmds, budget>>
    PROVE  UsersOK'
  BY DEF UsersOK, budget

\* The Job and its copies, left alone.
LEMMA JobsFrame ==
    ASSUME JobsOK, UNCHANGED <<job, jobWatch, jobSeen, cjob>>
    PROVE  JobsOK'
  BY DEF JobsOK, Copy

\* The worker, left alone.
LEMMA WorkerFrame ==
    ASSUME WorkerOK(w, job), UNCHANGED <<w, job>>
    PROVE  WorkerOK(w, job)'
  BY DEF WorkerOK, Copy

\* JobsOK after a write of the Job.
LEMMA StoredJobOK ==
    ASSUME JobsOK, NEW j \in JobType, StoreJob(j), UNCHANGED <<jobSeen, cjob>>
    PROVE  JobsOK'
<1>1. /\ job' \in JobType /\ jobWatch' \in Seq(JobType)
      /\ \A i \in 1 .. Len(jobWatch') : Copy(jobWatch'[i], job')
      /\ cjob # NoJob => Copy(cjob, job')
  BY StoreJobOK
<1>2. (cjob # NoJob => Copy(cjob, job))'
  BY <1>1 DEF Copy
<1>3. (\A i \in 1 .. Len(jobWatch) : Copy(jobWatch[i], job))'
  BY <1>1 DEF Copy
<1> QED
  BY <1>1, <1>2, <1>3 DEF JobsOK

-----------------------------------------------------------------------------
\* processNextReq keeps the invariant: the cache it copies holds a copy of
\* the Job, or none.
LEMMA ProcessNextReqOK ==
    ASSUME Inv, processNextReq
    PROVE  Inv'
<1>0. QueueOK /\ PodsOK /\ GroupOK /\ UsersOK /\ JobsOK /\ WorkerOK(w, job)
  BY DEF Inv
<1>1. PodsOK' /\ GroupOK' /\ UsersOK' /\ JobsOK'
  BY <1>0, PodsFrame, GroupFrame, UsersFrame, JobsFrame
  DEF processNextReq, api, watch
<1>2. Head(reqs) \in RequestType /\ Tail(reqs) \in Seq(RequestType)
  BY <1>0 DEF processNextReq, QueueOK
<1>3. QueueOK'
  <2>1. reqs' \in Seq(RequestType) /\ again' \in BOOLEAN /\ delayed' \subseteq RequestType
    BY <1>0, <1>2 DEF processNextReq, QueueOK
  <2>2. /\ DOMAIN tries' \subseteq RequestType
        /\ \A x \in DOMAIN tries' : tries'[x] \in Nat
    <3>1. CASE UNCHANGED tries
      BY <1>0, <3>1 DEF QueueOK
    <3>2. CASE Forget(Head(reqs))
      BY <1>0, <3>2, ForgetOK
    <3> QED
      BY <3>1, <3>2 DEF processNextReq
  <2> QED
    BY <2>1, <2>2 DEF QueueOK
<1>4. WorkerOK(w', job)
  <2>1. CASE UNCHANGED w
    BY <1>0, <2>1
  <2>2. CASE /\ cjob # NoJob
             /\ w' = Execute(cjob, cpod, Head(reqs),
                             applyPolicies(cjob, Head(reqs)), FALSE)
    <3>1. cjob \in JobType /\ Copy(cjob, job) /\ job \in JobType
      BY <1>0, <2>2 DEF JobsOK
    <3>2. applyPolicies(cjob, Head(reqs)) \in Actions
      BY <1>2, ApplyPoliciesType
    <3> QED
      BY <1>0, <1>2, <2>2, <3>1, <3>2, ExecuteOK DEF PodsOK
  <2> QED
    BY <2>1, <2>2 DEF processNextReq
<1>5. job' = job
  BY DEF processNextReq, api
<1> QED
  BY <1>1, <1>3, <1>4, <1>5 DEF Inv

\* One pod deletion of killJob or of the scale-down keeps the invariant.
LEMMA DeleteJobPodOK ==
    ASSUME Inv, NEW p \in Pods, deleteJobPod(p)
    PROVE  Inv'
<1>0. QueueOK /\ PodsOK /\ GroupOK /\ UsersOK /\ JobsOK /\ WorkerOK(w, job)
  BY DEF Inv
<1>1. QueueOK' /\ GroupOK' /\ JobsOK' /\ job' = job
  BY <1>0, QueueFrame, GroupFrame, JobsFrame DEF deleteJobPod
<1>2. w.todo \ {p} \in SUBSET Pods /\ w.extra \ {p} \in SUBSET Pods
  BY <1>0 DEF WorkerOK, WorkerType
<1>3. CASE /\ DeleteByName(p)
           /\ w' = [w EXCEPT !.todo = @ \ {p}, !.extra = @ \ {p},
                             !.new.obs[p] = "Terminating"]
           /\ UNCHANGED <<errTasks, budget>>
  <2>1. PodsOK'
    BY <1>0, <1>3, DeleteByNameOK DEF deleteJobPod, PodsOK
  <2>2. UsersOK'
    BY <1>0, <1>3, UsersFrame DEF deleteJobPod
  <2>3. WorkerOK(w', job)
    BY <1>0, <1>2, <1>3, CountedPodOK DEF Counted
  <2> QED
    BY <1>1, <2>1, <2>2, <2>3 DEF Inv
<1>4. CASE /\ Spend("err")
           /\ w' = [w EXCEPT !.todo = @ \ {p}, !.extra = @ \ {p}, !.err = TRUE]
           /\ errTasks' = errTasks \cup {p}
           /\ UNCHANGED <<pod, podWatch>>
  <2>1. PodsOK'
    BY <1>0, <1>4 DEF deleteJobPod, PodsOK
  <2>2. UsersOK'
    <3>1. "err" \in Disturbances /\ cmds' \subseteq Commands
      BY <1>0 DEF deleteJobPod, Disturbances, UsersOK
    <3> QED
      BY <1>0, <1>4, <3>1, SpendOK
  <2>3. WorkerOK(w', job)
    BY <1>0, <1>2, <1>4, FailedCallOK
  <2> QED
    BY <1>1, <2>1, <2>2, <2>3 DEF Inv
<1> QED
  BY <1>3, <1>4 DEF deleteJobPod

\* One pod creation of syncJob keeps the invariant.
LEMMA CreatePodOK ==
    ASSUME Inv, NEW p \in Pods, createPod(p)
    PROVE  Inv'
<1>0. QueueOK /\ PodsOK /\ GroupOK /\ UsersOK /\ JobsOK /\ WorkerOK(w, job)
  BY DEF Inv
<1>1. QueueOK' /\ GroupOK' /\ JobsOK' /\ job' = job
  BY <1>0, QueueFrame, GroupFrame, JobsFrame DEF createPod
<1>2. w \in WorkerType /\ w.todo \ {p} \in SUBSET Pods /\ w.extra \in SUBSET Pods
  BY <1>0 DEF WorkerOK, WorkerType
<1>3. ASSUME NEW h \in Counted,
             w' = [w EXCEPT !.todo = @ \ {p}, !.new.obs[p] = h]
      PROVE  WorkerOK(w', job)
  <2>1. w' = [w EXCEPT !.todo = w.todo \ {p}, !.extra = w.extra, !.new.obs[p] = h]
    BY <1>2, <1>3 DEF WorkerType
  <2> QED
    BY <1>0, <1>2, <2>1, CountedPodOK
<1>4. CASE /\ StorePod(p, createJobPod(w.new))
           /\ w' = [w EXCEPT !.todo = @ \ {p}, !.new.obs[p] = "Pending"]
           /\ UNCHANGED budget
  <2>1. createJobPod(w.new) \in PodType
    BY <1>2 DEF createJobPod, PodType, PodPhases, WorkerType, JobType
  <2>2. PodsOK'
    BY <1>0, <1>4, <2>1, StorePodOK DEF createPod, PodsOK
  <2>3. WorkerOK(w', job)
    BY <1>3, <1>4 DEF Counted, PodPhases
  <2>4. UsersOK'
    BY <1>0, <1>4, UsersFrame DEF createPod
  <2> QED
    BY <1>1, <2>2, <2>3, <2>4 DEF Inv
<1>5. CASE /\ w' = [w EXCEPT !.todo = @ \ {p}, !.new.obs[p] = "Unknown"]
           /\ UNCHANGED <<pod, podWatch, budget>>
  <2>1. PodsOK' /\ UsersOK'
    BY <1>0, <1>5, PodsFrame, UsersFrame DEF createPod
  <2>2. WorkerOK(w', job)
    BY <1>3, <1>5 DEF Counted
  <2> QED
    BY <1>1, <2>1, <2>2 DEF Inv
<1>6. CASE /\ Spend("err")
           /\ w' = [w EXCEPT !.todo = @ \ {p}, !.extra = {}, !.err = TRUE]
           /\ UNCHANGED <<pod, podWatch>>
  <2>1. PodsOK'
    BY <1>0, <1>6, PodsFrame DEF createPod
  <2>2. UsersOK'
    <3>1. "err" \in Disturbances /\ cmds' \subseteq Commands
      BY <1>0 DEF createPod, Disturbances, UsersOK
    <3> QED
      BY <1>0, <1>6, <3>1, SpendOK
  <2>3. WorkerOK(w', job)
    BY <1>0, <1>2, <1>6, FailedCallOK
  <2> QED
    BY <1>1, <2>1, <2>2, <2>3 DEF Inv
<1> QED
  BY <1>4, <1>5, <1>6 DEF createPod

\* waitDependsOnTaskMeetCondition keeps the invariant.
LEMMA WaitDependsOnOK ==
    ASSUME Inv, NEW t \in Tasks, waitDependsOnTaskMeetCondition(t)
    PROVE  Inv'
<1>0. QueueOK /\ PodsOK /\ GroupOK /\ UsersOK /\ JobsOK /\ WorkerOK(w, job)
  BY DEF Inv
<1>1. /\ QueueOK' /\ PodsOK' /\ GroupOK' /\ UsersOK' /\ JobsOK' /\ job' = job
  BY <1>0, QueueFrame, PodsFrame, GroupFrame, UsersFrame, JobsFrame
  DEF waitDependsOnTaskMeetCondition, api, watch
<1>2. PICK n \in Nat : w' = [w EXCEPT !.met[t] = n]
  <2>1. Len(DependsOn[t]) \in Nat
    BY ConstantsAssumption
  <2>2. w.met[t] + 1 \in Nat
    BY <1>0 DEF WorkerOK, WorkerType
  <2> QED
    BY <2>1, <2>2 DEF waitDependsOnTaskMeetCondition
<1>3. w \in WorkerType
  BY <1>0 DEF WorkerOK
<1>4. w' \in WorkerType
  <2>1. [w.met EXCEPT ![t] = n] \in [Tasks -> Nat]
    BY <1>3 DEF WorkerType
  <2>2. \A f \in [Tasks -> Nat] : [w EXCEPT !.met = f] \in WorkerType
    BY <1>3 DEF WorkerType
  <2> QED
    BY <1>2, <1>3, <2>1, <2>2 DEF WorkerType
<1>5. w'.pc = w.pc /\ w'.act = w.act /\ w'.job = w.job /\ w'.new = w.new
  BY <1>2, <1>3 DEF WorkerType
<1>6. WorkerOK(w', job)
  BY <1>0, <1>4, <1>5, WorkerKept
<1> QED
  BY <1>1, <1>6 DEF Inv

\* Giving up after failed calls about pods keeps the invariant.
LEMMA PodCallsFailedOK ==
    ASSUME Inv, podCallsFailed
    PROVE  Inv'
<1>0. QueueOK /\ PodsOK /\ GroupOK /\ UsersOK /\ JobsOK /\ WorkerOK(w, job)
  BY DEF Inv
<1>1. PodsOK' /\ GroupOK' /\ UsersOK' /\ JobsOK' /\ job' = job
  BY <1>0, PodsFrame, GroupFrame, UsersFrame, JobsFrame
  DEF podCallsFailed, api, watch
<1>2. w.pc # "idle" /\ Requeue
  BY DEF podCallsFailed, CallsDone
<1>3. QueueOK' /\ WorkerOK(w', job)
  BY <1>2, RequeueOK
<1> QED
  BY <1>1, <1>3 DEF Inv

\* The status t comes after s in one step of JobPhase, or in none.
Follows(s, t) ==
    \/ P!SyncStep(s.phase, s.retry, s.version, t.phase, t.retry, t.version)
    \/ P!KillStep(s.phase, s.retry, s.version, t.phase, t.retry, t.version)
    \/ t.phase = s.phase /\ t.retry = s.retry /\ t.version = s.version

\* The heart of the refinement: what UpdateStatus writes, when the API
\* server does not refuse it, follows from what is stored.
LEMMA NewStatusFollows ==
    ASSUME Inv, w.pc \in {"init", "kill", "sync"}, ~Conflict
    PROVE  /\ NewStatus \in JobType
           /\ Follows(job, NewStatus)
           /\ w.pc = "init" => NewStatus.phase = "Pending"
<1>0. /\ job \in JobType /\ w \in WorkerType /\ WorkerOK(w, job)
      /\ w.new \in JobType /\ w.job \in JobType /\ w.new.rv = job.rv
  BY DEF Inv, JobsOK, WorkerOK, WorkerType, Conflict
<1>1. CASE w.pc = "kill"
  <2>1. NewStatus = killStatus(w.new, w.act)
    BY <1>1 DEF NewStatus
  <2>2. /\ IsKill(w.new.phase, w.act)
        /\ w.new.phase = job.phase /\ w.new.retry = job.retry
        /\ w.new.version = job.version + 1
    BY <1>0, <1>1 DEF WorkerOK, Copy
  <2>3. KillResult(w.new, NewStatus)
    BY <1>0, <2>1, <2>2, KillStatusResult
  <2> QED
    BY <1>1, <2>2, <2>3 DEF KillResult, Follows, P!KillStep
<1>2. CASE w.pc = "init"
  <2>1. NewStatus = [w.new EXCEPT !.phase = "Pending", !.smin = w.new.min]
    BY <1>2 DEF NewStatus
  <2>2. NewStatus \in JobType
    BY <1>0, <2>1 DEF JobType, P!Phases
  <2>3. /\ NewStatus.phase = "Pending" /\ NewStatus.retry = w.new.retry
        /\ NewStatus.version = w.new.version
    BY <1>0, <2>1 DEF JobType
  <2>4. /\ job.phase = "New" /\ w.new.retry = job.retry
        /\ w.new.version = job.version
    BY <1>0, <1>2 DEF WorkerOK, Copy
  <2> QED
    BY <2>2, <2>3, <2>4 DEF Follows, P!SyncStep, P!SyncMoves
<1>3. CASE w.pc = "sync"
  <2>1. NewStatus = syncStatus(w.job, w.new)
    BY <1>3 DEF NewStatus
  <2>2. /\ w.new.phase = IF w.job.phase = "Running" THEN "Running" ELSE "Pending"
        /\ job.phase = w.new.phase /\ w.new.retry = job.retry
        /\ w.new.version = job.version
    BY <1>0, <1>3 DEF WorkerOK, Copy
  <2>3. /\ NewStatus \in JobType /\ NewStatus.version = job.version
        /\ NewStatus.retry = job.retry
        /\ NewStatus.phase \in {job.phase} \cup
             (IF w.job.phase = "Running" THEN {"Completed", "Failed"}
              ELSE {"Running"})
    BY <1>0, <2>1, <2>2, SyncStatusResult
  <2> QED
    BY <1>3, <2>2, <2>3 DEF Follows, P!SyncStep, P!SyncMoves
<1> QED
  BY <1>1, <1>2, <1>3

\* UpdateStatus keeps the invariant and takes a step of JobPhase, whether
\* the reply arrives, is lost, or the write is refused.
LEMMA UpdateStatusOK ==
    ASSUME Inv, UpdateStatus
    PROVE  Inv' /\ Follows(job, job')
<1>0. QueueOK /\ PodsOK /\ GroupOK /\ UsersOK /\ JobsOK /\ WorkerOK(w, job)
  BY DEF Inv
<1>1. PodsOK' /\ GroupOK'
  BY <1>0, PodsFrame, GroupFrame DEF UpdateStatus
<1>2. w.pc \in {"init", "kill", "sync"} /\ w.pc # "idle" /\ job \in JobType
  BY <1>0 DEF UpdateStatus, CallsDone, JobsOK
<1>3. ASSUME ~Conflict, StoreJob(NewStatus)
      PROVE  /\ JobsOK' /\ Follows(job, job') /\ job' \in JobType
             /\ job' = job \/ job'.rv > job.rv
             /\ w.pc = "init" => job'.phase = "Pending"
  <2>1. /\ NewStatus \in JobType /\ Follows(job, NewStatus)
        /\ w.pc = "init" => NewStatus.phase = "Pending"
    BY <1>2, <1>3, NewStatusFollows
  <2>2. /\ job' \in JobType
        /\ job' = job \/ job'.rv > job.rv
        /\ job'.phase = NewStatus.phase /\ job'.retry = NewStatus.retry
        /\ job'.version = NewStatus.version
    BY <1>0, <1>3, <2>1, StoreJobOK
  <2>3. JobsOK'
    BY <1>0, <1>3, <2>1, StoredJobOK DEF UpdateStatus
  <2>4. Follows(job, job')
    BY <2>1, <2>2 DEF Follows, P!SyncStep, P!KillStep
  <2> QED
    BY <2>1, <2>2, <2>3, <2>4
<1>4. CASE /\ ~Conflict
           /\ StoreJob(NewStatus)
           /\ w' = [w EXCEPT !.new = job',
                             !.pc = CASE @ = "kill" -> "killed"
                                      [] @ = "init" -> "inited"
                                      [] @ = "sync" -> "synced"]
           /\ UNCHANGED <<queue, budget>>
  <2>1. QueueOK' /\ UsersOK'
    BY <1>0, <1>4, QueueFrame, UsersFrame DEF UpdateStatus
  <2>2. /\ JobsOK' /\ Follows(job, job') /\ job' \in JobType
        /\ job' = job \/ job'.rv > job.rv
        /\ w.pc = "init" => job'.phase = "Pending"
    BY <1>3, <1>4
  <2>3. w \in WorkerType /\ WorkerOK(w, job')
    BY <1>0, <1>2, <2>2, WorkerOfNewer DEF WorkerOK
  <2>4. /\ w'.job = w.job /\ w'.new = job' /\ w'.pc \in {"killed", "inited", "synced"}
        /\ w'.pc = "inited" => w.pc = "init"
    BY <1>2, <1>4, <2>3 DEF WorkerType
  <2>5. w' \in WorkerType
    <3>1. \A pc \in {"killed", "inited", "synced"} :
            [w EXCEPT !.new = job', !.pc = pc] \in WorkerType
      BY <2>2, <2>3 DEF WorkerType
    <3>2. w' = [w EXCEPT !.new = job', !.pc = w'.pc]
      BY <1>4, <2>3, <2>4 DEF WorkerType
    <3> QED
      BY <2>4, <3>1, <3>2
  <2>6. Copy(job', job')
    BY <2>2 DEF Copy, JobType
  <2>7. WorkerOK(w', job')
    BY <1>2, <2>2, <2>3, <2>4, <2>5, <2>6 DEF WorkerOK
  <2> QED
    BY <1>1, <2>1, <2>2, <2>7 DEF Inv
<1>5. CASE Requeue /\ UNCHANGED <<job, jobWatch>> /\ (UNCHANGED budget \/ Spend("err"))
  <2>1. JobsOK' /\ job' = job
    BY <1>0, <1>5, JobsFrame DEF UpdateStatus
  <2>2. QueueOK' /\ WorkerOK(w', job)
    BY <1>2, <1>5, RequeueOK
  <2>3. UsersOK'
    <3>1. "err" \in Disturbances /\ cmds' = cmds /\ cmds \subseteq Commands
      BY <1>0 DEF Disturbances, UpdateStatus, UsersOK
    <3> QED
      BY <1>0, <1>5, <3>1, SpendOK, UsersFrame
  <2> QED
    BY <1>1, <2>1, <2>2, <2>3 DEF Inv, Follows
<1>6. CASE ~Conflict /\ Spend("lost") /\ StoreJob(NewStatus) /\ Requeue
  <2>1. /\ JobsOK' /\ Follows(job, job') /\ job' \in JobType
        /\ job' = job \/ job'.rv > job.rv
    BY <1>3, <1>6
  <2>2. QueueOK' /\ WorkerOK(w', job)
    BY <1>2, <1>6, RequeueOK
  <2>3. WorkerOK(w', job')
    BY <1>2, <2>1, <2>2, WorkerOfNewer
  <2>4. UsersOK'
    <3>1. "lost" \in Disturbances /\ cmds' \subseteq Commands
      BY <1>0 DEF Disturbances, UpdateStatus, UsersOK
    <3> QED
      BY <1>0, <1>6, <3>1, SpendOK
  <2> QED
    BY <1>1, <2>1, <2>2, <2>3, <2>4 DEF Inv
<1> QED
  BY <1>4, <1>5, <1>6 DEF UpdateStatus

\* cache.Update and the end of killJob, of initiateJob and of syncJob keep
\* the invariant.
LEMMA CacheUpdateOK ==
    ASSUME Inv, cacheUpdate
    PROVE  Inv'
<1>0. QueueOK /\ PodsOK /\ GroupOK /\ UsersOK /\ JobsOK /\ WorkerOK(w, job)
  BY DEF Inv
<1>1. PodsOK' /\ job' = job /\ w.pc # "idle" /\ w \in WorkerType
  BY <1>0, PodsFrame DEF cacheUpdate, WorkerOK
<1>2. JobsOK'
  <2>1. w.new \in JobType /\ Copy(w.new, job)
    BY <1>0 DEF cacheUpdate, WorkerOK, WorkerType
  <2>2. cjob' = cjob \/ cjob' = w.new
    BY DEF cacheUpdate
  <2>3. cjob' \in JobType \cup {NoJob} /\ (cjob' # NoJob => Copy(cjob', job))
    BY <1>0, <2>1, <2>2 DEF JobsOK
  <2>4. (cjob # NoJob => Copy(cjob, job))'
    BY <1>1, <2>3 DEF Copy
  <2>5. (\A i \in 1 .. Len(jobWatch) : Copy(jobWatch[i], job))'
    BY <1>0, <1>1 DEF cacheUpdate, JobsOK, Copy
  <2> QED
    BY <1>0, <2>3, <2>4, <2>5 DEF JobsOK, cacheUpdate
<1>3. GroupOK'
  <2>1. NoPG \in PGType
    BY DEF NoPG, PGType
  <2>2. UNCHANGED <<pg, pgWatch>> \/ StorePG(NoPG)
    BY DEF cacheUpdate, deletePodGroup
  <2> QED
    BY <1>0, <2>1, <2>2, StorePGOK DEF GroupOK, cacheUpdate
<1>4. UsersOK'
  <2>1. "err" \in Disturbances /\ cmds' = cmds /\ cmds \subseteq Commands
    BY <1>0 DEF Disturbances, cacheUpdate, UsersOK
  <2>2. UNCHANGED budget \/ Spend("err")
    BY DEF cacheUpdate, deletePodGroup
  <2> QED
    BY <1>0, <2>1, <2>2, SpendOK, UsersFrame
<1>5. QueueOK' /\ WorkerOK(w', job)
  <2>1. CASE Requeue
    BY <1>1, <2>1, RequeueOK
  <2>2. CASE Succeed
    BY <1>0, <2>2, SucceedOK
  <2>3. CASE /\ w.pc = "inited" /\ UNCHANGED queue
             /\ w' = [w EXCEPT !.pc = "podgroup"]
    <3>1. w' \in WorkerType /\ w'.pc = "podgroup" /\ w'.new = w.new /\ w'.job = w.job
      BY <1>1, <2>3 DEF WorkerType
    <3>2. WorkerOK(w', job)
      BY <1>0, <2>3, <3>1 DEF WorkerOK
    <3> QED
      BY <1>0, <2>3, <3>2, QueueFrame
  <2> QED
    BY <2>1, <2>2, <2>3 DEF cacheUpdate, deletePodGroup
<1> QED
  BY <1>1, <1>2, <1>3, <1>4, <1>5 DEF Inv

\* Sorting the pods of the copy into expected, missing and surplus ones
\* keeps WorkerOK.
LEMMA ClassifyPodsOK ==
    ASSUME WorkerOK(w, job), w.pc = "listed", classifyPods
    PROVE  WorkerOK(w', job)
<1> DEFINE want    == Expected(w.new)
           present == {p \in Pods : w.pods[p] # NoPod}
           count   == [p \in Pods |->
                         CASE p \notin want \cap present -> "Absent"
                           [] p \in want \cap present /\ w.pods[p].deleting ->
                                "Terminating"
                           [] OTHER -> w.pods[p].phase]
           rest    == [p \in Pods |-> IF p \in want THEN NoPod ELSE w.pods[p]]
           new     == [w.new EXCEPT !.obs = count, !.smin = w.new.min]
<1>1. w \in WorkerType /\ w.new \in JobType /\ w.pods \in [Pods -> PodType]
  BY DEF WorkerOK, WorkerType
<1>2. count \in [Pods -> Counted]
  <2> SUFFICES ASSUME NEW p \in Pods
               PROVE  count[p] \in Counted
    OBVIOUS
  <2>1. w.pods[p] \in PodType
    BY <1>1
  <2>2. count[p] \in {"Absent", "Terminating", w.pods[p].phase}
    OBVIOUS
  <2> QED
    BY <2>1, <2>2 DEF PodType, Counted
<1>3. rest \in [Pods -> PodType]
  BY <1>1, NoPodType
<1>4. \A c \in [Pods -> Counted] :
        LET n == [w.new EXCEPT !.obs = c, !.smin = w.new.min]
        IN  /\ n \in JobType /\ n.rv = w.new.rv /\ n.phase = w.new.phase
            /\ n.retry = w.new.retry /\ n.version = w.new.version
  BY <1>1 DEF JobType
<1>5. /\ new \in JobType /\ new.rv = w.new.rv /\ new.phase = w.new.phase
      /\ new.retry = w.new.retry /\ new.version = w.new.version
  BY <1>2, <1>4
<1>6. want \subseteq Pods /\ present \subseteq Pods
  BY DEF Expected
<1>7. w' = [w EXCEPT !.pc = "sync", !.todo = want \ present,
                     !.extra = present \ want, !.new = new, !.pods = rest]
  BY <1>1 DEF classifyPods, WorkerType
<1> HIDE DEF want, present, count, rest, new
<1>8. w' \in WorkerType
  BY <1>1, <1>3, <1>5, <1>6, <1>7 DEF WorkerType
<1>9. w'.pc = "sync" /\ w'.new = new /\ w'.job = w.job
  BY <1>1, <1>7 DEF WorkerType
<1> QED
  BY <1>5, <1>8, <1>9 DEF WorkerOK, Copy

\* createOrUpdatePodGroup hands over to the rest of syncJob.
LEMMA PodGroupDoneOK ==
    ASSUME QueueOK, WorkerOK(w, job), w.pc = "podgroup", PodGroupDone
    PROVE  QueueOK' /\ WorkerOK(w', job)
<1>1. QueueOK'
  BY QueueFrame DEF PodGroupDone
<1>2. w' \in WorkerType /\ w'.pc = "listed" /\ w'.new = w.new /\ w'.job = w.job
  BY DEF PodGroupDone, WorkerOK, WorkerType
<1> QED
  BY <1>1, <1>2 DEF WorkerOK

\* The second look at the PodGroup keeps the invariant.
LEMMA ReadPodGroupOK ==
    ASSUME Inv, readPodGroup
    PROVE  Inv'
<1>0. QueueOK /\ PodsOK /\ GroupOK /\ UsersOK /\ JobsOK /\ WorkerOK(w, job)
  BY DEF Inv
<1>1. /\ QueueOK' /\ PodsOK' /\ GroupOK' /\ UsersOK' /\ JobsOK'
      /\ job' = job /\ w.pc = "listed"
  BY <1>0, QueueFrame, PodsFrame, GroupFrame, UsersFrame, JobsFrame
  DEF readPodGroup, api, watch, queue
<1>2. WorkerOK(w', job)
  <2>1. CASE classifyPods
    BY <1>0, <1>1, <2>1, ClassifyPodsOK
  <2>2. CASE w' = [w EXCEPT !.pc = "sync"]
    <3>1. w' \in WorkerType /\ w'.pc = "sync" /\ w'.new = w.new /\ w'.job = w.job
      BY <1>0, <2>2 DEF WorkerOK, WorkerType
    <3> QED
      BY <1>0, <1>1, <3>1 DEF WorkerOK
  <2> QED
    BY <2>1, <2>2 DEF readPodGroup
<1> QED
  BY <1>1, <1>2 DEF Inv

\* createOrUpdatePodGroup keeps the invariant.
LEMMA CreateOrUpdatePodGroupOK ==
    ASSUME Inv, createOrUpdatePodGroup
    PROVE  Inv'
<1>0. QueueOK /\ PodsOK /\ GroupOK /\ UsersOK /\ JobsOK /\ WorkerOK(w, job)
  BY DEF Inv
<1>1. PodsOK' /\ JobsOK' /\ job' = job /\ w.pc = "podgroup"
  BY <1>0, PodsFrame, JobsFrame DEF createOrUpdatePodGroup
<1>2. QueueOK' /\ WorkerOK(w', job)
  <2>1. CASE PodGroupDone
    BY <1>0, <1>1, <2>1, PodGroupDoneOK
  <2>2. CASE Requeue
    BY <1>1, <2>2, RequeueOK
  <2> QED
    BY <2>1, <2>2 DEF createOrUpdatePodGroup
<1>3. UsersOK'
  <2>1. "err" \in Disturbances /\ cmds' = cmds /\ cmds \subseteq Commands
    BY <1>0 DEF Disturbances, createOrUpdatePodGroup, UsersOK
  <2>2. UNCHANGED budget \/ Spend("err")
    BY DEF createOrUpdatePodGroup
  <2> QED
    BY <1>0, <2>1, <2>2, SpendOK, UsersFrame
<1>4. GroupOK'
  <2>1. /\ w.new.min \in Nat /\ pg \in PGType /\ pgSeen \in PGType
        /\ pgWatch \in Seq(PGType)
    BY <1>0 DEF WorkerOK, WorkerType, JobType, GroupOK
  <2>2. /\ [phase |-> "Pending", min |-> w.new.min] \in PGType
        /\ [pg EXCEPT !.min = w.new.min] \in PGType
        /\ [pgSeen EXCEPT !.min = w.new.min] \in PGType
    BY <2>1 DEF PGType
  <2>3. pgSeen' \in PGType
    BY <2>1, <2>2 DEF createOrUpdatePodGroup, MutateLister
  <2>4. \/ UNCHANGED <<pg, pgWatch>>
        \/ StorePG([phase |-> "Pending", min |-> w.new.min])
        \/ StorePG([pg EXCEPT !.min = w.new.min])
    BY DEF createOrUpdatePodGroup, createPodGroup
  <2>5. pg' \in PGType /\ pgWatch' \in Seq(PGType)
    BY <1>0, <2>1, <2>2, <2>4, StorePGOK
  <2> QED
    BY <2>3, <2>5 DEF GroupOK
<1> QED
  BY <1>1, <1>2, <1>3, <1>4 DEF Inv

-----------------------------------------------------------------------------
\* A handler that adds a request keeps the queue well typed.
LEMMA AddedOK ==
    ASSUME QueueOK, NEW r \in RequestType, Add(r), UNCHANGED <<delayed, tries>>
    PROVE  QueueOK'
<1>1. reqs' \in Seq(RequestType) /\ again' \in BOOLEAN
  BY AddOK
<1> QED
  BY <1>1 DEF QueueOK

\* The requests of the handlers have their type.
LEMMA RequestIn ==
    ASSUME NEW e \in Events, NEW t \in Tasks \cup {"None"}, NEW v \in Nat,
           NEW a \in Actions \cup {"None"}
    PROVE  Request(e, t, v, a) \in RequestType
  BY DEF Request, RequestType

\* So have OutOfSync requests.
LEMMA OutOfSyncIn ==
    ASSUME NEW v \in Nat
    PROVE  OutOfSync(v) \in RequestType
  BY RequestIn DEF OutOfSync, Events

\* A delayed request that is due keeps the invariant.
LEMMA AddDelayedOK ==
    ASSUME Inv, NEW r \in delayed, AddDelayed(r)
    PROVE  Inv'
<1>0. QueueOK /\ PodsOK /\ GroupOK /\ UsersOK /\ JobsOK /\ WorkerOK(w, job)
  BY DEF Inv
<1>1. PodsOK' /\ GroupOK' /\ UsersOK' /\ JobsOK' /\ w' = w /\ job' = job
  BY <1>0, PodsFrame, GroupFrame, UsersFrame, JobsFrame DEF AddDelayed, api, watch
<1>2. r \in RequestType
  BY <1>0 DEF QueueOK
<1>3. reqs' \in Seq(RequestType) /\ again' \in BOOLEAN
  BY <1>0, <1>2, AddOK DEF AddDelayed
<1>4. QueueOK'
  BY <1>0, <1>3 DEF QueueOK, AddDelayed
<1> QED
  BY <1>0, <1>1, <1>4 DEF Inv

\* addJob and updateJob keep the invariant: what they put into the cache is
\* a copy of the Job.
LEMMA JobHandlersOK ==
    ASSUME Inv, addJob \/ updateJob
    PROVE  Inv'
<1>0. QueueOK /\ PodsOK /\ GroupOK /\ UsersOK /\ JobsOK /\ WorkerOK(w, job)
  BY DEF Inv
<1>1. PodsOK' /\ GroupOK' /\ UsersOK' /\ w' = w /\ job' = job
  BY <1>0, PodsFrame, GroupFrame, UsersFrame DEF addJob, updateJob, api
<1>2. QueueOK'
  <2>1. OutOfSync(0) \in RequestType /\ UNCHANGED <<delayed, tries>>
    BY OutOfSyncIn DEF addJob, updateJob
  <2>2. Add(OutOfSync(0)) \/ UNCHANGED <<reqs, again>>
    BY DEF addJob, updateJob
  <2> QED
    BY <1>0, <2>1, <2>2, AddedOK, QueueFrame DEF queue
<1>3. /\ jobWatch \in Seq(JobType) /\ jobWatch # <<>>
      /\ jobWatch' = Tail(jobWatch) /\ jobSeen' = Head(jobWatch)
      /\ cjob' \in {cjob, Head(jobWatch)}
  BY <1>0 DEF addJob, updateJob, JobsOK
<1>4. /\ Head(jobWatch) = jobWatch[1] /\ Len(jobWatch) \in Nat \ {0}
      /\ jobWatch' \in Seq(JobType) /\ Len(jobWatch') = Len(jobWatch) - 1
      /\ \A i \in 1 .. Len(jobWatch') : jobWatch'[i] = jobWatch[i + 1]
  BY <1>3
<1>5. Head(jobWatch) \in JobType /\ Copy(Head(jobWatch), job)
  BY <1>0, <1>3, <1>4 DEF JobsOK
<1>6. \A i \in 1 .. Len(jobWatch') : Copy(jobWatch'[i], job)
  BY <1>0, <1>4 DEF JobsOK
<1>7. cjob' \in JobType \cup {NoJob} /\ (cjob' # NoJob => Copy(cjob', job))
  BY <1>0, <1>3, <1>5 DEF JobsOK
<1>8. /\ (cjob # NoJob => Copy(cjob, job))'
      /\ (\A i \in 1 .. Len(jobWatch) : Copy(jobWatch[i], job))'
  BY <1>1, <1>6, <1>7 DEF Copy
<1>9. JobsOK'
  BY <1>0, <1>1, <1>3, <1>4, <1>5, <1>7, <1>8 DEF JobsOK
<1> QED
  BY <1>0, <1>1, <1>2, <1>9 DEF Inv

\* What the pod handlers have in common.
LEMMA NextPodEventOK ==
    ASSUME Inv, podWatch # <<>>, NextPodEvent, cpod' \in [Pods -> PodType], QueueOK'
    PROVE  Inv'
<1>0. QueueOK /\ PodsOK /\ GroupOK /\ UsersOK /\ JobsOK /\ WorkerOK(w, job)
  BY DEF Inv
<1>1. GroupOK' /\ UsersOK' /\ JobsOK' /\ w' = w /\ job' = job
  BY <1>0, GroupFrame, UsersFrame, JobsFrame DEF NextPodEvent, api
<1>2. PodEvent \in PodEventType /\ Tail(podWatch) \in Seq(PodEventType)
  BY <1>0 DEF PodsOK, PodEvent
<1>3. podSeen' \in [Pods -> PodType]
  BY <1>0, <1>2 DEF PodsOK, NextPodEvent, PodEventType
<1>4. PodsOK'
  BY <1>0, <1>2, <1>3 DEF PodsOK, NextPodEvent, api
<1> QED
  BY <1>0, <1>1, <1>4 DEF Inv

\* cache.UpdatePod keeps the cache well typed.
LEMMA UpdatePodInType ==
    ASSUME NEW pods \in [Pods -> PodType], NEW p \in Pods, NEW x \in PodType
    PROVE  UpdatePodIn(pods, p, x) \in [Pods -> PodType]
  BY DEF UpdatePodIn

\* addPod, updatePod and deletePod keep the invariant.
LEMMA PodHandlersOK ==
    ASSUME Inv, addPod \/ updatePod \/ deletePod
    PROVE  Inv'
<1>0. QueueOK /\ PodsOK
  BY DEF Inv
<1>1. /\ podWatch # <<>> /\ NextPodEvent /\ UNCHANGED <<delayed, tries>>
  BY DEF addPod, updatePod, deletePod, NextPodEvent
<1>2. /\ PodEvent \in PodEventType /\ cpod \in [Pods -> PodType]
      /\ podSeen \in [Pods -> PodType]
  BY <1>0, <1>1 DEF PodsOK, PodEvent
<1>3. /\ PodEvent.name \in Pods /\ PodEvent.name[1] \in Tasks
      /\ PodEvent.obj \in PodType /\ PodEvent.obj.ver \in Nat
      /\ podSeen[PodEvent.name] \in PodType /\ podSeen[PodEvent.name].ver \in Nat
  BY <1>2 DEF PodEventType, Pods, PodType
<1>4. ASSUME NEW e \in Events, NEW v \in Nat,
             Add(Request(e, PodEvent.name[1], v, "None"))
      PROVE  QueueOK'
  BY <1>0, <1>1, <1>3, <1>4, RequestIn, AddedOK
<1>5. CASE addPod
  <2>1. QueueOK'
    BY <1>0, <1>1, <1>3, <1>5, OutOfSyncIn, AddedOK DEF addPod
  <2>2. cpod' \in [Pods -> PodType]
    BY <1>2, <1>3, <1>5 DEF addPod
  <2> QED
    BY <1>1, <2>1, <2>2, NextPodEventOK
<1>6. CASE updatePod
  <2>1. cpod' \in [Pods -> PodType]
    BY <1>2, <1>3, <1>6, UpdatePodInType DEF updatePod
  <2>2. \A pods, p, old, x : PodUpdateEvent(pods, p, old, x) \in Events
    BY DEF PodUpdateEvent, Events
  <2>3. QueueOK'
    BY <1>3, <1>4, <1>6, <2>2 DEF updatePod
  <2> QED
    BY <1>1, <2>1, <2>3, NextPodEventOK
<1>7. CASE deletePod
  <2>1. cpod' \in [Pods -> PodType]
    BY <1>2, <1>3, <1>7, NoPodType DEF deletePod
  <2>2. "PodEvicted" \in Events
    BY DEF Events
  <2>3. QueueOK'
    BY <1>3, <1>4, <1>7, <2>2 DEF deletePod
  <2> QED
    BY <1>1, <2>1, <2>3, NextPodEventOK
<1> QED
  BY <1>5, <1>6, <1>7

\* updatePodGroup keeps the invariant.
LEMMA UpdatePodGroupOK ==
    ASSUME Inv, updatePodGroup
    PROVE  Inv'
<1>0. QueueOK /\ PodsOK /\ GroupOK /\ UsersOK /\ JobsOK /\ WorkerOK(w, job)
  BY DEF Inv
<1>1. PodsOK' /\ UsersOK' /\ JobsOK' /\ w' = w /\ job' = job
  BY <1>0, PodsFrame, UsersFrame, JobsFrame DEF updatePodGroup, api
<1>2. GroupOK'
  BY <1>0 DEF updatePodGroup, GroupOK, api
<1>3. QueueOK'
  <2>1. UNCHANGED <<delayed, tries>>
    BY DEF updatePodGroup
  <2>2. CASE UNCHANGED <<reqs, again>>
    BY <1>0, <2>1, <2>2, QueueFrame DEF queue
  <2>3. CASE Add(Request(IF pgSeen'.phase = "Unknown" THEN "Unknown" ELSE "None",
                         "None", 0, "None"))
    <3>1. \A e \in {"Unknown", "None"} :
            Request(e, "None", 0, "None") \in RequestType
      BY RequestIn DEF Events
    <3> QED
      BY <1>0, <2>1, <2>3, <3>1, AddedOK
  <2> QED
    BY <2>2, <2>3 DEF updatePodGroup
<1> QED
  BY <1>0, <1>1, <1>2, <1>3 DEF Inv

\* processNextCommand keeps the invariant.
LEMMA ProcessNextCommandOK ==
    ASSUME Inv, NEW c \in cmds, processNextCommand(c)
    PROVE  Inv'
<1>0. QueueOK /\ PodsOK /\ GroupOK /\ UsersOK /\ JobsOK /\ WorkerOK(w, job)
  BY DEF Inv
<1>1. /\ PodsOK' /\ GroupOK' /\ JobsOK' /\ w' = w /\ job' = job
      /\ UNCHANGED <<delayed, tries>>
  BY <1>0, PodsFrame, GroupFrame, JobsFrame DEF processNextCommand, watch
<1>2. c \in Actions /\ cmds' \subseteq Commands
  BY <1>0, ConstantsAssumption DEF UsersOK, processNextCommand
<1>3. UsersOK'
  <2>1. UNCHANGED budget \/ Spend("drop")
    BY DEF processNextCommand
  <2>2. "drop" \in Disturbances
    BY DEF Disturbances
  <2>3. CASE UNCHANGED budget
    BY <1>0, <1>2, <2>3 DEF UsersOK, budget
  <2> QED
    BY <1>0, <1>2, <2>1, <2>2, <2>3, SpendOK
<1>4. QueueOK'
  <2>1. CASE Add(Request("CommandIssued", "None", 0, c))
    <3>1. Request("CommandIssued", "None", 0, c) \in RequestType
      BY <1>2, RequestIn DEF Events
    <3> QED
      BY <1>0, <1>1, <2>1, <3>1, AddedOK
  <2>2. CASE UNCHANGED <<reqs, again>>
    BY <1>0, <1>1, <2>2, QueueFrame DEF queue
  <2> QED
    BY <2>1, <2>2 DEF processNextCommand
<1> QED
  BY <1>0, <1>1, <1>3, <1>4 DEF Inv

\* The resync loop keeps the invariant.
LEMMA ResyncOK ==
    ASSUME Inv, resyncApply \/ \E p \in errTasks : resyncGet(p)
    PROVE  Inv'
<1>0. QueueOK /\ PodsOK /\ GroupOK /\ UsersOK /\ JobsOK /\ WorkerOK(w, job)
  BY DEF Inv
<1>1. QueueOK' /\ GroupOK' /\ UsersOK' /\ JobsOK' /\ w' = w /\ job' = job
  BY <1>0, QueueFrame, GroupFrame, UsersFrame, JobsFrame
  DEF resyncApply, resyncGet, api, watch
<1>2. UNCHANGED <<pod, podWatch, podSeen>>
  BY DEF resyncApply, resyncGet, api, watch
<1>3. CASE resyncApply
  <2>1. Head(rs) \in PodEventType
    BY <1>0, <1>3 DEF resyncApply, PodsOK
  <2>2. Head(rs).name \in Pods /\ Head(rs).obj \in PodType
    BY <2>1 DEF PodEventType
  <2>3. cpod' \in [Pods -> PodType]
    <3>1. /\ [cpod EXCEPT ![Head(rs).name] = NoPod] \in [Pods -> PodType]
          /\ UpdatePodIn(cpod, Head(rs).name, Head(rs).obj) \in [Pods -> PodType]
      BY <1>0, <2>2, NoPodType, UpdatePodInType DEF PodsOK
    <3> QED
      BY <1>3, <3>1 DEF resyncApply
  <2>4. errTasks' \subseteq Pods /\ rs' \in Seq(PodEventType)
    BY <1>0, <1>3, <2>2 DEF resyncApply, PodsOK
  <2>5. PodsOK'
    BY <1>0, <1>2, <2>3, <2>4 DEF PodsOK
  <2> QED
    BY <1>0, <1>1, <2>5 DEF Inv
<1>4. CASE \E p \in errTasks : resyncGet(p)
  <2>1. PICK p \in errTasks : resyncGet(p)
    BY <1>4
  <2>2. [name |-> p, obj |-> pod[p]] \in PodEventType
    BY <1>0 DEF PodsOK, PodEventType
  <2>3. rs' \in Seq(PodEventType)
    BY <2>1, <2>2 DEF resyncGet
  <2>4. errTasks' \subseteq Pods /\ cpod' = cpod
    BY <1>0, <2>1 DEF resyncGet, PodsOK
  <2>5. PodsOK'
    BY <1>0, <1>2, <2>3, <2>4 DEF PodsOK
  <2> QED
    BY <1>0, <1>1, <2>5 DEF Inv
<1> QED
  BY <1>3, <1>4

-----------------------------------------------------------------------------
\* What the scheduler does to the PodGroup keeps the invariant.
LEMMA PodGroupChangesOK ==
    ASSUME Inv, PodGroupChanges
    PROVE  Inv'
<1>0. QueueOK /\ PodsOK /\ GroupOK /\ UsersOK /\ JobsOK /\ WorkerOK(w, job)
  BY DEF Inv
<1>1. QueueOK' /\ PodsOK' /\ UsersOK' /\ JobsOK' /\ w' = w /\ job' = job
  BY <1>0, QueueFrame, PodsFrame, UsersFrame, JobsFrame
  DEF PodGroupChanges, ctl
<1>2. PICK ph \in {"Inqueue", "Unknown"} : StorePG([pg EXCEPT !.phase = ph])
  BY DEF PodGroupChanges, AdmitPodGroup, LosePodGroup
<1>3. [pg EXCEPT !.phase = ph] \in PGType
  BY <1>0 DEF GroupOK, PGType
<1>4. GroupOK'
  BY <1>0, <1>2, <1>3, StorePGOK DEF GroupOK, PodGroupChanges
<1> QED
  BY <1>0, <1>1, <1>4 DEF Inv

\* What nodes do to pods keeps the invariant.
LEMMA PodChangesOK ==
    ASSUME Inv, NEW p \in Pods, PodChanges(p)
    PROVE  Inv'
<1>0. QueueOK /\ PodsOK /\ GroupOK /\ UsersOK /\ JobsOK /\ WorkerOK(w, job)
  BY DEF Inv
<1>1. /\ QueueOK' /\ GroupOK' /\ UsersOK' /\ JobsOK' /\ w' = w /\ job' = job
      /\ UNCHANGED <<podSeen, cpod, rs, errTasks>>
  BY <1>0, QueueFrame, GroupFrame, UsersFrame, JobsFrame DEF PodChanges, ctl
<1>2. PICK x \in PodType : StorePod(p, x)
  <2>1. \A ph \in PodPhases : [pod[p] EXCEPT !.phase = ph] \in PodType
    BY <1>0 DEF PodsOK, PodType
  <2>2. {"Running", "Succeeded", "Failed"} \subseteq PodPhases
    BY DEF PodPhases
  <2> QED
    BY <2>1, <2>2, NoPodType DEF PodChanges, RunPod, FinishPod, RemovePod
<1>3. PodsOK'
  BY <1>0, <1>1, <1>2, StorePodOK DEF PodsOK
<1> QED
  BY <1>0, <1>1, <1>3 DEF Inv

\* Evictions and restarting containers keep the invariant.
LEMMA PodDisturbedOK ==
    ASSUME Inv, NEW p \in Pods, EvictPod(p) \/ RestartContainer(p)
    PROVE  Inv'
<1>0. QueueOK /\ PodsOK /\ GroupOK /\ UsersOK /\ JobsOK /\ WorkerOK(w, job)
  BY DEF Inv
<1>1. /\ QueueOK' /\ GroupOK' /\ JobsOK' /\ w' = w /\ job' = job
      /\ UNCHANGED <<podSeen, cpod, rs, errTasks, cmds>>
  BY <1>0, QueueFrame, GroupFrame, JobsFrame DEF EvictPod, RestartContainer, ctl
<1>2. UsersOK'
  <2>1. PICK d \in Disturbances : Spend(d)
    BY DEF EvictPod, RestartContainer, Disturbances
  <2>2. cmds' \subseteq Commands
    BY <1>0, <1>1 DEF UsersOK
  <2> QED
    BY <1>0, <2>1, <2>2, SpendOK
<1>3. pod' \in [Pods -> PodType] /\ podWatch' \in Seq(PodEventType)
  <2>1. CASE EvictPod(p)
    BY <1>0, <2>1, DeleteByNameOK DEF EvictPod
  <2>2. CASE RestartContainer(p)
    <3>1. pod[p] \in PodType /\ pod[p].restarts + 1 \in Nat
      BY <1>0 DEF PodsOK, PodType
    <3>2. \A n \in Nat : [pod[p] EXCEPT !.restarts = n] \in PodType
      BY <3>1 DEF PodType
    <3>3. StorePod(p, [pod[p] EXCEPT !.restarts = pod[p].restarts + 1])
      BY <2>2 DEF RestartContainer
    <3> QED
      BY <1>0, <3>1, <3>2, <3>3, StorePodOK
  <2> QED
    BY <2>1, <2>2
<1>4. PodsOK'
  BY <1>0, <1>1, <1>3 DEF PodsOK
<1> QED
  BY <1>0, <1>1, <1>2, <1>4 DEF Inv

\* A user who scales or deletes the Job keeps the invariant and changes
\* nothing JobPhase speaks of, but the resource version grows.
LEMMA JobEditedOK ==
    ASSUME Inv, DeleteJob \/ \E t \in Tasks : ScaleTask(t)
    PROVE  /\ Inv'
           /\ UNCHANGED <<job.phase, job.retry, job.version>>
<1>0. QueueOK /\ PodsOK /\ GroupOK /\ UsersOK /\ JobsOK /\ WorkerOK(w, job)
  BY DEF Inv
<1>1. /\ QueueOK' /\ PodsOK' /\ GroupOK' /\ w' = w
      /\ UNCHANGED <<jobSeen, cjob, cmds>>
  BY <1>0, QueueFrame, PodsFrame, GroupFrame DEF DeleteJob, ScaleTask, ctl
<1>2. UsersOK'
  <2>1. PICK d \in Disturbances : Spend(d)
    BY DEF DeleteJob, ScaleTask, Disturbances
  <2>2. cmds' \subseteq Commands
    BY <1>0, <1>1 DEF UsersOK
  <2> QED
    BY <1>0, <2>1, <2>2, SpendOK
<1>3. job \in JobType
  BY <1>0 DEF JobsOK
<1>4. PICK j \in JobType : /\ StoreJob(j) /\ j.phase = job.phase
                           /\ j.retry = job.retry /\ j.version = job.version
  <2>1. CASE DeleteJob
    <3> DEFINE j == [job EXCEPT !.deleting = TRUE]
    <3>1. /\ j \in JobType /\ j.phase = job.phase
          /\ j.retry = job.retry /\ j.version = job.version
      BY <1>3 DEF JobType
    <3>2. StoreJob(j)
      BY <2>1 DEF DeleteJob
    <3> QED
      BY <3>1, <3>2
  <2>2. CASE \E t \in Tasks : ScaleTask(t)
    <3>1. PICK t \in Tasks : ScaleTask(t)
      BY <2>2
    <3>2. PICK n \in TaskMinAvailable[t] .. MaxReplicas, m \in 0 .. Cardinality(Pods) :
            StoreJob([job EXCEPT !.replicas[t] = n, !.min = m])
      BY <3>1 DEF ScaleTask
    <3>3. n \in 0 .. MaxReplicas /\ m \in Nat
      BY ConstantsAssumption
    <3>4. [job.replicas EXCEPT ![t] = n] \in [Tasks -> 0 .. MaxReplicas]
      BY <1>3, <3>3 DEF JobType
    <3>5. \A f \in [Tasks -> 0 .. MaxReplicas] :
            /\ [job EXCEPT !.replicas = f, !.min = m] \in JobType
            /\ [job EXCEPT !.replicas = f, !.min = m].phase = job.phase
            /\ [job EXCEPT !.replicas = f, !.min = m].retry = job.retry
            /\ [job EXCEPT !.replicas = f, !.min = m].version = job.version
      BY <1>3, <3>3 DEF JobType
    <3>6. [job EXCEPT !.replicas[t] = n, !.min = m]
            = [job EXCEPT !.replicas = [job.replicas EXCEPT ![t] = n], !.min = m]
      BY <1>3 DEF JobType
    <3> QED
      BY <3>2, <3>4, <3>5, <3>6
  <2> QED
    BY <2>1, <2>2
<1>5. /\ job' \in JobType
      /\ job' = job \/ job'.rv > job.rv
      /\ job'.phase = job.phase /\ job'.retry = job.retry
      /\ job'.version = job.version
  BY <1>0, <1>4, StoreJobOK
<1>6. JobsOK'
  BY <1>0, <1>1, <1>4, StoredJobOK
<1>7. WorkerOK(w', job')
  BY <1>0, <1>1, <1>3, <1>5, WorkerOfNewer
<1> QED
  BY <1>1, <1>2, <1>5, <1>6, <1>7 DEF Inv

\* A new Command keeps the invariant.
LEMMA IssueCommandOK ==
    ASSUME Inv, NEW c \in Commands, IssueCommand(c)
    PROVE  Inv'
<1>0. QueueOK /\ PodsOK /\ GroupOK /\ UsersOK /\ JobsOK /\ WorkerOK(w, job)
  BY DEF Inv
<1>1. QueueOK' /\ PodsOK' /\ GroupOK' /\ JobsOK' /\ w' = w /\ job' = job
  BY <1>0, QueueFrame, PodsFrame, GroupFrame, JobsFrame DEF IssueCommand, watch, ctl
<1>2. UsersOK'
  <2>1. "cmd" \in Disturbances /\ cmds' \subseteq Commands /\ Spend("cmd")
    BY <1>0 DEF IssueCommand, UsersOK, Disturbances
  <2> QED
    BY <1>0, <2>1, SpendOK
<1> QED
  BY <1>0, <1>1, <1>2 DEF Inv

\* There are finitely many pod names.
LEMMA PodsFinite ==
    IsFiniteSet(Pods)
<1>1. IsFiniteSet(0 .. MaxReplicas - 1)
  BY ConstantsAssumption, FS_Interval
<1> QED
  BY <1>1, ConstantsAssumption, FS_Product DEF Pods

\* No request has been put back when the queue is new.
LEMMA NoTries ==
    DOMAIN <<>> = {}
  OBVIOUS

\* A restart of the controller keeps the invariant: all that is left are the
\* API objects, and what the informer delivers again is the Job itself.
LEMMA CrashOK ==
    ASSUME Inv, Crash
    PROVE  Inv'
<1>0. QueueOK /\ PodsOK /\ GroupOK /\ UsersOK /\ JobsOK /\ WorkerOK(w, job)
  BY DEF Inv
<1>1. UNCHANGED <<job, pod, pg, cmds>>
  BY DEF Crash, api
<1>2. QueueOK'
  <2>1. reqs' \in Seq(RequestType)
    BY DEF Crash
  <2>2. DOMAIN tries' = {}
    BY NoTries DEF Crash
  <2> QED
    BY <2>1, <2>2 DEF Crash, QueueOK
<1>3. PodsOK'
  <2>1. PICK s \in SetToSeqs({p \in Pods : pod[p] # NoPod}) :
          podWatch' = [i \in DOMAIN s |-> [name |-> s[i], obj |-> pod[s[i]]]]
    BY DEF Crash
  <2> DEFINE N == Cardinality({p \in Pods : pod[p] # NoPod})
  <2>2. N \in Nat
    <3>1. IsFiniteSet({p \in Pods : pod[p] # NoPod})
      BY PodsFinite, FS_Subset
    <3> QED
      BY <3>1, FS_CardinalityType
  <2>3. DOMAIN s = 1 .. N /\ \A i \in 1 .. N : s[i] \in Pods
    BY <2>1 DEF SetToSeqs
  <2> HIDE DEF N
  <2>4. podWatch' \in [1 .. N -> PodEventType]
    BY <1>0, <2>1, <2>3 DEF PodsOK, PodEventType
  <2>5. podWatch' \in Seq(PodEventType)
    BY <2>2, <2>4
  <2>6. [p \in Pods |-> NoPod] \in [Pods -> PodType]
    BY NoPodType
  <2> QED
    BY <1>0, <1>1, <2>5, <2>6 DEF PodsOK, Crash
<1>4. GroupOK'
  BY <1>0, <1>1 DEF GroupOK, Crash
<1>5. UsersOK'
  <2>1. "crash" \in Disturbances /\ cmds' \subseteq Commands /\ Spend("crash")
    BY <1>0, <1>1 DEF Crash, UsersOK, Disturbances
  <2> QED
    BY <1>0, <2>1, SpendOK
<1>6. JobsOK'
  <2>1. job \in JobType /\ Copy(job, job)
    BY <1>0 DEF JobsOK, Copy, JobType
  <2>2. jobWatch' = <<job>> /\ cjob' = NoJob /\ jobSeen' = NoJob
    BY DEF Crash
  <2>3. /\ jobWatch' \in Seq(JobType)
        /\ \A i \in 1 .. Len(jobWatch') : Copy(jobWatch'[i], job')
    BY <1>1, <2>1, <2>2
  <2>4. (\A i \in 1 .. Len(jobWatch) : Copy(jobWatch[i], job))'
    BY <2>3 DEF Copy
  <2> QED
    BY <1>1, <2>1, <2>2, <2>3, <2>4 DEF JobsOK
<1>7. WorkerOK(w', job')
  BY IdleOK DEF Crash
<1> QED
  BY <1>2, <1>3, <1>4, <1>5, <1>6, <1>7 DEF Inv

\* The invariant holds when the Job has just been created.
LEMMA InitOK ==
    Init => Inv
<1> SUFFICES ASSUME Init
             PROVE  Inv
  OBVIOUS
<1>1. PICK s \in Scenarios : job = NewJob(s.replicas, s.min) /\ left = s.budget
  BY DEF Init
<1>2. /\ s.replicas \in [Tasks -> 0 .. MaxReplicas] /\ s.min \in Nat
      /\ s.budget \in [Disturbances -> Nat]
  BY ConstantsAssumption
<1>3. job \in JobType
  BY <1>1, <1>2 DEF NewJob, JobType, P!Phases, Counted
<1>4. Copy(job, job)
  BY <1>3 DEF Copy, JobType
<1>5. JobsOK
  BY <1>3, <1>4 DEF Init, JobsOK
<1>6. QueueOK
  <2>1. reqs \in Seq(RequestType)
    BY DEF Init
  <2>2. DOMAIN tries = {}
    BY NoTries DEF Init
  <2> QED
    BY <2>1, <2>2 DEF Init, QueueOK
<1>7. PodsOK
  BY NoPodType DEF Init, PodsOK
<1>8. GroupOK
  BY DEF Init, GroupOK, NoPG, PGType
<1>9. UsersOK
  BY <1>1, <1>2 DEF Init, UsersOK
<1>10. WorkerOK(w, job)
  BY IdleOK DEF Init
<1> QED
  BY <1>5, <1>6, <1>7, <1>8, <1>9, <1>10 DEF Inv

-----------------------------------------------------------------------------
\* A step that changes nothing keeps the invariant.
LEMMA StutterOK ==
    ASSUME Inv, UNCHANGED vars
    PROVE  Inv'
<1>0. QueueOK /\ PodsOK /\ GroupOK /\ UsersOK /\ JobsOK /\ WorkerOK(w, job)
  BY DEF Inv
<1>1. /\ QueueOK' /\ PodsOK' /\ GroupOK' /\ UsersOK' /\ JobsOK'
      /\ w' = w /\ job' = job
  BY <1>0, QueueFrame, PodsFrame, GroupFrame, UsersFrame, JobsFrame
  DEF vars, queue, budget
<1> QED
  BY <1>0, <1>1 DEF Inv

\* A step that leaves the Job alone is a stutter of JobPhase.
LEMMA SameJobFollows ==
    ASSUME job' = job
    PROVE  Follows(job, job')
  BY DEF Follows

\* Every step keeps the invariant and is a step, or a stutter, of JobPhase;
\* one case per action.
LEMMA NextOK ==
    ASSUME Inv, [Next]_vars
    PROVE  Inv' /\ Follows(job, job')
<1>1. CASE Worker
  <2>1. CASE UpdateStatus
    BY <2>1, UpdateStatusOK
  <2>2. CASE \/ processNextReq \/ podCallsFailed \/ cacheUpdate
             \/ createOrUpdatePodGroup \/ readPodGroup
    <3>1. job' = job
      BY <2>2 DEF processNextReq, podCallsFailed, cacheUpdate,
                  createOrUpdatePodGroup, readPodGroup, api
    <3>2. Inv'
      BY <2>2, ProcessNextReqOK, PodCallsFailedOK, CacheUpdateOK,
         CreateOrUpdatePodGroupOK, ReadPodGroupOK
    <3> QED
      BY <3>1, <3>2, SameJobFollows
  <2>3. CASE \E p \in Pods : deleteJobPod(p) \/ createPod(p)
    <3>1. job' = job
      BY <2>3 DEF deleteJobPod, createPod
    <3>2. Inv'
      BY <2>3, DeleteJobPodOK, CreatePodOK
    <3> QED
      BY <3>1, <3>2, SameJobFollows
  <2>4. CASE \E t \in Tasks : waitDependsOnTaskMeetCondition(t)
    <3>1. job' = job
      BY <2>4 DEF waitDependsOnTaskMeetCondition, api
    <3>2. Inv'
      BY <2>4, WaitDependsOnOK
    <3> QED
      BY <3>1, <3>2, SameJobFollows
  <2> QED
    BY <1>1, <2>1, <2>2, <2>3, <2>4 DEF Worker
<1>2. CASE Handlers
  <2>1. job' = job
    BY <1>2 DEF Handlers, addJob, updateJob, addPod, updatePod, deletePod,
                NextPodEvent, updatePodGroup, AddDelayed, processNextCommand,
                resyncGet, resyncApply, api
  <2>2. Inv'
    BY <1>2, JobHandlersOK, PodHandlersOK, UpdatePodGroupOK, AddDelayedOK,
       ProcessNextCommandOK, ResyncOK DEF Handlers
  <2> QED
    BY <2>1, <2>2, SameJobFollows
<1>3. CASE Environment
  <2>1. CASE DeleteJob \/ \E t \in Tasks : ScaleTask(t)
    BY <2>1, JobEditedOK DEF Follows
  <2>2. CASE \/ PodGroupChanges \/ Crash
             \/ \E p \in Pods : PodChanges(p) \/ EvictPod(p) \/ RestartContainer(p)
             \/ \E c \in Commands : IssueCommand(c)
    <3>1. job' = job
      BY <2>2 DEF PodGroupChanges, Crash, PodChanges, EvictPod, RestartContainer,
                  IssueCommand, api
    <3>2. Inv'
      BY <2>2, PodGroupChangesOK, CrashOK, PodChangesOK, PodDisturbedOK,
         IssueCommandOK
    <3> QED
      BY <3>1, <3>2, SameJobFollows
  <2> QED
    BY <1>3, <2>1, <2>2 DEF Environment
<1>4. CASE UNCHANGED vars
  <2>1. job' = job
    BY <1>4 DEF vars
  <2> QED
    BY <1>4, <2>1, StutterOK, SameJobFollows
<1> QED
  BY <1>1, <1>2, <1>3, <1>4 DEF Next

\* Inv holds of every reachable state.
LEMMA Invariance ==
    Spec => []Inv
<1>1. Inv /\ [Next]_vars => Inv'
  BY NextOK
<1> QED
  BY <1>1, InitOK, PTL DEF Spec

\* Type correctness of the job controller, for any number of tasks and
\* replicas, any policies, any bounds and any disturbances.
THEOREM TypeCorrect ==
    Spec => []TypeOK
  BY Invariance, InvImpliesTypeOK, PTL

\* The status in the API server goes through the life cycle of JobPhase and
\* no other: neither the worker's stale copies, nor requeued and repeated
\* requests, nor lost replies, nor restarts of the controller make
\* UpdateStatus write a phase, a retry count or a version that does not
\* follow from the stored one.
THEOREM Refinement ==
    Spec => ImplementsJobPhase
<1>1. Init => P!Init
  BY DEF Init, P!Init, NewJob
<1>2. Inv /\ [Next]_vars => [P!Next]_(P!phaseVars)
  <2> SUFFICES ASSUME Inv, [Next]_vars
               PROVE  P!Next \/ UNCHANGED P!phaseVars
    OBVIOUS
  <2>1. Follows(job, job')
    BY NextOK
  <2> QED
    BY <2>1 DEF Follows, P!Next, P!phaseVars
<1> QED
  BY <1>1, <1>2, Invariance, PTL DEF Spec, P!Spec, ImplementsJobPhase

\* A Job never records more restarts than job.Spec.MaxRetry, and one that
\* has used them all is Restarting or Failed.
THEOREM RetriesBounded ==
    Spec => []RetryBounded
<1>1. Init => RetryBounded
  BY ConstantsAssumption DEF Init, NewJob, RetryBounded
<1>2. Inv /\ RetryBounded /\ [Next]_vars => RetryBounded'
  <2> SUFFICES ASSUME Inv, RetryBounded, [Next]_vars
               PROVE  RetryBounded'
    OBVIOUS
  <2>1. Follows(job, job')
    BY NextOK
  <2>2. job.retry \in Nat /\ MaxRetry \in Nat
    BY ConstantsAssumption DEF Inv, JobsOK, JobType
  <2> QED
    BY <2>1, <2>2 DEF Follows, RetryBounded, P!SyncStep, P!KillStep, P!SyncMoves,
                      P!RestartMoves, P!StopMoves, P!EndMoves, P!KillAgain, P!Live
<1> QED
  BY <1>1, <1>2, Invariance, PTL DEF Spec
=============================================================================
