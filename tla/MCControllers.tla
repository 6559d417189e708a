---------------------------- MODULE MCControllers ----------------------------
(***************************************************************************)
(* Small instances of ControllerManager.  A scenario switches on the       *)
(* controllers it is about and says what there is and what may happen how  *)
(* often.                                                                  *)
(***************************************************************************)
EXTENDS ControllerManager

MCSchedulers == {"volcano"}

\* Resource groups by annotation, by namespace, and one with an unknown key.
MCResGroups ==
    <<[name |-> "cpu", key |-> "zone", values |-> <<>>, scheduler |-> "other",
       tolerations |-> <<>>, labels |-> <<>>, affinity |-> ""],
      [name |-> "mgmt", key |-> "namespace", values |-> <<"sys">>, scheduler |-> "other",
       tolerations |-> <<"t">>, labels |-> "node" :> "mgmt", affinity |-> "a"],
      [name |-> "gpu", key |-> "", values |-> <<<<"kind", "gpu">>, <<"kind", "old">>>>,
       scheduler |-> "", tolerations |-> <<"t">>, labels |-> <<>>, affinity |-> ""]>>

AQueue == [uid |-> 1, rv |-> 1, weight |-> 1, path |-> <<>>, weights |-> <<>>,
           reclaimable |-> {TRUE}, state |-> "Open", count |-> NoneCounted, allocated |-> 0]

\* The second path is a parent of the first, the third a child of it.
MCNewQueues ==
    [default |-> AQueue,
     q1 |-> [AQueue EXCEPT !.path = <<"root", "a">>, !.weights = <<1, 2>>],
     q2 |-> [AQueue EXCEPT !.path = <<"root">>, !.weights = <<1>>, !.weight = 0],
     q3 |-> [AQueue EXCEPT !.path = <<"a", "b">>, !.weights = <<1, 1>>, !.reclaimable = {}]]

ATask == [name |-> "", replicas |-> 1, min |-> {}, maxRetry |-> 0, dependsOn |-> {},
          policies |-> <<>>, template |-> TRUE, topology |-> "", cpus |-> 0,
          hostNetwork |-> FALSE, dns |-> ""]

ASpec == [queue |-> "", scheduler |-> "", min |-> 0, maxRetry |-> 0, ttl |-> {},
          tasks |-> <<ATask>>, plugins |-> {}, policies |-> <<>>, volumes |-> <<>>,
          priority |-> ""]

Policy(events, action, exitCode) ==
    [events |-> events, action |-> action, exitCode |-> exitCode]

\* Two tasks whose names and dependencies are anything.
TwoTasks ==
    {[ASpec EXCEPT !.tasks = <<[ATask EXCEPT !.name = "x", !.dependsOn = dx, !.replicas = r],
                               [ATask EXCEPT !.name = n, !.dependsOn = dy, !.min = m]>>] :
       n \in {"x", "y"}, r \in {0, 2}, m \in {{}, {2}},
       dx \in {{}, {<<"y">>}, {<<"x">>}}, dy \in {{}, {<<"x">>}, {<<"x", "x">>}, {<<"z">>}}}

\* One rule each.
OddSpecs ==
    {[ASpec EXCEPT !.min = 2], [ASpec EXCEPT !.tasks = <<>>], [ASpec EXCEPT !.queue = "none"],
     [ASpec EXCEPT !.plugins = {"mpi"}], [ASpec EXCEPT !.plugins = {"svc", "tensorflow"}],
     [ASpec EXCEPT !.tasks[1].topology = "restricted", !.tasks[1].cpus = 1500],
     [ASpec EXCEPT !.tasks[1].hostNetwork = TRUE],
     [ASpec EXCEPT !.policies = <<Policy({"PodFailed"}, "RestartJob", {}),
                                  Policy({}, "AbortJob", {1})>>],
     [ASpec EXCEPT !.policies = <<Policy({"*"}, "RestartJob", {}),
                                  Policy({"PodEvicted"}, "AbortJob", {})>>],
     [ASpec EXCEPT !.volumes = <<[mountPath |-> "m", claim |-> TRUE, claimName |-> ""],
                                 [mountPath |-> "m", claim |-> FALSE, claimName |-> "c"]>>]}

MCNewJobs == [plain |-> {[ASpec EXCEPT !.ttl = {1}, !.queue = "default"]},
              odd   |-> TwoTasks \cup OddSpecs]

MCEdits == {<<1, 1, {1}, {3}>>, <<2, 2, {1}, {1}>>, <<1, 1, {2}, {1}>>, <<2, 1, {1}, {}>>,
            <<0, 0, {0}, {}>>}

APod == [uid |-> 0, rv |-> 0, scheduler |-> "volcano", group |-> <<>>, queue |-> "", ns |-> "ns",
         annotations |-> {}, resGroup |-> "", selector |-> <<>>, affinity |-> "",
         tolerations |-> <<>>, minAvailable |-> {}, maxUnavailable |-> {}, owner |-> <<>>,
         preemptable |-> "", job |-> "", deleting |-> FALSE]

MCNewPods ==
    [own   |-> [APod EXCEPT !.annotations = {<<"kind", "gpu">>},
                            !.minAvailable = {[percent |-> TRUE, n |-> 50]}],
     sys   |-> [APod EXCEPT !.ns = "sys"],
     bad   |-> [APod EXCEPT !.minAvailable = {[percent |-> TRUE, n |-> 100]}],
     set0  |-> [APod EXCEPT !.owner = <<"rs", "r", 0>>],
     set1  |-> [APod EXCEPT !.owner = <<"rs", "r", 0>>],
     work0 |-> [APod EXCEPT !.job = "plain"],
     work1 |-> [APod EXCEPT !.job = "plain"]]

Budget(b) ==
    b @@ [d \in {"queue", "unqueue", "operate", "report", "phase", "job", "unjob", "edit",
                 "group", "pod", "end", "scale", "unpod", "restart", "err"} |-> 0]

Nothing == [k \in Kinds |-> IF k = "queue" THEN [default |-> AQueue] ELSE <<>>]
Has(objects) == objects @@ Nothing

Opt(on, names) ==
    [on |-> on, names |-> names, maxRequeueNum |-> -1, workers |-> 1, inherit |-> FALSE,
     nsQueue |-> "", actions |-> {"OpenQueue", "CloseQueue"}]

QC == {"qcQueue", "qcGroup", "qcCommand"}
PG == {"pgPod", "pgGroup", "pgSet"}
JC == {"jcJob", "jcPod"}

Orphan == [uid |-> 1, rv |-> 1, queue |-> "default", phase |-> "Running",
           owner |-> <<"job", "plain", 9>>, preemptable |-> ""]
ASet == [uid |-> 1, rv |-> 1, replicas |-> 1, preemptable |-> "true"]
AJob == [uid |-> 1, rv |-> 1, spec |-> createJobPatch([ASpec EXCEPT !.ttl = {1}, !.queue = "default"]),
         phase |-> "Running", at |-> 1, deleting |-> FALSE]

\* A queue with a PodGroup that goes is closed and opened; the same with a
\* call that fails.
CloseAndOpen ==
    [opt |-> Opt(QC, {"default"}), api |-> Has([group |-> (<<"g">> :> Orphan)]),
     left |-> Budget([operate |-> 2])]
CloseWithError ==
    [CloseAndOpen EXCEPT !.left = Budget([operate |-> 1, err |-> 1])]

\* A queue is deleted under its PodGroup and made again.
MadeAgain ==
    [opt |-> Opt(QC, {"q1"}),
     api |-> Has([queue |-> [q1 |-> MCNewQueues.q1],
                  group |-> (<<"g">> :> [Orphan EXCEPT !.queue = "q1"])]),
     left |-> Budget([queue |-> 2, unqueue |-> 1])]

\* A request is dropped after one retry.
Dropped ==
    [opt |-> [Opt(QC, {"default", "plain"}) EXCEPT !.maxRequeueNum = 1],
     api |-> Has([job |-> [plain |-> AJob]]),
     left |-> Budget([operate |-> 1, report |-> 1, err |-> 2, group |-> 1])]

\* The weight of a queue is changed and groups change their phase.
Weighted ==
    [opt |-> [Opt(QC, {"default", "plain"}) EXCEPT !.actions = {}],
     api |-> Has([job |-> [plain |-> AJob]]),
     left |-> Budget([operate |-> 1, phase |-> 2, group |-> 1])]

\* Pods of all kinds, and one that comes, goes and comes again.
ManyPods ==
    [opt |-> [Opt(PG, {"own", "sys", "bad"}) EXCEPT !.workers = 2, !.nsQueue = "default"],
     api |-> Nothing, left |-> Budget([pod |-> 2, err |-> 1])]
PodAgain ==
    [opt |-> Opt(PG, {"own"}), api |-> Nothing,
     left |-> Budget([pod |-> 2, unpod |-> 1, err |-> 1])]

\* Two pods of a ReplicaSet share a group; it is scaled down and up.
SharedGroup ==
    [opt |-> [Opt(PG, {"set0", "set1"}) EXCEPT !.workers = 2, !.inherit = TRUE],
     api |-> Has([rs |-> [r |-> ASet]]), left |-> Budget([pod |-> 2, err |-> 1])]
ScaledSet ==
    [opt |-> Opt(PG, {"set0"}), api |-> Has([rs |-> [r |-> ASet]]),
     left |-> Budget([pod |-> 2, scale |-> 2, err |-> 1])]

\* Jobs are collected, deleted and submitted again.
TimeToLive ==
    [opt |-> Opt({"gcJob"}, {"plain"}), api |-> Has([job |-> [plain |-> AJob]]),
     left |-> Budget([job |-> 1, unjob |-> 1, end |-> 2, edit |-> 1, err |-> 1])]
Dependents ==
    [TimeToLive EXCEPT !.left = Budget([end |-> 1, group |-> 1])]

\* The job cache when Jobs are deleted and submitted again, with pods and
\* without.
Resubmitted ==
    [opt |-> Opt(JC, {"plain"}), api |-> Has([job |-> [plain |-> AJob]]),
     left |-> Budget([job |-> 2, unjob |-> 2, edit |-> 1])]
PodsOfJobs ==
    [opt |-> Opt(JC, {"plain", "work0", "work1"}),
     api |-> Has([job |-> [plain |-> AJob],
                  group |-> (<<"job", "plain", 1>> :>
                               [Orphan EXCEPT !.owner = <<"job", "plain", 1>>])]),
     left |-> Budget([job |-> 1, unjob |-> 1, pod |-> 2, unpod |-> 1])]

\* Admission.
Admission ==
    [opt |-> Opt({}, {"q1", "q2", "q3", "odd"}), api |-> Nothing,
     left |-> Budget([job |-> 1, edit |-> 2, queue |-> 2])]

\* The controller manager is started again.
StartedAgain ==
    [opt |-> Opt(QC \cup {"gcJob"}, {"default", "plain"}),
     api |-> Has([job |-> [plain |-> AJob]]),
     left |-> Budget([restart |-> 1, operate |-> 1, end |-> 1])]

MCScenarios ==
    {CloseAndOpen, CloseWithError, MadeAgain, Dropped, Weighted, ManyPods, PodAgain,
     SharedGroup, ScaledSet, TimeToLive, Dependents, Resubmitted, PodsOfJobs, Admission,
     StartedAgain}

=============================================================================
