---------------------------- MODULE SchedulerApi ----------------------------
(***************************************************************************)
(* NodeInfo and TaskInfo of the scheduler's api package, as the cache and  *)
(* the sessions use them.  Resources have one dimension here; Resource     *)
(* models the others.  A NodeInfo keeps running totals beside its tasks;   *)
(* set says whether it has its Node object yet.  A task is known to a node *)
(* by the name of its pod and by the status it had when it was added.      *)
(***************************************************************************)
EXTENDS Integers, FiniteSets, FiniteSetsExt

CONSTANTS Names,    \* names of pods
          Req       \* what each of them asks for

ASSUME ApiAssumption == IsFiniteSet(Names) /\ Req \in [Names -> Nat]

TaskStatuses == {"Pending", "Allocated", "Pipelined", "Binding", "Bound",
                 "Running", "Releasing", "Succeeded", "Failed"}

AllocatedStatus(s) == s \in {"Bound", "Binding", "Running", "Allocated"}

isTerminated(s) == s \in {"Succeeded", "Failed"}

\* The status of a task is read off its pod.
getTaskStatus(o) ==
    CASE o.phase \in {"Running", "Pending"} /\ o.deleting -> "Releasing"
      [] o.phase = "Running" /\ ~o.deleting -> "Running"
      [] o.phase = "Pending" /\ ~o.deleting /\ o.node = "" -> "Pending"
      [] o.phase = "Pending" /\ ~o.deleting /\ o.node # "" -> "Bound"
      [] OTHER -> o.phase

Total(S) == MapThenSumSet(LAMBDA p : Req[p], S)

\* The pods on a node that take up room, and those about to give it back.
Holding(ni)  == {p \in Names : ni.tasks[p] \notin {"None", "Pipelined"}}
Leaving(ni)  == {p \in Names : ni.tasks[p] = "Releasing"}
Promised(ni) == {p \in Names : ni.tasks[p] = "Pipelined"}

\* No Node object: one of its tasks was seen first.
UnsetNodeInfo ==
    [set |-> FALSE, ready |-> FALSE, alloc |-> 0, idle |-> 0, used |-> 0,
     releasing |-> 0, pipelined |-> 0, tasks |-> [p \in Names |-> "None"]]

\* setNode without its checks: the totals are counted again from the tasks.
setNode(ni, obj) ==
    LET used == Total(Holding(ni))
    IN  [ni EXCEPT !.set = TRUE, !.alloc = obj.alloc,
                   !.idle = obj.alloc - used, !.used = used,
                   !.releasing = Total(Leaving(ni)),
                   !.pipelined = Total(Promised(ni))]

setNodeState(ni, obj) == ni.used <= ni.alloc /\ obj.ready

NewNodeInfo(obj) ==
    [setNode(UnsetNodeInfo, obj) EXCEPT !.ready = obj.ready]

\* SetNode tries the change on a copy; if the node would not be ready, only
\* that is noted and everything else stays as it was.
SetNode(ni, obj) ==
    LET copy == setNode(ni, obj)
    IN  IF setNodeState(ni, obj) /\ setNodeState(copy, obj)
        THEN [copy EXCEPT !.ready = TRUE]
        ELSE [ni EXCEPT !.ready = FALSE]

\* A clone is built again from the Node and the tasks.
CloneNode(ni) == IF ni.set THEN setNode(ni, [alloc |-> ni.alloc]) ELSE ni

\* AddTask fails if the name is taken or, on a node that is set, if the
\* idle resources do not suffice.
AllocateFail(ni, p, s) ==
    ni.tasks[p] = "None" /\ ni.set /\ s # "Pipelined" /\ Req[p] > ni.idle

CanAddTask(ni, p, s) == ni.tasks[p] = "None" /\ ~AllocateFail(ni, p, s)

\* What the totals of a node gain (sign 1) or lose (sign -1) with a task.
Shift(ni, p, s, sign) ==
    LET r == IF ni.set THEN sign * Req[p] ELSE 0
    IN  CASE s = "Pipelined" -> [ni EXCEPT !.pipelined = @ + r]
          [] s = "Releasing" -> [ni EXCEPT !.idle = @ - r, !.used = @ + r,
                                           !.releasing = @ + r]
          [] OTHER           -> [ni EXCEPT !.idle = @ - r, !.used = @ + r]

AddTask(ni, p, s) == [Shift(ni, p, s, 1) EXCEPT !.tasks[p] = s]

\* Mutant: the resources of a task that leaves are forgotten.
MutRemoveTask(ni, p) ==
    IF ni.tasks[p] = "None" THEN ni
    ELSE IF ni.tasks[p] = "Releasing"
    THEN [Shift(ni, p, "Running", -1) EXCEPT !.tasks[p] = "None"]
    ELSE [Shift(ni, p, ni.tasks[p], -1) EXCEPT !.tasks[p] = "None"]

\* The status that counts is the one the node remembers.
RemoveTask(ni, p) ==
    IF ni.tasks[p] = "None" THEN ni
    ELSE [Shift(ni, p, ni.tasks[p], -1) EXCEPT !.tasks[p] = "None"]

\* UpdateTask ends the process when the task cannot be added again.
CanUpdateTask(ni, p, s) == CanAddTask(RemoveTask(ni, p), p, s)
UpdateTask(ni, p, s)    == AddTask(RemoveTask(ni, p), p, s)

\* The totals of a node are those of its tasks, and nothing is given twice.
Accounted(ni) ==
    IF ni.set
    THEN /\ ni.used = Total(Holding(ni))
         /\ ni.releasing = Total(Leaving(ni))
         /\ ni.pipelined = Total(Promised(ni))
         /\ ni.idle = ni.alloc - ni.used
         /\ ni.used <= ni.alloc
    ELSE [ni EXCEPT !.tasks = UnsetNodeInfo.tasks] = UnsetNodeInfo

=============================================================================
