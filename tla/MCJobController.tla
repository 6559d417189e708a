-------------------------- MODULE MCJobController --------------------------
(***************************************************************************)
(* Instances of JobController for TLC: one or two pods, of up to three     *)
(* tasks, and what may happen to them in each scenario.                    *)
(***************************************************************************)
EXTENDS JobController

One == [t \in Tasks |-> 1]
Zero == [t \in Tasks |-> 0]

NoLimit == -1
Unset == -1

NoDependency == [t \in Tasks |-> <<>>]

\* The second task waits for the first, the third for either of them.
Chain ==
    [t \in Tasks |-> CASE t = "t2" -> <<"t1">>
                       [] t = "t3" -> <<"t1", "t2">>
                       [] OTHER -> <<>>]

NoPolicy == [e \in Events |-> "None"]
NoTaskPolicy == [t \in Tasks |-> NoPolicy]

\* Policies of a gang: a lost pod restarts the Job.
FailPolicy == [NoPolicy EXCEPT !["PodFailed"] = "Restart"]
EvictPolicy == [NoPolicy EXCEPT !["PodEvicted"] = "Restart"]
LossPolicy == [FailPolicy EXCEPT !["PodEvicted"] = "Restart"]

\* A task that gives up or is done decides for the Job.
GiveUpPolicy ==
    [NoPolicy EXCEPT !["TaskFailed"] = "Terminate",
                     !["TaskCompleted"] = "Complete",
                     !["Unknown"] = "Abort"]
GiveUpTaskPolicy == [t \in Tasks |-> GiveUpPolicy]

\* A Job with these replicas and minAvailable, and how often each disturbance
\* may happen to it; what is not named may not.
Scenario(replicas, min, bounds) ==
    [replicas |-> replicas, min |-> min,
     budget |-> [d \in Disturbances |->
                   IF d \in DOMAIN bounds THEN bounds[d] ELSE 0]]

\* One pod, and somebody evicts it.
Evicted == {Scenario(One, 1, [evict |-> 1])}

\* One pod, and whatever may go wrong, one at a time.
AnyOne ==
    {Scenario(One, 1, b) :
       b \in {[cmd |-> 2], [crash |-> 1], [err |-> 1], [lost |-> 1],
              [scale |-> 1], [delete |-> 1]}}

\* One or two pods, of one task, of two in order, of two in any order.
SomeTasks ==
    {Scenario([t1 |-> 1, t2 |-> 0, t3 |-> 0], 1, [restart |-> 1, err |-> 1]),
     Scenario([t1 |-> 1, t2 |-> 0, t3 |-> 0], 1, [crash |-> 1]),
     Scenario([t1 |-> 1, t2 |-> 1, t3 |-> 0], 2, [cmd |-> 0]),
     Scenario([t1 |-> 1, t2 |-> 0, t3 |-> 1], 1, [cmd |-> 0])}
FirstTaskMin == [t \in Tasks |-> IF t = "t1" THEN 1 ELSE 0]

\* A command, which may be lost; a Job that is scaled up from nothing; a
\* restart of the controller; a refused call.
Settling ==
    {Scenario(One, 1, [cmd |-> 1, drop |-> 1]), Scenario(Zero, 0, [scale |-> 1]),
     Scenario(One, 1, [crash |-> 1]), Scenario(One, 1, [err |-> 1])}

\* Two pods that need each other.
Gang == {Scenario([t \in Tasks |-> 2], 2, [cmd |-> 0])}

OneCommand == {Scenario(One, 1, [cmd |-> 1])}
CommandError == {Scenario(One, 1, [cmd |-> 1, err |-> 1])}
Undisturbed == {Scenario(One, 1, [cmd |-> 0])}
=============================================================================
