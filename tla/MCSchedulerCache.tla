-------------------------- MODULE MCSchedulerCache --------------------------
(***************************************************************************)
(* Instances of SchedulerCache for TLC: two pods of a Job and a foreign    *)
(* one, for nodes that have room for one pod each.                         *)
(***************************************************************************)
EXTENDS SchedulerCache

One == [p \in Names |-> 1]
Room == [n \in Nodes |-> 1]
Owner == [p \in Names |-> IF p = "f" THEN "" ELSE "j"]

\* What is not named in bounds does not happen.
Scenario(pods, bounds) ==
    [pods |-> pods,
     budget |-> [d \in Disturbances |->
                   IF d \in DOMAIN bounds THEN bounds[d] ELSE 0]]

\* Two pods want the same place; a pod comes and goes, or the scheduler does;
\* another scheduler takes the place.
Contended ==
    {Scenario({"p1", "p2"}, b) :
       b \in {[err |-> 1], [volume |-> 1], [resize |-> 1], [evict |-> 1],
              [lost |-> 1], [delete |-> 1], [err |-> 1, delete |-> 1],
              [evict |-> 1, err |-> 1],
              [lost |-> 1, delete |-> 1]}}
Changing ==
    {Scenario({"p1"}, b) :
       b \in {[delete |-> 1, create |-> 1], [crash |-> 1, evict |-> 1],
              [err |-> 1, evict |-> 1], [lost |-> 1, relist |-> 1],
              [lost |-> 1, delete |-> 1],
              [group |-> 1, delete |-> 1], [finish |-> 1, relist |-> 1],
              [evict |-> 2, err |-> 1, relist |-> 1]}}
Shared == {Scenario({"p1", "f"}, [foreign |-> 1, renew |-> 1])}
All == Contended \cup Changing \cup Shared
=============================================================================
