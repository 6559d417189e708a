----------------------------- MODULE MCSession -----------------------------
(***************************************************************************)
(* Three jobs: A (three pods, one or two of them needed) and B (a gang of  *)
(* two, more important) share a queue, C has one of its own.  z is a       *)
(* best-effort pod of C.                                                   *)
(***************************************************************************)
EXTENDS Session

MCNames == {"a1", "a2", "a3", "b1", "b2", "c1", "z"}
MCReq   == [p \in MCNames |-> CASE p = "z" -> 0 [] p = "a2" -> 1 [] OTHER -> 2]
MCJobs  == {"A", "B", "C"}
MCJobOf == [p \in MCNames |-> CASE p \in {"a1", "a2", "a3"} -> "A"
                                [] p \in {"b1", "b2"} -> "B" [] OTHER -> "C"]
MCRole  == [p \in MCNames |-> IF p = "a1" THEN "main" ELSE "worker"]
MCMinTask == [j \in MCJobs |-> IF j = "A" THEN [main |-> 1, worker |-> 0]
                               ELSE [worker |-> 1]]
MCMinAvailable == [A |-> 1, B |-> 2, C |-> 1]
MCMinRes       == [A |-> 2, B |-> 4, C |-> 0]
MCJobPriority  == [A |-> 1, B |-> 2, C |-> 1]
MCTaskPriority == [p \in MCNames |-> IF p = "a1" THEN 2 ELSE 1]
MCQueues  == {"q1", "q2"}
MCQueueOf == [A |-> "q1", B |-> "q1", C |-> "q2"]
MCWeight  == [q1 |-> 1, q2 |-> 1]
MCGuarantee  == [q1 |-> 0, q2 |-> 2]
MCCapability == [q1 |-> 0, q2 |-> 4]
MCReclaimables == {"q1"}
MCPreemptables == {"a1", "a2", "a3", "c1"}
MCNodes == {"m", "n"}
MCSize  == [m |-> 6, n |-> 2]
MCBudget == [A |-> [kind |-> "", n |-> 0], B |-> [kind |-> "max", n |-> 1],
             C |-> [kind |-> "min", n |-> 1]]
MCUsage == [m |-> 90, n |-> 10]
MCFeasible == [p \in MCNames |-> MCNodes]

\* The default configuration, one in which a single tier decides, one without
\* gang, and one with the optional plugins.
Default == << <<"priority", "gang", "conformance">>,
              <<"overcommit", "drf", "predicates", "proportion">> >>
Single  == << <<"priority", "gang", "conformance", "cdp", "overcommit",
                "proportion">> >>
NoGang  == << <<"priority", "conformance", "proportion">> >>
Others  == << <<"priority", "gang", "sla">>,
              <<"overcommit", "proportion", "resourcequota", "tdm">>,
              <<"rescheduling">> >>
Zones   == << <<"priority", "tdm", "conformance">>, <<"proportion">> >>

Conf(actions, tiers) == [actions |-> actions, tiers |-> tiers]

MCConfs == {Conf(<<"enqueue", "allocate", "backfill">>, Default),
            Conf(<<"allocate", "preempt">>, Default),
            Conf(<<"allocate", "preempt">>, Single),
            Conf(<<"reclaim", "allocate">>, Single),
            Conf(<<"preempt">>, NoGang),
            Conf(<<"enqueue", "preempt", "shuffle">>, Others)}

Scene(actions, tiers, phase, where, budgets, up) ==
    [conf |-> Conf(actions, tiers),
     left |-> [b \in {"vanish", "bind", "complete", "node", "conf",
                             "zone"} |->
                  IF b \in budgets THEN 1 ELSE 0],
     cl |-> [status |-> [p \in MCNames |-> IF p \in DOMAIN where
                                           THEN "Running" ELSE "Pending"],
             host |-> [p \in MCNames |-> IF p \in DOMAIN where
                                         THEN where[p] ELSE ""],
             phase |-> phase, zone |-> budgets \cap {"zone", "closed"} = {},
             up |-> [n \in MCNodes |-> n \in up]]]

\* Where pods run at first; the others are pending.
Nowhere == [p \in {} |-> ""]
AonM    == [a1 |-> "m", a2 |-> "m", a3 |-> "m"]
Full    == AonM @@ [c1 |-> "n"]
Less    == [a1 |-> "m", a2 |-> "m", c1 |-> "m"]
Lent    == [a2 |-> "n", a3 |-> "m", c1 |-> "m", b1 |-> "m"]
Mixed   == [a2 |-> "m", a3 |-> "m", c1 |-> "m", b1 |-> "n"]
New     == [j \in MCJobs |-> "Pending"]
Waiting == [A |-> "Running", B |-> "Inqueue", C |-> "Inqueue"]

MCScenarios ==
    {Scene(<<"enqueue", "allocate", "backfill">>, Default, New, Nowhere,
           {"bind"}, MCNodes),
     Scene(<<"enqueue", "allocate", "backfill">>, Default, New, Nowhere,
           {"vanish"}, {"m"}),
     Scene(<<"enqueue", "allocate", "backfill">>, Default, Waiting, AonM,
           {"node", "complete"}, {"m"}),
     Scene(<<"allocate", "preempt">>, Default, Waiting, AonM, {"conf"}, {"m"}),
     Scene(<<"allocate", "preempt">>, Single, Waiting, Full, {"vanish"}, MCNodes),
     Scene(<<"preempt">>, Single, Waiting, Less, {}, {"m"}),
     Scene(<<"reclaim", "allocate">>, Single, Waiting, AonM, {"vanish"}, MCNodes),
     Scene(<<"preempt">>, NoGang, Waiting, Mixed, {}, MCNodes),
     Scene(<<"preempt">>, Zones, Waiting, Lent, {"zone"}, MCNodes),
     Scene(<<"enqueue", "preempt", "shuffle">>, Others, New, Lent, {"closed"},
           MCNodes)}

=============================================================================
