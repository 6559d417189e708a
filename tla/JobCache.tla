------------------------------- MODULE JobCache -------------------------------
(***************************************************************************)
(* The job controller's cache (pkg/controllers/cache): for every Job its   *)
(* last version and its pods.  An entry is an object of its own, which     *)
(* `jobs` leads to by the Job's name and `deletedJobs` by reference, so a  *)
(* clean-up may concern an entry that the name no longer leads to.  An     *)
(* entry made for a pod does not know its own name.                        *)
(***************************************************************************)
EXTENDS ApiServer

VARIABLE jcc

NoJob == Gone

NewEntry(name, job) == [name |-> name, job |-> job, pods |-> {}]

\* deletedJobs: entries that wait for their delay, and entries that are due.
InitJCC == [entries |-> <<>>, jobs |-> <<>>, waiting |-> {}, queue |-> <<>>]

Entry(c, key) == c.entries[c.jobs[key]]

\* An entry that nothing leads to is gone.
Collect(c) ==
    LET live == Range(c.jobs) \cup c.waiting \cup Range(c.queue)
    IN [c EXCEPT !.entries = Restrict(@, DOMAIN @ \cap live)]

Fresh(c) == CHOOSE i \in 1..(Cardinality(DOMAIN c.entries) + 1) : i \notin DOMAIN c.entries

WithEntry(c, key, name, job) ==
    IF key \in DOMAIN c.jobs THEN c
    ELSE LET i == Fresh(c)
         IN [c EXCEPT !.entries = Put(@, i, NewEntry(name, job)),
                      !.jobs = Put(@, key, i)]

\* AddRateLimited.
deleteJob(c, i) == [c EXCEPT !.waiting = @ \cup {i}]

\* A Job is added to an entry made for its pods; a second one is an error.
Add(c, key, job) ==
    LET d == WithEntry(c, key, key, job)
    IN IF Entry(d, key).job = NoJob
       THEN [d EXCEPT !.entries[d.jobs[key]].job = job, !.entries[d.jobs[key]].name = key]
       ELSE d

\* Never back to an older version.
Update(c, key, job) ==
    IF key \notin DOMAIN c.jobs THEN c
    ELSE IF Entry(c, key).job # NoJob /\ job.rv < Entry(c, key).job.rv THEN c
    ELSE [c EXCEPT !.entries[c.jobs[key]].job = job]

Delete(c, key) ==
    IF key \notin DOMAIN c.jobs THEN c
    ELSE deleteJob([c EXCEPT !.entries[c.jobs[key]].job = NoJob], c.jobs[key])

AddPod(c, key, p) ==
    LET d == WithEntry(c, key, "", NoJob)
    IN [d EXCEPT !.entries[d.jobs[key]].pods = @ \cup {p}]

\* Pods are known by name: a changed one replaces its old self, one that is
\* not there is refused.
UpdatePod(c, key) == WithEntry(c, key, "", NoJob)

\* Mutant: the pod stays in the entry.
MutDeletePod(c, key, p) ==
    LET d == WithEntry(c, key, "", NoJob)
    IN IF Entry(d, key).job = NoJob THEN deleteJob(d, d.jobs[key]) ELSE d

DeletePod(c, key, p) ==
    LET d == WithEntry(c, key, "", NoJob)
        e == [d EXCEPT !.entries[d.jobs[key]].pods = @ \ {p}]
    IN IF Entry(e, key).job = NoJob THEN deleteJob(e, e.jobs[key]) ELSE e

(***************************************************************************)
(* The job controller's handlers.                                          *)
(***************************************************************************)
JcOnJob ==
    \E n \in Due("jcJob") :
      /\ Called("jcJob") /\ CallWorks /\ Unwritten /\ UNCHANGED blind
      /\ jcc' = CASE n.old = Gone -> Add(jcc, n.name, n.new)
                  [] n.new = Gone -> Delete(jcc, n.name)
                  [] OTHER        -> Update(jcc, n.name, n.new)

\* Pods of Jobs only.  A pod that is being deleted is deleted already.
JcOnPod ==
    \E n \in Due("jcPod") :
      /\ Called("jcPod") /\ CallWorks /\ Unwritten /\ UNCHANGED blind
      /\ LET pod == IF n.new = Gone THEN n.old ELSE n.new
         IN jcc' = IF pod.job = "" THEN jcc
                   ELSE IF n.new = Gone \/ pod.deleting THEN DeletePod(jcc, pod.job, n.name)
                   ELSE IF n.old = Gone THEN AddPod(jcc, pod.job, n.name)
                   ELSE UpdatePod(jcc, pod.job)

jobTerminated(e) == e.job = NoJob /\ e.pods = {}

\* The entry is dropped under the name it knows itself by, whatever entry that
\* name leads to.
processCleanupJob ==
    /\ jcc.queue # <<>>
    /\ Works /\ CallWorks /\ Unwritten
    /\ LET i == Head(jcc.queue)
           e == jcc.entries[i]
           c == [jcc EXCEPT !.queue = Tail(@)]
       IN IF ~jobTerminated(e) THEN jcc' = deleteJob(c, i) /\ UNCHANGED blind
          ELSE /\ jcc' = Collect([c EXCEPT !.jobs = Without(@, e.name)])
               /\ blind' = IF e.name \in DOMAIN jcc.jobs /\ jcc.jobs[e.name] # i
                           THEN blind \cup {<<"swept", e.name>>} ELSE blind

JcDelayOver ==
    \E i \in jcc.waiting :
      /\ Works /\ CallWorks /\ Unwritten /\ UNCHANGED blind
      /\ jcc' = [jcc EXCEPT !.waiting = @ \ {i},
                            !.queue = IF i \in Range(@) THEN @ ELSE Append(@, i)]

(***************************************************************************)
(* What the job controller finds under the Job's name (Get): this version  *)
(* of the Job, and the pods that belong to it.                             *)
(***************************************************************************)
Cached(j) ==
    /\ j \in DOMAIN jcc.jobs
    /\ Entry(jcc, j).job = api["job"][j]
    /\ Entry(jcc, j).pods = {p \in DOMAIN api["pod"] :
                                api["pod"][p].job = j /\ ~api["pod"][p].deleting}

=============================================================================
