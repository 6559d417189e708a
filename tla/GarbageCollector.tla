--------------------------- MODULE GarbageCollector ---------------------------
(***************************************************************************)
(* The garbage collector (pkg/controllers/garbagecollector): a Job that    *)
(* has finished is deleted when its time to live is over.  The expiry is   *)
(* judged twice, on the lister's copy and on the Job itself.               *)
(***************************************************************************)
EXTENDS ApiServer

VARIABLE gcc

NoWork == [step |-> "idle"]

InitGCC == [queue |-> <<>>, again |-> FALSE, later |-> {}, timers |-> {}, worker |-> NoWork]

isJobFinished(job) == job.phase \in {"Completed", "Failed", "Terminated"}

needsCleanup(job) == job.spec.ttl # {} /\ isJobFinished(job)

\* The job a worker has taken is the head of the queue until it is done; if it
\* is added meanwhile it comes again afterwards.
GcAdd(c, j) ==
    IF c.worker # NoWork /\ c.worker.job = j THEN [c EXCEPT !.again = TRUE]
    ELSE IF j \in Range(c.queue) THEN c
    ELSE [c EXCEPT !.queue = Append(@, j)]

GcDone(c) ==
    [c EXCEPT !.worker = NoWork, !.again = FALSE,
              !.queue = IF c.again THEN Append(Tail(@), Head(@)) ELSE Tail(@)]

\* addJob and updateJob; nothing is called when a Job is gone.
GcOnJob ==
    \E n \in Due("gcJob") :
      /\ Called("gcJob") /\ CallWorks /\ Unwritten /\ UNCHANGED blind
      /\ gcc' = IF n.new # Gone /\ ~n.new.deleting /\ needsCleanup(n.new)
                THEN GcAdd(gcc, n.name) ELSE gcc

ExpireAt(job) == job.at + (CHOOSE t \in job.spec.ttl : TRUE)

\* "gone" if the Job is none of our business, "early" with a timer, "expired",
\* or "error" when nobody knows when it finished.
processTTL(job) ==
    IF job = Gone THEN "gone"
    ELSE IF job.deleting \/ ~needsCleanup(job) THEN "gone"
    ELSE IF job.at = 0 THEN "error"
    ELSE IF ExpireAt(job) <= clock THEN "expired"
    ELSE "early"

\* Of two timers of a Job the earlier is kept.
GcAfter(c, j, job) ==
    LET all == {t \in c.timers : t.job = j} \cup {[job |-> j, due |-> ExpireAt(job)]}
    IN [c EXCEPT !.timers = {t \in @ : t.job # j}
                              \cup {t \in all : \A u \in all : t.due <= u.due}]
GcRetry(c, j) == [c EXCEPT !.later = @ \cup {j}]

\* The outcome of a judgement of the Job: go on, or be done with it.
Judged(j, job, next) ==
    LET verdict == processTTL(job)
        c == [gcc EXCEPT !.worker = [step |-> next, job |-> j, uid |-> IF job = Gone THEN 0 ELSE job.uid]]
    IN gcc' = CASE verdict = "expired" -> c
                [] verdict = "early"   -> GcDone(GcAfter(c, j, job))
                [] verdict = "error"   -> GcDone(GcRetry(c, j))
                [] verdict = "gone"    -> GcDone(c)

processJob ==
    /\ gcc.worker = NoWork /\ gcc.queue # <<>>
    /\ Works /\ CallWorks /\ Unwritten /\ UNCHANGED blind
    /\ LET j == Head(gcc.queue)
       IN Judged(j, Lookup(store["gcJob"], j), "get")

\* Mutant: a look that fails is not tried again.
MutGcGet ==
    /\ gcc.worker.step = "get"
    /\ Works /\ Unwritten /\ UNCHANGED blind
    /\ LET j == gcc.worker.job
       IN \/ CallFails /\ gcc' = GcDone(gcc)
          \/ CallWorks /\ Judged(j, Lookup(api["job"], j), "delete")

GcGet ==
    /\ gcc.worker.step = "get"
    /\ Works /\ Unwritten /\ UNCHANGED blind
    /\ LET j == gcc.worker.job
       IN \/ CallFails /\ gcc' = GcDone(GcRetry(gcc, j))
          \/ CallWorks /\ Judged(j, Lookup(api["job"], j), "delete")

\* Mutant: the deletion names no uid.
MutGcDelete ==
    /\ gcc.worker.step = "delete"
    /\ Works /\ UNCHANGED blind
    /\ LET j == gcc.worker.job
           stored == Lookup(api["job"], j)
       IN \/ CallFails /\ Unwritten /\ gcc' = GcDone(GcRetry(gcc, j))
          \/ /\ CallWorks /\ stored # Gone /\ gcc' = GcDone(gcc)
             /\ IF stored.deleting THEN Unwritten
                ELSE Write("job", j, [stored EXCEPT !.deleting = TRUE])
          \/ /\ CallWorks /\ stored = Gone
             /\ Unwritten /\ gcc' = GcDone(GcRetry(gcc, j))

\* The deletion is in the foreground, and of this very Job: it is marked, and
\* goes when its dependents have gone.
GcDelete ==
    /\ gcc.worker.step = "delete"
    /\ Works /\ UNCHANGED blind
    /\ LET j == gcc.worker.job
           stored == Lookup(api["job"], j)
           same == stored # Gone /\ stored.uid = gcc.worker.uid
       IN \/ CallFails /\ Unwritten /\ gcc' = GcDone(GcRetry(gcc, j))
          \/ /\ CallWorks /\ same /\ gcc' = GcDone(gcc)
             /\ IF stored.deleting THEN Unwritten
                ELSE Write("job", j, [stored EXCEPT !.deleting = TRUE])
          \/ /\ CallWorks /\ ~same
             /\ Unwritten /\ gcc' = GcDone(GcRetry(gcc, j))

\* A timer fires, or a failed attempt is repeated.
GcLater ==
    /\ Works /\ CallWorks /\ Unwritten /\ UNCHANGED blind
    /\ \/ \E t \in gcc.timers :
            /\ t.due <= clock
            /\ gcc' = GcAdd([gcc EXCEPT !.timers = @ \ {t}], t.job)
       \/ \E j \in gcc.later : gcc' = GcAdd([gcc EXCEPT !.later = @ \ {j}], j)

=============================================================================
