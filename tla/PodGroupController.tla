------------------------- MODULE PodGroupController -------------------------
(***************************************************************************)
(* The podgroup controller (pkg/controllers/podgroup): a pod that names no *)
(* PodGroup gets one, of its own or shared with the other pods of its      *)
(* controller, and the annotation that leads to it.  Several workers take  *)
(* pods from a queue that never holds, or hands out, one twice at a time.  *)
(***************************************************************************)
EXTENDS ApiServer, Webhooks

VARIABLE pgc

InitPGC == [queue |-> <<>>, again |-> {}, later |-> {}, workers |-> <<>>]

PgAdd(c, p) ==
    IF p \in Range(c.queue) THEN c
    ELSE IF p \in DOMAIN c.workers THEN [c EXCEPT !.again = @ \cup {p}]
    ELSE [c EXCEPT !.queue = Append(@, p)]

PgDone(c, p) ==
    [c EXCEPT !.workers = Without(@, p), !.again = @ \ {p},
              !.queue = IF p \in c.again THEN Append(@, p) ELSE @]

\* An owner is <<kind, name, uid>>; it names the group.
GeneratePodgroupName(p, pod) ==
    IF pod.owner # <<>> THEN pod.owner ELSE <<"pod", p, pod.uid>>

newPGOwnerReferences(p, pod) ==
    IF pod.owner # <<>> THEN pod.owner ELSE <<"pod", p, pod.uid>>

\* addPod; nothing is called for updates and deletions of pods.
PgOnPod ==
    \E n \in Due("pgPod") :
      /\ Called("pgPod") /\ CallWorks /\ Unwritten /\ UNCHANGED blind
      /\ pgc' = IF n.old = Gone THEN PgAdd(pgc, n.name) ELSE pgc

\* A pod that relies on the group: it is there and names it, or would.
Users(g) == {p \in DOMAIN api["pod"] :
               \/ api["pod"][p].group = g
               \/ api["pod"][p].group = <<>> /\ GeneratePodgroupName(p, api["pod"][p]) = g}

\* addReplicaSet, also for updates: the group goes when the set is scaled to
\* zero, and its pods are astray, those on their way out and those of a set scaled
\* up again, until it is made anew.  A refused deletion is logged and that is all.
addReplicaSet ==
    \E n \in Due("pgSet") :
      /\ Called("pgSet") /\ UNCHANGED pgc
      /\ LET g == IF n.new = Gone THEN <<>> ELSE <<"rs", n.name, n.new.uid>>
         IN IF n.new = Gone \/ n.new.replicas # 0
            THEN CallWorks /\ Unwritten /\ UNCHANGED blind
            ELSE \/ CallFails /\ Unwritten /\ UNCHANGED blind
                 \/ /\ CallWorks
                    /\ IF g \in DOMAIN api["group"] THEN Write("group", g, Gone) ELSE Unwritten
                    /\ blind' = IF Users(g) # {} THEN blind \cup {<<"stray", g>>} ELSE blind

\* The annotations of the owner count if the pod has none of its own.
inheritUpperAnnotations(pod) ==
    IF pod.preemptable # "" \/ ~opt.inherit \/ pod.owner = <<>> THEN pod.preemptable
    ELSE IF pod.owner[2] \in DOMAIN api["rs"] THEN api["rs"][pod.owner[2]].preemptable
    ELSE ""

PgRetry(p) == pgc' = PgDone([pgc EXCEPT !.later = @ \cup {p}], p)

processNextReq ==
    /\ pgc.queue # <<>> /\ Cardinality(DOMAIN pgc.workers) < opt.workers
    /\ Works /\ CallWorks /\ Unwritten
    /\ LET p == Head(pgc.queue)
           c == [pgc EXCEPT !.queue = Tail(@)]
           pod == Lookup(store["pgPod"], p)
       IN IF pod = Gone \/ (pod # Gone /\ (pod.scheduler \notin Schedulers \/ pod.group # <<>>))
          THEN pgc' = c /\ UNCHANGED blind
          ELSE LET g == GeneratePodgroupName(p, pod)
                   known == g \in DOMAIN store["pgGroup"]
               IN /\ pgc' = [c EXCEPT !.workers =
                               Put(@, p, [step |-> IF known THEN "patch" ELSE "create",
                                          pod |-> pod])]
                  /\ blind' = IF known /\ g \notin DOMAIN api["group"]
                              THEN blind \cup {<<"stray", g>>} ELSE blind

createNormalPodPGIfNotExist(p) ==
    /\ p \in DOMAIN pgc.workers /\ pgc.workers[p].step = "create"
    /\ Works
    /\ LET pod == pgc.workers[p].pod
           g == GeneratePodgroupName(p, pod)
           new == [uid |-> 0, rv |-> 0, queue |-> pod.queue, phase |-> "Pending",
                   owner |-> newPGOwnerReferences(p, pod),
                   preemptable |-> inheritUpperAnnotations(pod)]
       IN \/ CallFails /\ Unwritten /\ PgRetry(p) /\ UNCHANGED blind
          \/ /\ CallWorks
             /\ IF g \in DOMAIN api["group"] THEN Unwritten
                ELSE Write("group", g, createPodGroupPatch(new, opt.nsQueue))
             /\ blind' = blind \ {<<"stray", g>>}
             /\ pgc' = [pgc EXCEPT !.workers[p].step = "patch"]

\* Mutant: a patch that fails is not tried again.
MutupdatePodAnnotations(p) ==
    /\ p \in DOMAIN pgc.workers /\ pgc.workers[p].step = "patch"
    /\ Works /\ UNCHANGED blind
    /\ LET stored == Lookup(api["pod"], p)
           g == GeneratePodgroupName(p, pgc.workers[p].pod)
       IN \/ CallFails /\ Unwritten /\ pgc' = PgDone(pgc, p)
          \/ CallWorks /\ stored = Gone /\ Unwritten /\ PgRetry(p)
          \/ /\ CallWorks /\ stored # Gone
             /\ Write("pod", p, [stored EXCEPT !.group = g])
             /\ pgc' = PgDone(pgc, p)

\* The patch goes to whatever pod has the name now.
updatePodAnnotations(p) ==
    /\ p \in DOMAIN pgc.workers /\ pgc.workers[p].step = "patch"
    /\ Works
    /\ LET stored == Lookup(api["pod"], p)
           g == GeneratePodgroupName(p, pgc.workers[p].pod)
       IN \/ CallFails /\ Unwritten /\ PgRetry(p) /\ UNCHANGED blind
          \/ CallWorks /\ stored = Gone /\ Unwritten /\ PgRetry(p) /\ UNCHANGED blind
          \/ /\ CallWorks /\ stored # Gone
             /\ Write("pod", p, [stored EXCEPT !.group = g])
             /\ blind' = IF stored.uid # pgc.workers[p].pod.uid
                         THEN blind \cup {<<"stray", g>>} ELSE blind
             /\ pgc' = PgDone(pgc, p)

PgLater ==
    \E p \in pgc.later :
      /\ Works /\ CallWorks /\ Unwritten /\ UNCHANGED blind
      /\ pgc' = PgAdd([pgc EXCEPT !.later = @ \ {p}], p)

=============================================================================
