----------------------------- MODULE TaskBinding -----------------------------
(***************************************************************************)
(* A task on its way to a node, as far as volumes and devices go: a        *)
(* session looks for volumes, assumes them and has the node's devices give *)
(* the pod cards; the statement is committed or discarded, or the session  *)
(* dispatches the tasks of a ready job; the binder has the volumes bound   *)
(* and binds the pod; what fails is reverted and read again.  Informers,   *)
(* node updates, the PV controller and the kubelets go on meanwhile.       *)
(***************************************************************************)
EXTENDS VolumeBinding, DeviceSharing

CONSTANTS
    Nodes,
    Scenarios    \* set of [opt, left, pv, pvc]: how an instance is set up

\* A pod's volumes are listed in order.  At the start a claim that is bound has a volume
\* that is the claim's; a volume named like a claim is made by a provisioner only.
ASSUME ScenarioAssumption ==
    \A s \in Scenarios :
      /\ \A p \in s.opt.pods : PodVols[p] \in Seq(Range(PodVols[p]))
      /\ s.pv \in [DOMAIN s.pv -> Range(s.pv)] /\ s.pvc \in [DOMAIN s.pvc -> Range(s.pvc)]
      /\ IsFiniteSet(DOMAIN s.pv) /\ IsFiniteSet(DOMAIN s.pvc)
      /\ DOMAIN s.pv \cap DOMAIN s.pvc = {} /\ "" \notin DOMAIN s.pv \cup DOMAIN s.pvc
      /\ \A v \in DOMAIN s.pv : IsVolume(s.pv[v])
      /\ \A c \in DOMAIN s.pvc :
           /\ IsClaim(s.pvc[c])
           /\ isPVCFullyBound(s.pvc[c]) =>
                s.pvc[c].vol \in DOMAIN s.pv /\ s.pv[s.pvc[c].vol].claim = c

VARIABLES
    opt,       \* [pods, nodes, dev, lock, min]: the pods and nodes of the instance, the kind of devices,
               \* whether gpushare locks nodes, and 0 or the size of the gang a session
               \* allocates without a statement
    left,      \* how often each disturbance may still happen
    pod,       \* the API server's pods: [node, dev, done, run] (a partial function)
    podFeed,   \* events on their way to the pod informer
    lock,      \* the lock annotation of a node: "free", "held", "old"
    shake,     \* its vgpu handshake: "reported", "requesting", "stale"
    k,         \* the cache's tasks: [st, node, dev]
    cards,     \* a node's devices, where it has any
    sess,      \* the session: [open, copy, ops, last, undo]
    t,         \* the tasks between a session's choice and the bind
    bindCache, \* those the binder has been given, in order
    errTasks,  \* those to be read again
    astray     \* pods whose claims were not bound to what the scheduler had chosen

taskVars == <<opt, left, pod, podFeed, lock, shake, k, cards, sess, t, bindCache, errTasks,
              astray>>
vars == <<volVars, taskVars>>

Spend(d) == left[d] > 0 /\ left' = [left EXCEPT ![d] = @ - 1]
Without(f, x) == Restrict(f, DOMAIN f \ {x})

NoSession == [open |-> FALSE, copy |-> <<>>, ops |-> <<>>, last |-> "", undo |-> FALSE]
NewPod == [node |-> "", dev |-> <<>>, done |-> FALSE, run |-> FALSE]

Listed(f) == LET names == SetToSeq(DOMAIN f)
             IN [i \in DOMAIN names |-> [name |-> names[i], obj |-> f[names[i]]]]

Devices == [n \in {n \in opt.nodes : opt.dev # "vgpu" \/ shake[n] # "stale"} |->
              NewGPUDevices(opt.dev, n)]

Init ==
    \E s \in Scenarios :
      /\ opt = s.opt /\ left = s.left /\ pv = s.pv /\ pvc = s.pvc
      /\ pod = [p \in s.opt.pods |-> NewPod]
      /\ volFeed = [pv |-> Listed(s.pv), pvc |-> Listed(s.pvc)]
      /\ podFeed = Listed(pod)
      /\ pvCache = <<>> /\ pvcCache = <<>> /\ k = <<>>
      /\ lock = [n \in s.opt.nodes |-> "free"] /\ shake = [n \in s.opt.nodes |-> "reported"]
      /\ cards = Devices
      /\ sess = NoSession /\ t = <<>> /\ bindCache = <<>> /\ errTasks = {} /\ astray = {}

(***************************************************************************)
(* The cache and its nodes' devices.  A task that is on its way or on the  *)
(* node is counted with the pod the cache knows.                           *)
(***************************************************************************)
Counted(c, n, p, dev) ==
    IF n \in DOMAIN c THEN [c EXCEPT ![n] = AddResource(opt.dev, @, p, dev)] ELSE c
Uncounted(c, n, p, dev) ==
    IF n \in DOMAIN c THEN [c EXCEPT ![n] = SubResource(opt.dev, @, p, dev)] ELSE c

Removed(p) == IF p \in DOMAIN k THEN Uncounted(cards, k[p].node, p, k[p].dev) ELSE cards

\* updateTask: what the cache knew of p is replaced.
Replace(p, o) ==
    /\ k' = Put(k, p, [st |-> IF o.done THEN "done" ELSE IF o.node = "" THEN "pending" ELSE "bound",
                       node |-> IF o.done THEN "" ELSE o.node, dev |-> o.dev])
    /\ cards' = IF o.done THEN Removed(p) ELSE Counted(Removed(p), o.node, p, o.dev)
Forget(p) ==
    /\ k' = Without(k, p)
    /\ cards' = Removed(p)

HandlePod ==
    /\ podFeed # <<>>
    /\ podFeed' = Tail(podFeed)
    /\ LET p == Head(podFeed).name
           o == Head(podFeed).obj
       IN IF o = Gone THEN Forget(p)
          ELSE IF p \in DOMAIN k /\ k[p].st \in {"binding", "bound"} /\ o.node = ""
          THEN UNCHANGED <<k, cards>>
          ELSE Replace(p, o)
    /\ UNCHANGED <<volVars, opt, left, pod, lock, shake, sess, t, bindCache, errTasks, astray>>

processResyncTask(p) ==
    /\ p \in errTasks
    /\ errTasks' = errTasks \ {p}
    /\ IF p \in DOMAIN pod THEN Replace(p, pod[p]) ELSE Forget(p)
    /\ UNCHANGED <<volVars, opt, left, pod, podFeed, lock, shake, sess, t, bindCache, astray>>

\* Whoever makes a node's devices answers a handshake, and takes an old one of its
\* own for a node without devices.
Answered == [n \in opt.nodes |-> IF shake[n] = "reported" THEN "requesting" ELSE shake[n]]

\* Mutant: devices that are there are kept as they are.
MutSetNode(n) ==
    /\ cards' = IF n \in DOMAIN Devices /\ n \notin DOMAIN cards
                THEN Put(cards, n, Devices[n]) ELSE cards
    /\ shake' = IF opt.dev = "vgpu" THEN [shake EXCEPT ![n] = Answered[n]] ELSE shake
    /\ UNCHANGED <<volVars, opt, left, pod, podFeed, lock, k, sess, t, bindCache, errTasks, astray>>

\* The node is updated: its devices are made anew and the cache's tasks counted.  (An
\* update that says the node is not ready changes neither.)
SetNode(n) ==
    /\ cards' = IF n \notin DOMAIN Devices THEN Without(cards, n)
                ELSE Put(cards, n, FoldSet(LAMBDA p, c : AddResource(opt.dev, c, p, k[p].dev),
                                           Devices[n], {p \in DOMAIN k : k[p].node = n}))
    /\ shake' = IF opt.dev = "vgpu" THEN [shake EXCEPT ![n] = Answered[n]] ELSE shake
    /\ UNCHANGED <<volVars, opt, left, pod, podFeed, lock, k, sess, t, bindCache, errTasks, astray>>

\* All is lost but what the API server knows; the informers list it anew.
StartAgain ==
    /\ pvCache' = <<>> /\ pvcCache' = <<>> /\ k' = <<>>
    /\ volFeed' = [pv |-> Listed(pv), pvc |-> Listed(pvc)]
    /\ podFeed' = Listed(pod)
    /\ cards' = Devices
    /\ sess' = NoSession /\ t' = <<>> /\ bindCache' = <<>> /\ errTasks' = {}
    /\ UNCHANGED <<pv, pvc, opt, pod, lock, shake, astray>>
Restart == Spend("restart") /\ StartAgain

(***************************************************************************)
(* The session.                                                            *)
(***************************************************************************)
OpenSession ==
    /\ ~sess.open
    /\ \E p \in DOMAIN k : k[p].st = "pending"
    /\ sess' = [NoSession EXCEPT !.open = TRUE,
                  !.copy = [p \in {q \in DOMAIN k : k[q].st = "pending"} |-> k[p].dev]]
    /\ shake' = IF opt.dev = "vgpu" THEN Answered ELSE shake
    /\ UNCHANGED <<volVars, opt, left, pod, podFeed, lock, k, cards, t, bindCache, errTasks, astray>>

Choosing == \E p \in DOMAIN t : t[p].st = "found"
\* The session looks for a node and for volumes.  (A session that has one task
\* allocated without a statement goes on when that is settled.)
Looking(p) ==
    /\ sess.open /\ ~sess.undo /\ sess.last = "" /\ ~Choosing
    /\ p \in DOMAIN sess.copy \ DOMAIN t

GetVolumes(p, n) ==
    /\ Looking(p)
    /\ n \in DOMAIN cards /\ FilterNode(opt.dev, p, n, cards[n])
    /\ ~GetPodVolumesFails(p)
    /\ \E vols \in FindPodVolumes(p, n) :
         t' = Put(t, p, [st |-> "found", node |-> n, vols |-> vols, none |-> FALSE,
                         ready |-> FALSE, i |-> 1])
    /\ UNCHANGED <<volVars, opt, left, pod, podFeed, lock, shake, k, cards, sess, bindCache,
                   errTasks, astray>>

\* A node without vgpu devices is no node to ask for them.
FilterPanics(p, n) ==
    /\ Looking(p)
    /\ n \notin DOMAIN cards /\ HasDeviceRequest(opt.dev, p)
    /\ StartAgain /\ UNCHANGED left

\* The pod's annotation is written; the informer hears of it.
Annotate(p, dev) ==
    /\ pod' = [pod EXCEPT ![p].dev = dev]
    /\ podFeed' = Append(podFeed, [name |-> p, obj |-> pod'[p]])

\* A patched annotation, and the cards of the offer; otherwise counts what is left when
\* there is no offer, the patch fails or its answer is lost.
Patched(p, n, offer, otherwise) ==
    \/ /\ offer.ok /\ p \in DOMAIN pod
       /\ Annotate(p, offer.dev)
       /\ \/ cards' = [cards EXCEPT ![n] = offer.cards] /\ UNCHANGED left
          \/ cards' = [cards EXCEPT ![n] = otherwise] /\ Spend("err")
    \/ /\ IF offer.ok /\ p \in DOMAIN pod THEN Spend("err") ELSE UNCHANGED left
       /\ cards' = [cards EXCEPT ![n] = otherwise]
       /\ UNCHANGED <<pod, podFeed>>

Locks == opt.dev = "vgpu" \/ (opt.dev = "memory" /\ opt.lock)
setNodeLock(n) == [lock EXCEPT ![n] = "held"]
ReleaseNodeLock(n) == [lock EXCEPT ![n] = "free"]

\* A lock of the last five minutes is respected, an older one taken off and set anew.
LockNode(n) ==
    /\ lock[n] # "held"
    /\ lock' = setNodeLock(n)
LockFails(n) ==
    \/ lock[n] = "held" /\ UNCHANGED <<lock, left>>
    \/ /\ lock[n] # "held" /\ Spend("err")
       /\ \/ lock' \in {lock, setNodeLock(n)}
          \/ lock[n] = "old" /\ lock' = ReleaseNodeLock(n)

\* gpushare locks, chooses and counts once the annotation is written.
gpushareAllocate(p, n, counted) ==
    \/ /\ Locks /\ LockFails(n)
       /\ cards' = [cards EXCEPT ![n] = counted]
       /\ UNCHANGED <<pod, podFeed>>
    \/ /\ IF Locks THEN LockNode(n) ELSE UNCHANGED lock
       /\ \E offer \in Offers(opt.dev, p, n, counted) : Patched(p, n, offer, counted)

\* vgpu counts while it chooses.
vgpuAllocate(p, n, counted) ==
    \E offer \in Offers(opt.dev, p, n, counted) :
      \/ /\ IF offer.ok THEN LockFails(n) ELSE UNCHANGED <<lock, left>>
         /\ cards' = [cards EXCEPT ![n] = offer.cards]
         /\ UNCHANGED <<pod, podFeed>>
      \/ /\ offer.ok /\ LockNode(n)
         /\ Patched(p, n, offer, offer.cards)

\* The predicates plugin's handler, with what the node counts after the task was put
\* on it.  No failure keeps the task from the node.
AllocateFunc(p, n, counted) ==
    IF ~HasDeviceRequest(opt.dev, p)
    THEN /\ cards' = [cards EXCEPT ![n] = counted]
         /\ UNCHANGED <<pod, podFeed, lock, left>>
    ELSE IF opt.dev = "vgpu" THEN vgpuAllocate(p, n, counted) ELSE gpushareAllocate(p, n, counted)

\* Some volume or claim cannot be assumed for p.
AllocateVolumesFails(p) ==
    ~arePodVolumesBound(p) /\ (PVFailures(t[p].vols) # {} \/ PVCFailures(t[p].vols) # {})

\* Statement.Allocate and Session.Allocate up to the event handlers.
Allocate(p) ==
    /\ p \in DOMAIN t /\ t[p].st = "found"
    /\ LET n == t[p].node
           bound == arePodVolumesBound(p)
           done == [t[p] EXCEPT !.st = "allocated", !.ready = bound,
                                !.vols = IF bound THEN @ ELSE Assumed(@, n)]
       IN IF AllocateVolumesFails(p)
          THEN /\ AssumePodVolumes(t[p].vols, n)
               /\ t' = Without(t, p)
               /\ UNCHANGED <<sess, cards, pod, podFeed, lock, left, astray>>
          ELSE /\ n \in DOMAIN cards \/ ~HasDeviceRequest(opt.dev, p)
               /\ IF bound THEN UNCHANGED <<pvCache, pvcCache>>
                  ELSE AssumePodVolumes(t[p].vols, n)
               /\ t' = [t EXCEPT ![p] = done]
               /\ sess' = [sess EXCEPT !.ops = Append(@, p),
                                       !.last = IF opt.min > 0 THEN p ELSE ""]
               /\ astray' = IF bound /\ t[p].vols # NoVols THEN astray \cup {p} ELSE astray
               /\ IF n \in DOMAIN cards
                  THEN AllocateFunc(p, n, AddResource(opt.dev, cards[n], p, sess.copy[p]))
                  ELSE UNCHANGED <<cards, pod, podFeed, lock, left>>
    /\ UNCHANGED <<pv, pvc, volFeed, opt, shake, k, bindCache, errTasks>>

\* The handler asks a node whose vgpu devices have gone since it was chosen.
AllocatePanics(p) ==
    /\ p \in DOMAIN t /\ t[p].st = "found" /\ ~AllocateVolumesFails(p)
    /\ t[p].node \notin DOMAIN cards /\ HasDeviceRequest(opt.dev, p)
    /\ StartAgain /\ UNCHANGED left

JobReady == Cardinality({p \in DOMAIN k : k[p].st \in {"binding", "bound"}}
                        \cup Range(sess.ops)) >= opt.min

RevertVolumes(p) == IF t[p].none THEN UNCHANGED <<pvCache, pvcCache>>
                    ELSE RevertAssumedPodVolumes(t[p].vols)

\* Session.Allocate, the job not being ready: the volumes are let go at once, the
\* task keeps its node.
LetGo(p) ==
    /\ RevertVolumes(p)
    /\ t' = [t EXCEPT ![p].none = TRUE, ![p].ready = FALSE, ![p].vols = NoVols]

NotReady ==
    /\ sess.last # "" /\ ~JobReady
    /\ LetGo(sess.last)
    /\ sess' = [sess EXCEPT !.last = ""]
    /\ UNCHANGED <<pv, pvc, volFeed, opt, left, pod, podFeed, lock, shake, k, cards, bindCache,
                   errTasks, astray>>

\* AddBindTask.  The node counts the pod the cache knows.
AddBindTask(p) ==
    /\ k' = [k EXCEPT ![p].st = "binding", ![p].node = t[p].node]
    /\ cards' = Counted(cards, t[p].node, p, k[p].dev)
    /\ bindCache' = Append(bindCache, p)
    /\ t' = [t EXCEPT ![p].st = "queued"]
    /\ UNCHANGED <<pvCache, pvcCache>>

\* Statement.Commit, Session.dispatch: the next task.
Commit ==
    /\ sess.ops # <<>> /\ ~sess.undo /\ ~Choosing
    /\ IF opt.min = 0 THEN sess.last = "" ELSE JobReady /\ sess.last # ""
    /\ LET p == Head(sess.ops)
           known == p \in DOMAIN k /\ k[p].st = "pending"
       IN IF known
          THEN /\ AddBindTask(p)
               /\ sess' = [sess EXCEPT !.ops = Tail(@), !.copy = Without(@, p),
                                       !.last = IF Len(sess.ops) = 1 THEN "" ELSE @]
          ELSE IF opt.min = 0
          THEN /\ RevertVolumes(p)
               /\ t' = Without(t, p)
               /\ sess' = [sess EXCEPT !.ops = Tail(@), !.copy = Without(@, p)]
               /\ UNCHANGED <<k, cards, bindCache>>
          ELSE /\ LetGo(sess.last)
               /\ sess' = [sess EXCEPT !.last = ""]
               /\ UNCHANGED <<k, cards, bindCache>>
    /\ UNCHANGED <<pv, pvc, volFeed, opt, left, pod, podFeed, lock, shake, errTasks, astray>>

\* Statement.Discard begins; the tasks are taken back from the last.
Discard ==
    /\ opt.min = 0 /\ sess.ops # <<>> /\ ~sess.undo /\ ~Choosing
    /\ Spend("discard")
    /\ sess' = [sess EXCEPT !.undo = TRUE]
    /\ UNCHANGED <<volVars, opt, pod, podFeed, lock, shake, k, cards, t, bindCache, errTasks, astray>>

\* gpushare forgets a pod only on the cards of the annotation the session knows, and
\* only if it hears that the one at the API server was removed.
Release(p, n, counted) ==
    \/ /\ p \in DOMAIN pod /\ pod[p].dev # <<>>
       /\ Annotate(p, <<>>)
       /\ \/ /\ cards' = [cards EXCEPT ![n] = DropFrom(counted, p, sess.copy[p])]
             /\ UNCHANGED left
          \/ cards' = [cards EXCEPT ![n] = counted] /\ Spend("err")
    \/ /\ IF p \in DOMAIN pod /\ pod[p].dev # <<>> THEN Spend("err") ELSE UNCHANGED left
       /\ cards' = [cards EXCEPT ![n] = counted]
       /\ UNCHANGED <<pod, podFeed>>

\* For vgpu there is nothing to release.
DeallocateFunc(p, n, counted) ==
    IF opt.dev \in {"memory", "number"} /\ HasDeviceRequest(opt.dev, p)
    THEN Release(p, n, counted)
    ELSE /\ cards' = [cards EXCEPT ![n] = counted]
         /\ UNCHANGED <<pod, podFeed, left>>

unallocate ==
    /\ sess.undo /\ sess.ops # <<>>
    /\ LET p == Last(sess.ops)
           n == t[p].node
       IN /\ RevertVolumes(p)
          /\ t' = Without(t, p)
          /\ sess' = [sess EXCEPT !.ops = Front(@), !.undo = Len(sess.ops) > 1]
          /\ IF n \in DOMAIN cards
             THEN DeallocateFunc(p, n, SubResource(opt.dev, cards[n], p, sess.copy[p]))
             ELSE UNCHANGED <<cards, pod, podFeed, left>>
    /\ UNCHANGED <<pv, pvc, volFeed, opt, lock, shake, k, bindCache, errTasks, astray>>

\* Tasks that a session without a statement has allocated to a job that did not get
\* ready are forgotten with it.
CloseSession ==
    /\ sess.open /\ ~sess.undo /\ sess.last = "" /\ ~Choosing
    /\ opt.min = 0 => sess.ops = <<>>
    /\ sess' = NoSession
    /\ t' = Restrict(t, DOMAIN t \ Range(sess.ops))
    /\ UNCHANGED <<volVars, opt, left, pod, podFeed, lock, shake, k, cards, bindCache, errTasks,
                   astray>>

(***************************************************************************)
(* The binder: one task after the other.                                   *)
(***************************************************************************)
\* RevertVolumes and resyncTask.
Fail(p) ==
    /\ RevertVolumes(p)
    /\ t' = Without(t, p)
    /\ errTasks' = errTasks \cup {p}

BindVolumes ==
    /\ bindCache # <<>>
    /\ LET p == Head(bindCache)
       IN /\ t[p].st = "queued" /\ (t[p].none => t[p].ready)
          /\ t' = [t EXCEPT ![p].st = IF t[p].ready THEN "binding" ELSE "writing"]
          /\ bindCache' = IF t[p].ready THEN Tail(bindCache) ELSE bindCache
    /\ UNCHANGED <<volVars, opt, left, pod, podFeed, lock, shake, k, cards, sess, errTasks, astray>>

\* Volumes that were let go leave nothing to bind: BindPodVolumes reads them all the
\* same.
BindVolumesPanics ==
    /\ bindCache # <<>>
    /\ t[Head(bindCache)].none /\ ~t[Head(bindCache)].ready
    /\ StartAgain /\ UNCHANGED left

\* bindAPIUpdate: one volume or claim after the other.
bindAPIUpdate ==
    /\ bindCache # <<>>
    /\ LET p == Head(bindCache)
           vols == t[p].vols
           i == t[p].i
           j == i - Len(vols.bind)
           b == vols.bind[i]
           c == vols.prov[j]
       IN /\ t[p].st = "writing" /\ j <= Len(vols.prov)
          /\ \/ /\ IF j <= 0 THEN ~UpdateFails(pv, b.pv, b.obj) /\ PutPV(b.pv, b.obj)
                             ELSE ~UpdateFails(pvc, c.claim, c.obj) /\ PutPVC(c.claim, c.obj)
                /\ t' = [t EXCEPT ![p].i = i + 1,
                           ![p].vols = IF j <= 0 THEN [@ EXCEPT !.bind[i].obj = pv'[b.pv]]
                                       ELSE [@ EXCEPT !.prov[j].obj = pvc'[c.claim]]]
                /\ UNCHANGED <<pvCache, pvcCache, bindCache, errTasks, left>>
             \/ /\ IF IF j <= 0 THEN UpdateFails(pv, b.pv, b.obj)
                      ELSE UpdateFails(pvc, c.claim, c.obj)
                   THEN UNCHANGED left ELSE Spend("err")
                /\ Fail(p)
                /\ bindCache' = Tail(bindCache)
                /\ UNCHANGED <<pv, pvc, volFeed>>
    /\ UNCHANGED <<opt, pod, podFeed, lock, shake, k, cards, sess, astray>>

\* BindPodVolumes polls until all is bound, something is wrong or the time is up.
Poll ==
    /\ bindCache # <<>>
    /\ LET p == Head(bindCache)
           vols == t[p].vols
           verdict == IF p \notin DOMAIN k THEN "error" ELSE checkBindings(vols, t[p].node)
       IN /\ t[p].st = "writing" /\ t[p].i > Len(vols.bind) + Len(vols.prov)
          /\ \/ /\ verdict = "bound"
                /\ t' = [t EXCEPT ![p].st = "binding"]
                /\ astray' = IF \E i \in DOMAIN vols.bind :
                                  pvcCache[vols.bind[i].claim].api.vol # vols.bind[i].pv
                             THEN astray \cup {p} ELSE astray
                /\ UNCHANGED <<pvCache, pvcCache, errTasks, left>>
             \/ /\ IF verdict = "wait" THEN Spend("timeout")
                   ELSE verdict = "error" /\ UNCHANGED left
                /\ Fail(p)
                /\ UNCHANGED astray
    /\ bindCache' = Tail(bindCache)
    /\ UNCHANGED <<pv, pvc, volFeed, opt, pod, podFeed, lock, shake, k, cards, sess>>

\* The pod is bound; the answer may be an error all the same.
Bind(p) ==
    /\ p \in DOMAIN t /\ t[p].st = "binding"
    /\ \/ /\ p \in DOMAIN pod /\ pod[p].node = ""
          /\ pod' = [pod EXCEPT ![p].node = t[p].node]
          /\ podFeed' = Append(podFeed, [name |-> p, obj |-> pod'[p]])
          /\ \/ t' = Without(t, p) /\ UNCHANGED <<pvCache, pvcCache, errTasks, left>>
             \/ Spend("err") /\ Fail(p)
       \/ /\ IF p \in DOMAIN pod /\ pod[p].node = "" THEN Spend("err") ELSE UNCHANGED left
          /\ Fail(p)
          /\ UNCHANGED <<pod, podFeed>>
    /\ UNCHANGED <<pv, pvc, volFeed, opt, lock, shake, k, cards, sess, bindCache, astray>>

(***************************************************************************)
(* The others.                                                             *)
(***************************************************************************)
Outside == UNCHANGED <<opt, k, cards, sess, t, bindCache, errTasks, astray>>

PutPod(p, o) ==
    /\ pod' = [pod EXCEPT ![p] = o]
    /\ podFeed' = Append(podFeed, [name |-> p, obj |-> o])
    /\ UNCHANGED <<volVars, shake>>

\* The device plugin finds the pod the node is locked for.
StartPod(p) ==
    /\ Outside /\ UNCHANGED left
    /\ p \in DOMAIN pod /\ pod[p].node # "" /\ ~pod[p].run
    /\ lock' = IF Locks THEN [lock EXCEPT ![pod[p].node] = "free"] ELSE lock
    /\ PutPod(p, [pod[p] EXCEPT !.run = TRUE])

FinishPod(p) ==
    /\ Outside /\ UNCHANGED lock /\ Spend("finish")
    /\ p \in DOMAIN pod /\ pod[p].run /\ ~pod[p].done
    /\ PutPod(p, [pod[p] EXCEPT !.done = TRUE])

DeletePod(p) ==
    /\ Outside /\ Spend("kill")
    /\ p \in DOMAIN pod
    /\ pod' = Without(pod, p)
    /\ podFeed' = Append(podFeed, [name |-> p, obj |-> Gone])
    /\ UNCHANGED <<volVars, lock, shake>>

\* Five minutes after it was locked, sixty seconds after it was asked.
LockAges(n) ==
    /\ Outside /\ Spend("age")
    /\ lock[n] = "held" /\ lock' = [lock EXCEPT ![n] = "old"]
    /\ UNCHANGED <<volVars, pod, podFeed, shake>>

HandshakeAges(n) ==
    /\ Outside /\ Spend("leave")
    /\ shake[n] = "requesting" /\ shake' = [shake EXCEPT ![n] = "stale"]
    /\ UNCHANGED <<volVars, pod, podFeed, lock>>

Report(n) ==
    /\ Outside /\ UNCHANGED left
    /\ shake[n] # "reported" /\ shake' = [shake EXCEPT ![n] = "reported"]
    /\ UNCHANGED <<volVars, pod, podFeed, lock>>

PVController ==
    /\ \/ \E c \in DOMAIN pvc, v \in DOMAIN pv : PVControllerBind(c, v)
       \/ \E v \in DOMAIN pv : PVControllerUnbind(v)
       \/ \E c \in DOMAIN pvc : Provision(c)
    /\ UNCHANGED taskVars

ProvisionerGivesUp(c) ==
    /\ Outside /\ Spend("unprov") /\ ProvisionFails(c)
    /\ UNCHANGED <<pod, podFeed, lock, shake>>

DeleteVolume(v) ==
    /\ Outside /\ Spend("unpv") /\ pv[v].claim = "" /\ DeletePV(v)
    /\ UNCHANGED <<pod, podFeed, lock, shake>>

VolumeInformers == (HandlePV \/ HandlePVC) /\ UNCHANGED taskVars

SessionWorks ==
    \/ \E p \in opt.pods : Allocate(p) \/ AllocatePanics(p)
    \/ NotReady \/ Commit \/ Discard \/ unallocate \/ CloseSession
BinderWorks ==
    \/ BindVolumes \/ bindAPIUpdate \/ Poll
    \/ \E p \in opt.pods : Bind(p)

Next ==
    \/ HandlePod \/ VolumeInformers \/ OpenSession \/ SessionWorks \/ BinderWorks
    \/ BindVolumesPanics \/ Restart \/ PVController
    \/ \E p \in opt.pods : \/ processResyncTask(p) \/ StartPod(p) \/ FinishPod(p) \/ DeletePod(p)
                           \/ \E n \in opt.nodes : GetVolumes(p, n) \/ FilterPanics(p, n)
    \/ \E n \in opt.nodes : SetNode(n) \/ LockAges(n) \/ HandshakeAges(n) \/ Report(n)
    \/ \E c \in DOMAIN pvc : ProvisionerGivesUp(c)
    \/ \E v \in DOMAIN pv : DeleteVolume(v)

Spec == Init /\ [][Next]_vars

\* The goroutines of the scheduler run; kubelets and device plugins report.
FairSpec ==
    /\ Spec
    /\ WF_vars(HandlePod) /\ WF_vars(SessionWorks) /\ WF_vars(BinderWorks)
    /\ WF_vars(\E p \in opt.pods : processResyncTask(p))
    /\ \A n \in Nodes : WF_vars(n \in opt.nodes /\ SetNode(n)) /\ WF_vars(n \in opt.nodes /\ Report(n))

(***************************************************************************)
(* Properties.                                                             *)
(***************************************************************************)
CardType == [pods : SUBSET opt.pods, mem : 0 .. Word - 1, num : 0 .. Word - 1,
             core : 0 .. Word - 1]

\* What the caches, the devices and the binder hold is of the right kind: no volume is
\* cached in a version the API server never gave out, no task is with the binder
\* unless the binder has its volumes (cache.go, device_info.go, binder.go).
TypeOK ==
    /\ \A v \in DOMAIN pvCache : v \in DOMAIN pv =>
         pvCache[v].api.rv <= pvCache[v].latest.rv /\ pvCache[v].latest.rv <= pv[v].rv
    /\ \A n \in DOMAIN cards, i \in UNION {DOMAIN cards[m] : m \in DOMAIN cards} :
         i \in DOMAIN cards[n] => cards[n][i] \in CardType
    /\ \A p \in Range(bindCache) : p \in DOMAIN t /\ t[p].st \in {"queued", "writing"}
    /\ \A p \in DOMAIN t : t[p].node \in opt.nodes

\* A pod is bound to a node only when each of its claims is bound, to a volume that is
\* the claim's and that the node reaches (BindPodVolumes, AssumePodVolumes) - but for
\* the two ways the code can miss: a claim bound by another pod's binding between
\* FindPodVolumes and AssumePodVolumes, and a claim the PV controller binds to another
\* volume reserved for it earlier, which checkBindings does not compare.
BoundReachable ==
    \A p \in DOMAIN pod \ astray : pod[p].node # "" =>
      \A c \in ClaimsOf(p) :
        /\ isPVCFullyBound(pvc[c])
        /\ pvc[c].vol \in DOMAIN pv
        /\ pv[pvc[c].vol].claim = c
        /\ pod[p].node \in pv[pvc[c].vol].reach

\* The pods that hold cards of n, or will when their bind is done, and what of a card
\* they hold.
Holders(n) ==
    {p \in DOMAIN pod : ~pod[p].done /\ \/ pod[p].node = n
                                        \/ pod[p].node = "" /\ p \in DOMAIN t /\ t[p].node = n}
Held(n, i, what(_)) ==
    FoldSet(LAMBDA p, s : s + FoldLeft(LAMBDA a, d : IF d.card = i THEN a + what(d) ELSE a,
                                       0, pod[p].dev), 0, Holders(n))
HeldMem(n, i) == Held(n, i, LAMBDA d : d.mem)
HeldCore(n, i) == Held(n, i, LAMBDA d : d.core)
HeldNum(n, i) == Held(n, i, LAMBDA d : 1)

CountsRight(n) ==
    n \in DOMAIN cards =>
      \A i \in DOMAIN cards[n] :
        IF opt.dev = "vgpu"
        THEN /\ cards[n][i].mem = HeldMem(n, i)
             /\ cards[n][i].core = HeldCore(n, i)
             /\ cards[n][i].num = HeldNum(n, i)
        ELSE cards[n][i].pods = {p \in Holders(n) : OnCards(pod[p].dev, i)}

\* Of card i a pod takes so much more, and it is all still there.
Fits(n, i, mem, core, num) ==
    /\ HeldMem(n, i) + mem <= Card[n][i].mem /\ HeldCore(n, i) + core <= 100
    /\ opt.dev = "vgpu" => HeldNum(n, i) + num <= Card[n][i].num
    /\ opt.dev = "number" => HeldNum(n, i) + num <= 1

\* Cards are not sold twice as long as the counts are right: what FilterNode lets a pod
\* have on a node, for all its containers, fits with what the pods there hold
\* (checkNodeGPUSharingPredicate, predicateGPUbyMemory, predicateGPUbyNumber).
CardsFit ==
    \A n \in DOMAIN cards :
      CountsRight(n) /\ (\A i \in DOMAIN cards[n] : Fits(n, i, 0, 0, 0)) =>
        \A p \in opt.pods \ Holders(n) : HasDeviceRequest(opt.dev, p) =>
          \A offer \in Offers(opt.dev, p, n, cards[n]) : offer.ok =>
            \A i \in DOMAIN cards[n] :
              LET taken == SelectSeq(offer.dev, LAMBDA d : d.card = i)
              IN Fits(n, i, FoldLeft(LAMBDA a, d : a + d.mem, 0, taken),
                      FoldLeft(LAMBDA a, d : a + d.core, 0, taken), Len(taken))

\* The counts of a node's devices come right: after the disturbances, what is counted
\* on a card is what the pods bound to the node hold by their annotations, whatever
\* was counted twice, not at all, or left by a discarded statement (SetNode counts
\* anew).  Cards given by number are never counted again (GPUDevices.AddResource).
CardsSettle ==
    <>[](opt.dev # "number" => \A n \in opt.nodes : n \in DOMAIN cards /\ CountsRight(n))

=============================================================================
