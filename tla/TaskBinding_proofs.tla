-------------------------- MODULE TaskBinding_proofs --------------------------
(***************************************************************************)
(* What holds of the binding of tasks for any pods, nodes, volumes and     *)
(* claims.  The scheduler works on copies of the API server's objects:     *)
(* the invariant says what a copy, however old, tells of the object.       *)
(***************************************************************************)
EXTENDS TaskBinding, TLAPS, FiniteSetTheorems, WellFoundedInduction, NaturalsInduction

-----------------------------------------------------------------------------
(***************************************************************************)
(* The invariant.  P and C are the API server's volumes and claims.        *)
(***************************************************************************)
IsSeq(s) == s \in Seq(Range(s))

\* A claim that is bound has its volume; a volume made for a claim is named after
\* it and reserved for it until the claim has one.
ObjectsOK(P, C) ==
    /\ P = [v \in DOMAIN P |-> P[v]] /\ C = [c \in DOMAIN C |-> C[c]]
    /\ IsFiniteSet(DOMAIN P) /\ IsFiniteSet(DOMAIN C)
    /\ "" \notin DOMAIN P /\ "" \notin DOMAIN C
    /\ \A v \in DOMAIN P : IsVolume(P[v])
    /\ \A c \in DOMAIN C : IsClaim(C[c])
    /\ \A c \in DOMAIN C : isPVCFullyBound(C[c]) =>
         C[c].vol \in DOMAIN P /\ P[C[c].vol].claim = c
    /\ \A v \in DOMAIN P \cap DOMAIN C : P[v].claim = v \/ C[v].vol # ""

\* A copy of a volume, read at some time and perhaps assumed to be reserved since.
\* There is no copy of a volume that is still to be made.
VolumeCopy(P, C, v, o) ==
    /\ v # "" /\ IsVolume(o)
    /\ v \in DOMAIN P => /\ o.rv <= P[v].rv
                         /\ o.reach = P[v].reach
                         /\ o.rv = P[v].rv => P[v].claim \in {"", o.claim}
    /\ v \notin DOMAIN P => v \notin DOMAIN C \/ C[v].vol # ""

\* A copy of a claim, perhaps assumed to have a node since.
ClaimCopy(C, c, o) ==
    /\ c \in DOMAIN C /\ IsClaim(o)
    /\ o.rv <= C[c].rv
    /\ o.rv = C[c].rv => o.vol = C[c].vol /\ o.done = C[c].done
    /\ isPVCFullyBound(o) => isPVCFullyBound(C[c]) /\ C[c].vol = o.vol

VolumesCached(P, C, cache) ==
    /\ cache = [v \in DOMAIN cache |-> cache[v]]
    /\ \A v \in DOMAIN cache :
         /\ cache[v] = [latest |-> cache[v].latest, api |-> cache[v].api]
         /\ VolumeCopy(P, C, v, cache[v].latest)
         /\ VolumeCopy(P, C, v, cache[v].api)
         /\ cache[v].api.rv <= cache[v].latest.rv

ClaimsCached(C, cache) ==
    /\ cache = [c \in DOMAIN cache |-> cache[c]]
    /\ \A c \in DOMAIN cache :
         /\ cache[c] = [latest |-> cache[c].latest, api |-> cache[c].api]
         /\ ClaimCopy(C, c, cache[c].latest)
         /\ ClaimCopy(C, c, cache[c].api)

FeedOK(P, C, feed) ==
    /\ feed = [pv |-> feed.pv, pvc |-> feed.pvc]
    /\ IsSeq(feed.pv) /\ IsSeq(feed.pvc)
    /\ \A i \in DOMAIN feed.pv :
         feed.pv[i].obj # Gone => VolumeCopy(P, C, feed.pv[i].name, feed.pv[i].obj)
    /\ \A i \in DOMAIN feed.pvc : ClaimCopy(C, feed.pvc[i].name, feed.pvc[i].obj)

\* The claim has its volume, and the node reaches it.
Settled(P, C, c, n) ==
    /\ c \in DOMAIN C /\ isPVCFullyBound(C[c])
    /\ C[c].vol \in DOMAIN P
    /\ P[C[c].vol].claim = c
    /\ n \in P[C[c].vol].reach

BindingOK(P, C, b) ==
    /\ b = [claim |-> b.claim, pv |-> b.pv, obj |-> b.obj]
    /\ VolumeCopy(P, C, b.pv, b.obj)
    /\ b.obj.claim \in {"", b.claim}
ProvisionOK(C, c) ==
    /\ c = [claim |-> c.claim, obj |-> c.obj]
    /\ ClaimCopy(C, c.claim, c.obj)

VolsOK(P, C, vols) ==
    /\ vols = [bind |-> vols.bind, prov |-> vols.prov]
    /\ IsSeq(vols.bind) /\ IsSeq(vols.prov)
    /\ \A i \in DOMAIN vols.bind : BindingOK(P, C, vols.bind[i])
    /\ \A i \in DOMAIN vols.prov : ProvisionOK(C, vols.prov[i])

Chosen(vols) == {vols.bind[i].claim : i \in DOMAIN vols.bind} \cup ClaimsIn(vols.prov)

IsTask(r) == r = [st |-> r.st, node |-> r.node, vols |-> r.vols, none |-> r.none,
                  ready |-> r.ready, i |-> r.i]

\* As long as p is not astray, each of its claims is settled or still to be bound;
\* once the volumes are ready, all are settled.
TaskOK(P, C, lost, p, r) ==
    /\ IsTask(r)
    /\ r.i \in Nat \ {0} /\ r.none \in BOOLEAN /\ r.ready \in BOOLEAN
    /\ VolsOK(P, C, r.vols)
    /\ r.none => ~r.ready /\ r.st \in {"allocated", "queued"}
    /\ p \in lost \/ r.none \/
         \A c \in ClaimsOf(p) :
           \/ Settled(P, C, c, r.node)
           \/ /\ ~r.ready /\ r.st \in {"found", "allocated", "queued", "writing"}
              /\ c \in Chosen(r.vols)

\* What the session has allocated and what the binder has been given: each task once.
QueuesOK(T, ops, last, queue) ==
    /\ T = [p \in DOMAIN T |-> T[p]]
    /\ IsSeq(ops) /\ IsSeq(queue)
    /\ \A i \in DOMAIN ops : ops[i] \in DOMAIN T /\ T[ops[i]].st = "allocated"
    /\ \A i \in DOMAIN queue : queue[i] \in DOMAIN T /\ T[queue[i]].st \in {"queued", "writing"}
    /\ \A i, j \in DOMAIN ops : ops[i] = ops[j] => i = j
    /\ \A i, j \in DOMAIN queue : queue[i] = queue[j] => i = j
    /\ last # "" => ops # <<>> /\ last = ops[Len(ops)]

TasksOK(P, C, lost, T) == \A p \in DOMAIN T : TaskOK(P, C, lost, p, T[p])

IsSession(s) == s = [open |-> s.open, copy |-> s.copy, ops |-> s.ops, last |-> s.last,
                     undo |-> s.undo]

\* Only a statement is discarded, and only without one is a task dispatched at once.
SessionOK(o, s) ==
    /\ IsSession(s)
    /\ s.undo => o.min = 0
    /\ o.min = 0 => s.last = ""

IsPod(o) == o = [node |-> o.node, dev |-> o.dev, done |-> o.done, run |-> o.run]
PodsOK(P, C, lost, q) ==
    /\ q = [p \in DOMAIN q |-> q[p]]
    /\ \A p \in DOMAIN q : IsPod(q[p])
    /\ \A p \in DOMAIN q \ lost : q[p].node # "" =>
         \A c \in ClaimsOf(p) : Settled(P, C, c, q[p].node)

\* The instance is one of those there are; tasks go to its nodes.
InstanceOK(o, T) ==
    /\ \E s \in Scenarios : o = s.opt
    /\ \A p \in DOMAIN T : T[p].node \in o.nodes

BindingInv ==
    /\ InstanceOK(opt, t)
    /\ ObjectsOK(pv, pvc)
    /\ VolumesCached(pv, pvc, pvCache) /\ ClaimsCached(pvc, pvcCache)
    /\ FeedOK(pv, pvc, volFeed)
    /\ TasksOK(pv, pvc, astray, t)
    /\ SessionOK(opt, sess)
    /\ QueuesOK(t, sess.ops, sess.last, bindCache)
    /\ PodsOK(pv, pvc, astray, pod)

-----------------------------------------------------------------------------
(***************************************************************************)
(* What the API server's objects keep from one step to the next, and what  *)
(* is therefore still true of copies made before.                          *)
(***************************************************************************)
Kept(P, C, P2, C2) ==
    /\ DOMAIN C2 = DOMAIN C
    /\ \A v \in DOMAIN P \cap DOMAIN P2 :
         /\ P[v].rv \in Nat /\ P2[v].rv \in Nat
         /\ P2[v].reach = P[v].reach
         /\ P[v].rv <= P2[v].rv
         /\ P2[v].rv = P[v].rv => P2[v] = P[v]
    /\ \A v \in DOMAIN P \ DOMAIN P2 : v \in DOMAIN C => C[v].vol # ""
    /\ \A v \in DOMAIN P2 \ DOMAIN P : v \in DOMAIN C /\ C[v].vol = ""
    /\ \A c \in DOMAIN C :
         /\ C[c].rv \in Nat /\ C2[c].rv \in Nat
         /\ C[c].rv <= C2[c].rv
         /\ C2[c].rv = C[c].rv => C2[c] = C[c]
         /\ C[c].vol # "" => C2[c].vol = C[c].vol /\ C2[c].done = C[c].done
    /\ \A c \in DOMAIN C : isPVCFullyBound(C[c]) /\ C[c].vol \in DOMAIN P
                           /\ P[C[c].vol].claim = c =>
         C[c].vol \in DOMAIN P2 /\ P2[C[c].vol].claim = c

\* Objects that stay as they are keep everything.
LEMMA SameKept ==
    ASSUME NEW P, NEW C, ObjectsOK(P, C)
    PROVE  Kept(P, C, P, C)
<1>1. \A v \in DOMAIN P : P[v].rv \in Nat
  BY DEF ObjectsOK, IsVolume
<1>2. \A c \in DOMAIN C : C[c].rv \in Nat
  BY DEF ObjectsOK, IsClaim
<1>3. \A i \in Nat : i <= i
  OBVIOUS
<1> QED
  BY <1>1, <1>2, <1>3, Zenon DEF Kept

\* An old copy of a volume is still one.
LEMMA VolumeCopyKept ==
    ASSUME NEW P, NEW C, NEW P2, NEW C2, Kept(P, C, P2, C2),
           NEW v, NEW o, VolumeCopy(P, C, v, o)
    PROVE  VolumeCopy(P2, C2, v, o)
<1>1. o.rv \in Nat
  BY DEF VolumeCopy, IsVolume
<1>2. CASE v \in DOMAIN P2
  <2>1. v \in DOMAIN P
    BY <1>2 DEF Kept, VolumeCopy
  <2>2. /\ P[v].rv \in Nat /\ P2[v].rv \in Nat /\ P2[v].reach = P[v].reach
        /\ P[v].rv <= P2[v].rv /\ (P2[v].rv = P[v].rv => P2[v] = P[v])
    BY <1>2, <2>1 DEF Kept
  <2>3. /\ o.rv <= P[v].rv /\ o.reach = P[v].reach
        /\ o.rv = P[v].rv => P[v].claim \in {"", o.claim}
    BY <2>1 DEF VolumeCopy
  <2>6. o.rv <= P[v].rv /\ P[v].rv <= P2[v].rv /\ P[v].rv \in Nat /\ P2[v].rv \in Nat
    BY <2>2, <2>3
  <2>4. o.rv <= P2[v].rv /\ (o.rv = P2[v].rv => P2[v].rv = P[v].rv)
    BY <1>1, <2>6
  <2>5. o.reach = P2[v].reach /\ (o.rv = P2[v].rv => P2[v].claim \in {"", o.claim})
    BY <2>2, <2>3, <2>4
  <2> QED
    BY <1>2, <2>4, <2>5 DEF VolumeCopy
<1>3. CASE v \notin DOMAIN P2
  BY <1>3 DEF Kept, VolumeCopy
<1> QED
  BY <1>2, <1>3

\* So is an old copy of a claim.
LEMMA ClaimCopyKept ==
    ASSUME NEW P, NEW C, NEW P2, NEW C2, Kept(P, C, P2, C2),
           NEW c, NEW o, ClaimCopy(C, c, o)
    PROVE  ClaimCopy(C2, c, o)
<1>1. c \in DOMAIN C /\ c \in DOMAIN C2 /\ o.rv \in Nat /\ C[c].rv \in Nat /\ C2[c].rv \in Nat
  BY DEF Kept, ClaimCopy, IsClaim
<1>0. o.rv <= C[c].rv /\ C[c].rv <= C2[c].rv
  BY <1>1 DEF Kept, ClaimCopy
<1>2. o.rv = C2[c].rv => C2[c].rv = C[c].rv
  BY <1>0, <1>1
<1>3. o.rv <= C2[c].rv
  BY <1>0, <1>1
<1>4. isPVCFullyBound(o) => isPVCFullyBound(C2[c]) /\ C2[c].vol = o.vol
  BY <1>1 DEF Kept, ClaimCopy, isPVCFullyBound
<1> QED
  BY <1>1, <1>2, <1>3, <1>4 DEF Kept, ClaimCopy

\* What is settled stays so.
LEMMA SettledKept ==
    ASSUME NEW P, NEW C, NEW P2, NEW C2, Kept(P, C, P2, C2),
           NEW c, NEW n, Settled(P, C, c, n)
    PROVE  Settled(P2, C2, c, n)
<1>1. C2[c].vol = C[c].vol /\ isPVCFullyBound(C2[c])
  BY DEF Kept, Settled, isPVCFullyBound
<1>2. C[c].vol \in DOMAIN P2 /\ P2[C[c].vol].claim = c
  BY DEF Kept, Settled
<1> QED
  BY <1>1, <1>2 DEF Kept, Settled

\* The caches, the feeds, the volumes of a task and the task stay right.
LEMMA CachesKept ==
    ASSUME NEW P, NEW C, NEW P2, NEW C2, Kept(P, C, P2, C2),
           NEW a, VolumesCached(P, C, a), NEW b, ClaimsCached(C, b)
    PROVE  VolumesCached(P2, C2, a) /\ ClaimsCached(C2, b)
  BY VolumeCopyKept, ClaimCopyKept DEF VolumesCached, ClaimsCached

\* Events on their way stay right.
LEMMA FeedKept ==
    ASSUME NEW P, NEW C, NEW P2, NEW C2, Kept(P, C, P2, C2),
           NEW feed, FeedOK(P, C, feed)
    PROVE  FeedOK(P2, C2, feed)
  BY VolumeCopyKept, ClaimCopyKept DEF FeedOK

\* The volumes a task has chosen stay right.
LEMMA VolsKept ==
    ASSUME NEW P, NEW C, NEW P2, NEW C2, Kept(P, C, P2, C2),
           NEW vols, VolsOK(P, C, vols)
    PROVE  VolsOK(P2, C2, vols)
<1>1. \A b : BindingOK(P, C, b) => BindingOK(P2, C2, b)
  BY VolumeCopyKept, Zenon DEF BindingOK
<1>2. \A c : ProvisionOK(C, c) => ProvisionOK(C2, c)
  BY ClaimCopyKept, Zenon DEF ProvisionOK
<1> QED
  BY <1>1, <1>2, Zenon DEF VolsOK

\* A task stays right, whatever else has gone astray.
LEMMA TaskKept ==
    ASSUME NEW P, NEW C, NEW P2, NEW C2, Kept(P, C, P2, C2),
           NEW lost, NEW lost2, lost \subseteq lost2,
           NEW p, NEW r, TaskOK(P, C, lost, p, r)
    PROVE  TaskOK(P2, C2, lost2, p, r)
<1>1. VolsOK(P2, C2, r.vols)
  BY VolsKept DEF TaskOK
<1>2. \A c : Settled(P, C, c, r.node) => Settled(P2, C2, c, r.node)
  BY SettledKept
<1> QED
  BY <1>1, <1>2 DEF TaskOK

-----------------------------------------------------------------------------
(***************************************************************************)
(* The steps of the API server's objects.                                  *)
(***************************************************************************)
\* Every number is at most itself.
LEMMA AtMostItself == \A i \in Nat : i <= i
  OBVIOUS

\* A volume's next version.
LEMMA NextVolume ==
    ASSUME NEW o, IsVolume(o)
    PROVE  /\ IsVolume([o EXCEPT !.rv = @ + 1])
           /\ [o EXCEPT !.rv = @ + 1].rv = o.rv + 1
           /\ [o EXCEPT !.rv = @ + 1].claim = o.claim
           /\ [o EXCEPT !.rv = @ + 1].reach = o.reach
<1> DEFINE r == [rv |-> o.rv, claim |-> o.claim, class |-> o.class, size |-> o.size, reach |-> o.reach]
<1>1. o = r /\ o.rv \in Nat
  BY DEF IsVolume
<1>2. [r EXCEPT !.rv = o.rv + 1] = [rv |-> o.rv + 1, claim |-> o.claim, class |-> o.class,
                                    size |-> o.size, reach |-> o.reach]
  OBVIOUS
<1>3. [o EXCEPT !.rv = @ + 1] = [rv |-> o.rv + 1, claim |-> o.claim, class |-> o.class,
                                 size |-> o.size, reach |-> o.reach]
  BY <1>1, <1>2
<1> QED
  BY <1>1, <1>3 DEF IsVolume

\* A claim's next version.
LEMMA NextClaim ==
    ASSUME NEW o, IsClaim(o)
    PROVE  /\ IsClaim([o EXCEPT !.rv = @ + 1])
           /\ [o EXCEPT !.rv = @ + 1].rv = o.rv + 1
           /\ [o EXCEPT !.rv = @ + 1].vol = o.vol
           /\ [o EXCEPT !.rv = @ + 1].done = o.done
<1> DEFINE r == [rv |-> o.rv, sel |-> o.sel, vol |-> o.vol, done |-> o.done, class |-> o.class,
                 size |-> o.size, owner |-> o.owner]
           r1 == [rv |-> o.rv + 1, sel |-> o.sel, vol |-> o.vol, done |-> o.done,
                  class |-> o.class, size |-> o.size, owner |-> o.owner]
<1>1. o = r /\ o.rv \in Nat
  BY DEF IsClaim
<1>2. [r EXCEPT !.rv = @ + 1] = r1
  OBVIOUS
<1>3. [o EXCEPT !.rv = @ + 1] = r1
  BY <1>1, <1>2
<1> QED
  BY <1>1, <1>3 DEF IsClaim

\* o replaces the volume v: the next version, with a claim that leaves alone what is
\* settled and what is made for a claim.
Replaces(P, C, v, o) ==
    /\ v \in DOMAIN P /\ IsVolume(o) /\ o.rv = P[v].rv + 1 /\ o.reach = P[v].reach
    /\ \A c \in DOMAIN C : isPVCFullyBound(C[c]) /\ C[c].vol = v => o.claim = c
    /\ v \in DOMAIN C => o.claim = v \/ C[v].vol # ""

\* Writing a volume.
LEMMA WriteVolume ==
    ASSUME NEW P, NEW C, ObjectsOK(P, C), NEW v, NEW o, Replaces(P, C, v, o)
    PROVE  ObjectsOK(Put(P, v, o), C) /\ Kept(P, C, Put(P, v, o), C)
<1> DEFINE P2 == Put(P, v, o)
<1>0. v \in DOMAIN P
  BY DEF Replaces
<1>1. /\ DOMAIN P2 = DOMAIN P /\ P2[v] = o
      /\ \A w \in DOMAIN P : w # v => P2[w] = P[w]
      /\ P2 = [w \in DOMAIN P2 |-> P2[w]]
  <2>1. DOMAIN P2 = DOMAIN P
    BY <1>0 DEF Put
  <2>2. P2[v] = o /\ \A w \in DOMAIN P : w # v => P2[w] = P[w]
    BY <1>0 DEF Put
  <2>3. P2 = [w \in DOMAIN P2 |-> P2[w]]
    BY DEF Put
  <2> QED
    BY <2>1, <2>2, <2>3
<1> HIDE DEF P2
<1>2. ASSUME NEW c \in DOMAIN C, isPVCFullyBound(C[c])
      PROVE  C[c].vol \in DOMAIN P2 /\ P2[C[c].vol].claim = c
  <2>1. C[c].vol \in DOMAIN P /\ P[C[c].vol].claim = c /\ c # ""
    BY <1>2 DEF ObjectsOK
  <2>2. CASE C[c].vol = v
    BY <2>1, <2>2, <1>1, <1>2 DEF Replaces
  <2>3. CASE C[c].vol # v
    BY <2>1, <2>3, <1>1
  <2> QED
    BY <2>2, <2>3
<1>3. ASSUME NEW w \in DOMAIN P2 \cap DOMAIN C PROVE P2[w].claim = w \/ C[w].vol # ""
  BY <1>1, ZenonT(60) DEF ObjectsOK, Replaces
<1>4. \A w \in DOMAIN P2 : IsVolume(P2[w])
  BY <1>1 DEF ObjectsOK, Replaces
<1>5. ObjectsOK(P2, C)
  BY <1>1, <1>2, <1>3, <1>4 DEF ObjectsOK
<1>6. \A w \in DOMAIN P : P[w].rv \in Nat
  BY DEF ObjectsOK, IsVolume
<1>7. \A c \in DOMAIN C : C[c].rv \in Nat /\ C[c].rv <= C[c].rv
  <2>1. \A c \in DOMAIN C : C[c].rv \in Nat
    BY DEF ObjectsOK, IsClaim
  <2>2. \A i \in Nat : i <= i
    OBVIOUS
  <2> QED
    BY <2>1, <2>2
<1>8. ASSUME NEW w \in DOMAIN P
      PROVE  /\ P[w].rv \in Nat /\ P2[w].rv \in Nat /\ P2[w].reach = P[w].reach
             /\ P[w].rv <= P2[w].rv /\ (P2[w].rv = P[w].rv => P2[w] = P[w])
  <2>1. CASE w = v
    <3>1. P[v].rv \in Nat /\ P2[v].rv = P[v].rv + 1
      BY <1>0, <1>1, <1>6 DEF Replaces
    <3>2. P2[v].reach = P[v].reach
      BY <1>1 DEF Replaces
    <3>3. P[v].rv <= P2[v].rv /\ P2[v].rv # P[v].rv /\ P2[v].rv \in Nat
      BY <3>1
    <3> QED
      BY <3>1, <3>2, <3>3, <2>1
  <2>2. CASE w # v
    <3>1. P[w].rv \in Nat /\ P2[w] = P[w]
      BY <2>2, <1>1, <1>6
    <3> QED
      BY <3>1
  <2> QED
    BY <2>1, <2>2
<1>9. Kept(P, C, P2, C)
  BY <1>1, <1>2, <1>7, <1>8, Zenon DEF Kept
<1> QED
  BY <1>5, <1>9 DEF P2

\* o replaces the claim c, bound as it was.
ReplacesClaim(C, c, o) ==
    /\ c \in DOMAIN C /\ IsClaim(o) /\ o.rv = C[c].rv + 1
    /\ o.vol = C[c].vol /\ o.done = C[c].done

\* Writing a claim.
LEMMA WriteClaim ==
    ASSUME NEW P, NEW C, ObjectsOK(P, C), NEW c, NEW o, ReplacesClaim(C, c, o)
    PROVE  ObjectsOK(P, Put(C, c, o)) /\ Kept(P, C, P, Put(C, c, o))
<1> DEFINE C2 == Put(C, c, o)
<1>0. c \in DOMAIN C
  BY DEF ReplacesClaim
<1>1. /\ DOMAIN C2 = DOMAIN C /\ C2[c] = o
      /\ \A d \in DOMAIN C : d # c => C2[d] = C[d]
      /\ C2 = [d \in DOMAIN C2 |-> C2[d]]
  <2>1. DOMAIN C2 = DOMAIN C
    BY <1>0 DEF Put
  <2>2. C2[c] = o /\ \A w \in DOMAIN C : w # c => C2[w] = C[w]
    BY <1>0 DEF Put
  <2>3. C2 = [w \in DOMAIN C2 |-> C2[w]]
    BY DEF Put
  <2> QED
    BY <2>1, <2>2, <2>3
<1> HIDE DEF C2
<1>2. \A d \in DOMAIN C : C2[d].vol = C[d].vol /\ C2[d].done = C[d].done
  BY <1>1 DEF ReplacesClaim
<1>3. \A d \in DOMAIN C : isPVCFullyBound(C2[d]) <=> isPVCFullyBound(C[d])
  BY <1>2 DEF isPVCFullyBound
<1>4. \A d \in DOMAIN C : IsClaim(C2[d])
  BY <1>1 DEF ObjectsOK, ReplacesClaim
<1>5. ObjectsOK(P, C2)
  BY <1>1, <1>2, <1>3, <1>4, ZenonT(60) DEF ObjectsOK
<1>6. \A w \in DOMAIN P : P[w].rv \in Nat /\ P[w].rv <= P[w].rv
  <2>1. \A w \in DOMAIN P : P[w].rv \in Nat
    BY DEF ObjectsOK, IsVolume
  <2>2. \A i \in Nat : i <= i
    OBVIOUS
  <2> QED
    BY <2>1, <2>2
<1>7. ASSUME NEW d \in DOMAIN C
      PROVE  /\ C[d].rv \in Nat /\ C2[d].rv \in Nat
             /\ C[d].rv <= C2[d].rv
             /\ C2[d].rv = C[d].rv => C2[d] = C[d]
  <2>1. C[d].rv \in Nat /\ C2[d].rv \in Nat
    BY <1>1, <1>4 DEF ObjectsOK, IsClaim
  <2>2. CASE d = c
    <3>1. C2[d].rv = C[d].rv + 1
      BY <2>2, <1>1 DEF ReplacesClaim
    <3> QED
      BY <2>1, <3>1
  <2>3. CASE d # c
    <3>1. C2[d] = C[d]
      BY <2>3, <1>1
    <3> QED
      BY <3>1, <2>1
  <2> QED
    BY <2>2, <2>3
<1>8. Kept(P, C, P, C2)
  BY <1>1, <1>2, <1>6, <1>7, Zenon DEF Kept
<1> QED
  BY <1>5, <1>8 DEF C2

Makes(P, C, c, o) ==
    /\ c \in DOMAIN C /\ C[c].vol = ""
    /\ \A v \in DOMAIN P : P[v].claim # c
    /\ IsVolume(o) /\ o.claim = c

\* A volume is made for a claim that has none.
LEMMA MakeVolume ==
    ASSUME NEW P, NEW C, ObjectsOK(P, C), NEW c, NEW o, Makes(P, C, c, o)
    PROVE  c \notin DOMAIN P /\ ObjectsOK(Put(P, c, o), C) /\ Kept(P, C, Put(P, c, o), C)
<1> DEFINE P2 == Put(P, c, o)
<1>20. c \in DOMAIN C /\ C[c].vol = "" /\ IsVolume(o) /\ o.claim = c
  BY DEF Makes
<1>0. c \notin DOMAIN P /\ c # ""
  BY DEF ObjectsOK, Makes
<1>1. /\ DOMAIN P2 = DOMAIN P \cup {c} /\ P2[c] = o
      /\ \A w \in DOMAIN P : P2[w] = P[w]
      /\ P2 = [w \in DOMAIN P2 |-> P2[w]]
  BY <1>0 DEF Put
<1> HIDE DEF P2
<1>2. ASSUME NEW d \in DOMAIN C, isPVCFullyBound(C[d])
      PROVE  C[d].vol \in DOMAIN P2 /\ P2[C[d].vol].claim = d
  <2>1. C[d].vol \in DOMAIN P /\ P[C[d].vol].claim = d
    BY <1>2 DEF ObjectsOK
  <2> QED
    BY <2>1, <1>1
<1>3. ASSUME NEW w \in DOMAIN P2 \cap DOMAIN C PROVE P2[w].claim = w \/ C[w].vol # ""
  <2>1. CASE w = c
    BY <2>1, <1>1, <1>20
  <2>2. CASE w # c
    BY <2>2, <1>1 DEF ObjectsOK
  <2> QED
    BY <2>1, <2>2
<1>4. \A w \in DOMAIN P2 : IsVolume(P2[w])
  BY <1>1, <1>20 DEF ObjectsOK
<1>10. IsFiniteSet(DOMAIN P2)
  <2>1. IsFiniteSet(DOMAIN P)
    BY DEF ObjectsOK
  <2> QED
    BY <2>1, <1>1, FS_AddElement
<1>5. ObjectsOK(P2, C)
  BY <1>0, <1>1, <1>2, <1>3, <1>4, <1>10 DEF ObjectsOK
<1>6. \A w \in DOMAIN P : P[w].rv \in Nat
  BY DEF ObjectsOK, IsVolume
<1>11. \A i \in Nat : i <= i
  BY AtMostItself
<1>7. \A d \in DOMAIN C : C[d].rv \in Nat /\ C[d].rv <= C[d].rv
  <2>1. \A d \in DOMAIN C : C[d].rv \in Nat
    BY DEF ObjectsOK, IsClaim
  <2> QED
    BY <2>1, <1>11
<1>9. Kept(P, C, P2, C)
  BY <1>1, <1>2, <1>6, <1>7, <1>11, <1>20 DEF Kept
<1> QED
  BY <1>0, <1>5, <1>9 DEF P2

\* A volume that is reserved for no claim is deleted.
LEMMA DropVolume ==
    ASSUME NEW P, NEW C, ObjectsOK(P, C), NEW v \in DOMAIN P, P[v].claim = ""
    PROVE  /\ ObjectsOK(Restrict(P, DOMAIN P \ {v}), C)
           /\ Kept(P, C, Restrict(P, DOMAIN P \ {v}), C)
<1> DEFINE P2 == Restrict(P, DOMAIN P \ {v})
<1>1. /\ DOMAIN P2 = DOMAIN P \ {v}
      /\ \A w \in DOMAIN P \ {v} : P2[w] = P[w]
      /\ P2 = [w \in DOMAIN P2 |-> P2[w]]
  BY DEF Restrict
<1> HIDE DEF P2
<1>0. "" \notin DOMAIN C
  BY DEF ObjectsOK
<1>2. ASSUME NEW d \in DOMAIN C, isPVCFullyBound(C[d])
      PROVE  C[d].vol \in DOMAIN P2 /\ P2[C[d].vol].claim = d
  <2>1. C[d].vol \in DOMAIN P /\ P[C[d].vol].claim = d
    BY <1>2 DEF ObjectsOK
  <2>2. C[d].vol # v
    BY <2>1, <1>0
  <2> QED
    BY <2>1, <2>2, <1>1
<1>3. ASSUME NEW w \in DOMAIN P2 \cap DOMAIN C PROVE P2[w].claim = w \/ C[w].vol # ""
  BY <1>1 DEF ObjectsOK
<1>4. \A w \in DOMAIN P2 : IsVolume(P2[w])
  BY <1>1 DEF ObjectsOK
<1>10. IsFiniteSet(DOMAIN P2)
  <2>1. IsFiniteSet(DOMAIN P)
    BY DEF ObjectsOK
  <2> QED
    BY <2>1, <1>1, FS_RemoveElement
<1>5. ObjectsOK(P2, C)
  BY <1>0, <1>1, <1>2, <1>3, <1>4, <1>10 DEF ObjectsOK
<1>6. \A w \in DOMAIN P : P[w].rv \in Nat
  BY DEF ObjectsOK, IsVolume
<1>11. \A i \in Nat : i <= i
  BY AtMostItself
<1>7. \A d \in DOMAIN C : C[d].rv \in Nat /\ C[d].rv <= C[d].rv
  <2>1. \A d \in DOMAIN C : C[d].rv \in Nat
    BY DEF ObjectsOK, IsClaim
  <2> QED
    BY <2>1, <1>11
<1>8. v \in DOMAIN C => C[v].vol # ""
  BY <1>0 DEF ObjectsOK
<1>9. Kept(P, C, P2, C)
  BY <1>1, <1>2, <1>6, <1>7, <1>8, <1>11 DEF Kept
<1> QED
  BY <1>5, <1>9 DEF P2

\* The PV controller binds the claim c to the volume v; o and d are their next versions.
Binds(P, C, v, c, o, d) ==
    /\ v \in DOMAIN P /\ c \in DOMAIN C
    /\ C[c].vol = "" /\ P[v].claim \in {"", c}
    /\ IsVolume(o) /\ o.rv = P[v].rv + 1 /\ o.reach = P[v].reach /\ o.claim = c
    /\ IsClaim(d) /\ d.rv = C[c].rv + 1 /\ d.vol = v /\ d.done = TRUE

\* The PV controller binds a claim and a volume in one step.
LEMMA BindClaim ==
    ASSUME NEW P, NEW C, ObjectsOK(P, C), NEW v, NEW c, NEW o, NEW d, Binds(P, C, v, c, o, d)
    PROVE  ObjectsOK(Put(P, v, o), Put(C, c, d)) /\ Kept(P, C, Put(P, v, o), Put(C, c, d))
<1> DEFINE P2 == Put(P, v, o)
           C2 == Put(C, c, d)
<1>0. v \in DOMAIN P /\ c \in DOMAIN C /\ "" \notin DOMAIN C /\ "" \notin DOMAIN P
  BY DEF Binds, ObjectsOK
<1>1. /\ DOMAIN P2 = DOMAIN P /\ P2[v] = o
      /\ \A w \in DOMAIN P : w # v => P2[w] = P[w]
      /\ P2 = [w \in DOMAIN P2 |-> P2[w]]
  BY <1>0 DEF Put
<1>2. /\ DOMAIN C2 = DOMAIN C /\ C2[c] = d
      /\ \A e \in DOMAIN C : e # c => C2[e] = C[e]
      /\ C2 = [e \in DOMAIN C2 |-> C2[e]]
  BY <1>0 DEF Put
<1> HIDE DEF P2, C2
<1>20. o.claim = c /\ d.vol = v /\ d.done = TRUE /\ C[c].vol = "" /\ P[v].claim \in {"", c}
       /\ IsVolume(o) /\ IsClaim(d) /\ o.reach = P[v].reach
  BY DEF Binds
<1>3. ASSUME NEW e \in DOMAIN C, e # c, isPVCFullyBound(C[e])
      PROVE  C[e].vol \in DOMAIN P2 /\ P2[C[e].vol].claim = e
  <2>1. C[e].vol \in DOMAIN P /\ P[C[e].vol].claim = e
    BY <1>3 DEF ObjectsOK
  <2>2. C[e].vol # v
    BY <2>1, <1>0, <1>3, <1>20
  <2> QED
    BY <2>1, <2>2, <1>1
<1>4. \A e \in DOMAIN C2 : isPVCFullyBound(C2[e]) =>
        C2[e].vol \in DOMAIN P2 /\ P2[C2[e].vol].claim = e
  <2>1. ASSUME NEW e \in DOMAIN C2, isPVCFullyBound(C2[e])
        PROVE  C2[e].vol \in DOMAIN P2 /\ P2[C2[e].vol].claim = e
    <3>1. CASE e = c
      BY <3>1, <1>0, <1>1, <1>2, <1>20
    <3>2. CASE e # c
      BY <3>2, <2>1, <1>2, <1>3
    <3> QED
      BY <3>1, <3>2
  <2> QED
    BY <2>1
<1>5. ASSUME NEW w \in DOMAIN P2 \cap DOMAIN C2 PROVE P2[w].claim = w \/ C2[w].vol # ""
  <2>0. v # ""
    BY <1>0
  <2>1. CASE w = c
    BY <2>0, <2>1, <1>2, <1>20
  <2>2. CASE w # c
    <3>1. C2[w] = C[w] /\ w \in DOMAIN P \cap DOMAIN C
      BY <2>2, <1>1, <1>2
    <3>2. P[w].claim = w \/ C[w].vol # ""
      BY <3>1 DEF ObjectsOK
    <3>3. CASE w = v
      <4>1. P[w].claim # w
        BY <3>3, <2>0, <2>2, <1>20
      <4> QED
        BY <4>1, <3>1, <3>2
    <3>4. CASE w # v
      BY <3>1, <3>2, <3>4, <1>1
    <3> QED
      BY <3>3, <3>4
  <2> QED
    BY <2>1, <2>2
<1>6. \A w \in DOMAIN P2 : IsVolume(P2[w])
  BY <1>1, <1>20 DEF ObjectsOK
<1>7. \A e \in DOMAIN C2 : IsClaim(C2[e])
  BY <1>2, <1>20 DEF ObjectsOK
<1>8. ObjectsOK(P2, C2)
  <2>1. IsFiniteSet(DOMAIN P2) /\ IsFiniteSet(DOMAIN C2)
    BY <1>1, <1>2 DEF ObjectsOK
  <2>2. "" \notin DOMAIN P2 /\ "" \notin DOMAIN C2
    BY <1>0, <1>1, <1>2
  <2> QED
    BY <2>1, <2>2, <1>1, <1>2, <1>4, <1>5, <1>6, <1>7, Zenon DEF ObjectsOK
<1>9. \A w \in DOMAIN P : P[w].rv \in Nat
  BY DEF ObjectsOK, IsVolume
<1>10. ASSUME NEW w \in DOMAIN P
      PROVE  /\ P[w].rv \in Nat /\ P2[w].rv \in Nat /\ P2[w].reach = P[w].reach
             /\ P[w].rv <= P2[w].rv /\ (P2[w].rv = P[w].rv => P2[w] = P[w])
  <2>1. CASE w = v
    <3>1. P[v].rv \in Nat /\ P2[v].rv = P[v].rv + 1
      BY <1>0, <1>1, <1>9 DEF Binds
    <3>3. P[v].rv <= P2[v].rv /\ P2[v].rv # P[v].rv /\ P2[v].rv \in Nat
      BY <3>1
    <3> QED
      BY <3>1, <3>3, <2>1, <1>1, <1>20
  <2>2. CASE w # v
    <3>1. P[w].rv \in Nat /\ P2[w] = P[w]
      BY <2>2, <1>1, <1>9
    <3> QED
      BY <3>1
  <2> QED
    BY <2>1, <2>2
<1>11. ASSUME NEW e \in DOMAIN C
      PROVE  /\ C[e].rv \in Nat /\ C2[e].rv \in Nat
             /\ C[e].rv <= C2[e].rv
             /\ C2[e].rv = C[e].rv => C2[e] = C[e]
  <2>1. C[e].rv \in Nat /\ C2[e].rv \in Nat
    BY <1>2, <1>7 DEF ObjectsOK, IsClaim
  <2>2. CASE e = c
    <3>1. C2[e].rv = C[e].rv + 1
      BY <2>2, <1>2 DEF Binds
    <3> QED
      BY <2>1, <3>1
  <2>3. CASE e # c
    <3>1. C2[e] = C[e]
      BY <2>3, <1>2
    <3> QED
      BY <3>1, <2>1
  <2> QED
    BY <2>2, <2>3
<1>12. \A e \in DOMAIN C : C[e].vol # "" => C2[e].vol = C[e].vol /\ C2[e].done = C[e].done
  BY <1>2, <1>20
<1>14. \A e \in DOMAIN C : isPVCFullyBound(C[e]) => e # c
  BY <1>20 DEF isPVCFullyBound
<1>13. Kept(P, C, P2, C2)
  BY <1>1, <1>2, <1>3, <1>10, <1>11, <1>12, <1>14, Zenon DEF Kept
<1> QED
  BY <1>8, <1>13 DEF P2, C2

-----------------------------------------------------------------------------
(***************************************************************************)
(* Recursion, and the part of a sequence that is in a set.                 *)
(***************************************************************************)
\* A set of numbers that has one has a least one.
LEMMA LeastOne ==
    ASSUME NEW T \in SUBSET Nat, T # {}
    PROVE  \E m \in T : \A j \in T : m <= j
<1>1. PICK m \in T : \A j \in T : <<j, m>> \notin OpToRel(<, Nat)
  BY NatLessThanWellFounded, WFMin
<1>2. \A j \in T : ~(j < m)
  BY <1>1 DEF OpToRel
<1> QED
  BY <1>2

\* A property of the numbers up to L, as the set of those that have it: it has them
\* all if it has 0 and with each the next.
LEMMA UpTo ==
    ASSUME NEW L \in Nat, NEW G, 0 \in G, \A n \in 1 .. L : n - 1 \in G => n \in G
    PROVE  \A n \in 0 .. L : n \in G
<1> DEFINE Bad == {n \in 0 .. L : n \notin G}
<1>1. SUFFICES ASSUME Bad # {} PROVE FALSE
  OBVIOUS
<1>2. Bad \in SUBSET Nat
  OBVIOUS
<1>3. PICK n \in Bad : \A j \in Bad : n <= j
  <2> HIDE DEF Bad
  <2> QED
    BY <1>1, <1>2, LeastOne
<1>4. n # 0 /\ n \in 0 .. L /\ n \notin G
  BY <1>3
<1>5. n - 1 \in 0 .. L /\ n \in 1 .. L /\ ~(n <= n - 1)
  BY <1>4
<1>6. n - 1 \in G
  BY <1>3, <1>5
<1> QED
  BY <1>4, <1>5, <1>6

StepsFrom(f, S, base, step, L) ==
    /\ f \in [0 .. L -> S]
    /\ f[0] = base
    /\ \A n \in 1 .. L : f[n] = step[<<n, f[n - 1]>>]

\* A function on 0 .. L can be given by its first value and by what follows each.
LEMMA StepsExist ==
    ASSUME NEW S, NEW base \in S, NEW L \in Nat, NEW step \in [(1 .. L) \X S -> S]
    PROVE  \E f : StepsFrom(f, S, base, step, L)
<1> DEFINE G == {m \in 0 .. L : \E f : StepsFrom(f, S, base, step, m)}
<1>1. 0 \in G
  <2> DEFINE g == [n \in 0 .. 0 |-> base]
  <2>1. g \in [0 .. 0 -> S] /\ g[0] = base /\ \A n \in 1 .. 0 : g[n] = step[<<n, g[n - 1]>>]
    OBVIOUS
  <2> HIDE DEF g
  <2>2. StepsFrom(g, S, base, step, 0)
    BY <2>1 DEF StepsFrom
  <2>3. 0 \in 0 .. L
    OBVIOUS
  <2> QED
    BY <2>2, <2>3
<1>2. ASSUME NEW m \in 1 .. L, m - 1 \in G PROVE m \in G
  <2>1. PICK f : StepsFrom(f, S, base, step, m - 1)
    BY <1>2
  <2>2. /\ f \in [0 .. m - 1 -> S] /\ f[0] = base
        /\ \A n \in 1 .. m - 1 : f[n] = step[<<n, f[n - 1]>>]
    BY <2>1 DEF StepsFrom
  <2> DEFINE x == step[<<m, f[m - 1]>>]
  <2>3. f[m - 1] \in S
    BY <2>2
  <2>4. x \in S
    BY <2>3
  <2> HIDE DEF x
  <2> DEFINE g == [n \in 0 .. m |-> IF n = m THEN x ELSE f[n]]
  <2>5. g \in [0 .. m -> S]
    <3>1. ASSUME NEW n \in 0 .. m PROVE g[n] \in S
      BY <2>2, <2>4
    <3> QED
      BY <3>1
  <2>6. g[0] = base /\ g[m] = x /\ \A n \in 0 .. m - 1 : g[n] = f[n]
    BY <2>2
  <2> HIDE DEF g
  <2>7. ASSUME NEW n \in 1 .. m PROVE g[n] = step[<<n, g[n - 1]>>]
    <3>1. CASE n = m
      <4>1. m - 1 \in 0 .. m - 1
        OBVIOUS
      <4> QED
        BY <3>1, <4>1, <2>6 DEF x
    <3>2. CASE n # m
      <4>1. n \in 1 .. m - 1 /\ n \in 0 .. m - 1 /\ n - 1 \in 0 .. m - 1
        BY <3>2
      <4> QED
        BY <4>1, <2>2, <2>6
    <3> QED
      BY <3>1, <3>2
  <2>8. StepsFrom(g, S, base, step, m)
    BY <2>5, <2>6, <2>7 DEF StepsFrom
  <2>9. m \in 0 .. L
    OBVIOUS
  <2> QED
    BY <2>8, <2>9
<1>3. L \in 0 .. L
  OBVIOUS
<1> HIDE DEF G
<1>4. L \in G
  BY <1>1, <1>2, <1>3, UpTo
<1> QED
  BY <1>4 DEF G

KeepSteps(f, s, R, S) ==
    /\ f \in [0 .. Len(s) -> Seq(R)]
    /\ f[0] = <<>>
    /\ \A n \in 1 .. Len(s) : f[n] = IF s[n] \in S THEN Append(f[n - 1], s[n]) ELSE f[n - 1]
    /\ Keep(s, S) = f[Len(s)]

\* Keep's function has the values its definition gives it.
LEMMA KeepIs ==
    ASSUME NEW s, NEW R, s \in Seq(R), NEW S
    PROVE  \E f : KeepSteps(f, s, R, S)
<1> DEFINE L == Len(s)
           Q == Seq(R)
           N(n, q) == IF s[n] \in S THEN Append(q, s[n]) ELSE q
           step == [x \in (1 .. L) \X Q |-> N(x[1], x[2])]
<1>1. L \in Nat /\ \A n \in 1 .. L : s[n] \in R
  OBVIOUS
<1>2. \A n \in 1 .. L, q \in Q : N(n, q) \in Q
  BY <1>1
<1>3. <<>> \in Q
  OBVIOUS
<1>4. step \in [(1 .. L) \X Q -> Q] /\ \A n \in 1 .. L, q \in Q : step[<<n, q>>] = N(n, q)
  <2> HIDE DEF N, L, Q
  <2> QED
    BY <1>2
<1>5. PICK f : StepsFrom(f, Q, <<>>, step, L)
  <2> HIDE DEF step, L, Q
  <2> QED
    BY <1>1, <1>3, <1>4, StepsExist
<1>6. f \in [0 .. L -> Q] /\ f[0] = <<>> /\ \A n \in 1 .. L : f[n] = step[<<n, f[n - 1]>>]
  BY <1>5 DEF StepsFrom
<1> HIDE DEF step, N, Q
<1>7. ASSUME NEW n \in 1 .. L PROVE f[n] = N(n, f[n - 1])
  <2>1. f[n - 1] \in Q
    BY <1>1, <1>6
  <2> QED
    BY <2>1, <1>4, <1>6
<1>8. f = [n \in 0 .. L |-> IF n = 0 THEN <<>> ELSE N(n, f[n - 1])]
  <2>1. ASSUME NEW n \in 0 .. L PROVE f[n] = IF n = 0 THEN <<>> ELSE N(n, f[n - 1])
    <3>1. CASE n = 0
      BY <3>1, <1>6
    <3>2. CASE n # 0
      <4>1. n \in 1 .. L
        BY <1>1, <3>2
      <4> QED
        BY <4>1, <3>2, <1>7
    <3> QED
      BY <3>1, <3>2
  <2> QED
    BY <2>1, <1>6
<1> DEFINE kept[n \in 0 .. L] == IF n = 0 THEN <<>> ELSE N(n, kept[n - 1])
<1>9. kept = [n \in 0 .. L |-> IF n = 0 THEN <<>> ELSE N(n, kept[n - 1])]
  BY <1>8
<1>10. Keep(s, S) = kept[L]
  BY DEF Keep, N, L
<1> HIDE DEF kept
<1>11. kept[0] = <<>> /\ \A n \in 1 .. L : kept[n] = N(n, kept[n - 1])
  <2>1. kept[0] = <<>>
    BY <1>1, <1>9
  <2>2. ASSUME NEW n \in 1 .. L PROVE kept[n] = N(n, kept[n - 1])
    <3>1. n \in 0 .. L /\ n # 0
      BY <1>1
    <3> QED
      BY <3>1, <1>9
  <2> QED
    BY <2>1, <2>2
<1>12. \A n \in 0 .. L : kept[n] \in Q
  <2> DEFINE G == {n \in 0 .. L : kept[n] \in Q}
  <2>1. 0 \in G
    BY <1>1, <1>3, <1>11
  <2>2. ASSUME NEW n \in 1 .. L, n - 1 \in G PROVE n \in G
    <3>1. kept[n] = N(n, kept[n - 1]) /\ kept[n - 1] \in Q /\ n \in 0 .. L
      BY <2>2, <1>1, <1>11
    <3> QED
      BY <3>1, <1>2
  <2> HIDE DEF G
  <2>3. \A n \in 0 .. L : n \in G
    BY <1>1, <2>1, <2>2, UpTo
  <2> QED
    BY <2>3 DEF G
<1>13. kept \in [0 .. L -> Q]
  BY <1>9, <1>12
<1>14. KeepSteps(kept, s, R, S)
  BY <1>10, <1>11, <1>13 DEF N, L, Q, KeepSteps
<1> QED
  BY <1>14

\* What is kept of s is what is in S.
LEMMA KeepFacts ==
    ASSUME NEW s, NEW R, s \in Seq(R), NEW S
    PROVE  /\ Keep(s, S) \in Seq(R)
           /\ \A i \in DOMAIN Keep(s, S) : \E j \in DOMAIN s : s[j] \in S /\ Keep(s, S)[i] = s[j]
           /\ \A j \in DOMAIN s : s[j] \in S => \E i \in DOMAIN Keep(s, S) : Keep(s, S)[i] = s[j]
<1> DEFINE L == Len(s)
<1>0. PICK f : KeepSteps(f, s, R, S)
  BY KeepIs
<1>1. /\ f \in [0 .. L -> Seq(R)]
      /\ f[0] = <<>>
      /\ \A n \in 1 .. L :
           f[n] = IF s[n] \in S THEN Append(f[n - 1], s[n]) ELSE f[n - 1]
      /\ Keep(s, S) = f[L]
  BY <1>0 DEF KeepSteps
<1>2. L \in Nat /\ DOMAIN s = 1 .. L /\ \A n \in 1 .. L : s[n] \in R
  OBVIOUS
<1> DEFINE Good(n) == /\ \A i \in DOMAIN f[n] : \E j \in 1 .. n : s[j] \in S /\ f[n][i] = s[j]
                      /\ \A j \in 1 .. n : s[j] \in S => \E i \in DOMAIN f[n] : f[n][i] = s[j]
           G == {n \in 0 .. L : Good(n)}
<1> HIDE DEF L
<1>3. 0 \in G
  BY <1>1, <1>2
<1>4. ASSUME NEW n \in 1 .. L, n - 1 \in G PROVE n \in G
  <2> DEFINE q == f[n - 1]
             q2 == f[n]
  <2>1. q \in Seq(R) /\ n \in 0 .. L /\ s[n] \in R
    BY <1>1, <1>2
  <2>2. /\ \A i \in DOMAIN q : \E j \in 1 .. n - 1 : s[j] \in S /\ q[i] = s[j]
        /\ \A j \in 1 .. n - 1 : s[j] \in S => \E i \in DOMAIN q : q[i] = s[j]
    BY <1>4
  <2>3. q2 = IF s[n] \in S THEN Append(q, s[n]) ELSE q
    BY <1>1
  <2>4. \A j \in 1 .. n : j = n \/ j \in 1 .. n - 1
    BY <1>2
  <2>5. \A j \in 1 .. n - 1 : j \in 1 .. n
    BY <1>2
  <2> HIDE DEF q, q2
  <2>6. CASE s[n] \in S
    <3>1. /\ DOMAIN q2 = 1 .. Len(q) + 1 /\ DOMAIN q = 1 .. Len(q) /\ Len(q) \in Nat
          /\ q2[Len(q) + 1] = s[n] /\ \A i \in 1 .. Len(q) : q2[i] = q[i]
      BY <2>1, <2>3, <2>6
    <3>2. ASSUME NEW i \in DOMAIN q2 PROVE \E j \in 1 .. n : s[j] \in S /\ q2[i] = s[j]
      <4>1. CASE i = Len(q) + 1
        BY <4>1, <3>1, <2>6
      <4>2. CASE i # Len(q) + 1
        <5>1. i \in DOMAIN q /\ q2[i] = q[i]
          BY <4>2, <3>1
        <5> QED
          BY <5>1, <2>2, <2>5
      <4> QED
        BY <4>1, <4>2
    <3>3. ASSUME NEW j \in 1 .. n, s[j] \in S PROVE \E i \in DOMAIN q2 : q2[i] = s[j]
      <4>1. CASE j = n
        <5>1. Len(q) + 1 \in DOMAIN q2
          BY <3>1
        <5> QED
          BY <5>1, <4>1, <3>1
      <4>2. CASE j # n
        <5>1. PICK i \in DOMAIN q : q[i] = s[j]
          BY <4>2, <3>3, <2>2, <2>4
        <5>2. i \in DOMAIN q2 /\ q2[i] = q[i]
          BY <3>1
        <5> QED
          BY <5>1, <5>2
      <4> QED
        BY <4>1, <4>2
    <3> QED
      BY <2>1, <3>2, <3>3 DEF q2
  <2>7. CASE s[n] \notin S
    <3>1. q2 = q
      BY <2>3, <2>7
    <3>2. \A i \in DOMAIN q2 : \E j \in 1 .. n : s[j] \in S /\ q2[i] = s[j]
      BY <3>1, <2>2, <2>5
    <3>3. \A j \in 1 .. n : s[j] \in S => \E i \in DOMAIN q2 : q2[i] = s[j]
      BY <3>1, <2>2, <2>4, <2>7
    <3> QED
      BY <2>1, <3>2, <3>3 DEF q2
  <2> QED
    BY <2>6, <2>7
<1> HIDE DEF G
<1>5. \A n \in 0 .. L : n \in G
  BY <1>2, <1>3, <1>4, UpTo
<1>6. L \in G
  BY <1>2, <1>5
<1>7. Good(L)
  BY <1>6 DEF G
<1>8. f[L] \in Seq(R)
  BY <1>1, <1>2
<1>9. Keep(s, S) = f[L]
  BY <1>1
<1> QED
  BY <1>2, <1>7, <1>8, <1>9, Zenon

-----------------------------------------------------------------------------
(***************************************************************************)
(* Sequences.                                                              *)
(***************************************************************************)
LEMMA SeqIs ==
    ASSUME NEW S, NEW s \in Seq(S)
    PROVE  IsSeq(s) /\ Len(s) \in Nat /\ DOMAIN s = 1 .. Len(s)
<1>1. Len(s) \in Nat /\ DOMAIN s = 1 .. Len(s) /\ s = [i \in 1 .. Len(s) |-> s[i]]
  OBVIOUS
<1>2. \A i \in 1 .. Len(s) : s[i] \in Range(s)
  BY <1>1 DEF Range
<1>3. s \in Seq(Range(s))
  BY <1>1, <1>2
<1> QED
  BY <1>1, <1>3 DEF IsSeq

\* A function on 1 .. n is a sequence.
LEMMA FunctionSeq ==
    ASSUME NEW n \in Nat, NEW s, s = [i \in 1 .. n |-> s[i]]
    PROVE  IsSeq(s) /\ Len(s) = n /\ DOMAIN s = 1 .. n
<1>1. DOMAIN s = 1 .. n /\ \A i \in 1 .. n : s[i] \in Range(s)
  BY DEF Range
<1>2. s \in [1 .. n -> Range(s)]
  BY <1>1
<1>3. s \in Seq(Range(s))
  BY <1>2
<1>4. Len(s) = n
  BY <1>1, <1>3
<1> QED
  BY <1>1, <1>3, <1>4 DEF IsSeq

\* A sequence with one more element.
LEMMA AppendIs ==
    ASSUME NEW s, IsSeq(s), NEW x
    PROVE  /\ IsSeq(Append(s, x)) /\ Len(s) \in Nat /\ DOMAIN s = 1 .. Len(s)
           /\ Append(s, x) # <<>> /\ Len(Append(s, x)) = Len(s) + 1
           /\ DOMAIN Append(s, x) = 1 .. Len(s) + 1
           /\ Append(s, x)[Len(s) + 1] = x
           /\ \A i \in 1 .. Len(s) : Append(s, x)[i] = s[i]
<1>1. s \in Seq(Range(s))
  BY DEF IsSeq
<1>2. s \in Seq(Range(s) \cup {x})
  BY <1>1
<1>3. Append(s, x) \in Seq(Range(s) \cup {x})
  BY <1>2
<1>4. IsSeq(Append(s, x))
  BY <1>3, SeqIs
<1>5. /\ Len(s) \in Nat /\ DOMAIN s = 1 .. Len(s)
      /\ Len(Append(s, x)) = Len(s) + 1
      /\ DOMAIN Append(s, x) = 1 .. Len(s) + 1
      /\ Append(s, x)[Len(s) + 1] = x
      /\ \A i \in 1 .. Len(s) : Append(s, x)[i] = s[i]
  BY <1>1
<1>6. Append(s, x) # <<>>
  BY <1>5
<1> QED
  BY <1>4, <1>5, <1>6

\* A sequence without its first element.
LEMMA TailIs ==
    ASSUME NEW s, IsSeq(s), s # <<>>
    PROVE  /\ IsSeq(Tail(s)) /\ Len(s) \in Nat \ {0} /\ DOMAIN s = 1 .. Len(s)
           /\ Len(Tail(s)) = Len(s) - 1
           /\ DOMAIN Tail(s) = 1 .. Len(s) - 1
           /\ \A i \in 1 .. Len(s) - 1 : Tail(s)[i] = s[i + 1]
           /\ Head(s) = s[1]
<1>1. s \in Seq(Range(s))
  BY DEF IsSeq
<1>2. Tail(s) \in Seq(Range(s))
  BY <1>1
<1>3. IsSeq(Tail(s))
  BY <1>2, SeqIs
<1>4. /\ Len(s) \in Nat \ {0} /\ DOMAIN s = 1 .. Len(s)
      /\ Len(Tail(s)) = Len(s) - 1
      /\ DOMAIN Tail(s) = 1 .. Len(s) - 1
      /\ \A i \in 1 .. Len(s) - 1 : Tail(s)[i] = s[i + 1]
      /\ Head(s) = s[1]
  BY <1>1
<1> QED
  BY <1>3, <1>4

\* A sequence without its last element.
LEMMA FrontIs ==
    ASSUME NEW s, IsSeq(s), s # <<>>
    PROVE  /\ IsSeq(Front(s)) /\ Len(s) \in Nat \ {0} /\ DOMAIN s = 1 .. Len(s)
           /\ DOMAIN Front(s) = 1 .. Len(s) - 1
           /\ \A i \in 1 .. Len(s) - 1 : Front(s)[i] = s[i]
           /\ Last(s) = s[Len(s)]
<1>1. s \in Seq(Range(s))
  BY DEF IsSeq
<1>2. Len(s) \in Nat \ {0} /\ DOMAIN s = 1 .. Len(s) /\ \A i \in 1 .. Len(s) : s[i] \in Range(s)
  BY <1>1
<1>3. Front(s) = [i \in 1 .. Len(s) - 1 |-> s[i]]
  <2>1. SubSeq(s, 1, Len(s) - 1) = [i \in 1 .. Len(s) - 1 |-> s[i]]
    BY <1>1, <1>2
  <2> QED
    BY <2>1 DEF Front
<1>5. DOMAIN Front(s) = 1 .. Len(s) - 1 /\ \A i \in 1 .. Len(s) - 1 : Front(s)[i] = s[i]
  BY <1>3
<1>4. IsSeq(Front(s))
  <2>1. Len(s) - 1 \in Nat /\ Front(s) = [i \in 1 .. Len(s) - 1 |-> Front(s)[i]]
    BY <1>2, <1>3
  <2> QED
    BY <2>1, FunctionSeq
<1> QED
  BY <1>2, <1>4, <1>5 DEF Last

\* What an informer lists.
LEMMA ListedFacts ==
    ASSUME NEW f, IsFiniteSet(DOMAIN f)
    PROVE  /\ IsSeq(Listed(f))
           /\ \A i \in DOMAIN Listed(f) :
                Listed(f)[i].name \in DOMAIN f /\ Listed(f)[i].obj = f[Listed(f)[i].name]
<1> DEFINE n == Cardinality(DOMAIN f)
           names == SetToSeq(DOMAIN f)
<1>1. n \in Nat /\ \E g : g \in [1 .. n -> DOMAIN f] /\ IsInjective(g)
  <2>1. ExistsBijection(1 .. n, DOMAIN f) /\ n \in Nat
    BY FS_CardinalityType
  <2> QED
    BY <2>1 DEF ExistsBijection, Bijection, Injection, IsInjective
<1>2. names \in [1 .. n -> DOMAIN f]
  BY <1>1 DEF SetToSeq
<1> HIDE DEF n, names
<1> DEFINE g == [i \in 1 .. n |-> [name |-> names[i], obj |-> f[names[i]]]]
<1>3. Listed(f) = g
  BY <1>2 DEF Listed, names
<1>4. g = [i \in 1 .. n |-> g[i]] /\ DOMAIN g = 1 .. n
  OBVIOUS
<1>5. \A i \in 1 .. n : g[i].name \in DOMAIN f /\ g[i].obj = f[g[i].name]
  BY <1>2
<1> HIDE DEF g
<1>6. IsSeq(g)
  BY <1>1, <1>4, FunctionSeq
<1> QED
  BY <1>3, <1>4, <1>5, <1>6

\* A copy just made.
LEMMA FreshCopies ==
    ASSUME NEW P, NEW C, ObjectsOK(P, C)
    PROVE  /\ \A v \in DOMAIN P : VolumeCopy(P, C, v, P[v])
           /\ \A c \in DOMAIN C : ClaimCopy(C, c, C[c])
<1>1. ASSUME NEW v \in DOMAIN P PROVE VolumeCopy(P, C, v, P[v])
  <2>1. IsVolume(P[v]) /\ v # "" /\ P[v].rv \in Nat
    BY DEF ObjectsOK, IsVolume
  <2>2. P[v].rv <= P[v].rv
    BY <2>1, AtMostItself
  <2> QED
    BY <2>1, <2>2 DEF VolumeCopy
<1>2. ASSUME NEW c \in DOMAIN C PROVE ClaimCopy(C, c, C[c])
  <2>1. IsClaim(C[c]) /\ C[c].rv \in Nat
    BY DEF ObjectsOK, IsClaim
  <2>2. C[c].rv <= C[c].rv
    BY <2>1
  <2> QED
    BY <2>1, <2>2 DEF ClaimCopy
<1> QED
  BY <1>1, <1>2

\* What an informer lists is right.
LEMMA FeedListed ==
    ASSUME NEW P, NEW C, ObjectsOK(P, C)
    PROVE  FeedOK(P, C, [pv |-> Listed(P), pvc |-> Listed(C)])
<1>1. IsFiniteSet(DOMAIN P) /\ IsFiniteSet(DOMAIN C)
  BY DEF ObjectsOK
<1>2. /\ IsSeq(Listed(P))
      /\ \A i \in DOMAIN Listed(P) :
           VolumeCopy(P, C, Listed(P)[i].name, Listed(P)[i].obj)
  BY <1>1, ListedFacts, FreshCopies
<1>3. /\ IsSeq(Listed(C))
      /\ \A i \in DOMAIN Listed(C) : ClaimCopy(C, Listed(C)[i].name, Listed(C)[i].obj)
  BY <1>1, ListedFacts, FreshCopies
<1> QED
  BY <1>2, <1>3 DEF FeedOK

-----------------------------------------------------------------------------
(***************************************************************************)
(* The assume caches and the feeds.                                        *)
(***************************************************************************)
\* One entry of a cache.
VolumeEntry(P, C, v, e) ==
    /\ e = [latest |-> e.latest, api |-> e.api]
    /\ VolumeCopy(P, C, v, e.latest)
    /\ VolumeCopy(P, C, v, e.api)
    /\ e.api.rv <= e.latest.rv
ClaimEntry(C, c, e) ==
    /\ e = [latest |-> e.latest, api |-> e.api]
    /\ ClaimCopy(C, c, e.latest)
    /\ ClaimCopy(C, c, e.api)

\* A cache is right if each of its entries is.
LEMMA CachedEntries ==
    /\ \A P, C, cache : VolumesCached(P, C, cache) <=>
         /\ cache = [v \in DOMAIN cache |-> cache[v]]
         /\ \A v \in DOMAIN cache : VolumeEntry(P, C, v, cache[v])
    /\ \A C, cache : ClaimsCached(C, cache) <=>
         /\ cache = [v \in DOMAIN cache |-> cache[v]]
         /\ \A v \in DOMAIN cache : ClaimEntry(C, v, cache[v])
  BY Zenon DEF VolumesCached, ClaimsCached, VolumeEntry, ClaimEntry

\* The informer's object is put into the cache, or is too old.
LEMMA AddVolume ==
    ASSUME NEW P, NEW C, NEW cache, VolumesCached(P, C, cache), NEW v, NEW o, VolumeCopy(P, C, v, o)
    PROVE  VolumesCached(P, C, add(cache, v, o))
<1>1. CASE v \in DOMAIN cache /\ o.rv <= cache[v].latest.rv
  BY <1>1 DEF add
<1>2. CASE ~(v \in DOMAIN cache /\ o.rv <= cache[v].latest.rv)
  <2> DEFINE e == [latest |-> o, api |-> o]
             new == Put(cache, v, e)
  <2>1. add(cache, v, o) = new
    BY <1>2 DEF add
  <2>2. VolumeEntry(P, C, v, e)
    <3>1. o.rv \in Nat
      BY DEF VolumeCopy, IsVolume
    <3>2. o.rv <= o.rv
      BY <3>1
    <3> QED
      BY <3>2 DEF VolumeEntry
  <2> HIDE DEF e
  <2>3. /\ new = [w \in DOMAIN new |-> new[w]] /\ DOMAIN new = DOMAIN cache \cup {v}
        /\ \A w \in DOMAIN new : new[w] = IF w = v THEN e ELSE cache[w]
    BY DEF Put
  <2> HIDE DEF new
  <2>4. \A w \in DOMAIN new : VolumeEntry(P, C, w, new[w])
    BY <2>2, <2>3, CachedEntries
  <2> QED
    BY <2>1, <2>3, <2>4, CachedEntries
<1> QED
  BY <1>1, <1>2

\* add, for claims.
LEMMA AddClaim ==
    ASSUME NEW C, NEW cache, ClaimsCached(C, cache), NEW v, NEW o, ClaimCopy(C, v, o)
    PROVE  ClaimsCached(C, add(cache, v, o))
<1>1. CASE v \in DOMAIN cache /\ o.rv <= cache[v].latest.rv
  BY <1>1 DEF add
<1>2. CASE ~(v \in DOMAIN cache /\ o.rv <= cache[v].latest.rv)
  <2> DEFINE e == [latest |-> o, api |-> o]
             new == Put(cache, v, e)
  <2>1. add(cache, v, o) = new
    BY <1>2 DEF add
  <2>2. ClaimEntry(C, v, e)
    BY DEF ClaimEntry
  <2> HIDE DEF e
  <2>3. /\ new = [w \in DOMAIN new |-> new[w]] /\ DOMAIN new = DOMAIN cache \cup {v}
        /\ \A w \in DOMAIN new : new[w] = IF w = v THEN e ELSE cache[w]
    BY DEF Put
  <2> HIDE DEF new
  <2>4. \A w \in DOMAIN new : ClaimEntry(C, w, new[w])
    BY <2>2, <2>3, CachedEntries
  <2> QED
    BY <2>1, <2>3, <2>4, CachedEntries
<1> QED
  BY <1>1, <1>2

\* delete leaves the other entries alone.
LEMMA DeleteVolumeEntry ==
    ASSUME NEW P, NEW C, NEW cache, VolumesCached(P, C, cache), NEW v
    PROVE  VolumesCached(P, C, delete(cache, v))
<1> DEFINE new == delete(cache, v)
<1>1. /\ new = [w \in DOMAIN new |-> new[w]] /\ DOMAIN new = DOMAIN cache \ {v}
      /\ \A w \in DOMAIN new : new[w] = cache[w]
  BY DEF delete, Restrict
<1> HIDE DEF new
<1>2. \A w \in DOMAIN new : VolumeEntry(P, C, w, new[w])
  BY <1>1, CachedEntries
<1>3. VolumesCached(P, C, new)
  BY <1>1, <1>2, CachedEntries
<1> QED
  BY <1>3 DEF new

\* An entry restored.
Restored(e) == [e EXCEPT !.latest = e.api]
\* An entry set back to what the informer last said.
LEMMA RestoredEntries ==
    /\ \A P, C, v, e : VolumeEntry(P, C, v, e) => VolumeEntry(P, C, v, Restored(e))
    /\ \A C, v, e : ClaimEntry(C, v, e) => ClaimEntry(C, v, Restored(e))
<1>1. ASSUME NEW e, e = [latest |-> e.latest, api |-> e.api]
      PROVE  Restored(e) = [latest |-> e.api, api |-> e.api]
  BY <1>1 DEF Restored
<1>2. ASSUME NEW P, NEW C, NEW v, NEW e, VolumeEntry(P, C, v, e)
      PROVE  VolumeEntry(P, C, v, Restored(e))
  <2> DEFINE r == Restored(e)
  <2>1. r = [latest |-> e.api, api |-> e.api]
    BY <1>1, <1>2 DEF VolumeEntry
  <2>2. VolumeCopy(P, C, v, e.api)
    BY <1>2 DEF VolumeEntry
  <2>3. e.api.rv \in Nat
    BY <2>2 DEF VolumeCopy, IsVolume
  <2> HIDE DEF r
  <2>4. r = [latest |-> r.latest, api |-> r.api] /\ r.latest = e.api /\ r.api = e.api
    BY <2>1
  <2>5. r.api.rv <= r.latest.rv
    BY <2>3, <2>4
  <2>6. VolumeEntry(P, C, v, r)
    BY <2>2, <2>4, <2>5 DEF VolumeEntry
  <2> QED
    BY <2>6 DEF r
<1>3. ASSUME NEW C, NEW v, NEW e, ClaimEntry(C, v, e)
      PROVE  ClaimEntry(C, v, Restored(e))
  <2> DEFINE r == Restored(e)
  <2>1. r = [latest |-> e.api, api |-> e.api]
    BY <1>1, <1>3 DEF ClaimEntry
  <2> HIDE DEF r
  <2>4. r = [latest |-> r.latest, api |-> r.api] /\ r.latest = e.api /\ r.api = e.api
    BY <2>1
  <2>6. ClaimEntry(C, v, r)
    BY <2>4, <1>3 DEF ClaimEntry
  <2> QED
    BY <2>6 DEF r
<1> QED
  BY <1>2, <1>3

\* Restore, entry by entry.
LEMMA RestoreFacts ==
    ASSUME NEW cache, NEW names
    PROVE  /\ Restore(cache, names) = [v \in DOMAIN Restore(cache, names) |-> Restore(cache, names)[v]]
           /\ DOMAIN Restore(cache, names) = DOMAIN cache
           /\ \A v \in DOMAIN cache :
                Restore(cache, names)[v] = Restored(cache[v]) \/ Restore(cache, names)[v] = cache[v]
  BY DEF Restore, Restored

\* Whatever is restored, the caches are right.
LEMMA RestoreVolumes ==
    ASSUME NEW P, NEW C, NEW cache, VolumesCached(P, C, cache), NEW names
    PROVE  VolumesCached(P, C, Restore(cache, names))
<1> DEFINE new == Restore(cache, names)
<1>1. /\ new = [w \in DOMAIN new |-> new[w]] /\ DOMAIN new = DOMAIN cache
      /\ \A w \in DOMAIN cache : new[w] = Restored(cache[w]) \/ new[w] = cache[w]
  BY RestoreFacts
<1> HIDE DEF new
<1>2. \A w \in DOMAIN new : VolumeEntry(P, C, w, new[w])
  <2>1. \A w \in DOMAIN cache : VolumeEntry(P, C, w, cache[w])
    BY CachedEntries
  <2> QED
    BY <2>1, <1>1, RestoredEntries
<1>3. VolumesCached(P, C, new)
  BY <1>1, <1>2, CachedEntries
<1> QED
  BY <1>3 DEF new

\* Restore, for claims.
LEMMA RestoreClaims ==
    ASSUME NEW C, NEW cache, ClaimsCached(C, cache), NEW names
    PROVE  ClaimsCached(C, Restore(cache, names))
<1> DEFINE new == Restore(cache, names)
<1>1. /\ new = [w \in DOMAIN new |-> new[w]] /\ DOMAIN new = DOMAIN cache
      /\ \A w \in DOMAIN cache : new[w] = Restored(cache[w]) \/ new[w] = cache[w]
  BY RestoreFacts
<1> HIDE DEF new
<1>2. \A w \in DOMAIN new : ClaimEntry(C, w, new[w])
  <2>1. \A w \in DOMAIN cache : ClaimEntry(C, w, cache[w])
    BY CachedEntries
  <2> QED
    BY <2>1, <1>1, RestoredEntries
<1>3. ClaimsCached(C, new)
  BY <1>1, <1>2, CachedEntries
<1> QED
  BY <1>3 DEF new

\* Assume, entry by entry.
LEMMA AssumeFacts ==
    ASSUME NEW cache, NEW objs
    PROVE  /\ Assume(cache, objs) = [v \in DOMAIN Assume(cache, objs) |-> Assume(cache, objs)[v]]
           /\ DOMAIN Assume(cache, objs) = DOMAIN cache
           /\ \A v \in DOMAIN cache : Assume(cache, objs)[v] =
                IF v \in DOMAIN objs THEN [cache[v] EXCEPT !.latest = objs[v]] ELSE cache[v]
  BY DEF Assume

\* Assuming copies that are not older than what is there.
LEMMA AssumeVolumes ==
    ASSUME NEW P, NEW C, NEW cache, VolumesCached(P, C, cache), NEW objs,
           \A v \in DOMAIN objs : VolumeCopy(P, C, v, objs[v]),
           \A v \in DOMAIN objs : v \in DOMAIN cache => cache[v].latest.rv <= objs[v].rv
    PROVE  VolumesCached(P, C, Assume(cache, objs))
<1> DEFINE new == Assume(cache, objs)
<1>1. /\ new = [w \in DOMAIN new |-> new[w]] /\ DOMAIN new = DOMAIN cache
      /\ \A w \in DOMAIN cache : new[w] =
           IF w \in DOMAIN objs THEN [cache[w] EXCEPT !.latest = objs[w]] ELSE cache[w]
  BY AssumeFacts
<1> HIDE DEF new
<1>2. ASSUME NEW w \in DOMAIN new PROVE VolumeEntry(P, C, w, new[w])
  <2>1. VolumeEntry(P, C, w, cache[w])
    BY <1>1, CachedEntries
  <2>2. CASE w \in DOMAIN objs
    <3> DEFINE e == cache[w]
               o == objs[w]
               r == [latest |-> o, api |-> e.api]
    <3>1. e = [latest |-> e.latest, api |-> e.api]
      BY <2>1 DEF VolumeEntry
    <3>2. [e EXCEPT !.latest = o] = r
      BY <3>1
    <3>3. new[w] = r
      BY <1>1, <2>2, <3>2
    <3>4. VolumeCopy(P, C, w, o) /\ e.latest.rv <= o.rv
      BY <1>1, <2>2
    <3>5. /\ VolumeCopy(P, C, w, e.api) /\ VolumeCopy(P, C, w, e.latest)
          /\ e.api.rv <= e.latest.rv
      BY <2>1 DEF VolumeEntry
    <3>6. e.api.rv \in Nat /\ e.latest.rv \in Nat /\ o.rv \in Nat
      BY <3>4, <3>5 DEF VolumeCopy, IsVolume
    <3> HIDE DEF e, o
    <3>7. e.api.rv <= o.rv
      BY <3>4, <3>5, <3>6
    <3>8. VolumeEntry(P, C, w, r)
      BY <3>4, <3>5, <3>7 DEF VolumeEntry
    <3> QED
      BY <3>3, <3>8
  <2>3. CASE w \notin DOMAIN objs
    BY <1>1, <2>1, <2>3
  <2> QED
    BY <2>2, <2>3
<1>3. VolumesCached(P, C, new)
  BY <1>1, <1>2, CachedEntries
<1> QED
  BY <1>3 DEF new

\* Assume, for claims.
LEMMA AssumeClaims ==
    ASSUME NEW C, NEW cache, ClaimsCached(C, cache), NEW objs,
           \A v \in DOMAIN objs : ClaimCopy(C, v, objs[v])
    PROVE  ClaimsCached(C, Assume(cache, objs))
<1> DEFINE new == Assume(cache, objs)
<1>1. /\ new = [w \in DOMAIN new |-> new[w]] /\ DOMAIN new = DOMAIN cache
      /\ \A w \in DOMAIN cache : new[w] =
           IF w \in DOMAIN objs THEN [cache[w] EXCEPT !.latest = objs[w]] ELSE cache[w]
  BY AssumeFacts
<1> HIDE DEF new
<1>2. ASSUME NEW w \in DOMAIN new PROVE ClaimEntry(C, w, new[w])
  <2>1. ClaimEntry(C, w, cache[w])
    BY <1>1, CachedEntries
  <2>2. CASE w \in DOMAIN objs
    <3> DEFINE e == cache[w]
               o == objs[w]
               r == [latest |-> o, api |-> e.api]
    <3>1. e = [latest |-> e.latest, api |-> e.api]
      BY <2>1 DEF ClaimEntry
    <3>2. [e EXCEPT !.latest = o] = r
      BY <3>1
    <3>3. new[w] = r
      BY <1>1, <2>2, <3>2
    <3>4. ClaimCopy(C, w, o) /\ ClaimCopy(C, w, e.api)
      BY <2>1, <2>2 DEF ClaimEntry
    <3> HIDE DEF e, o
    <3>8. ClaimEntry(C, w, r)
      BY <3>4 DEF ClaimEntry
    <3> QED
      BY <3>3, <3>8
  <2>3. CASE w \notin DOMAIN objs
    BY <1>1, <2>1, <2>3
  <2> QED
    BY <2>2, <2>3
<1>3. ClaimsCached(C, new)
  BY <1>1, <1>2, CachedEntries
<1> QED
  BY <1>3 DEF new

-----------------------------------------------------------------------------
(***************************************************************************)
(* The feeds.                                                              *)
(***************************************************************************)
\* What one of the two informers is told says nothing of the other's.
LEMMA FeedFields ==
    ASSUME NEW feed, feed = [pv |-> feed.pv, pvc |-> feed.pvc], NEW s
    PROVE  /\ [feed EXCEPT !.pv = s] = [pv |-> s, pvc |-> feed.pvc]
           /\ [feed EXCEPT !.pvc = s] = [pv |-> feed.pv, pvc |-> s]
<1>1. [[pv |-> feed.pv, pvc |-> feed.pvc] EXCEPT !.pv = s] = [pv |-> s, pvc |-> feed.pvc]
  OBVIOUS
<1>2. [[pv |-> feed.pv, pvc |-> feed.pvc] EXCEPT !.pvc = s] = [pv |-> feed.pv, pvc |-> s]
  OBVIOUS
<1> QED
  BY <1>1, <1>2

VolumeEvents(P, C, s) ==
    IsSeq(s) /\ \A i \in DOMAIN s : s[i].obj # Gone => VolumeCopy(P, C, s[i].name, s[i].obj)
ClaimEvents(C, s) ==
    IsSeq(s) /\ \A i \in DOMAIN s : ClaimCopy(C, s[i].name, s[i].obj)

\* The two feeds are right each by itself.
LEMMA FeedIs ==
    /\ \A P, C, a, b : VolumeEvents(P, C, a) /\ ClaimEvents(C, b)
         => FeedOK(P, C, [pv |-> a, pvc |-> b])
    /\ \A P, C, feed : FeedOK(P, C, feed) =>
         /\ feed = [pv |-> feed.pv, pvc |-> feed.pvc]
         /\ VolumeEvents(P, C, feed.pv) /\ ClaimEvents(C, feed.pvc)
<1>1. ASSUME NEW P, NEW C, NEW a, NEW b, VolumeEvents(P, C, a), ClaimEvents(C, b)
      PROVE  FeedOK(P, C, [pv |-> a, pvc |-> b])
  BY <1>1 DEF FeedOK, VolumeEvents, ClaimEvents
<1>2. \A P, C, feed : FeedOK(P, C, feed) =>
         /\ feed = [pv |-> feed.pv, pvc |-> feed.pvc]
         /\ VolumeEvents(P, C, feed.pv) /\ ClaimEvents(C, feed.pvc)
  BY Zenon DEF FeedOK, VolumeEvents, ClaimEvents
<1> QED
  BY <1>1, <1>2, Zenon

\* An event that is added, and one that is taken.
LEMMA EventAdded ==
    ASSUME NEW P, NEW C, NEW s, NEW x, NEW o
    PROVE  /\ VolumeEvents(P, C, s) /\ (o = Gone \/ VolumeCopy(P, C, x, o)) =>
                VolumeEvents(P, C, Append(s, [name |-> x, obj |-> o]))
           /\ ClaimEvents(C, s) /\ ClaimCopy(C, x, o) =>
                ClaimEvents(C, Append(s, [name |-> x, obj |-> o]))
<1> DEFINE e == [name |-> x, obj |-> o]
           s2 == Append(s, e)
<1>1. ASSUME IsSeq(s)
      PROVE  IsSeq(s2) /\ \A i \in DOMAIN s2 : s2[i] = e \/ (i \in DOMAIN s /\ s2[i] = s[i])
  <2> HIDE DEF e
  <2>1. /\ IsSeq(s2) /\ Len(s) \in Nat /\ DOMAIN s = 1 .. Len(s)
        /\ DOMAIN s2 = 1 .. Len(s) + 1 /\ s2[Len(s) + 1] = e
        /\ \A i \in 1 .. Len(s) : s2[i] = s[i]
    BY <1>1, AppendIs
  <2> HIDE DEF s2
  <2> QED
    BY <2>1
<1>2. e.name = x /\ e.obj = o
  OBVIOUS
<1> HIDE DEF e, s2
<1>3. ASSUME VolumeEvents(P, C, s), o = Gone \/ VolumeCopy(P, C, x, o)
      PROVE  VolumeEvents(P, C, s2)
  <2>0. IsSeq(s)
    BY <1>3 DEF VolumeEvents
  <2>1. ASSUME NEW i \in DOMAIN s2, s2[i].obj # Gone PROVE VolumeCopy(P, C, s2[i].name, s2[i].obj)
    <3>1. CASE s2[i] = e
      BY <3>1, <2>1, <1>2, <1>3
    <3>2. CASE i \in DOMAIN s /\ s2[i] = s[i]
      BY <3>2, <2>1, <1>3 DEF VolumeEvents
    <3> QED
      BY <3>1, <3>2, <1>1, <2>0
  <2> QED
    BY <2>0, <2>1, <1>1 DEF VolumeEvents
<1>4. ASSUME ClaimEvents(C, s), ClaimCopy(C, x, o)
      PROVE  ClaimEvents(C, s2)
  <2>0. IsSeq(s)
    BY <1>4 DEF ClaimEvents
  <2>1. ASSUME NEW i \in DOMAIN s2 PROVE ClaimCopy(C, s2[i].name, s2[i].obj)
    <3>1. CASE s2[i] = e
      BY <3>1, <1>2, <1>4
    <3>2. CASE i \in DOMAIN s /\ s2[i] = s[i]
      BY <3>2, <1>4 DEF ClaimEvents
    <3> QED
      BY <3>1, <3>2, <1>1, <2>0
  <2> QED
    BY <2>0, <2>1, <1>1 DEF ClaimEvents
<1> QED
  BY <1>3, <1>4 DEF s2, e

\* The first event is taken from a feed.
LEMMA EventTaken ==
    ASSUME NEW P, NEW C, NEW s, s # <<>>
    PROVE  /\ VolumeEvents(P, C, s) =>
                /\ VolumeEvents(P, C, Tail(s))
                /\ Head(s).obj # Gone => VolumeCopy(P, C, Head(s).name, Head(s).obj)
           /\ ClaimEvents(C, s) =>
                ClaimEvents(C, Tail(s)) /\ ClaimCopy(C, Head(s).name, Head(s).obj)
<1> DEFINE s2 == Tail(s)
<1>1. ASSUME IsSeq(s)
      PROVE  /\ IsSeq(s2) /\ \A i \in DOMAIN s2 : \E j \in DOMAIN s : s2[i] = s[j]
             /\ \E j \in DOMAIN s : Head(s) = s[j]
  <2>1. /\ IsSeq(s2) /\ Len(s) \in Nat \ {0} /\ DOMAIN s = 1 .. Len(s)
        /\ DOMAIN s2 = 1 .. Len(s) - 1 
        /\ \A i \in 1 .. Len(s) - 1 : s2[i] = s[i + 1]
        /\ Head(s) = s[1]
    BY <1>1, TailIs
  <2> HIDE DEF s2
  <2>2. \A i \in 1 .. Len(s) - 1 : i + 1 \in DOMAIN s
    BY <2>1
  <2>3. 1 \in DOMAIN s
    BY <2>1
  <2>4. \A i \in DOMAIN s2 : \E j \in DOMAIN s : s2[i] = s[j]
    <3>1. \A i \in DOMAIN s2 : i + 1 \in DOMAIN s /\ s2[i] = s[i + 1]
      BY <2>1, <2>2, Zenon
    <3> QED
      BY <3>1, Zenon
  <2>5. \E j \in DOMAIN s : Head(s) = s[j]
    BY <2>1, <2>3, Zenon
  <2> QED
    BY <2>1, <2>4, <2>5, Zenon
<1> HIDE DEF s2
<1>2. VolumeEvents(P, C, s) => VolumeEvents(P, C, s2)
  BY <1>1 DEF VolumeEvents
<1>3. VolumeEvents(P, C, s) => (Head(s).obj # Gone => VolumeCopy(P, C, Head(s).name, Head(s).obj))
  BY <1>1 DEF VolumeEvents
<1>4. ClaimEvents(C, s) => ClaimEvents(C, s2)
  BY <1>1 DEF ClaimEvents
<1>5. ClaimEvents(C, s) => ClaimCopy(C, Head(s).name, Head(s).obj)
  BY <1>1 DEF ClaimEvents
<1> QED
  BY <1>2, <1>3, <1>4, <1>5 DEF s2

-----------------------------------------------------------------------------
(***************************************************************************)
(* The search for volumes.                                                 *)
(***************************************************************************)
\* The claims in another order are the same claims.
LEMMA SortedFacts ==
    ASSUME NEW R, NEW claims \in Seq(R), NEW s \in Sorted(claims)
    PROVE  /\ s \in Seq(R) /\ DOMAIN s = DOMAIN claims
           /\ \A i \in DOMAIN claims : \E j \in DOMAIN s : s[j] = claims[i]
<1>0. Len(claims) \in Nat /\ DOMAIN claims = 1 .. Len(claims) /\ \A i \in DOMAIN claims : claims[i] \in R
  OBVIOUS
<1>1. PICK f \in Bijection(DOMAIN claims, DOMAIN claims) : s = [i \in DOMAIN claims |-> claims[f[i]]]
  BY Zenon DEF Sorted
<1>2. /\ f \in [DOMAIN claims -> DOMAIN claims]
      /\ \A w \in DOMAIN claims : \E v \in DOMAIN claims : f[v] = w
  BY DEF Bijection, Injection, Surjection
<1>3. s \in [1 .. Len(claims) -> R]
  BY <1>0, <1>1, <1>2
<1> QED
  BY <1>0, <1>1, <1>2, <1>3

Matches(m, s, give, R) ==
    /\ IsSeq(m.bind) /\ m.rest \in Seq(R)
    /\ \A j \in DOMAIN m.bind : \E i \in DOMAIN s :
         /\ give[i] # ""
         /\ m.bind[j] = [claim |-> s[i], pv |-> give[i], obj |-> GetPV(give[i])]
    /\ \A i \in DOMAIN s : \/ \E j \in DOMAIN m.bind : m.bind[j].claim = s[i]
                           \/ \E j \in DOMAIN m.rest : m.rest[j] = s[i]

\* Each claim is given its volume, or is left.
LEMMA MatchedFacts ==
    ASSUME NEW R, NEW s \in Seq(R), NEW give
    PROVE  Matches(Matched(s, give), s, give, R)
<1> DEFINE at == [i \in DOMAIN s |-> i]
           G == {i \in DOMAIN s : give[i] # ""}
           H == {i \in DOMAIN s : give[i] = ""}
           with == Keep(at, G)
           without == Keep(at, H)
           B(i) == [claim |-> s[i], pv |-> give[i], obj |-> GetPV(give[i])]
           bind == [j \in DOMAIN with |-> B(with[j])]
           rest == [j \in DOMAIN without |-> s[without[j]]]
<1>0. Len(s) \in Nat /\ DOMAIN s = 1 .. Len(s) /\ \A i \in DOMAIN s : s[i] \in R
  OBVIOUS
<1>1. at \in Seq(DOMAIN s) /\ DOMAIN at = DOMAIN s /\ \A i \in DOMAIN s : at[i] = i
  BY <1>0
<1>2. Matched(s, give).bind = bind /\ Matched(s, give).rest = rest
  BY DEF Matched
<1>3. /\ with \in Seq(DOMAIN s)
      /\ \A i \in DOMAIN with : \E j \in DOMAIN at : at[j] \in G /\ with[i] = at[j]
      /\ \A j \in DOMAIN at : at[j] \in G => \E i \in DOMAIN with : with[i] = at[j]
  <2> HIDE DEF at, G
  <2> QED
    BY <1>1, KeepFacts
<1>4. /\ without \in Seq(DOMAIN s)
      /\ \A i \in DOMAIN without : \E j \in DOMAIN at : at[j] \in H /\ without[i] = at[j]
      /\ \A j \in DOMAIN at : at[j] \in H => \E i \in DOMAIN without : without[i] = at[j]
  <2> HIDE DEF at, H
  <2> QED
    BY <1>1, KeepFacts
<1> HIDE DEF with, without, at, B
<1>5. \A i \in DOMAIN with : with[i] \in G
  BY <1>1, <1>3
<1>6. \A j \in G : \E i \in DOMAIN with : with[i] = j
  BY <1>1, <1>3
<1>7. \A i \in DOMAIN without : without[i] \in H
  BY <1>1, <1>4
<1>8. \A j \in H : \E i \in DOMAIN without : without[i] = j
  BY <1>1, <1>4
<1>9. IsSeq(bind) /\ DOMAIN bind = DOMAIN with
  <2>1. Len(with) \in Nat /\ DOMAIN with = 1 .. Len(with)
    <3>1. with \in Seq(DOMAIN s)
      BY <1>3
    <3> QED
      BY <3>1, SeqIs, Zenon
  <2>2. bind = [j \in 1 .. Len(with) |-> bind[j]]
    BY <2>1
  <2> HIDE DEF bind
  <2> QED
    BY <2>1, <2>2, FunctionSeq
<1>10. rest \in Seq(R) /\ DOMAIN rest = DOMAIN without
  <2>1. Len(without) \in Nat /\ DOMAIN without = 1 .. Len(without)
    <3>1. without \in Seq(DOMAIN s)
      BY <1>4
    <3> QED
      BY <3>1, SeqIs, Zenon
  <2>2. rest \in [1 .. Len(without) -> R]
    BY <2>1, <1>7, <1>0
  <2> QED
    BY <2>1, <2>2
<1>11. \A j \in DOMAIN bind : \E i \in DOMAIN s : give[i] # "" /\ bind[j] = B(i)
  BY <1>5, <1>9
<1>12. \A i \in DOMAIN s : B(i).claim = s[i]
  BY DEF B
<1>13. \A i \in DOMAIN s : give[i] # "" => \E j \in DOMAIN bind : bind[j] = B(i)
  BY <1>6, <1>9
<1>14. \A i \in DOMAIN s : give[i] = "" => \E j \in DOMAIN rest : rest[j] = s[i]
  BY <1>8, <1>10
<1> HIDE DEF bind, rest
<1>15. \A i \in DOMAIN s : \/ \E j \in DOMAIN bind : bind[j].claim = s[i]
                           \/ \E j \in DOMAIN rest : rest[j] = s[i]
  BY <1>12, <1>13, <1>14
<1>16. \A j \in DOMAIN bind : \E i \in DOMAIN s : give[i] # ""
          /\ bind[j] = [claim |-> s[i], pv |-> give[i], obj |-> GetPV(give[i])]
  BY <1>11, Zenon DEF B
<1> QED
  BY <1>2, <1>9, <1>10, <1>15, <1>16 DEF Matches

\* What the caches say of objects that are in them.
LEMMA CachedCopies ==
    ASSUME VolumesCached(pv, pvc, pvCache), ClaimsCached(pvc, pvcCache)
    PROVE  /\ \A v \in DOMAIN pvCache : VolumeCopy(pv, pvc, v, GetPV(v))
                                        /\ VolumeCopy(pv, pvc, v, GetAPIPV(v))
           /\ \A c \in DOMAIN pvcCache : ClaimCopy(pvc, c, GetPVC(c))
                                         /\ ClaimCopy(pvc, c, GetAPIPVC(c))
  BY Zenon DEF VolumesCached, ClaimsCached, GetPV, GetAPIPV, GetPVC, GetAPIPVC

\* The volumes that match the claims, and the claims without one.
LEMMA MatchingFacts ==
    ASSUME VolumesCached(pv, pvc, pvCache), ClaimsCached(pvc, pvcCache),
           NEW R, NEW claims \in Seq(R), NEW n, NEW w \in findMatchingVolumes(claims, n)
    PROVE  /\ IsSeq(w.bind) /\ w.rest \in Seq(R)
           /\ \A j \in DOMAIN w.bind : BindingOK(pv, pvc, w.bind[j])
           /\ \A i \in DOMAIN claims : \/ \E j \in DOMAIN w.bind : w.bind[j].claim = claims[i]
                                       \/ \E j \in DOMAIN w.rest : w.rest[j] = claims[i]
<1>1. PICK s \in Sorted(claims) : w \in {Matched(s, give) : give \in Ways(s, n)}
  BY Zenon DEF findMatchingVolumes
<1>2. PICK give \in Ways(s, n) : w = Matched(s, give)
  BY <1>1
<1>3. /\ s \in Seq(R) /\ DOMAIN s = DOMAIN claims
      /\ \A i \in DOMAIN claims : \E j \in DOMAIN s : s[j] = claims[i]
  BY SortedFacts
<1>4. /\ IsSeq(w.bind) /\ w.rest \in Seq(R)
      /\ \A j \in DOMAIN w.bind : \E i \in DOMAIN s : give[i] # ""
          /\ w.bind[j] = [claim |-> s[i], pv |-> give[i], obj |-> GetPV(give[i])]
      /\ \A i \in DOMAIN s : \/ \E j \in DOMAIN w.bind : w.bind[j].claim = s[i]
                             \/ \E j \in DOMAIN w.rest : w.rest[j] = s[i]
  <2>1. s \in Seq(R)
    BY <1>3
  <2>2. Matches(w, s, give, R)
    BY <2>1, <1>2, MatchedFacts
  <2> QED
    BY <2>2, Zenon DEF Matches
<1>5. ASSUME NEW i \in DOMAIN s, give[i] # ""
      PROVE  BindingOK(pv, pvc, [claim |-> s[i], pv |-> give[i], obj |-> GetPV(give[i])])
  <2> DEFINE X == {give[j] : j \in 1 .. i - 1}
  <2>1. IF FindMatchingVolume(s[i], X, n) = {} THEN give[i] = ""
        ELSE give[i] \in FindMatchingVolume(s[i], X, n)
    BY Zenon DEF Ways
  <2>2. give[i] \in FindMatchingVolume(s[i], X, n)
    BY <2>1, <1>5
  <2> HIDE DEF X
  <2>3. give[i] \in DOMAIN pvCache /\ GetPV(give[i]).claim \in {"", s[i]}
    BY <2>2 DEF FindMatchingVolume, ListPVs
  <2>4. VolumeCopy(pv, pvc, give[i], GetPV(give[i]))
    BY <2>3, CachedCopies
  <2> HIDE <2>1, <2>2
  <2> DEFINE b == [claim |-> s[i], pv |-> give[i], obj |-> GetPV(give[i])]
  <2>5. b.claim = s[i] /\ b.pv = give[i] /\ b.obj = GetPV(give[i])
        /\ b = [claim |-> b.claim, pv |-> b.pv, obj |-> b.obj]
    OBVIOUS
  <2> HIDE DEF b
  <2>6. BindingOK(pv, pvc, b)
    BY <2>3, <2>4, <2>5 DEF BindingOK
  <2> QED
    BY <2>6 DEF b
<1>6. \A j \in DOMAIN w.bind : BindingOK(pv, pvc, w.bind[j])
  BY <1>4, <1>5
<1>7. ASSUME NEW i \in DOMAIN claims
      PROVE  \/ \E j \in DOMAIN w.bind : w.bind[j].claim = claims[i]
             \/ \E j \in DOMAIN w.rest : w.rest[j] = claims[i]
  <2>1. PICK k0 \in DOMAIN s : s[k0] = claims[i]
    BY <1>3
  <2> QED
    BY <2>1, <1>4, Zenon
<1> QED
  BY <1>4, <1>6, <1>7, Zenon

\* A claim that the cache takes for bound, to a volume that it thinks the node reaches,
\* is.
LEMMA BoundClaims ==
    ASSUME ObjectsOK(pv, pvc), VolumesCached(pv, pvc, pvCache), ClaimsCached(pvc, pvcCache),
           NEW c \in DOMAIN pvcCache, NEW o \in {GetPVC(c), GetAPIPVC(c)}, isPVCFullyBound(o),
           o.vol \in DOMAIN pvCache,
           NEW u \in {GetPV(o.vol), GetAPIPV(o.vol)}, NEW n \in u.reach
    PROVE  Settled(pv, pvc, c, n)
<1>1. ClaimCopy(pvc, c, o) /\ VolumeCopy(pv, pvc, o.vol, u)
  BY CachedCopies
<1>2. c \in DOMAIN pvc /\ isPVCFullyBound(pvc[c]) /\ pvc[c].vol = o.vol
  BY <1>1 DEF ClaimCopy
<1>3. pvc[c].vol \in DOMAIN pv /\ pv[pvc[c].vol].claim = c
  BY <1>2 DEF ObjectsOK
<1>4. n \in pv[pvc[c].vol].reach
  BY <1>1, <1>2, <1>3 DEF VolumeCopy
<1> QED
  BY <1>2, <1>3, <1>4 DEF Settled

\* What FindPodVolumes gives p on n: copies, and each of p's claims is settled or among
\* those to be bound.
LEMMA FindFacts ==
    ASSUME ObjectsOK(pv, pvc), VolumesCached(pv, pvc, pvCache), ClaimsCached(pvc, pvcCache),
           NEW p, IsSeq(PodVols[p]), ~GetPodVolumesFails(p), NEW n,
           NEW vols \in FindPodVolumes(p, n)
    PROVE  /\ VolsOK(pv, pvc, vols)
           /\ \A c \in ClaimsOf(p) : Settled(pv, pvc, c, n) \/ c \in Chosen(vols)
<1> DEFINE s == PodVols[p]
           K == ClaimsOf(p)
           claims == [i \in DOMAIN s |-> s[i].claim]
           bound == {c \in K : isPVCFullyBound(GetPVC(c))}
           D == {c \in K \ bound : IsDelayBindingMode(GetPVC(c)) /\ GetPVC(c).vol = ""}
           dl == Keep(claims, D)
           A == {c \in K : GetPVC(c).sel # ""}
           B == {c \in K : GetPVC(c).sel = ""}
           selected == Keep(dl, A)
           open == Keep(dl, B)
           Prov(q) == [i \in DOMAIN q |-> [claim |-> q[i], obj |-> GetPVC(q[i])]]
<1>1. claims \in Seq(K) /\ \A c \in K : \E i \in DOMAIN claims : claims[i] = c
  <2>1. Len(s) \in Nat /\ DOMAIN s = 1 .. Len(s)
    BY SeqIs DEF IsSeq
  <2>2. \A i \in DOMAIN s : s[i].claim \in K
    BY DEF ClaimsOf
  <2>3. claims \in [1 .. Len(s) -> K]
    BY <2>1, <2>2
  <2>4. \A c \in K : \E i \in DOMAIN s : s[i].claim = c
    BY DEF ClaimsOf
  <2> HIDE DEF K
  <2> QED
    BY <2>1, <2>3, <2>4
<1>2. \A c \in K : c \in DOMAIN pvcCache
  BY DEF ClaimsOf, GetPodVolumesFails, isVolumeBoundFails
<1>3. /\ GetPodVolumes(p).bound = bound /\ GetPodVolumes(p).delayed = dl
      /\ GetPodVolumes(p).immediate = K \ (bound \cup D)
  BY DEF GetPodVolumes
<1>4. /\ K \ (bound \cup D) = {} /\ checkBoundClaims(bound, n)
      /\ \E w \in findMatchingVolumes(open, n) : vols = [bind |-> w.bind, prov |-> Prov(selected \o w.rest)]
  <2> DEFINE g == GetPodVolumes(p)
             X == {c \in ClaimsOf(p) : GetPVC(c).sel # ""}
             Y == {c \in ClaimsOf(p) : GetPVC(c).sel = ""}
             no == \/ g.immediate # {} \/ ~checkBoundClaims(g.bound, n)
                   \/ \E c \in Range(Keep(g.delayed, X)) : GetPVC(c).sel # n
             some == {[bind |-> w.bind, prov |-> Prov(Keep(g.delayed, X) \o w.rest)] :
                        w \in {w \in findMatchingVolumes(Keep(g.delayed, Y), n) :
                                checkVolumeProvisions(Keep(g.delayed, X) \o w.rest, n)}}
  <2>1. FindPodVolumes(p, n) = IF no THEN {} ELSE some
    BY DEF FindPodVolumes
  <2>2. ~no /\ vols \in some
    <3> HIDE DEF no, some
    <3> QED
      BY <2>1
  <2>3. g.bound = bound /\ g.delayed = dl /\ g.immediate = K \ (bound \cup D)
    BY <1>3
  <2>4. X = A /\ Y = B
    OBVIOUS
  <2> HIDE DEF g, X, Y, A, B, bound, D, K, dl, Prov
  <2>5. K \ (bound \cup D) = {} /\ checkBoundClaims(bound, n)
    BY <2>2, <2>3
  <2>6. \E w \in findMatchingVolumes(Keep(g.delayed, Y), n) :
          vols = [bind |-> w.bind, prov |-> Prov(Keep(g.delayed, X) \o w.rest)]
    BY <2>2
  <2>7. \E w \in findMatchingVolumes(Keep(dl, B), n) :
          vols = [bind |-> w.bind, prov |-> Prov(Keep(dl, A) \o w.rest)]
    BY <2>3, <2>4, <2>6
  <2> QED
    BY <2>5, <2>7
<1>5. /\ dl \in Seq(K)
      /\ \A i \in DOMAIN dl : \E j \in DOMAIN claims : claims[j] \in D /\ dl[i] = claims[j]
      /\ \A j \in DOMAIN claims : claims[j] \in D => \E i \in DOMAIN dl : dl[i] = claims[j]
  <2> HIDE DEF claims, D, K
  <2>1. claims \in Seq(K)
    BY <1>1
  <2> QED
    BY <2>1, KeepFacts, SMTT(30)
<1>6. /\ selected \in Seq(K)
      /\ \A i \in DOMAIN selected : \E j \in DOMAIN dl : dl[j] \in A /\ selected[i] = dl[j]
      /\ \A j \in DOMAIN dl : dl[j] \in A => \E i \in DOMAIN selected : selected[i] = dl[j]
  <2> HIDE DEF dl, A, K
  <2>1. dl \in Seq(K)
    BY <1>5
  <2> QED
    BY <2>1, KeepFacts
<1>7. /\ open \in Seq(K)
      /\ \A i \in DOMAIN open : \E j \in DOMAIN dl : dl[j] \in B /\ open[i] = dl[j]
      /\ \A j \in DOMAIN dl : dl[j] \in B => \E i \in DOMAIN open : open[i] = dl[j]
  <2> HIDE DEF dl, B, K
  <2>1. dl \in Seq(K)
    BY <1>5
  <2> QED
    BY <2>1, KeepFacts
<1> HIDE DEF claims, dl, selected, open
<1>8. \A c \in D : \/ \E i \in DOMAIN selected : selected[i] = c
                   \/ \E i \in DOMAIN open : open[i] = c
  <2>1. ASSUME NEW c \in D PROVE \E j \in DOMAIN dl : dl[j] = c
    <3>1. c \in K
      OBVIOUS
    <3>2. PICK i \in DOMAIN claims : claims[i] = c
      BY <3>1, <1>1
    <3> HIDE DEF D
    <3> QED
      BY <3>2, <2>1, <1>5
  <2>2. \A c \in D : c \in A \/ c \in B
    OBVIOUS
  <2> HIDE DEF D, A, B, K
  <2> QED
    BY <2>1, <2>2, <1>6, <1>7
<1>9. PICK w \in findMatchingVolumes(open, n) :
        vols = [bind |-> w.bind, prov |-> Prov(selected \o w.rest)]
  BY <1>4
<1>10. /\ IsSeq(w.bind) /\ w.rest \in Seq(K)
       /\ \A j \in DOMAIN w.bind : BindingOK(pv, pvc, w.bind[j])
       /\ \A i \in DOMAIN open : \/ \E j \in DOMAIN w.bind : w.bind[j].claim = open[i]
                                 \/ \E j \in DOMAIN w.rest : w.rest[j] = open[i]
  <2> HIDE DEF K
  <2>1. open \in Seq(K)
    BY <1>7
  <2> QED
    BY <2>1, MatchingFacts
<1> DEFINE q == selected \o w.rest
<1> HIDE DEF K, D, bound, A, B
<1>11. /\ q \in Seq(K) /\ Len(q) \in Nat /\ DOMAIN q = 1 .. Len(q)
       /\ \A i \in DOMAIN selected : \E j \in DOMAIN q : q[j] = selected[i]
       /\ \A i \in DOMAIN w.rest : \E j \in DOMAIN q : q[j] = w.rest[i]
  <2>1. selected \in Seq(K) /\ w.rest \in Seq(K)
    BY <1>6, <1>10
  <2>2. /\ Len(selected) \in Nat /\ DOMAIN selected = 1 .. Len(selected)
        /\ Len(w.rest) \in Nat /\ DOMAIN w.rest = 1 .. Len(w.rest)
    BY <2>1
  <2>3. q \in Seq(K) /\ Len(q) = Len(selected) + Len(w.rest)
        /\ \A i \in 1 .. Len(q) : q[i] = IF i <= Len(selected) THEN selected[i]
                                         ELSE w.rest[i - Len(selected)]
    BY <2>1
  <2>4. Len(q) \in Nat /\ DOMAIN q = 1 .. Len(q)
    BY <2>3
  <2> HIDE DEF q
  <2>5. \A i \in DOMAIN selected : i \in DOMAIN q /\ q[i] = selected[i]
    BY <2>2, <2>3, <2>4
  <2>6. \A i \in DOMAIN w.rest : i + Len(selected) \in DOMAIN q /\ q[i + Len(selected)] = w.rest[i]
    BY <2>2, <2>3, <2>4
  <2> QED
    BY <2>3, <2>4, <2>5, <2>6
<1> HIDE DEF q
<1>12. vols.bind = w.bind /\ vols.prov = Prov(q) /\ vols = [bind |-> vols.bind, prov |-> vols.prov]
  BY <1>9 DEF q
<1>13. IsSeq(Prov(q)) /\ DOMAIN Prov(q) = DOMAIN q
  <2>1. Prov(q) = [i \in 1 .. Len(q) |-> Prov(q)[i]]
    BY <1>11
  <2> HIDE DEF Prov
  <2> QED
    BY <2>1, <1>11, FunctionSeq
<1>14. \A i \in DOMAIN q : Prov(q)[i] = [claim |-> q[i], obj |-> GetPVC(q[i])]
  OBVIOUS
<1> HIDE DEF Prov
<1>15. ASSUME NEW i \in DOMAIN q PROVE ProvisionOK(pvc, Prov(q)[i]) /\ Prov(q)[i].claim = q[i]
  <2>1. Prov(q)[i].claim = q[i] /\ Prov(q)[i].obj = GetPVC(q[i])
        /\ Prov(q)[i] = [claim |-> Prov(q)[i].claim, obj |-> Prov(q)[i].obj]
    <3> DEFINE e == [claim |-> q[i], obj |-> GetPVC(q[i])]
    <3>1. Prov(q)[i] = e
      BY <1>14
    <3>2. e.claim = q[i] /\ e.obj = GetPVC(q[i]) /\ e = [claim |-> e.claim, obj |-> e.obj]
      OBVIOUS
    <3> HIDE DEF e
    <3> QED
      BY <3>1, <3>2
  <2>2. q[i] \in K
    BY <1>11
  <2>3. ClaimCopy(pvc, q[i], GetPVC(q[i]))
    BY <2>2, <1>2, CachedCopies
  <2> QED
    BY <2>1, <2>3 DEF ProvisionOK
<1>16. VolsOK(pv, pvc, vols)
  BY <1>10, <1>12, <1>13, <1>15 DEF VolsOK
<1>17. ASSUME NEW c \in D PROVE c \in Chosen(vols)
  <2>1. \/ \E j \in DOMAIN w.bind : w.bind[j].claim = c
        \/ \E j \in DOMAIN q : q[j] = c
    BY <1>8, <1>10, <1>11
  <2>2. \/ \E j \in DOMAIN vols.bind : vols.bind[j].claim = c
        \/ \E j \in DOMAIN vols.prov : vols.prov[j].claim = c
    BY <2>1, <1>12, <1>13, <1>15
  <2> QED
    BY <2>2 DEF Chosen, ClaimsIn
<1>18. ASSUME NEW c \in bound PROVE Settled(pv, pvc, c, n)
  <2>1. c \in K /\ isPVCFullyBound(GetPVC(c))
    BY DEF bound
  <2>2. GetPVC(c).vol \in DOMAIN pvCache /\ n \in GetPV(GetPVC(c).vol).reach
    BY <1>4 DEF checkBoundClaims
  <2>3. c \in DOMAIN pvcCache
    BY <2>1, <1>2
  <2> QED
    BY <2>1, <2>2, <2>3, BoundClaims
<1>19. \A c \in K : c \in bound \/ c \in D
  BY <1>4
<1> QED
  BY <1>16, <1>17, <1>18, <1>19 DEF K

-----------------------------------------------------------------------------
(***************************************************************************)
(* Assuming and reverting volumes.                                         *)
(***************************************************************************)
\* A volume that is assumed to be reserved is still a copy of the API server's.
LEMMA ReservedOK ==
    ASSUME NEW P, NEW C, NEW b, BindingOK(P, C, b)
    PROVE  /\ BindingOK(P, C, Reserved(b))
           /\ Reserved(b).claim = b.claim /\ Reserved(b).pv = b.pv
           /\ Reserved(b).obj.rv = b.obj.rv
           /\ VolumeCopy(P, C, b.pv, Reserved(b).obj)
<1> DEFINE o == b.obj
           o2 == [rv |-> o.rv, claim |-> b.claim, class |-> o.class, size |-> o.size,
                  reach |-> o.reach]
           b2 == [claim |-> b.claim, pv |-> b.pv, obj |-> o2]
<1>1. /\ b = [claim |-> b.claim, pv |-> b.pv, obj |-> o] /\ VolumeCopy(P, C, b.pv, o)
      /\ o.claim \in {"", b.claim} /\ IsVolume(o)
  BY DEF BindingOK, VolumeCopy
<1>2. [o EXCEPT !.claim = b.claim] = o2 /\ o.rv \in Nat
  <2> HIDE DEF o
  <2> DEFINE r == [rv |-> o.rv, claim |-> o.claim, class |-> o.class, size |-> o.size,
                   reach |-> o.reach]
  <2>1. o = r /\ o.rv \in Nat
    BY <1>1 DEF IsVolume
  <2>2. [r EXCEPT !.claim = b.claim] = o2
    OBVIOUS
  <2> QED
    BY <2>1, <2>2
<1>3. Reserved(b) = b2
  <2> DEFINE r == [claim |-> b.claim, pv |-> b.pv, obj |-> o]
  <2>1. b = r
    BY <1>1
  <2>2. [r EXCEPT !.obj = o2] = b2
    OBVIOUS
  <2>3. Reserved(b) = [b EXCEPT !.obj = [b.obj EXCEPT !.claim = b.claim]]
    BY DEF Reserved
  <2> HIDE DEF r, o2, b2
  <2> QED
    BY <1>2, <2>1, <2>2, <2>3
<1>4. /\ IsVolume(o2) /\ o2.rv = o.rv /\ o2.reach = o.reach /\ o2.claim = b.claim
  BY <1>2 DEF IsVolume
<1>5. /\ b2.claim = b.claim /\ b2.pv = b.pv /\ b2.obj = o2
      /\ b2 = [claim |-> b2.claim, pv |-> b2.pv, obj |-> b2.obj]
  OBVIOUS
<1> HIDE DEF o, o2, b2
<1>6. VolumeCopy(P, C, b.pv, o2)
  BY <1>1, <1>4 DEF VolumeCopy
<1>7. BindingOK(P, C, b2)
  BY <1>4, <1>5, <1>6 DEF BindingOK
<1> QED
  BY <1>3, <1>4, <1>5, <1>6, <1>7 DEF o

\* So is a claim that is assumed to have a node.
LEMMA MarkedOK ==
    ASSUME NEW C, NEW c, ProvisionOK(C, c), NEW n
    PROVE  /\ ProvisionOK(C, Marked(c, n)) /\ Marked(c, n).claim = c.claim
           /\ ClaimCopy(C, c.claim, Marked(c, n).obj)
<1> DEFINE o == c.obj
           o2 == [rv |-> o.rv, sel |-> n, vol |-> o.vol, done |-> o.done, class |-> o.class,
                  size |-> o.size, owner |-> o.owner]
           c2 == [claim |-> c.claim, obj |-> o2]
<1>1. /\ c = [claim |-> c.claim, obj |-> o] /\ ClaimCopy(C, c.claim, o) /\ IsClaim(o)
  BY DEF ProvisionOK, ClaimCopy
<1>2. [o EXCEPT !.sel = n] = o2 /\ o.rv \in Nat
  <2> HIDE DEF o
  <2> DEFINE r == [rv |-> o.rv, sel |-> o.sel, vol |-> o.vol, done |-> o.done,
                   class |-> o.class, size |-> o.size, owner |-> o.owner]
  <2>1. o = r /\ o.rv \in Nat
    BY <1>1 DEF IsClaim
  <2>2. [r EXCEPT !.sel = n] = o2
    OBVIOUS
  <2> QED
    BY <2>1, <2>2
<1>3. Marked(c, n) = c2
  <2> DEFINE r == [claim |-> c.claim, obj |-> o]
  <2>1. c = r
    BY <1>1
  <2>2. [r EXCEPT !.obj = o2] = c2
    OBVIOUS
  <2>3. Marked(c, n) = [c EXCEPT !.obj = [c.obj EXCEPT !.sel = n]]
    BY DEF Marked
  <2> HIDE DEF r, o2, c2
  <2> QED
    BY <1>2, <2>1, <2>2, <2>3
<1>4. /\ IsClaim(o2) /\ o2.rv = o.rv /\ o2.vol = o.vol /\ o2.done = o.done
  BY <1>2 DEF IsClaim
<1>5. /\ c2.claim = c.claim /\ c2.obj = o2 /\ c2 = [claim |-> c2.claim, obj |-> c2.obj]
  OBVIOUS
<1> HIDE DEF o, o2, c2
<1>6. ClaimCopy(C, c.claim, o2)
  BY <1>1, <1>4 DEF ClaimCopy, isPVCFullyBound
<1>7. ProvisionOK(C, c2)
  BY <1>5, <1>6 DEF ProvisionOK
<1> QED
  BY <1>3, <1>5, <1>6, <1>7

\* The volumes of a task once they are assumed.
LEMMA AssumedOK ==
    ASSUME NEW P, NEW C, NEW vols, VolsOK(P, C, vols), NEW n
    PROVE  VolsOK(P, C, Assumed(vols, n)) /\ Chosen(Assumed(vols, n)) = Chosen(vols)
<1> DEFINE bind == [i \in DOMAIN vols.bind |-> Reserved(vols.bind[i])]
           prov == [i \in DOMAIN vols.prov |-> Marked(vols.prov[i], n)]
           new == [bind |-> bind, prov |-> prov]
<1>0. Assumed(vols, n) = new
  BY DEF Assumed
<1>1. /\ Len(vols.bind) \in Nat /\ DOMAIN vols.bind = 1 .. Len(vols.bind)
      /\ Len(vols.prov) \in Nat /\ DOMAIN vols.prov = 1 .. Len(vols.prov)
      /\ \A i \in DOMAIN vols.bind : BindingOK(P, C, vols.bind[i])
      /\ \A i \in DOMAIN vols.prov : ProvisionOK(C, vols.prov[i])
  BY SeqIs DEF VolsOK, IsSeq
<1>2. /\ IsSeq(bind) /\ DOMAIN bind = DOMAIN vols.bind
  <2>1. bind = [i \in 1 .. Len(vols.bind) |-> bind[i]]
    BY <1>1
  <2> HIDE DEF bind
  <2> QED
    BY <1>1, <2>1, FunctionSeq
<1>3. /\ IsSeq(prov) /\ DOMAIN prov = DOMAIN vols.prov
  <2>1. prov = [i \in 1 .. Len(vols.prov) |-> prov[i]]
    BY <1>1
  <2> HIDE DEF prov
  <2> QED
    BY <1>1, <2>1, FunctionSeq
<1>4. \A i \in DOMAIN vols.bind : bind[i] = Reserved(vols.bind[i])
  OBVIOUS
<1>5. \A i \in DOMAIN vols.prov : prov[i] = Marked(vols.prov[i], n)
  OBVIOUS
<1>6. new.bind = bind /\ new.prov = prov /\ new = [bind |-> new.bind, prov |-> new.prov]
  OBVIOUS
<1> HIDE DEF bind, prov, new
<1>7. ASSUME NEW i \in DOMAIN bind
      PROVE  BindingOK(P, C, bind[i]) /\ bind[i].claim = vols.bind[i].claim
  <2>1. bind[i] = Reserved(vols.bind[i]) /\ BindingOK(P, C, vols.bind[i])
    BY <1>1, <1>2, <1>4
  <2> QED
    BY <2>1, ReservedOK
<1>8. \A i \in DOMAIN prov : ProvisionOK(C, prov[i]) /\ prov[i].claim = vols.prov[i].claim
  BY <1>1, <1>3, <1>5, MarkedOK
<1>9. VolsOK(P, C, new)
  BY <1>2, <1>3, <1>6, <1>7, <1>8 DEF VolsOK
<1>10. {bind[i].claim : i \in DOMAIN bind} = {vols.bind[i].claim : i \in DOMAIN vols.bind}
  BY <1>2, <1>7
<1>11. {prov[i].claim : i \in DOMAIN prov} = {vols.prov[i].claim : i \in DOMAIN vols.prov}
  BY <1>3, <1>8
<1>12. Chosen(new) = Chosen(vols)
  BY <1>6, <1>10, <1>11 DEF Chosen, ClaimsIn
<1> QED
  BY <1>0, <1>9, <1>12

\* AssumePodVolumes, whether it fails or not, leaves copies in the caches.
LEMMA AssumePodVolumesOK ==
    ASSUME VolumesCached(pv, pvc, pvCache), ClaimsCached(pvc, pvcCache),
           NEW vols, VolsOK(pv, pvc, vols), NEW n, AssumePodVolumes(vols, n)
    PROVE  VolumesCached(pv, pvc, pvCache') /\ ClaimsCached(pvc, pvcCache')
<1>1. CASE PVFailures(vols) # {}
  BY <1>1, RestoreVolumes DEF AssumePodVolumes
<1>2. CASE PVFailures(vols) = {} /\ PVCFailures(vols) # {}
  BY <1>2, RestoreVolumes, RestoreClaims DEF AssumePodVolumes
<1>3. CASE PVFailures(vols) = {} /\ PVCFailures(vols) = {}
  <2> DEFINE dirty == Dirty(vols.bind)
             W == {b.pv : b \in dirty}
             one(v) == CHOOSE b \in dirty : b.pv = v
             objs == [v \in W |-> Reserved(one(v)).obj]
             K == ClaimsIn(vols.prov)
             pick(c) == CHOOSE x \in Range(vols.prov) : x.claim = c
             marks == [c \in K |-> Marked(pick(c), n).obj]
  <2>1. pvCache' = Assume(pvCache, objs) /\ pvcCache' = Assume(pvcCache, marks)
    BY <1>3 DEF AssumePodVolumes
  <2>2. ASSUME NEW v \in W
        PROVE  /\ VolumeCopy(pv, pvc, v, objs[v])
               /\ v \in DOMAIN pvCache => pvCache[v].latest.rv <= objs[v].rv
    <3> DEFINE b == one(v)
    <3>1. b \in dirty /\ b.pv = v
      OBVIOUS
    <3>2. objs[v] = Reserved(b).obj
      OBVIOUS
    <3> HIDE DEF b, objs, W
    <3>3. PICK i \in DOMAIN vols.bind : b = vols.bind[i]
      BY <3>1 DEF Dirty, Range
    <3>4. BindingOK(pv, pvc, b)
      BY <3>3 DEF VolsOK
    <3>5. VolumeCopy(pv, pvc, v, objs[v]) /\ objs[v].rv = b.obj.rv
      BY <3>1, <3>2, <3>4, ReservedOK
    <3>6. ~AssumeFails(pvCache, v, b.obj)
      BY <1>3, <3>1, <3>3 DEF PVFailures
    <3>7. v \in DOMAIN pvCache => pvCache[v].latest.rv \in Nat /\ b.obj.rv \in Nat
      BY <3>4 DEF VolumesCached, VolumeCopy, IsVolume, BindingOK
    <3>8. ASSUME v \in DOMAIN pvCache PROVE pvCache[v].latest.rv <= b.obj.rv
      <4>1. ~(b.obj.rv < pvCache[v].latest.rv)
        BY <3>6, <3>8 DEF AssumeFails
      <4> QED
        BY <4>1, <3>7, <3>8
    <3> QED
      BY <3>5, <3>8
  <2>3. ASSUME NEW c \in K PROVE ClaimCopy(pvc, c, marks[c])
    <3>1. \E x \in Range(vols.prov) : x.claim = c
      BY DEF ClaimsIn, Range
    <3> DEFINE x == pick(c)
    <3>2. x \in Range(vols.prov) /\ x.claim = c
      BY <3>1
    <3>3. marks[c] = Marked(x, n).obj
      OBVIOUS
    <3> HIDE DEF x, marks
    <3>4. ProvisionOK(pvc, x)
      BY <3>2 DEF VolsOK, Range
    <3> QED
      BY <3>2, <3>3, <3>4, MarkedOK
  <2>4. DOMAIN objs = W /\ DOMAIN marks = K
    OBVIOUS
  <2> HIDE DEF objs, marks, W, K
  <2>5. VolumesCached(pv, pvc, Assume(pvCache, objs))
    BY <2>2, <2>4, AssumeVolumes
  <2>6. ClaimsCached(pvc, Assume(pvcCache, marks))
    BY <2>3, <2>4, AssumeClaims
  <2> QED
    BY <2>1, <2>5, <2>6
<1> QED
  BY <1>1, <1>2, <1>3

-----------------------------------------------------------------------------
(***************************************************************************)
(* One task changes, the others stay.                                      *)
(***************************************************************************)
Elsewhere(T, T2, p) ==
    /\ T2 = [q \in DOMAIN T2 |-> T2[q]]
    /\ DOMAIN T2 \ {p} = DOMAIN T \ {p}
    /\ \A q \in DOMAIN T \ {p} : T2[q] = T[q]
On(s, p) == \E i \in DOMAIN s : s[i] = p

\* The three ways a task changes.
LEMMA ElseWithout ==
    ASSUME NEW T, NEW p
    PROVE  Elsewhere(T, Without(T, p), p) /\ DOMAIN Without(T, p) = DOMAIN T \ {p}
  BY DEF Elsewhere, Without, Restrict

\* A task is put there.
LEMMA ElsePut ==
    ASSUME NEW T, NEW p, NEW r
    PROVE  /\ Elsewhere(T, Put(T, p, r), p) /\ DOMAIN Put(T, p, r) = DOMAIN T \cup {p}
           /\ Put(T, p, r)[p] = r
  BY DEF Elsewhere, Put

\* A task that is there changes.
LEMMA ElseExcept ==
    ASSUME NEW T, NEW p, NEW r
    PROVE  /\ Elsewhere(T, [T EXCEPT ![p] = r], p) /\ DOMAIN [T EXCEPT ![p] = r] = DOMAIN T
           /\ p \in DOMAIN T => [T EXCEPT ![p] = r][p] = r
  BY DEF Elsewhere

Fit(T2, ops, queue, p) ==
    /\ On(ops, p) => p \in DOMAIN T2 /\ T2[p].st = "allocated"
    /\ On(queue, p) => p \in DOMAIN T2 /\ T2[p].st \in {"queued", "writing"}

\* The queues stay right if the task that changes still fits.
LEMMA QueuesElse ==
    ASSUME NEW T, NEW ops, NEW last, NEW queue, QueuesOK(T, ops, last, queue),
           NEW T2, NEW p, Elsewhere(T, T2, p), Fit(T2, ops, queue, p)
    PROVE  QueuesOK(T2, ops, last, queue)
<1>1. ASSUME NEW i \in DOMAIN ops PROVE ops[i] \in DOMAIN T2 /\ T2[ops[i]].st = "allocated"
  <2>1. ops[i] \in DOMAIN T /\ T[ops[i]].st = "allocated"
    BY DEF QueuesOK
  <2>2. CASE ops[i] = p
    BY <2>2 DEF Fit, On
  <2>3. CASE ops[i] # p
    BY <2>1, <2>3 DEF Elsewhere
  <2> QED
    BY <2>2, <2>3
<1>2. ASSUME NEW i \in DOMAIN queue
      PROVE  queue[i] \in DOMAIN T2 /\ T2[queue[i]].st \in {"queued", "writing"}
  <2>1. queue[i] \in DOMAIN T /\ T[queue[i]].st \in {"queued", "writing"}
    BY DEF QueuesOK
  <2>2. CASE queue[i] = p
    BY <2>2 DEF Fit, On
  <2>3. CASE queue[i] # p
    BY <2>1, <2>3 DEF Elsewhere
  <2> QED
    BY <2>2, <2>3
<1>3. T2 = [q \in DOMAIN T2 |-> T2[q]]
  BY DEF Elsewhere
<1> QED
  BY <1>1, <1>2, <1>3, Zenon DEF QueuesOK

\* Where a task is, by its state.
LEMMA QueuesWhere ==
    ASSUME NEW T, NEW ops, NEW last, NEW queue, QueuesOK(T, ops, last, queue), NEW p
    PROVE  /\ On(ops, p) => p \in DOMAIN T /\ T[p].st = "allocated" /\ ~On(queue, p)
           /\ On(queue, p) => p \in DOMAIN T /\ T[p].st \in {"queued", "writing"} /\ ~On(ops, p)
<1>1. On(ops, p) => p \in DOMAIN T /\ T[p].st = "allocated"
  BY DEF QueuesOK, On
<1>2. On(queue, p) => p \in DOMAIN T /\ T[p].st \in {"queued", "writing"}
  BY DEF QueuesOK, On
<1> QED
  BY <1>1, <1>2

\* The tasks stay right if the one that changes is.
LEMMA TasksElse ==
    ASSUME NEW P, NEW C, NEW lost, NEW T, TasksOK(P, C, lost, T),
           NEW lost2, lost \subseteq lost2, ObjectsOK(P, C),
           NEW T2, NEW p, Elsewhere(T, T2, p), p \in DOMAIN T2 => TaskOK(P, C, lost2, p, T2[p])
    PROVE  TasksOK(P, C, lost2, T2)
<1>0. Kept(P, C, P, C)
  BY SameKept
<1>1. ASSUME NEW q \in DOMAIN T2 PROVE TaskOK(P, C, lost2, q, T2[q])
  <2>1. CASE q = p
    BY <2>1
  <2>2. CASE q # p
    <3>1. q \in DOMAIN T /\ T2[q] = T[q]
      BY <2>2 DEF Elsewhere
    <3>2. TaskOK(P, C, lost, q, T[q])
      BY <3>1 DEF TasksOK
    <3> QED
      BY <1>0, <3>1, <3>2, TaskKept
  <2> QED
    BY <2>1, <2>2
<1> QED
  BY <1>1 DEF TasksOK

\* So do the nodes.
LEMMA InstanceElse ==
    ASSUME NEW o, NEW T, InstanceOK(o, T), NEW T2, NEW p, Elsewhere(T, T2, p),
           p \in DOMAIN T2 => T2[p].node \in o.nodes
    PROVE  InstanceOK(o, T2)
  BY DEF InstanceOK, Elsewhere

LastAfter(ops, last, last2) == last2 = "" \/ (last2 = last /\ Len(ops) # 1)
NoneLast(last) == last = ""
LastOf(p, last) == last \in {"", p}
Allocated(T, p) == p \in DOMAIN T /\ T[p].st = "allocated"

\* The first task the session has allocated is committed or reverted.
LEMMA OpsTail ==
    ASSUME NEW T, NEW ops, NEW last, NEW queue, QueuesOK(T, ops, last, queue), ops # <<>>,
           NEW last2, LastAfter(ops, last, last2)
    PROVE  /\ QueuesOK(T, Tail(ops), last2, queue)
           /\ On(ops, Head(ops)) /\ ~On(Tail(ops), Head(ops))
<1> DEFINE s == Tail(ops)
<1>1. IsSeq(ops)
  BY DEF QueuesOK
<1>2. /\ IsSeq(s) /\ Len(ops) \in Nat \ {0} /\ DOMAIN ops = 1 .. Len(ops)
      /\ Len(s) = Len(ops) - 1 /\ DOMAIN s = 1 .. Len(ops) - 1
      /\ \A i \in 1 .. Len(ops) - 1 : s[i] = ops[i + 1]
      /\ Head(ops) = ops[1]
  BY <1>1, TailIs
<1> HIDE DEF s
<1>3. \A i \in DOMAIN s : i + 1 \in DOMAIN ops /\ s[i] = ops[i + 1] /\ i + 1 # 1
  BY <1>2
<1>4. \A i \in DOMAIN ops : ops[i] \in DOMAIN T /\ T[ops[i]].st = "allocated"
  BY DEF QueuesOK
<1>5. \A i, j \in DOMAIN ops : ops[i] = ops[j] => i = j
  BY DEF QueuesOK
<1>6. \A i \in DOMAIN s : s[i] \in DOMAIN T /\ T[s[i]].st = "allocated"
  BY <1>3, <1>4
<1>7. \A i, j \in DOMAIN s : s[i] = s[j] => i = j
  BY <1>2, <1>3, <1>5
<1>8. 1 \in DOMAIN ops
  BY <1>2
<1>9. On(ops, Head(ops)) /\ ~On(s, Head(ops))
  BY <1>2, <1>3, <1>5, <1>8 DEF On
<1>10. ASSUME last2 # "" PROVE s # <<>> /\ last2 = s[Len(s)]
  <2>1. last2 = last /\ Len(ops) # 1 /\ last = ops[Len(ops)]
    BY <1>10 DEF QueuesOK, LastAfter
  <2>2. Len(s) \in DOMAIN s /\ Len(s) + 1 = Len(ops)
    BY <2>1, <1>2
  <2>3. s[Len(s)] = ops[Len(ops)]
    BY <2>2, <1>3
  <2>4. s # <<>>
    BY <2>2
  <2> QED
    BY <2>1, <2>3, <2>4
<1>11. QueuesOK(T, s, last2, queue)
  BY <1>2, <1>6, <1>7, <1>10, Zenon DEF QueuesOK
<1> QED
  BY <1>9, <1>11 DEF s

\* The last one is taken back.
LEMMA OpsFront ==
    ASSUME NEW T, NEW ops, NEW last, NEW queue, QueuesOK(T, ops, last, queue), ops # <<>>,
           NoneLast(last)
    PROVE  /\ QueuesOK(T, Front(ops), last, queue)
           /\ On(ops, Last(ops)) /\ ~On(Front(ops), Last(ops))
<1> DEFINE s == Front(ops)
<1>1. IsSeq(ops)
  BY DEF QueuesOK
<1>2. /\ IsSeq(s) /\ Len(ops) \in Nat \ {0} /\ DOMAIN ops = 1 .. Len(ops)
      /\ DOMAIN s = 1 .. Len(ops) - 1
      /\ \A i \in 1 .. Len(ops) - 1 : s[i] = ops[i]
      /\ Last(ops) = ops[Len(ops)]
  BY <1>1, FrontIs
<1> HIDE DEF s
<1>3. \A i \in DOMAIN s : i \in DOMAIN ops /\ s[i] = ops[i] /\ i # Len(ops)
  BY <1>2
<1>4. \A i \in DOMAIN ops : ops[i] \in DOMAIN T /\ T[ops[i]].st = "allocated"
  BY DEF QueuesOK
<1>5. \A i, j \in DOMAIN ops : ops[i] = ops[j] => i = j
  BY DEF QueuesOK
<1>6. \A i \in DOMAIN s : s[i] \in DOMAIN T /\ T[s[i]].st = "allocated"
  BY <1>3, <1>4
<1>7. \A i, j \in DOMAIN s : s[i] = s[j] => i = j
  BY <1>3, <1>5
<1>8. Len(ops) \in DOMAIN ops
  BY <1>2
<1>9. On(ops, Last(ops)) /\ ~On(s, Last(ops))
  BY <1>2, <1>3, <1>5, <1>8 DEF On
<1>10. ~(last # "")
  BY DEF NoneLast
<1>11. QueuesOK(T, s, last, queue)
  BY <1>2, <1>6, <1>7, <1>10, Zenon DEF QueuesOK
<1> QED
  BY <1>9, <1>11 DEF s

\* One more is allocated.
LEMMA OpsAppend ==
    ASSUME NEW T, NEW ops, NEW last, NEW queue, QueuesOK(T, ops, last, queue),
           NEW p, Allocated(T, p), ~On(ops, p),
           NEW last2, LastOf(p, last2)
    PROVE  QueuesOK(T, Append(ops, p), last2, queue)
<1> DEFINE s == Append(ops, p)
<1>1. IsSeq(ops)
  BY DEF QueuesOK
<1>2. /\ IsSeq(s) /\ Len(ops) \in Nat /\ DOMAIN ops = 1 .. Len(ops)
      /\ s # <<>> /\ Len(s) = Len(ops) + 1 /\ DOMAIN s = 1 .. Len(ops) + 1
      /\ s[Len(ops) + 1] = p
      /\ \A i \in 1 .. Len(ops) : s[i] = ops[i]
  BY <1>1, AppendIs
<1> HIDE DEF s
<1>3. \A i \in DOMAIN s : (i \in DOMAIN ops /\ s[i] = ops[i]) \/ (i = Len(s) /\ s[i] = p)
  BY <1>2
<1>4. \A i \in DOMAIN ops : ops[i] \in DOMAIN T /\ T[ops[i]].st = "allocated" /\ ops[i] # p
  BY DEF QueuesOK, On
<1>5. \A i, j \in DOMAIN ops : ops[i] = ops[j] => i = j
  BY DEF QueuesOK
<1>6. \A i \in DOMAIN s : s[i] \in DOMAIN T /\ T[s[i]].st = "allocated"
  BY <1>3, <1>4 DEF Allocated
<1>7. \A i, j \in DOMAIN s : s[i] = s[j] => i = j
  BY <1>3, <1>4, <1>5
<1>8. s # <<>> /\ p = s[Len(s)]
  BY <1>2
<1>9. last2 # "" => s # <<>> /\ last2 = s[Len(s)]
  BY <1>8 DEF LastOf
<1>11. QueuesOK(T, s, last2, queue)
  BY <1>2, <1>6, <1>7, <1>9, Zenon DEF QueuesOK
<1> QED
  BY <1>11 DEF s

\* The binder has done with its first task, and is given one more.
LEMMA QueueTail ==
    ASSUME NEW T, NEW ops, NEW last, NEW queue, QueuesOK(T, ops, last, queue), queue # <<>>
    PROVE  /\ QueuesOK(T, ops, last, Tail(queue))
           /\ On(queue, Head(queue)) /\ ~On(Tail(queue), Head(queue))
<1> DEFINE s == Tail(queue)
<1>1. IsSeq(queue)
  BY DEF QueuesOK
<1>2. /\ IsSeq(s) /\ Len(queue) \in Nat \ {0} /\ DOMAIN queue = 1 .. Len(queue)
      /\ DOMAIN s = 1 .. Len(queue) - 1
      /\ \A i \in 1 .. Len(queue) - 1 : s[i] = queue[i + 1]
      /\ Head(queue) = queue[1]
  BY <1>1, TailIs
<1> HIDE DEF s
<1>3. \A i \in DOMAIN s : i + 1 \in DOMAIN queue /\ s[i] = queue[i + 1] /\ i + 1 # 1
  BY <1>2
<1>4. \A i \in DOMAIN queue : queue[i] \in DOMAIN T /\ T[queue[i]].st \in {"queued", "writing"}
  BY DEF QueuesOK
<1>5. \A i, j \in DOMAIN queue : queue[i] = queue[j] => i = j
  BY DEF QueuesOK
<1>6. \A i \in DOMAIN s : s[i] \in DOMAIN T /\ T[s[i]].st \in {"queued", "writing"}
  BY <1>3, <1>4
<1>7. \A i, j \in DOMAIN s : s[i] = s[j] => i = j
  BY <1>2, <1>3, <1>5
<1>8. 1 \in DOMAIN queue
  BY <1>2
<1>9. On(queue, Head(queue)) /\ ~On(s, Head(queue))
  BY <1>2, <1>3, <1>5, <1>8 DEF On
<1>11. QueuesOK(T, ops, last, s)
  BY <1>2, <1>6, <1>7, Zenon DEF QueuesOK
<1> QED
  BY <1>9, <1>11 DEF s

\* The binder is given one more.
LEMMA QueueAppend ==
    ASSUME NEW T, NEW ops, NEW last, NEW queue, QueuesOK(T, ops, last, queue),
           NEW p, p \in DOMAIN T, T[p].st \in {"queued", "writing"}, ~On(queue, p)
    PROVE  QueuesOK(T, ops, last, Append(queue, p))
<1> DEFINE s == Append(queue, p)
<1>1. IsSeq(queue)
  BY DEF QueuesOK
<1>2. /\ IsSeq(s) /\ Len(queue) \in Nat /\ DOMAIN queue = 1 .. Len(queue)
      /\ Len(s) = Len(queue) + 1 /\ DOMAIN s = 1 .. Len(queue) + 1
      /\ s[Len(queue) + 1] = p
      /\ \A i \in 1 .. Len(queue) : s[i] = queue[i]
  BY <1>1, AppendIs
<1> HIDE DEF s
<1>3. \A i \in DOMAIN s : (i \in DOMAIN queue /\ s[i] = queue[i]) \/ (i = Len(s) /\ s[i] = p)
  BY <1>2
<1>4. \A i \in DOMAIN queue : /\ queue[i] \in DOMAIN T /\ T[queue[i]].st \in {"queued", "writing"}
                              /\ queue[i] # p
  BY DEF QueuesOK, On
<1>5. \A i, j \in DOMAIN queue : queue[i] = queue[j] => i = j
  BY DEF QueuesOK
<1>6. \A i \in DOMAIN s : s[i] \in DOMAIN T /\ T[s[i]].st \in {"queued", "writing"}
  BY <1>3, <1>4
<1>7. \A i, j \in DOMAIN s : s[i] = s[j] => i = j
  BY <1>3, <1>4, <1>5
<1>11. QueuesOK(T, ops, last, s)
  BY <1>2, <1>6, <1>7, Zenon DEF QueuesOK
<1> QED
  BY <1>11 DEF s

-----------------------------------------------------------------------------
(***************************************************************************)
(* The API server's objects move on: what is written, and what the         *)
(* informers are told.                                                     *)
(***************************************************************************)
\* The informers are told of what is there now, or that it is gone.
LEMMA FeedMoves ==
    ASSUME NEW P, NEW C, NEW feed, FeedOK(P, C, feed),
           NEW P2, NEW C2, Kept(P, C, P2, C2), ObjectsOK(P2, C2)
    PROVE  /\ \A v \in DOMAIN P2 :
                FeedOK(P2, C2, [feed EXCEPT !.pv = Append(@, [name |-> v, obj |-> P2[v]])])
           /\ \A v : FeedOK(P2, C2, [feed EXCEPT !.pv = Append(@, [name |-> v, obj |-> Gone])])
           /\ \A c \in DOMAIN C2 :
                FeedOK(P2, C2, [feed EXCEPT !.pvc = Append(@, [name |-> c, obj |-> C2[c]])])
           /\ \A v \in DOMAIN P2, c \in DOMAIN C2 :
                FeedOK(P2, C2, [pv  |-> Append(feed.pv, [name |-> v, obj |-> P2[v]]),
                                pvc |-> Append(feed.pvc, [name |-> c, obj |-> C2[c]])])
<1>1. /\ feed = [pv |-> feed.pv, pvc |-> feed.pvc]
      /\ VolumeEvents(P2, C2, feed.pv) /\ ClaimEvents(C2, feed.pvc)
  BY FeedKept, FeedIs
<1>2. \A s : /\ [feed EXCEPT !.pv = s] = [pv |-> s, pvc |-> feed.pvc]
             /\ [feed EXCEPT !.pvc = s] = [pv |-> feed.pv, pvc |-> s]
  BY <1>1, FeedFields
<1> DEFINE V(v) == Append(feed.pv, [name |-> v, obj |-> P2[v]])
           G(v) == Append(feed.pv, [name |-> v, obj |-> Gone])
           K(c) == Append(feed.pvc, [name |-> c, obj |-> C2[c]])
<1>3. ASSUME NEW v \in DOMAIN P2 PROVE VolumeEvents(P2, C2, V(v))
  <2>1. VolumeCopy(P2, C2, v, P2[v])
    BY FreshCopies
  <2> QED
    BY <1>1, <2>1, EventAdded
<1>4. ASSUME NEW v PROVE VolumeEvents(P2, C2, G(v))
  BY <1>1, EventAdded
<1>5. ASSUME NEW c \in DOMAIN C2 PROVE ClaimEvents(C2, K(c))
  <2>1. ClaimCopy(C2, c, C2[c])
    BY FreshCopies
  <2> QED
    BY <1>1, <2>1, EventAdded
<1>6. /\ \A v \in DOMAIN P2 : FeedOK(P2, C2, [pv |-> V(v), pvc |-> feed.pvc])
      /\ \A v : FeedOK(P2, C2, [pv |-> G(v), pvc |-> feed.pvc])
      /\ \A c \in DOMAIN C2 : FeedOK(P2, C2, [pv |-> feed.pv, pvc |-> K(c)])
      /\ \A v \in DOMAIN P2, c \in DOMAIN C2 : FeedOK(P2, C2, [pv |-> V(v), pvc |-> K(c)])
  <2> HIDE DEF V, G, K
  <2> QED
    BY <1>1, <1>3, <1>4, <1>5, FeedIs
<1>7. ASSUME NEW v \in DOMAIN P2
      PROVE  FeedOK(P2, C2, [feed EXCEPT !.pv = Append(@, [name |-> v, obj |-> P2[v]])])
  <2> DEFINE e == [name |-> v, obj |-> P2[v]]
  <2>1. [feed EXCEPT !.pv = Append(@, e)] = [pv |-> Append(feed.pv, e), pvc |-> feed.pvc]
    <3> HIDE DEF e
    <3> QED
      BY <1>2
  <2> QED
    BY <1>6, <2>1
<1>8. ASSUME NEW v
      PROVE  FeedOK(P2, C2, [feed EXCEPT !.pv = Append(@, [name |-> v, obj |-> Gone])])
  <2> DEFINE e == [name |-> v, obj |-> Gone]
  <2>1. [feed EXCEPT !.pv = Append(@, e)] = [pv |-> Append(feed.pv, e), pvc |-> feed.pvc]
    <3> HIDE DEF e
    <3> QED
      BY <1>2
  <2> QED
    BY <1>6, <2>1
<1>9. ASSUME NEW c \in DOMAIN C2
      PROVE  FeedOK(P2, C2, [feed EXCEPT !.pvc = Append(@, [name |-> c, obj |-> C2[c]])])
  <2> DEFINE e == [name |-> c, obj |-> C2[c]]
  <2>1. [feed EXCEPT !.pvc = Append(@, e)] = [pv |-> feed.pv, pvc |-> Append(feed.pvc, e)]
    <3> HIDE DEF e
    <3> QED
      BY <1>2
  <2> QED
    BY <1>6, <2>1
<1> QED
  BY <1>6, <1>7, <1>8, <1>9, Zenon

\* A volume for another claim, a claim that is bound or has no node.
LEMMA VolumeFields ==
    ASSUME NEW o, IsVolume(o), NEW c
    PROVE  /\ IsVolume([o EXCEPT !.claim = c])
           /\ [o EXCEPT !.claim = c].rv = o.rv /\ [o EXCEPT !.claim = c].reach = o.reach
           /\ [o EXCEPT !.claim = c].claim = c
           /\ [o EXCEPT !.claim = c, !.rv = @ + 1] = [[o EXCEPT !.claim = c] EXCEPT !.rv = @ + 1]
<1> DEFINE r == [rv |-> o.rv, claim |-> o.claim, class |-> o.class, size |-> o.size, reach |-> o.reach]
           r2 == [rv |-> o.rv, claim |-> c, class |-> o.class, size |-> o.size,
                  reach |-> o.reach]
<1>1. o = r /\ o.rv \in Nat
  BY DEF IsVolume
<1>2. [r EXCEPT !.claim = c] = r2
  OBVIOUS
<1>3. [o EXCEPT !.claim = c] = r2
  BY <1>1, <1>2
<1>5. [o EXCEPT !.claim = c, !.rv = @ + 1] = [[o EXCEPT !.claim = c] EXCEPT !.rv = @ + 1]
  BY Zenon
<1>4. IsVolume(r2) /\ r2.rv = o.rv /\ r2.reach = o.reach /\ r2.claim = c
  BY <1>1 DEF IsVolume
<1> QED
  BY <1>3, <1>4, <1>5

\* A claim whose selected node changes.
LEMMA ClaimFields ==
    ASSUME NEW o, IsClaim(o), NEW n
    PROVE  /\ IsClaim([o EXCEPT !.sel = n])
           /\ [o EXCEPT !.sel = n].rv = o.rv /\ [o EXCEPT !.sel = n].vol = o.vol
           /\ [o EXCEPT !.sel = n].done = o.done
<1> DEFINE r == [rv |-> o.rv, sel |-> o.sel, vol |-> o.vol, done |-> o.done, class |-> o.class,
                 size |-> o.size, owner |-> o.owner]
           r1 == [rv |-> o.rv, sel |-> n, vol |-> o.vol, done |-> o.done,
                  class |-> o.class, size |-> o.size, owner |-> o.owner]
<1>1. o = r /\ o.rv \in Nat
  BY DEF IsClaim
<1>2. [r EXCEPT !.sel = n] = r1
  OBVIOUS
<1>3. [o EXCEPT !.sel = n] = r1
  BY <1>1, <1>2
<1>4. IsClaim(r1) /\ r1.rv = o.rv /\ r1.vol = o.vol /\ r1.done = o.done
  BY <1>1 DEF IsClaim
<1> QED
  BY <1>3, <1>4
BoundTo(o, v, done) == [o EXCEPT !.vol = v, !.done = done, !.rv = @ + 1]
\* A claim that is bound.
LEMMA ClaimBound ==
    ASSUME NEW o, IsClaim(o), NEW v, NEW done
    PROVE  /\ IsClaim(BoundTo(o, v, done)) /\ BoundTo(o, v, done).rv = o.rv + 1
           /\ BoundTo(o, v, done).vol = v /\ BoundTo(o, v, done).done = done
<1> DEFINE r == [rv |-> o.rv, sel |-> o.sel, vol |-> o.vol, done |-> o.done, class |-> o.class,
                 size |-> o.size, owner |-> o.owner]
           r2 == [rv |-> o.rv + 1, sel |-> o.sel, vol |-> v, done |-> done,
                  class |-> o.class, size |-> o.size, owner |-> o.owner]
           r3 == [rv |-> o.rv, sel |-> o.sel, vol |-> v, done |-> done,
                  class |-> o.class, size |-> o.size, owner |-> o.owner]
<1>1. o = r /\ o.rv \in Nat
  BY DEF IsClaim
<1>2. [[r EXCEPT !.vol = v] EXCEPT !.done = done] = r3
  <2> DEFINE r4 == [rv |-> o.rv, sel |-> o.sel, vol |-> v, done |-> o.done,
                    class |-> o.class, size |-> o.size, owner |-> o.owner]
  <2>1. [r EXCEPT !.vol = v] = r4
    OBVIOUS
  <2>2. [r4 EXCEPT !.done = done] = r3
    OBVIOUS
  <2> HIDE DEF r, r3, r4
  <2> QED
    BY <2>1, <2>2
<1>3. [r3 EXCEPT !.rv = o.rv + 1] = r2 /\ r3.rv = o.rv
  OBVIOUS
<1>4. IsClaim(r2) /\ r2.rv = o.rv + 1 /\ r2.vol = v /\ r2.done = done
  BY <1>1 DEF IsClaim
<1> HIDE DEF r, r2, r3
<1>5. [r EXCEPT !.vol = v, !.done = done, !.rv = @ + 1]
        = [[[r EXCEPT !.vol = v] EXCEPT !.done = done] EXCEPT !.rv = @ + 1]
  BY Zenon
<1>6. [r3 EXCEPT !.rv = @ + 1] = [r3 EXCEPT !.rv = o.rv + 1]
  BY <1>3
<1>7. BoundTo(o, v, done) = r2
  BY <1>1, <1>2, <1>3, <1>5, <1>6 DEF BoundTo
<1> QED
  BY <1>4, <1>7

Moved == /\ ObjectsOK(pv, pvc)' /\ Kept(pv, pvc, pv', pvc') /\ FeedOK(pv, pvc, volFeed)'

\* A volume or a claim is written.
LEMMA PutPVMoves ==
    ASSUME ObjectsOK(pv, pvc), FeedOK(pv, pvc, volFeed), NEW v, NEW o, PutPV(v, o),
           \/ Replaces(pv, pvc, v, [o EXCEPT !.rv = @ + 1])
           \/ Makes(pv, pvc, v, [o EXCEPT !.rv = @ + 1])
    PROVE  Moved /\ pv'[v] = [o EXCEPT !.rv = @ + 1] /\ v \in DOMAIN pv'
<1> DEFINE o2 == [o EXCEPT !.rv = @ + 1]
<1>1. /\ pv' = Put(pv, v, o2) /\ pvc' = pvc
      /\ volFeed' = [volFeed EXCEPT !.pv = Append(@, [name |-> v, obj |-> pv'[v]])]
  BY DEF PutPV
<1> HIDE DEF o2
<1>2. ObjectsOK(pv', pvc') /\ Kept(pv, pvc, pv', pvc')
  <2>1. CASE Replaces(pv, pvc, v, o2)
    BY <1>1, <2>1, WriteVolume
  <2>2. CASE Makes(pv, pvc, v, o2)
    BY <1>1, <2>2, MakeVolume
  <2> QED
    BY <2>1, <2>2 DEF o2
<1>3. v \in DOMAIN pv' /\ pv'[v] = o2
  BY <1>1 DEF Put
<1>4. FeedOK(pv', pvc', volFeed')
  BY <1>1, <1>2, <1>3, FeedMoves
<1> QED
  BY <1>2, <1>3, <1>4 DEF Moved, o2

\* A claim is written.
LEMMA PutPVCMoves ==
    ASSUME ObjectsOK(pv, pvc), FeedOK(pv, pvc, volFeed), NEW c, NEW o, PutPVC(c, o),
           ReplacesClaim(pvc, c, [o EXCEPT !.rv = @ + 1])
    PROVE  Moved /\ pvc'[c] = [o EXCEPT !.rv = @ + 1] /\ c \in DOMAIN pvc'
<1> DEFINE o2 == [o EXCEPT !.rv = @ + 1]
<1>1. /\ pvc' = Put(pvc, c, o2) /\ pv' = pv
      /\ volFeed' = [volFeed EXCEPT !.pvc = Append(@, [name |-> c, obj |-> pvc'[c]])]
  BY DEF PutPVC
<1> HIDE DEF o2
<1>2. ObjectsOK(pv', pvc') /\ Kept(pv, pvc, pv', pvc')
  BY <1>1, WriteClaim DEF o2
<1>3. c \in DOMAIN pvc' /\ pvc'[c] = o2
  BY <1>1 DEF Put
<1>4. FeedOK(pv', pvc', volFeed')
  BY <1>1, <1>2, <1>3, FeedMoves
<1> QED
  BY <1>2, <1>3, <1>4 DEF Moved, o2

\* The PV controller and the provisioners.
LEMMA PVControllerBindMoves ==
    ASSUME ObjectsOK(pv, pvc), FeedOK(pv, pvc, volFeed),
           NEW c \in DOMAIN pvc, NEW v \in DOMAIN pv, PVControllerBind(c, v)
    PROVE  Moved
<1> DEFINE o == [pv[v] EXCEPT !.claim = c, !.rv = @ + 1]
           d == [pvc[c] EXCEPT !.vol = v, !.done = TRUE, !.rv = @ + 1]
<1>1. /\ pv' = Put(pv, v, o) /\ pvc' = Put(pvc, c, d)
      /\ volFeed' = [pv  |-> Append(volFeed.pv, [name |-> v, obj |-> pv'[v]]),
                     pvc |-> Append(volFeed.pvc, [name |-> c, obj |-> pvc'[c]])]
      /\ pvc[c].vol = "" /\ pv[v].claim \in {"", c}
  <2>1. pv' = [pv EXCEPT ![v] = o] /\ pvc' = [pvc EXCEPT ![c] = d]
    BY DEF PVControllerBind
  <2>2. pv = [w \in DOMAIN pv |-> pv[w]] /\ pvc = [w \in DOMAIN pvc |-> pvc[w]]
    BY DEF ObjectsOK
  <2> HIDE DEF o, d
  <2>3. [pv EXCEPT ![v] = o] = Put(pv, v, o) /\ [pvc EXCEPT ![c] = d] = Put(pvc, c, d)
    BY <2>2 DEF Put
  <2> QED
    BY <2>1, <2>3 DEF PVControllerBind
<1>2. IsVolume(o) /\ o.rv = pv[v].rv + 1 /\ o.reach = pv[v].reach /\ o.claim = c
  <2>1. IsVolume(pv[v])
    BY DEF ObjectsOK
  <2>2. o = [[pv[v] EXCEPT !.claim = c] EXCEPT !.rv = @ + 1]
    BY <2>1, VolumeFields
  <2> DEFINE u == [pv[v] EXCEPT !.claim = c]
  <2>3. IsVolume(u) /\ u.rv = pv[v].rv /\ u.reach = pv[v].reach /\ u.claim = c
    BY <2>1, VolumeFields
  <2> HIDE DEF u, o
  <2>4. o = [u EXCEPT !.rv = @ + 1]
    BY <2>2 DEF u
  <2> QED
    BY <2>3, <2>4, NextVolume
<1>3. IsClaim(d) /\ d.rv = pvc[c].rv + 1 /\ d.vol = v /\ d.done = TRUE
  <2>1. IsClaim(pvc[c])
    BY DEF ObjectsOK
  <2>2. d = BoundTo(pvc[c], v, TRUE)
    BY DEF BoundTo
  <2> HIDE DEF d
  <2>3. \A x : /\ IsClaim(BoundTo(pvc[c], v, x)) /\ BoundTo(pvc[c], v, x).rv = pvc[c].rv + 1
               /\ BoundTo(pvc[c], v, x).vol = v /\ BoundTo(pvc[c], v, x).done = x
    BY <2>1, ClaimBound
  <2>4. BoundTo(pvc[c], v, TRUE).done = TRUE
    BY <2>3, Zenon
  <2> QED
    BY <2>2, <2>3, <2>4, Zenon
<1> HIDE DEF o, d
<1>4. Binds(pv, pvc, v, c, o, d)
  BY <1>1, <1>2, <1>3 DEF Binds
<1>5. ObjectsOK(pv', pvc') /\ Kept(pv, pvc, pv', pvc')
  BY <1>1, <1>4, BindClaim
<1>6. v \in DOMAIN pv' /\ c \in DOMAIN pvc'
  BY <1>1 DEF Put
<1>7. FeedOK(pv', pvc', volFeed')
  BY <1>1, <1>5, <1>6, FeedMoves
<1> QED
  BY <1>5, <1>7 DEF Moved

\* A volume that is set free is nobody's.
LEMMA PVControllerUnbindMoves ==
    ASSUME ObjectsOK(pv, pvc), FeedOK(pv, pvc, volFeed), NEW v \in DOMAIN pv,
           PVControllerUnbind(v)
    PROVE  Moved
<1> DEFINE o == [pv[v] EXCEPT !.claim = ""]
<1>3. IsVolume(pv[v])
  BY DEF ObjectsOK
<1>4. IsVolume(o) /\ o.rv = pv[v].rv /\ o.reach = pv[v].reach
  BY <1>3, VolumeFields
<1> HIDE DEF o
<1>5. PutPV(v, o)
  BY DEF PVControllerUnbind, o
<1>6. Replaces(pv, pvc, v, [o EXCEPT !.rv = @ + 1])
  <2> DEFINE o2 == [o EXCEPT !.rv = @ + 1]
  <2>1. IsVolume(o2) /\ o2.rv = pv[v].rv + 1 /\ o2.reach = pv[v].reach
    BY <1>4, NextVolume
  <2> HIDE DEF o2
  <2>2. pv[v].claim \in DOMAIN pvc /\ pvc[pv[v].claim].vol \notin {"", v}
    BY DEF PVControllerUnbind
  <2>3. \A c \in DOMAIN pvc : isPVCFullyBound(pvc[c]) /\ pvc[c].vol = v => o2.claim = c
    BY <2>2 DEF ObjectsOK
  <2>4. v \in DOMAIN pvc => pvc[v].vol # ""
    BY <2>2 DEF ObjectsOK
  <2>5. Replaces(pv, pvc, v, o2)
    BY <2>1, <2>3, <2>4 DEF Replaces
  <2> QED
    BY <2>5 DEF o2
<1> QED
  BY <1>5, <1>6, PutPVMoves

\* A volume is made for a claim.
LEMMA ProvisionMoves ==
    ASSUME ObjectsOK(pv, pvc), FeedOK(pv, pvc, volFeed), NEW c \in DOMAIN pvc, Provision(c)
    PROVE  Moved
<1> DEFINE o == [rv |-> 0, claim |-> c, class |-> pvc[c].class, size |-> pvc[c].size,
                 reach |-> {pvc[c].sel}]
<1>1. PutPV(c, o) /\ pvc[c].vol = "" /\ \A v \in DOMAIN pv : pv[v].claim # c
  BY DEF Provision, Provisionable
<1>2. IsVolume(o) /\ o.claim = c
  BY DEF IsVolume
<1> HIDE DEF o
<1> DEFINE o2 == [o EXCEPT !.rv = @ + 1]
<1>3. IsVolume(o2) /\ o2.claim = c
  BY <1>2, NextVolume
<1> HIDE DEF o2
<1>4. Makes(pv, pvc, c, o2)
  BY <1>1, <1>3 DEF Makes
<1> QED
  BY <1>1, <1>4, PutPVMoves DEF o2

\* The selected node is taken away.
LEMMA ProvisionFailsMoves ==
    ASSUME ObjectsOK(pv, pvc), FeedOK(pv, pvc, volFeed), NEW c \in DOMAIN pvc, ProvisionFails(c)
    PROVE  Moved
<1> DEFINE o == [pvc[c] EXCEPT !.sel = ""]
<1>3. IsClaim(pvc[c])
  BY DEF ObjectsOK
<1>4. IsClaim(o) /\ o.rv = pvc[c].rv /\ o.vol = pvc[c].vol /\ o.done = pvc[c].done
  BY <1>3, ClaimFields
<1> HIDE DEF o
<1>5. PutPVC(c, o)
  BY DEF ProvisionFails, o
<1> DEFINE o2 == [o EXCEPT !.rv = @ + 1]
<1>6. /\ IsClaim(o2) /\ o2.rv = pvc[c].rv + 1 /\ o2.vol = pvc[c].vol
      /\ o2.done = pvc[c].done
  BY <1>4, NextClaim
<1> HIDE DEF o2
<1>7. ReplacesClaim(pvc, c, o2)
  BY <1>6 DEF ReplacesClaim
<1> QED
  BY <1>5, <1>7, PutPVCMoves DEF o2

\* A volume nobody has is deleted.
LEMMA DeletePVMoves ==
    ASSUME ObjectsOK(pv, pvc), FeedOK(pv, pvc, volFeed), NEW v \in DOMAIN pv,
           pv[v].claim = "" /\ DeletePV(v)
    PROVE  Moved
<1>1. /\ pv' = Restrict(pv, DOMAIN pv \ {v}) /\ pvc' = pvc
      /\ volFeed' = [volFeed EXCEPT !.pv = Append(@, [name |-> v, obj |-> Gone])]
  BY DEF DeletePV
<1>2. ObjectsOK(pv', pvc') /\ Kept(pv, pvc, pv', pvc')
  BY <1>1, DropVolume
<1>3. FeedOK(pv', pvc', volFeed')
  BY <1>1, <1>2, FeedMoves
<1> QED
  BY <1>2, <1>3 DEF Moved

-----------------------------------------------------------------------------
(***************************************************************************)
(* Pods.                                                                   *)
(***************************************************************************)
SameNodes(q, q2) ==
    /\ q2 = [p \in DOMAIN q2 |-> q2[p]]
    /\ DOMAIN q2 \subseteq DOMAIN q
    /\ \A p \in DOMAIN q2 : IsPod(q2[p]) /\ q2[p].node = q[p].node

\* A pod's fields one by one.
LEMMA PodFields ==
    ASSUME NEW o, IsPod(o), NEW x
    PROVE  /\ IsPod([o EXCEPT !.dev = x]) /\ [o EXCEPT !.dev = x].node = o.node
           /\ IsPod([o EXCEPT !.run = x]) /\ [o EXCEPT !.run = x].node = o.node
           /\ IsPod([o EXCEPT !.done = x]) /\ [o EXCEPT !.done = x].node = o.node
           /\ IsPod([o EXCEPT !.node = x]) /\ [o EXCEPT !.node = x].node = x
<1> DEFINE r == [node |-> o.node, dev |-> o.dev, done |-> o.done, run |-> o.run]
           r1 == [node |-> o.node, dev |-> x, done |-> o.done, run |-> o.run]
           r2 == [node |-> o.node, dev |-> o.dev, done |-> o.done, run |-> x]
           r3 == [node |-> o.node, dev |-> o.dev, done |-> x, run |-> o.run]
           r4 == [node |-> x, dev |-> o.dev, done |-> o.done, run |-> o.run]
<1>0. o = r
  BY DEF IsPod
<1>1. [r EXCEPT !.dev = x] = r1
  OBVIOUS
<1>2. [r EXCEPT !.run = x] = r2
  OBVIOUS
<1>3. [r EXCEPT !.done = x] = r3
  OBVIOUS
<1>4. [r EXCEPT !.node = x] = r4
  OBVIOUS
<1>5. IsPod(r1) /\ r1.node = o.node
  BY DEF IsPod
<1>6. IsPod(r2) /\ r2.node = o.node
  BY DEF IsPod
<1>7. IsPod(r3) /\ r3.node = o.node
  BY DEF IsPod
<1>8. IsPod(r4) /\ r4.node = x
  BY DEF IsPod
<1> HIDE DEF r, r1, r2, r3, r4
<1> QED
  BY <1>0, <1>1, <1>2, <1>3, <1>4, <1>5, <1>6, <1>7, <1>8

\* Pods stay right as long as the objects keep what they say and no pod gets a node.
LEMMA PodsKept ==
    ASSUME NEW P, NEW C, NEW P2, NEW C2, Kept(P, C, P2, C2), NEW lost, NEW lost2,
           lost \subseteq lost2, NEW q, PodsOK(P, C, lost, q), NEW q2, SameNodes(q, q2)
    PROVE  PodsOK(P2, C2, lost2, q2)
<1>1. ASSUME NEW p \in DOMAIN q2 \ lost2, q2[p].node # "", NEW c \in ClaimsOf(p)
      PROVE  Settled(P2, C2, c, q2[p].node)
  <2>1. p \in DOMAIN q \ lost /\ q2[p].node = q[p].node
    BY DEF SameNodes
  <2>2. Settled(P, C, c, q2[p].node)
    BY <1>1, <2>1 DEF PodsOK
  <2> QED
    BY <2>2, SettledKept
<1> QED
  BY <1>1 DEF PodsOK, SameNodes

\* The same pods, one pod changed but for its node, one pod less.
LEMMA NodesSame ==
    ASSUME NEW P, NEW C, NEW lost, NEW q, PodsOK(P, C, lost, q)
    PROVE  /\ SameNodes(q, q)
           /\ \A p : SameNodes(q, Without(q, p))
           /\ \A p, o : (p \in DOMAIN q => IsPod(o) /\ o.node = q[p].node)
                => SameNodes(q, [q EXCEPT ![p] = o])
<1>1. q = [p \in DOMAIN q |-> q[p]] /\ \A p \in DOMAIN q : IsPod(q[p])
  BY DEF PodsOK
<1>2. SameNodes(q, q)
  BY <1>1 DEF SameNodes
<1>3. ASSUME NEW p PROVE SameNodes(q, Without(q, p))
  BY <1>1 DEF SameNodes, Without, Restrict
<1>4. ASSUME NEW p, NEW o, p \in DOMAIN q => IsPod(o) /\ o.node = q[p].node
      PROVE SameNodes(q, [q EXCEPT ![p] = o])
  BY <1>1, <1>4 DEF SameNodes
<1> QED
  BY <1>2, <1>3, <1>4

\* A pod's annotation says nothing of its node.
LEMMA AnnotateSame ==
    ASSUME NEW P, NEW C, NEW lost, PodsOK(P, C, lost, pod), NEW p, NEW dev, Annotate(p, dev)
    PROVE  SameNodes(pod, pod')
<1> DEFINE o == [pod[p] EXCEPT !.dev = dev]
<1>1. pod' = [pod EXCEPT ![p] = o]
  BY DEF Annotate
<1>2. p \in DOMAIN pod => IsPod(o) /\ o.node = pod[p].node
  <2>1. p \in DOMAIN pod => IsPod(pod[p])
    BY DEF PodsOK
  <2> QED
    BY <2>1, PodFields
<1> HIDE DEF o
<1> QED
  BY <1>1, <1>2, NodesSame

-----------------------------------------------------------------------------
(***************************************************************************)
(* The steps of the others, and of the informers.                          *)
(***************************************************************************)
\* The scheduler's tasks are as they were, and the objects have moved.
LEMMA WorldStep ==
    ASSUME BindingInv, UNCHANGED <<opt, sess, t, bindCache, astray>>, Moved,
           VolumesCached(pv, pvc, pvCache)', ClaimsCached(pvc, pvcCache)', SameNodes(pod, pod')
    PROVE  BindingInv'
<1>1. Kept(pv, pvc, pv', pvc') /\ ObjectsOK(pv, pvc)' /\ FeedOK(pv, pvc, volFeed)'
  BY DEF Moved
<1>2. TasksOK(pv, pvc, astray, t)'
  <2>1. ASSUME NEW p \in DOMAIN t PROVE TaskOK(pv', pvc', astray, p, t[p])
    <3>1. TaskOK(pv, pvc, astray, p, t[p])
      BY DEF BindingInv, TasksOK
    <3> QED
      BY <1>1, <3>1, TaskKept
  <2> QED
    BY <2>1 DEF TasksOK
<1>3. PodsOK(pv, pvc, astray, pod)'
  <2>1. PodsOK(pv, pvc, astray, pod)
    BY DEF BindingInv
  <2>2. PodsOK(pv', pvc', astray, pod')
    BY <2>1, <1>1, PodsKept
  <2> QED
    BY <2>2
<1>4. InstanceOK(opt, t)' /\ SessionOK(opt, sess)' /\ QueuesOK(t, sess.ops, sess.last, bindCache)'
  <2>1. InstanceOK(opt, t) /\ SessionOK(opt, sess) /\ QueuesOK(t, sess.ops, sess.last, bindCache)
    BY DEF BindingInv
  <2> QED
    BY <2>1
<1> QED
  BY <1>1, <1>2, <1>3, <1>4, Zenon DEF BindingInv

\* The caches need not change then.
LEMMA MovedStep ==
    ASSUME BindingInv, UNCHANGED <<opt, sess, t, bindCache, astray, pvCache, pvcCache>>, Moved,
           SameNodes(pod, pod')
    PROVE  BindingInv'
<1>1. Kept(pv, pvc, pv', pvc') /\ VolumesCached(pv, pvc, pvCache) /\ ClaimsCached(pvc, pvcCache)
  BY DEF Moved, BindingInv
<1>2. VolumesCached(pv', pvc', pvCache) /\ ClaimsCached(pvc', pvcCache)
  BY <1>1, CachesKept
<1>3. VolumesCached(pv, pvc, pvCache)' /\ ClaimsCached(pvc, pvcCache)'
  BY <1>2
<1> QED
  BY <1>3, WorldStep

\* What does not change has not moved.
LEMMA NotMoved ==
    ASSUME BindingInv, UNCHANGED <<pv, pvc, volFeed>>
    PROVE  Moved
<1>1. ObjectsOK(pv, pvc) /\ FeedOK(pv, pvc, volFeed) /\ Kept(pv, pvc, pv, pvc)
  BY SameKept DEF BindingInv
<1> QED
  BY <1>1 DEF Moved

\* No volume, task or node of a pod changes.
LEMMA OtherStep ==
    ASSUME BindingInv, UNCHANGED <<volVars, opt, sess, t, bindCache, astray>>,
           SameNodes(pod, pod')
    PROVE  BindingInv'
<1>1. Moved
  BY NotMoved DEF volVars
<1> QED
  BY <1>1, MovedStep DEF volVars

\* The informers.
LEMMA HandlePVStep ==
    ASSUME BindingInv, HandlePV, UNCHANGED taskVars
    PROVE  BindingInv'
<1> DEFINE e == Head(volFeed.pv)
<1>1. /\ FeedOK(pv, pvc, volFeed) /\ VolumesCached(pv, pvc, pvCache) /\ ClaimsCached(pvc, pvcCache)
      /\ ObjectsOK(pv, pvc)
  BY DEF BindingInv
<1>2. /\ volFeed = [pv |-> volFeed.pv, pvc |-> volFeed.pvc]
      /\ VolumeEvents(pv, pvc, volFeed.pv) /\ ClaimEvents(pvc, volFeed.pvc)
  BY <1>1, FeedIs
<1>3. /\ volFeed.pv # <<>>
      /\ pvCache' = IF e.obj = Gone THEN delete(pvCache, e.name) ELSE add(pvCache, e.name, e.obj)
      /\ volFeed' = [volFeed EXCEPT !.pv = Tail(@)]
      /\ pv' = pv /\ pvc' = pvc /\ pvcCache' = pvcCache
  BY DEF HandlePV
<1>4. /\ VolumeEvents(pv, pvc, Tail(volFeed.pv))
      /\ e.obj # Gone => VolumeCopy(pv, pvc, e.name, e.obj)
  BY <1>2, <1>3, EventTaken
<1> HIDE DEF e
<1>5. VolumesCached(pv, pvc, pvCache')
  <2>1. CASE e.obj = Gone
    BY <2>1, <1>1, <1>3, DeleteVolumeEntry
  <2>2. CASE e.obj # Gone
    BY <2>2, <1>1, <1>3, <1>4, AddVolume
  <2> QED
    BY <2>1, <2>2
<1>6. FeedOK(pv, pvc, volFeed')
  <2>1. volFeed' = [pv |-> Tail(volFeed.pv), pvc |-> volFeed.pvc]
    BY <1>2, <1>3, FeedFields
  <2> QED
    BY <1>2, <1>4, <2>1, FeedIs
<1>7. Moved
  BY <1>1, <1>3, <1>6, SameKept DEF Moved
<1>8. SameNodes(pod, pod')
  BY NodesSame DEF BindingInv, taskVars
<1>9. VolumesCached(pv, pvc, pvCache)' /\ ClaimsCached(pvc, pvcCache)'
  BY <1>1, <1>3, <1>5
<1> QED
  BY <1>7, <1>8, <1>9, WorldStep DEF taskVars

\* The informer of the claims.
LEMMA HandlePVCStep ==
    ASSUME BindingInv, HandlePVC, UNCHANGED taskVars
    PROVE  BindingInv'
<1> DEFINE e == Head(volFeed.pvc)
<1>1. /\ FeedOK(pv, pvc, volFeed) /\ VolumesCached(pv, pvc, pvCache) /\ ClaimsCached(pvc, pvcCache)
      /\ ObjectsOK(pv, pvc)
  BY DEF BindingInv
<1>2. /\ volFeed = [pv |-> volFeed.pv, pvc |-> volFeed.pvc]
      /\ VolumeEvents(pv, pvc, volFeed.pv) /\ ClaimEvents(pvc, volFeed.pvc)
  BY <1>1, FeedIs
<1>3. /\ volFeed.pvc # <<>>
      /\ pvcCache' = add(pvcCache, e.name, e.obj)
      /\ volFeed' = [volFeed EXCEPT !.pvc = Tail(@)]
      /\ pv' = pv /\ pvc' = pvc /\ pvCache' = pvCache
  BY DEF HandlePVC
<1>4. ClaimEvents(pvc, Tail(volFeed.pvc)) /\ ClaimCopy(pvc, e.name, e.obj)
  BY <1>2, <1>3, EventTaken
<1> HIDE DEF e
<1>5. ClaimsCached(pvc, pvcCache')
  BY <1>1, <1>3, <1>4, AddClaim
<1>6. FeedOK(pv, pvc, volFeed')
  <2>1. volFeed' = [pv |-> volFeed.pv, pvc |-> Tail(volFeed.pvc)]
    BY <1>2, <1>3, FeedFields
  <2> QED
    BY <1>2, <1>4, <2>1, FeedIs
<1>7. Moved
  BY <1>1, <1>3, <1>6, SameKept DEF Moved
<1>8. SameNodes(pod, pod')
  BY NodesSame DEF BindingInv, taskVars
<1>9. VolumesCached(pv, pvc, pvCache)' /\ ClaimsCached(pvc, pvcCache)'
  BY <1>1, <1>3, <1>5
<1> QED
  BY <1>7, <1>8, <1>9, WorldStep DEF taskVars

-----------------------------------------------------------------------------
(***************************************************************************)
(* A task's record.                                                        *)
(***************************************************************************)
Task(st, node, vols, none, ready, i) ==
    [st |-> st, node |-> node, vols |-> vols, none |-> none, ready |-> ready, i |-> i]

\* Its fields.
LEMMA TaskIs ==
    ASSUME NEW st, NEW node, NEW vols, NEW none, NEW ready, NEW i,
           NEW r, r = Task(st, node, vols, none, ready, i)
    PROVE  /\ IsTask(r) /\ r.st = st /\ r.node = node /\ r.vols = vols /\ r.none = none
           /\ r.ready = ready /\ r.i = i
<1> DEFINE q == Task(st, node, vols, none, ready, i)
<1>1. q.st = st /\ q.node = node /\ q.vols = vols /\ q.none = none /\ q.ready = ready /\ q.i = i
  BY DEF Task
<1>2. IsTask(q)
  BY DEF Task, IsTask
<1> QED
  BY <1>1, <1>2

\* The ways the actions change a task.
LEMMA TaskChanges ==
    ASSUME NEW r, IsTask(r)
    PROVE  /\ r = Task(r.st, r.node, r.vols, r.none, r.ready, r.i)
           /\ \A x : [r EXCEPT !.st = x] = Task(x, r.node, r.vols, r.none, r.ready, r.i)
           /\ \A x, y, z : [r EXCEPT !.none = x, !.ready = y, !.vols = z]
                             = Task(r.st, r.node, z, x, y, r.i)
           /\ \A x, y, z : [r EXCEPT !.st = x, !.ready = y, !.vols = z]
                             = Task(x, r.node, z, r.none, y, r.i)
           /\ \A x, y : [r EXCEPT !.i = x, !.vols = y]
                          = Task(r.st, r.node, y, r.none, r.ready, x)
<1>1. r = Task(r.st, r.node, r.vols, r.none, r.ready, r.i)
  BY DEF IsTask, Task
<1> DEFINE a == r.st
           b == r.node
           c == r.vols
           d == r.none
           e == r.ready
           f == r.i
<1>2. r = Task(a, b, c, d, e, f)
  BY <1>1
<1> HIDE DEF a, b, c, d, e, f
<1>3. \A x : [r EXCEPT !.st = x] = Task(x, b, c, d, e, f)
  BY <1>2 DEF Task
<1>4. ASSUME NEW x, NEW y, NEW z
      PROVE  [r EXCEPT !.none = x, !.ready = y, !.vols = z] = Task(a, b, z, x, y, f)
  <2>1. [r EXCEPT !.none = x, !.ready = y, !.vols = z]
          = [[[r EXCEPT !.none = x] EXCEPT !.ready = y] EXCEPT !.vols = z]
    BY Zenon
  <2>2. [r EXCEPT !.none = x] = Task(a, b, c, x, e, f)
    BY <1>2 DEF Task
  <2>3. [Task(a, b, c, x, e, f) EXCEPT !.ready = y] = Task(a, b, c, x, y, f)
    BY DEF Task
  <2>4. [Task(a, b, c, x, y, f) EXCEPT !.vols = z] = Task(a, b, z, x, y, f)
    BY DEF Task
  <2> QED
    BY <2>1, <2>2, <2>3, <2>4
<1>5. ASSUME NEW x, NEW y, NEW z
      PROVE  [r EXCEPT !.st = x, !.ready = y, !.vols = z] = Task(x, b, z, d, y, f)
  <2>1. [r EXCEPT !.st = x, !.ready = y, !.vols = z]
          = [[[r EXCEPT !.st = x] EXCEPT !.ready = y] EXCEPT !.vols = z]
    BY Zenon
  <2>2. [r EXCEPT !.st = x] = Task(x, b, c, d, e, f)
    BY <1>3
  <2>3. [Task(x, b, c, d, e, f) EXCEPT !.ready = y] = Task(x, b, c, d, y, f)
    BY DEF Task
  <2>4. [Task(x, b, c, d, y, f) EXCEPT !.vols = z] = Task(x, b, z, d, y, f)
    BY DEF Task
  <2> QED
    BY <2>1, <2>2, <2>3, <2>4
<1>6. ASSUME NEW x, NEW y
      PROVE  [r EXCEPT !.i = x, !.vols = y] = Task(a, b, y, d, e, x)
  <2>1. [r EXCEPT !.i = x, !.vols = y] = [[r EXCEPT !.i = x] EXCEPT !.vols = y]
    BY Zenon
  <2>2. [r EXCEPT !.i = x] = Task(a, b, c, d, e, x)
    BY <1>2 DEF Task
  <2>3. [Task(a, b, c, d, e, x) EXCEPT !.vols = y] = Task(a, b, y, d, e, x)
    BY DEF Task
  <2> QED
    BY <2>1, <2>2, <2>3
<1>7. /\ r = Task(a, b, c, d, e, f)
      /\ \A x : [r EXCEPT !.st = x] = Task(x, b, c, d, e, f)
      /\ \A x, y, z : [r EXCEPT !.none = x, !.ready = y, !.vols = z] = Task(a, b, z, x, y, f)
      /\ \A x, y, z : [r EXCEPT !.st = x, !.ready = y, !.vols = z] = Task(x, b, z, d, y, f)
      /\ \A x, y : [r EXCEPT !.i = x, !.vols = y] = Task(a, b, y, d, e, x)
  BY <1>2, <1>3, <1>4, <1>5, <1>6, Zenon
<1> QED
  BY <1>7, Zenon DEF a, b, c, d, e, f

AllocatedTask(r, y, z) == [r EXCEPT !.st = "allocated", !.ready = y, !.vols = z]
LetGone(r, x, y, z) == [r EXCEPT !.none = x, !.ready = y, !.vols = z]
Advanced(r, x, y) == [r EXCEPT !.i = x, !.vols = y]
Become(r, x) == [r EXCEPT !.st = x]

\* The same, named.
LEMMA NamedChanges ==
    ASSUME NEW r, IsTask(r)
    PROVE  /\ \A y, z : AllocatedTask(r, y, z) = Task("allocated", r.node, z, r.none, y, r.i)
           /\ \A x, y, z : LetGone(r, x, y, z) = Task(r.st, r.node, z, x, y, r.i)
           /\ \A x, y : Advanced(r, x, y) = Task(r.st, r.node, y, r.none, r.ready, x)
           /\ \A x : Become(r, x) = Task(x, r.node, r.vols, r.none, r.ready, r.i)
<1>1. /\ \A x : [r EXCEPT !.st = x] = Task(x, r.node, r.vols, r.none, r.ready, r.i)
      /\ \A x, y, z : [r EXCEPT !.none = x, !.ready = y, !.vols = z]
                        = Task(r.st, r.node, z, x, y, r.i)
      /\ \A x, y, z : [r EXCEPT !.st = x, !.ready = y, !.vols = z]
                        = Task(x, r.node, z, r.none, y, r.i)
      /\ \A x, y : [r EXCEPT !.i = x, !.vols = y]
                     = Task(r.st, r.node, y, r.none, r.ready, x)
  BY TaskChanges
<1>2. \A y, z : AllocatedTask(r, y, z) = Task("allocated", r.node, z, r.none, y, r.i)
  BY <1>1, Zenon DEF AllocatedTask
<1>3. \A x, y, z : LetGone(r, x, y, z) = Task(r.st, r.node, z, x, y, r.i)
  BY <1>1, Zenon DEF LetGone
<1>4. \A x, y : Advanced(r, x, y) = Task(r.st, r.node, y, r.none, r.ready, x)
  BY <1>1, Zenon DEF Advanced
<1>5. \A x : Become(r, x) = Task(x, r.node, r.vols, r.none, r.ready, r.i)
  BY <1>1, Zenon DEF Become
<1> QED
  BY <1>2, <1>3, <1>4, <1>5

\* Each claim of p is settled, or is among those chosen and still to be bound.
ClaimsOK(P, C, p, st, node, vols, ready) ==
    \A c \in ClaimsOf(p) :
      \/ Settled(P, C, c, node)
      \/ /\ ~ready /\ st \in {"found", "allocated", "queued", "writing"}
         /\ c \in Chosen(vols)

\* What makes a task right, field by field.
LEMMA TaskOKIs ==
    ASSUME NEW P, NEW C, NEW lost, NEW p, NEW st, NEW node, NEW vols, NEW none, NEW ready, NEW i
    PROVE  TaskOK(P, C, lost, p, Task(st, node, vols, none, ready, i)) <=>
             /\ i \in Nat \ {0} /\ none \in BOOLEAN /\ ready \in BOOLEAN
             /\ VolsOK(P, C, vols)
             /\ none => ~ready /\ st \in {"allocated", "queued"}
             /\ p \in lost \/ none \/ ClaimsOK(P, C, p, st, node, vols, ready)
<1> DEFINE r == Task(st, node, vols, none, ready, i)
<1>1. /\ IsTask(r) /\ r.st = st /\ r.node = node /\ r.vols = vols /\ r.none = none
      /\ r.ready = ready /\ r.i = i
  BY TaskIs
<1> HIDE DEF r
<1>2. TaskOK(P, C, lost, p, r) <=>
        /\ r.i \in Nat \ {0} /\ r.none \in BOOLEAN /\ r.ready \in BOOLEAN
        /\ VolsOK(P, C, r.vols)
        /\ r.none => ~r.ready /\ r.st \in {"allocated", "queued"}
        /\ p \in lost \/ r.none \/ ClaimsOK(P, C, p, r.st, r.node, r.vols, r.ready)
  BY <1>1, Zenon DEF TaskOK, ClaimsOK
<1> QED
  BY <1>1, <1>2, Zenon DEF r

(***************************************************************************)
(* The session's record.                                                   *)
(***************************************************************************)
Sess(open, copy, ops, last, undo) ==
    [open |-> open, copy |-> copy, ops |-> ops, last |-> last, undo |-> undo]

\* Its fields.
LEMMA SessIs ==
    ASSUME NEW open, NEW copy, NEW ops, NEW last, NEW undo,
           NEW s, s = Sess(open, copy, ops, last, undo)
    PROVE  /\ IsSession(s) /\ s.open = open /\ s.copy = copy /\ s.ops = ops /\ s.last = last
           /\ s.undo = undo
<1> DEFINE q == Sess(open, copy, ops, last, undo)
<1>1. q.open = open /\ q.copy = copy /\ q.ops = ops /\ q.last = last /\ q.undo = undo
  BY DEF Sess
<1>2. IsSession(q)
  BY DEF Sess, IsSession
<1> QED
  BY <1>1, <1>2

\* The ways the actions change it.
LEMMA SessChanges ==
    ASSUME NEW s, IsSession(s)
    PROVE  /\ \A x : [s EXCEPT !.last = x] = Sess(s.open, s.copy, s.ops, x, s.undo)
           /\ \A x : [s EXCEPT !.undo = x] = Sess(s.open, s.copy, s.ops, s.last, x)
           /\ \A x, y : [s EXCEPT !.ops = x, !.last = y] = Sess(s.open, s.copy, x, y, s.undo)
           /\ \A x, y : [s EXCEPT !.ops = x, !.undo = y] = Sess(s.open, s.copy, x, s.last, y)
           /\ \A x, y : [s EXCEPT !.ops = x, !.copy = y] = Sess(s.open, y, x, s.last, s.undo)
           /\ \A x, y : [s EXCEPT !.open = x, !.copy = y] = Sess(x, y, s.ops, s.last, s.undo)
           /\ \A x, y, z : [s EXCEPT !.ops = x, !.copy = y, !.last = z]
                             = Sess(s.open, y, x, z, s.undo)
<1> DEFINE a == s.open
           b == s.copy
           c == s.ops
           d == s.last
           e == s.undo
<1>1. s = Sess(a, b, c, d, e)
  BY DEF IsSession, Sess
<1> HIDE DEF a, b, c, d, e
<1>2. \A x : [s EXCEPT !.last = x] = Sess(a, b, c, x, e)
  BY <1>1 DEF Sess
<1>3. \A x : [s EXCEPT !.undo = x] = Sess(a, b, c, d, x)
  BY <1>1 DEF Sess
<1>4. ASSUME NEW x PROVE [s EXCEPT !.ops = x] = Sess(a, b, x, d, e)
  BY <1>1 DEF Sess
<1>5. ASSUME NEW x, NEW y PROVE [s EXCEPT !.ops = x, !.last = y] = Sess(a, b, x, y, e)
  <2>1. [s EXCEPT !.ops = x, !.last = y] = [[s EXCEPT !.ops = x] EXCEPT !.last = y]
    BY Zenon
  <2>2. [Sess(a, b, x, d, e) EXCEPT !.last = y] = Sess(a, b, x, y, e)
    BY DEF Sess
  <2> QED
    BY <1>4, <2>1, <2>2
<1>6. ASSUME NEW x, NEW y PROVE [s EXCEPT !.ops = x, !.undo = y] = Sess(a, b, x, d, y)
  <2>1. [s EXCEPT !.ops = x, !.undo = y] = [[s EXCEPT !.ops = x] EXCEPT !.undo = y]
    BY Zenon
  <2>2. [Sess(a, b, x, d, e) EXCEPT !.undo = y] = Sess(a, b, x, d, y)
    BY DEF Sess
  <2> QED
    BY <1>4, <2>1, <2>2
<1>7. ASSUME NEW x, NEW y PROVE [s EXCEPT !.ops = x, !.copy = y] = Sess(a, y, x, d, e)
  <2>1. [s EXCEPT !.ops = x, !.copy = y] = [[s EXCEPT !.ops = x] EXCEPT !.copy = y]
    BY Zenon
  <2>2. [Sess(a, b, x, d, e) EXCEPT !.copy = y] = Sess(a, y, x, d, e)
    BY DEF Sess
  <2> QED
    BY <1>4, <2>1, <2>2
<1>8. ASSUME NEW x, NEW y PROVE [s EXCEPT !.open = x, !.copy = y] = Sess(x, y, c, d, e)
  <2>1. [s EXCEPT !.open = x, !.copy = y] = [[s EXCEPT !.open = x] EXCEPT !.copy = y]
    BY Zenon
  <2>2. [s EXCEPT !.open = x] = Sess(x, b, c, d, e)
    BY <1>1 DEF Sess
  <2>3. [Sess(x, b, c, d, e) EXCEPT !.copy = y] = Sess(x, y, c, d, e)
    BY DEF Sess
  <2> QED
    BY <2>1, <2>2, <2>3
<1>9. ASSUME NEW x, NEW y, NEW z
      PROVE  [s EXCEPT !.ops = x, !.copy = y, !.last = z] = Sess(a, y, x, z, e)
  <2>1. [s EXCEPT !.ops = x, !.copy = y, !.last = z]
          = [[s EXCEPT !.ops = x, !.copy = y] EXCEPT !.last = z]
    BY Zenon
  <2>2. [Sess(a, y, x, d, e) EXCEPT !.last = z] = Sess(a, y, x, z, e)
    BY DEF Sess
  <2> QED
    BY <1>7, <2>1, <2>2
<1>10. /\ \A x : [s EXCEPT !.last = x] = Sess(a, b, c, x, e)
       /\ \A x : [s EXCEPT !.undo = x] = Sess(a, b, c, d, x)
       /\ \A x, y : [s EXCEPT !.ops = x, !.last = y] = Sess(a, b, x, y, e)
       /\ \A x, y : [s EXCEPT !.ops = x, !.undo = y] = Sess(a, b, x, d, y)
       /\ \A x, y : [s EXCEPT !.ops = x, !.copy = y] = Sess(a, y, x, d, e)
       /\ \A x, y : [s EXCEPT !.open = x, !.copy = y] = Sess(x, y, c, d, e)
       /\ \A x, y, z : [s EXCEPT !.ops = x, !.copy = y, !.last = z] = Sess(a, y, x, z, e)
  BY <1>2, <1>3, <1>5, <1>6, <1>7, <1>8, <1>9, Zenon
<1> QED
  BY <1>10, Zenon DEF a, b, c, d, e

-----------------------------------------------------------------------------
(***************************************************************************)
(* The steps of the session and of the binder.                             *)
(***************************************************************************)
TaskRight(p) ==
    /\ Elsewhere(t, t', p)
    /\ p \in DOMAIN t' => TaskOK(pv, pvc, astray', p, t'[p]) /\ t'[p].node \in opt.nodes
CachesRight == VolumesCached(pv, pvc, pvCache') /\ ClaimsCached(pvc, pvcCache')

\* One task changes, and with it the session, the queue or the pod.
LEMMA TaskStep ==
    ASSUME BindingInv, UNCHANGED <<pv, pvc, volFeed, opt>>, CachesRight, astray \subseteq astray',
           NEW p, TaskRight(p), SessionOK(opt, sess'),
           QueuesOK(t', sess'.ops, sess'.last, bindCache'), PodsOK(pv, pvc, astray', pod')
    PROVE  BindingInv'
<1>1. ObjectsOK(pv, pvc) /\ TasksOK(pv, pvc, astray, t) /\ InstanceOK(opt, t) /\ FeedOK(pv, pvc, volFeed)
  BY DEF BindingInv
<1>2. TasksOK(pv, pvc, astray', t')
  BY <1>1, TasksElse DEF TaskRight
<1>3. InstanceOK(opt, t')
  BY <1>1, InstanceElse DEF TaskRight
<1>4. /\ InstanceOK(opt, t)' /\ ObjectsOK(pv, pvc)' /\ FeedOK(pv, pvc, volFeed)'
      /\ VolumesCached(pv, pvc, pvCache)' /\ ClaimsCached(pvc, pvcCache)'
      /\ TasksOK(pv, pvc, astray, t)' /\ SessionOK(opt, sess)'
      /\ QueuesOK(t, sess.ops, sess.last, bindCache)' /\ PodsOK(pv, pvc, astray, pod)'
  BY <1>1, <1>2, <1>3 DEF CachesRight
<1> QED
  BY <1>4, Zenon DEF BindingInv

\* Pods no node of which changes.
LEMMA PodsStep ==
    ASSUME BindingInv, astray \subseteq astray', SameNodes(pod, pod')
    PROVE  PodsOK(pv, pvc, astray', pod')
<1>1. ObjectsOK(pv, pvc) /\ PodsOK(pv, pvc, astray, pod)
  BY DEF BindingInv
<1> QED
  BY <1>1, SameKept, PodsKept

\* Pods that do not change at all.
LEMMA PodsUnchanged ==
    ASSUME BindingInv, astray \subseteq astray', pod' = pod
    PROVE  PodsOK(pv, pvc, astray', pod')
<1>1. SameNodes(pod, pod')
  BY NodesSame DEF BindingInv
<1> QED
  BY <1>1, PodsStep

\* The caches stay right when they do not change, and when volumes are let go.
LEMMA CachesSame ==
    ASSUME BindingInv, UNCHANGED <<pvCache, pvcCache>>
    PROVE  CachesRight
  BY DEF BindingInv, CachesRight

\* Reverting a task's volumes.
LEMMA CachesReverted ==
    ASSUME BindingInv, NEW p, RevertVolumes(p)
    PROVE  CachesRight
<1>1. VolumesCached(pv, pvc, pvCache) /\ ClaimsCached(pvc, pvcCache)
  BY DEF BindingInv
<1>2. CASE t[p].none
  BY <1>1, <1>2 DEF RevertVolumes, CachesRight
<1>3. CASE ~t[p].none
  <2>1. RevertAssumedPodVolumes(t[p].vols)
    BY <1>3 DEF RevertVolumes
  <2> QED
    BY <1>1, <2>1, RestoreVolumes, RestoreClaims DEF RevertAssumedPodVolumes, CachesRight
<1> QED
  BY <1>2, <1>3

\* A task that is dropped.
LEMMA DroppedRight ==
    ASSUME NEW p, t' = Without(t, p)
    PROVE  TaskRight(p)
  BY ElseWithout DEF TaskRight

\* A session finds volumes for a task.
LEMMA GetVolumesStep ==
    ASSUME BindingInv, NEW p \in opt.pods, NEW n \in opt.nodes, GetVolumes(p, n)
    PROVE  BindingInv'
<1>1. PICK vols \in FindPodVolumes(p, n) :
        t' = Put(t, p, [st |-> "found", node |-> n, vols |-> vols, none |-> FALSE,
                        ready |-> FALSE, i |-> 1])
  BY DEF GetVolumes
<1>2. p \notin DOMAIN t /\ ~GetPodVolumesFails(p)
  BY DEF GetVolumes, Looking
<1>3. UNCHANGED <<pv, pvc, pvCache, pvcCache, volFeed, opt, pod, sess, bindCache, astray>>
  BY DEF GetVolumes, volVars
<1>4. IsSeq(PodVols[p])
  BY ScenarioAssumption DEF BindingInv, InstanceOK, IsSeq
<1>5. ObjectsOK(pv, pvc) /\ VolumesCached(pv, pvc, pvCache) /\ ClaimsCached(pvc, pvcCache)
  BY DEF BindingInv
<1>6. /\ VolsOK(pv, pvc, vols)
      /\ \A c \in ClaimsOf(p) : Settled(pv, pvc, c, n) \/ c \in Chosen(vols)
  BY <1>2, <1>4, <1>5, FindFacts
<1> DEFINE r == Task("found", n, vols, FALSE, FALSE, 1)
<1>7. t' = Put(t, p, r)
  BY <1>1 DEF Task
<1>8. TaskOK(pv, pvc, astray, p, r)
  <2>0. r = Task("found", n, vols, FALSE, FALSE, 1)
    OBVIOUS
  <2> HIDE DEF r
  <2>1. /\ IsTask(r) /\ r.st = "found" /\ r.node = n /\ r.vols = vols /\ r.i = 1
        /\ r.none = FALSE /\ r.ready = FALSE
    <3>1. r.st = "found" /\ r.node = n /\ r.vols = vols /\ r.i = 1
      BY <2>0 DEF Task
    <3>2. r.none = FALSE
      BY <2>0 DEF Task
    <3>3. r.ready = FALSE
      BY <2>0 DEF Task
    <3>4. IsTask(r)
      BY <2>0, <3>1, <3>2, <3>3, Zenon DEF Task, IsTask
    <3> QED
      BY <3>1, <3>2, <3>3, <3>4
  <2>2. r.none \in BOOLEAN /\ r.ready \in BOOLEAN /\ ~r.none /\ ~r.ready
    BY <2>1, Zenon
  <2>3. r.i \in Nat \ {0}
    BY <2>1
  <2>4. r.st \in {"found", "allocated", "queued", "writing"}
    BY <2>1
  <2> QED
    BY <1>6, <2>1, <2>2, <2>3, <2>4, Zenon DEF TaskOK
<1>9. r.node = n
  BY DEF Task
<1> HIDE DEF r
<1>10. Elsewhere(t, t', p) /\ t'[p] = r
  BY <1>7 DEF Elsewhere, Put
<1>11. TaskRight(p)
  BY <1>3, <1>8, <1>9, <1>10 DEF TaskRight
<1>12. QueuesOK(t, sess.ops, sess.last, bindCache)
  BY DEF BindingInv
<1>13. Fit(t', sess.ops, bindCache, p)
  BY <1>2, <1>12, QueuesWhere DEF Fit
<1>14. QueuesOK(t', sess.ops, sess.last, bindCache)
  BY <1>10, <1>12, <1>13, QueuesElse
<1>15. CachesRight
  BY <1>3, CachesSame
<1>16. PodsOK(pv, pvc, astray', pod') /\ SessionOK(opt, sess)
  BY <1>3, PodsUnchanged DEF BindingInv
<1> QED
  BY <1>3, <1>11, <1>14, <1>15, <1>16, TaskStep

\* The devices' handlers write annotations only.
LEMMA PatchedSame ==
    ASSUME BindingInv, NEW p, NEW n, NEW offer, NEW otherwise, Patched(p, n, offer, otherwise)
    PROVE  SameNodes(pod, pod')
<1>1. SameNodes(pod, pod)
  BY NodesSame DEF BindingInv
<1>2. ASSUME Annotate(p, offer.dev) PROVE SameNodes(pod, pod')
  BY <1>2, AnnotateSame DEF BindingInv
<1>3. Annotate(p, offer.dev) \/ pod' = pod
  BY DEF Patched
<1> QED
  BY <1>1, <1>2, <1>3

\* The handler that allocates.
LEMMA AllocateFuncSame ==
    ASSUME BindingInv, NEW p, NEW n, NEW counted, AllocateFunc(p, n, counted)
    PROVE  SameNodes(pod, pod')
<1>1. pod' = pod => SameNodes(pod, pod')
  BY NodesSame DEF BindingInv
<1>2. CASE ~HasDeviceRequest(opt.dev, p)
  BY <1>1, <1>2 DEF AllocateFunc
<1>3. ASSUME vgpuAllocate(p, n, counted) PROVE SameNodes(pod, pod')
  BY <1>1, <1>3, PatchedSame DEF vgpuAllocate
<1>4. ASSUME gpushareAllocate(p, n, counted) PROVE SameNodes(pod, pod')
  BY <1>1, <1>4, PatchedSame DEF gpushareAllocate
<1> QED
  BY <1>2, <1>3, <1>4 DEF AllocateFunc

\* The handler that takes back.
LEMMA DeallocateFuncSame ==
    ASSUME BindingInv, NEW p, NEW n, NEW counted, DeallocateFunc(p, n, counted)
    PROVE  SameNodes(pod, pod')
<1>1. pod' = pod => SameNodes(pod, pod')
  BY NodesSame DEF BindingInv
<1>2. ASSUME Annotate(p, <<>>) PROVE SameNodes(pod, pod')
  BY <1>2, AnnotateSame DEF BindingInv
<1>3. Annotate(p, <<>>) \/ pod' = pod
  BY DEF DeallocateFunc, Release
<1> QED
  BY <1>1, <1>2, <1>3

\* A task's volumes are assumed and the task is allocated, or not.
AllocateGone(p) ==
    /\ AssumePodVolumes(t[p].vols, t[p].node)
    /\ t' = Without(t, p)
    /\ UNCHANGED <<sess, cards, pod, podFeed, lock, left, astray>>
AllocateDone(p) ==
    LET n == t[p].node
        bound == arePodVolumesBound(p)
    IN /\ IF bound THEN UNCHANGED <<pvCache, pvcCache>>
          ELSE AssumePodVolumes(t[p].vols, n)
       /\ t' = [t EXCEPT ![p] = [t[p] EXCEPT !.st = "allocated", !.ready = bound,
                                   !.vols = IF bound THEN @ ELSE Assumed(@, n)]]
       /\ sess' = [sess EXCEPT !.ops = Append(@, p),
                               !.last = IF opt.min > 0 THEN p ELSE ""]
       /\ astray' = IF bound /\ t[p].vols # NoVols THEN astray \cup {p} ELSE astray
       /\ IF n \in DOMAIN cards
          THEN AllocateFunc(p, n, AddResource(opt.dev, cards[n], p, sess.copy[p]))
          ELSE UNCHANGED <<cards, pod, podFeed, lock, left>>

\* Allocate is one of the two.
LEMMA AllocateIs ==
    ASSUME NEW p, Allocate(p)
    PROVE  /\ p \in DOMAIN t /\ t[p].st = "found"
           /\ UNCHANGED <<pv, pvc, volFeed, opt, shake, k, bindCache, errTasks>>
           /\ AllocateGone(p) \/ AllocateDone(p)
  BY Zenon DEF Allocate, AllocateGone, AllocateDone

\* The pod found no volumes at the moment they were to be assumed.
LEMMA AllocateGoneStep ==
    ASSUME BindingInv, NEW p, Allocate(p), AllocateGone(p)
    PROVE  BindingInv'
<1>1. /\ p \in DOMAIN t /\ t[p].st = "found"
      /\ UNCHANGED <<pv, pvc, volFeed, opt, bindCache>>
  BY AllocateIs
<1>2. t' = Without(t, p) /\ UNCHANGED <<sess, pod, astray>>
  BY DEF AllocateGone
<1>3. VolsOK(pv, pvc, t[p].vols)
  BY <1>1 DEF BindingInv, TasksOK, TaskOK
<1>4. CachesRight
  BY <1>3, AssumePodVolumesOK DEF AllocateGone, BindingInv, CachesRight
<1>5. TaskRight(p) /\ Elsewhere(t, t', p)
  BY <1>2, DroppedRight DEF TaskRight
<1>6. QueuesOK(t, sess.ops, sess.last, bindCache)
  BY DEF BindingInv
<1>7. Fit(t', sess.ops, bindCache, p)
  BY <1>1, <1>6, QueuesWhere DEF Fit
<1>8. QueuesOK(t', sess.ops, sess.last, bindCache)
  BY <1>5, <1>6, <1>7, QueuesElse
<1>9. PodsOK(pv, pvc, astray', pod') /\ SessionOK(opt, sess)
  BY <1>2, PodsUnchanged DEF BindingInv
<1> QED
  BY <1>1, <1>2, <1>4, <1>5, <1>8, <1>9, TaskStep

\* The task is allocated: its volumes are all bound, or those it found are assumed.
LEMMA AllocateDoneStep ==
    ASSUME BindingInv, NEW p, Allocate(p), AllocateDone(p)
    PROVE  BindingInv'
<1> DEFINE n == t[p].node
           bound == arePodVolumesBound(p)
           V == IF bound THEN t[p].vols ELSE Assumed(t[p].vols, n)
           r == Task("allocated", n, V, t[p].none, bound, t[p].i)
           L == IF opt.min > 0 THEN p ELSE ""
<1>1. p \in DOMAIN t /\ t[p].st = "found" /\ UNCHANGED <<pv, pvc, volFeed, opt, bindCache>>
  BY AllocateIs
<1>2. /\ TaskOK(pv, pvc, astray, p, t[p]) /\ ObjectsOK(pv, pvc) /\ n \in opt.nodes
      /\ QueuesOK(t, sess.ops, sess.last, bindCache) /\ SessionOK(opt, sess)
  BY <1>1 DEF BindingInv, TasksOK, InstanceOK
<1>3. /\ IsTask(t[p]) /\ t[p].i \in Nat \ {0} /\ VolsOK(pv, pvc, t[p].vols)
      /\ t[p].none \in BOOLEAN /\ ~t[p].none
  BY <1>1, <1>2 DEF TaskOK
<1>4. /\ IF bound THEN UNCHANGED <<pvCache, pvcCache>> ELSE AssumePodVolumes(t[p].vols, n)
      /\ t' = [t EXCEPT ![p] = [t[p] EXCEPT !.st = "allocated", !.ready = bound, !.vols = V]]
      /\ sess' = [sess EXCEPT !.ops = Append(sess.ops, p), !.last = L]
      /\ astray' = IF bound /\ t[p].vols # NoVols THEN astray \cup {p} ELSE astray
      /\ IF n \in DOMAIN cards
         THEN AllocateFunc(p, n, AddResource(opt.dev, cards[n], p, sess.copy[p]))
         ELSE UNCHANGED <<cards, pod, podFeed, lock, left>>
  BY DEF AllocateDone
<1>5. bound \in BOOLEAN
  BY DEF arePodVolumesBound
<1>6. VolsOK(pv, pvc, V) /\ Chosen(V) = Chosen(t[p].vols)
  BY <1>3, AssumedOK
<1>7. p \in astray' \/ ClaimsOK(pv, pvc, p, "allocated", n, V, bound)
  <2>1. CASE bound /\ t[p].vols # NoVols
    BY <2>1, <1>4
  <2>2. CASE bound /\ t[p].vols = NoVols
    <3>1. Chosen(t[p].vols) = {}
      BY <2>2 DEF Chosen, NoVols, ClaimsIn
    <3>2. p \in astray \/ \A c \in ClaimsOf(p) : Settled(pv, pvc, c, n)
      BY <1>2, <1>3, <3>1 DEF TaskOK
    <3>3. astray' = astray
      BY <2>2, <1>4
    <3> QED
      BY <3>2, <3>3 DEF ClaimsOK
  <2>3. CASE ~bound
    <3>1. p \in astray \/ \A c \in ClaimsOf(p) : Settled(pv, pvc, c, n) \/ c \in Chosen(V)
      BY <1>2, <1>3, <1>6 DEF TaskOK
    <3>2. astray' = astray
      BY <2>3, <1>4
    <3> QED
      BY <2>3, <3>1, <3>2 DEF ClaimsOK
  <2> QED
    BY <2>1, <2>2, <2>3
<1>8. astray \subseteq astray'
  BY <1>4
<1>9. CachesRight
  <2>1. VolumesCached(pv, pvc, pvCache) /\ ClaimsCached(pvc, pvcCache)
    BY DEF BindingInv
  <2>2. CASE bound
    BY <2>1, <2>2, <1>4 DEF CachesRight
  <2>3. CASE ~bound
    BY <2>1, <2>3, <1>3, <1>4, AssumePodVolumesOK DEF CachesRight
  <2> QED
    BY <2>2, <2>3
<1>10. [t[p] EXCEPT !.st = "allocated", !.ready = bound, !.vols = V] = r
  <2>1. n = t[p].node
    OBVIOUS
  <2>2. [t[p] EXCEPT !.st = "allocated", !.ready = bound, !.vols = V]
          = AllocatedTask(t[p], bound, V)
    BY Zenon DEF AllocatedTask
  <2> HIDE DEF bound, V, n
  <2>3. AllocatedTask(t[p], bound, V) = Task("allocated", t[p].node, V, t[p].none, bound, t[p].i)
    BY <1>3, NamedChanges
  <2> QED
    BY <2>1, <2>2, <2>3
<1>11. TaskOK(pv, pvc, astray', p, r) /\ r.node = n /\ r.st = "allocated"
  <2> HIDE DEF bound, V, n
  <2>1. TaskOK(pv, pvc, astray', p, r)
    BY <1>3, <1>5, <1>6, <1>7, TaskOKIs
  <2>2. r.node = n /\ r.st = "allocated"
    BY DEF Task
  <2> QED
    BY <2>1, <2>2
<1> HIDE DEF r
<1>12. t' = [t EXCEPT ![p] = r]
  BY <1>4, <1>10
<1>13. Elsewhere(t, t', p) /\ p \in DOMAIN t' /\ t'[p] = r
  BY <1>1, <1>12 DEF Elsewhere
<1>14. TaskRight(p)
  BY <1>2, <1>11, <1>13 DEF TaskRight
<1>15. ~On(sess.ops, p) /\ ~On(bindCache, p)
  BY <1>1, <1>2, QueuesWhere
<1>16. QueuesOK(t', sess.ops, sess.last, bindCache)
  BY <1>2, <1>13, <1>15, QueuesElse DEF Fit
<1>17. QueuesOK(t', Append(sess.ops, p), L, bindCache)
  BY <1>11, <1>13, <1>15, <1>16, OpsAppend DEF Allocated, LastOf
<1>18. IsSession(sess) /\ (sess.undo => opt.min = 0)
  BY <1>2 DEF SessionOK
<1>19. /\ IsSession(sess') /\ sess'.ops = Append(sess.ops, p) /\ sess'.last = L
       /\ sess'.undo = sess.undo
  <2> HIDE DEF L
  <2>1. sess' = Sess(sess.open, sess.copy, Append(sess.ops, p), L, sess.undo)
    BY <1>4, <1>18, SessChanges, ZenonT(60)
  <2> QED
    BY <2>1 DEF Sess, IsSession
<1>20. SessionOK(opt, sess')
  <2>1. opt.min = 0 => L = ""
    OBVIOUS
  <2> HIDE DEF L
  <2> QED
    BY <1>18, <1>19, <2>1 DEF SessionOK
<1>21. SameNodes(pod, pod')
  <2>1. CASE n \in DOMAIN cards
    BY <2>1, <1>4, AllocateFuncSame
  <2>2. CASE n \notin DOMAIN cards
    BY <2>2, <1>4, NodesSame DEF BindingInv
  <2> QED
    BY <2>1, <2>2
<1>22. PodsOK(pv, pvc, astray', pod')
  BY <1>8, <1>21, PodsStep
<1>23. QueuesOK(t', sess'.ops, sess'.last, bindCache')
  BY <1>1, <1>17, <1>19
<1> QED
  BY <1>1, <1>8, <1>9, <1>14, <1>20, <1>22, <1>23, TaskStep

\* A task whose volumes are let go keeps its place.
LEMMA LetGoRight ==
    ASSUME BindingInv, NEW p \in DOMAIN t, LetGo(p), t[p].st = "allocated", UNCHANGED astray
    PROVE  /\ TaskRight(p) /\ Elsewhere(t, t', p) /\ p \in DOMAIN t' /\ t'[p].st = t[p].st
           /\ CachesRight
<1> DEFINE r == Task(t[p].st, t[p].node, NoVols, TRUE, FALSE, t[p].i)
<1>1. TaskOK(pv, pvc, astray, p, t[p]) /\ t[p].node \in opt.nodes
  BY DEF BindingInv, TasksOK, InstanceOK
<1>2. IsTask(t[p]) /\ t[p].i \in Nat \ {0}
  BY <1>1 DEF TaskOK
<1>3. [t[p] EXCEPT !.none = TRUE, !.ready = FALSE, !.vols = NoVols] = r
  <2>1. [t[p] EXCEPT !.none = TRUE, !.ready = FALSE, !.vols = NoVols]
          = LetGone(t[p], TRUE, FALSE, NoVols)
    BY Zenon DEF LetGone
  <2>2. \A x, y, z : LetGone(t[p], x, y, z) = Task(t[p].st, t[p].node, z, x, y, t[p].i)
    BY <1>2, NamedChanges
  <2>3. LetGone(t[p], TRUE, FALSE, NoVols) = r
    BY <2>2, Zenon
  <2> QED
    BY <2>1, <2>3
<1>4. t' = [t EXCEPT ![p] = [t[p] EXCEPT !.none = TRUE, !.ready = FALSE, !.vols = NoVols]]
  BY DEF LetGo
<1>5. /\ r.st = t[p].st /\ r.node = t[p].node /\ r.vols = NoVols /\ r.i = t[p].i
      /\ r.none = TRUE /\ r.ready = FALSE /\ IsTask(r)
  <2>0. r = Task(t[p].st, t[p].node, NoVols, TRUE, FALSE, t[p].i)
    OBVIOUS
  <2> HIDE DEF r
  <2>1. r.st = t[p].st /\ r.node = t[p].node /\ r.vols = NoVols /\ r.i = t[p].i
    BY <2>0 DEF Task
  <2>2. r.none = TRUE
    BY <2>0 DEF Task
  <2>3. r.ready = FALSE
    BY <2>0 DEF Task
  <2>4. IsTask(r)
    BY <2>0, <2>1, <2>2, <2>3, Zenon DEF Task, IsTask
  <2> QED
    BY <2>1, <2>2, <2>3, <2>4
<1> HIDE DEF r
<1>6. VolsOK(pv, pvc, NoVols)
  BY DEF VolsOK, NoVols, IsSeq, Range
<1>7. r.none \in BOOLEAN /\ r.ready \in BOOLEAN /\ r.none /\ ~r.ready
  BY <1>5, Zenon
<1>8. r.st \in {"allocated", "queued"} /\ r.i \in Nat \ {0} /\ VolsOK(pv, pvc, r.vols)
  BY <1>2, <1>5, <1>6
<1>9. TaskOK(pv, pvc, astray', p, r)
  BY <1>5, <1>7, <1>8, Zenon DEF TaskOK
<1>10. Elsewhere(t, t', p) /\ p \in DOMAIN t' /\ t'[p] = r
  BY <1>3, <1>4 DEF Elsewhere
<1>11. RevertVolumes(p)
  BY DEF LetGo
<1> QED
  BY <1>1, <1>5, <1>9, <1>10, <1>11, CachesReverted DEF TaskRight

\* The task allocated last is in the session's list.
HasLast == sess.last # ""
\* It is allocated, and not with the binder.
LEMMA LastIsOn ==
    ASSUME BindingInv, HasLast
    PROVE  /\ On(sess.ops, sess.last) /\ sess.last \in DOMAIN t /\ t[sess.last].st = "allocated"
           /\ ~On(bindCache, sess.last)
<1>1. QueuesOK(t, sess.ops, sess.last, bindCache)
  BY DEF BindingInv
<1>2. sess.ops # <<>> /\ sess.last = sess.ops[Len(sess.ops)] /\ IsSeq(sess.ops)
  BY <1>1 DEF QueuesOK, HasLast
<1>3. Len(sess.ops) \in DOMAIN sess.ops
  <2>1. Len(sess.ops) \in Nat \ {0} /\ DOMAIN sess.ops = 1 .. Len(sess.ops)
    BY <1>2, TailIs
  <2> QED
    BY <2>1
<1>4. On(sess.ops, sess.last)
  BY <1>2, <1>3 DEF On
<1> QED
  BY <1>1, <1>4, QueuesWhere

\* A task's state changes.
MayBecome(p, x) ==
    LET r == t[p]
    IN /\ r.none => ~r.ready /\ x \in {"allocated", "queued"}
       /\ p \in astray' \/ r.none \/ ClaimsOK(pv, pvc, p, x, r.node, r.vols, r.ready)

\* The task is right in its new state if it may have it.
LEMMA BecomeRight ==
    ASSUME BindingInv, NEW p \in DOMAIN t, NEW x, t' = [t EXCEPT ![p] = Become(t[p], x)],
           MayBecome(p, x)
    PROVE  TaskRight(p) /\ Elsewhere(t, t', p) /\ p \in DOMAIN t' /\ t'[p].st = x
<1> DEFINE r == Task(x, t[p].node, t[p].vols, t[p].none, t[p].ready, t[p].i)
<1>1. TaskOK(pv, pvc, astray, p, t[p]) /\ t[p].node \in opt.nodes
  BY DEF BindingInv, TasksOK, InstanceOK
<1>2. /\ IsTask(t[p]) /\ t[p].i \in Nat \ {0} /\ t[p].none \in BOOLEAN /\ t[p].ready \in BOOLEAN
      /\ VolsOK(pv, pvc, t[p].vols)
  BY <1>1 DEF TaskOK
<1>3. Become(t[p], x) = r
  BY <1>2, NamedChanges
<1>4. TaskOK(pv, pvc, astray', p, r)
  BY <1>2, TaskOKIs DEF MayBecome
<1>5. r.node = t[p].node /\ r.st = x
  BY DEF Task
<1> HIDE DEF r
<1>6. Elsewhere(t, t', p) /\ p \in DOMAIN t' /\ t'[p] = r
  BY <1>3 DEF Elsewhere
<1> QED
  BY <1>1, <1>4, <1>5, <1>6 DEF TaskRight

\* The job is not ready.
LEMMA NotReadyStep ==
    ASSUME BindingInv, NotReady
    PROVE  BindingInv'
<1> DEFINE p == sess.last
<1>1. /\ HasLast /\ LetGo(p) /\ sess' = [sess EXCEPT !.last = ""]
      /\ UNCHANGED <<pv, pvc, volFeed, opt, pod, bindCache, astray>>
  BY DEF NotReady, HasLast
<1>2. /\ On(sess.ops, p) /\ p \in DOMAIN t /\ t[p].st = "allocated" /\ ~On(bindCache, p)
  BY <1>1, LastIsOn
<1>3. /\ TaskRight(p) /\ Elsewhere(t, t', p) /\ p \in DOMAIN t' /\ t'[p].st = t[p].st
      /\ CachesRight
  BY <1>1, <1>2, LetGoRight
<1> HIDE DEF p
<1>4. QueuesOK(t, sess.ops, sess.last, bindCache) /\ SessionOK(opt, sess)
  BY DEF BindingInv
<1>5. QueuesOK(t', sess.ops, sess.last, bindCache)
  BY <1>2, <1>3, <1>4, QueuesElse DEF Fit
<1>6. /\ IsSession(sess') /\ sess'.ops = sess.ops /\ sess'.last = "" /\ sess'.undo = sess.undo
  <2>1. sess' = Sess(sess.open, sess.copy, sess.ops, "", sess.undo)
    BY <1>1, <1>4, SessChanges DEF SessionOK
  <2> QED
    BY <2>1 DEF Sess, IsSession
<1>7. QueuesOK(t', sess'.ops, sess'.last, bindCache')
  <2>1. ~(sess'.last # "")
    BY <1>6
  <2>2. QueuesOK(t', sess.ops, sess'.last, bindCache)
    BY <1>5, <2>1, Zenon DEF QueuesOK
  <2> QED
    BY <1>1, <1>6, <2>2
<1>8. SessionOK(opt, sess')
  BY <1>4, <1>6 DEF SessionOK
<1>9. PodsOK(pv, pvc, astray', pod')
  BY <1>1, PodsUnchanged
<1> QED
  BY <1>1, <1>3, <1>7, <1>8, <1>9, TaskStep

\* The next task is given to the binder.
CommitKnown(p) ==
    /\ AddBindTask(p)
    /\ sess' = [sess EXCEPT !.ops = Tail(sess.ops), !.copy = Without(sess.copy, p),
                            !.last = IF Len(sess.ops) = 1 THEN "" ELSE sess.last]
CommitGone(p) ==
    /\ opt.min = 0 /\ RevertVolumes(p)
    /\ t' = Without(t, p)
    /\ sess' = [sess EXCEPT !.ops = Tail(sess.ops), !.copy = Without(sess.copy, p)]
    /\ UNCHANGED bindCache
CommitLetsGo ==
    /\ HasLast /\ LetGo(sess.last)
    /\ sess' = [sess EXCEPT !.last = ""]
    /\ UNCHANGED bindCache

\* Commit is one of the three.
LEMMA CommitIs ==
    ASSUME Commit
    PROVE  /\ sess.ops # <<>>
           /\ UNCHANGED <<pv, pvc, volFeed, opt, pod, astray>>
           /\ CommitKnown(Head(sess.ops)) \/ CommitGone(Head(sess.ops)) \/ CommitLetsGo
<1>1. sess.ops # <<>> /\ UNCHANGED <<pv, pvc, volFeed, opt, pod, astray>>
  BY DEF Commit
<1> DEFINE p == Head(sess.ops)
           known == p \in DOMAIN k /\ k[p].st = "pending"
<1>2. CASE known
  BY <1>2, Zenon DEF Commit, CommitKnown
<1>3. CASE ~known /\ opt.min = 0
  BY <1>3, Zenon DEF Commit, CommitGone
<1>4. CASE ~known /\ opt.min # 0
  BY <1>4, Zenon DEF Commit, CommitLetsGo, HasLast
<1> QED
  BY <1>1, <1>2, <1>3, <1>4

\* The cache knows the task as pending: it is for the binder.
LEMMA CommitKnownStep ==
    ASSUME BindingInv, Commit, CommitKnown(Head(sess.ops))
    PROVE  BindingInv'
<1> DEFINE p == Head(sess.ops)
           ops == Tail(sess.ops)
           L == IF Len(sess.ops) = 1 THEN "" ELSE sess.last
<1>1. sess.ops # <<>> /\ UNCHANGED <<pv, pvc, volFeed, opt, pod, astray>>
  BY CommitIs
<1>2. /\ t' = [t EXCEPT ![p] = Become(t[p], "queued")]
      /\ sess' = [sess EXCEPT !.ops = ops, !.copy = Without(sess.copy, p), !.last = L]
      /\ bindCache' = Append(bindCache, p)
      /\ UNCHANGED <<pvCache, pvcCache>>
  BY DEF CommitKnown, AddBindTask, Become
<1>3. QueuesOK(t, sess.ops, sess.last, bindCache) /\ SessionOK(opt, sess)
  BY DEF BindingInv
<1>4. LastAfter(sess.ops, sess.last, L)
  BY DEF LastAfter
<1> HIDE DEF L
<1>5. QueuesOK(t, ops, L, bindCache) /\ On(sess.ops, p) /\ ~On(ops, p)
  BY <1>1, <1>3, <1>4, OpsTail
<1>6. p \in DOMAIN t /\ t[p].st = "allocated" /\ ~On(bindCache, p)
  BY <1>3, <1>5, QueuesWhere
<1> HIDE DEF p, ops
<1>7. MayBecome(p, "queued")
  <2>1. TaskOK(pv, pvc, astray, p, t[p])
    BY <1>6 DEF BindingInv, TasksOK
  <2>2. /\ t[p].none => ~t[p].ready
        /\ p \in astray \/ t[p].none \/ ClaimsOK(pv, pvc, p, "queued", t[p].node, t[p].vols, t[p].ready)
    BY <2>1, <1>6 DEF TaskOK, ClaimsOK
  <2> QED
    BY <2>2, <1>1 DEF MayBecome
<1>8. TaskRight(p) /\ Elsewhere(t, t', p) /\ p \in DOMAIN t' /\ t'[p].st = "queued"
  BY <1>2, <1>6, <1>7, BecomeRight
<1>9. QueuesOK(t', ops, L, bindCache)
  BY <1>5, <1>6, <1>8, QueuesElse DEF Fit
<1>10. QueuesOK(t', ops, L, bindCache')
  BY <1>2, <1>6, <1>8, <1>9, QueueAppend
<1>11. IsSession(sess') /\ sess'.ops = ops /\ sess'.last = L /\ sess'.undo = sess.undo
  <2>1. \A x, y, z : [sess EXCEPT !.ops = x, !.copy = y, !.last = z]
                      = Sess(sess.open, y, x, z, sess.undo)
    BY <1>3, SessChanges DEF SessionOK
  <2>2. sess' = Sess(sess.open, Without(sess.copy, p), ops, L, sess.undo)
    BY <1>2, <2>1, Zenon
  <2> QED
    BY <2>2, SessIs
<1>12. SessionOK(opt, sess')
  <2>1. L = "" \/ L = sess.last
    BY DEF L
  <2> QED
    BY <1>3, <1>11, <2>1 DEF SessionOK
<1>13. PodsOK(pv, pvc, astray', pod') /\ CachesRight
  BY <1>1, <1>2, PodsUnchanged, CachesSame
<1>14. QueuesOK(t', sess'.ops, sess'.last, bindCache')
  BY <1>10, <1>11
<1> QED
  BY <1>1, <1>8, <1>12, <1>13, <1>14, TaskStep

\* It does not, and the statement reverts the task.
LEMMA CommitGoneStep ==
    ASSUME BindingInv, Commit, CommitGone(Head(sess.ops))
    PROVE  BindingInv'
<1> DEFINE p == Head(sess.ops)
           ops == Tail(sess.ops)
<1>1. sess.ops # <<>> /\ UNCHANGED <<pv, pvc, volFeed, opt, pod, astray>>
  BY CommitIs
<1>2. /\ opt.min = 0 /\ RevertVolumes(p) /\ t' = Without(t, p)
      /\ sess' = [sess EXCEPT !.ops = ops, !.copy = Without(sess.copy, p)]
      /\ bindCache' = bindCache
  BY DEF CommitGone
<1>3. QueuesOK(t, sess.ops, sess.last, bindCache) /\ SessionOK(opt, sess)
  BY DEF BindingInv
<1>4. LastAfter(sess.ops, sess.last, sess.last)
  BY <1>2, <1>3 DEF LastAfter, SessionOK
<1>5. QueuesOK(t, ops, sess.last, bindCache) /\ On(sess.ops, p) /\ ~On(ops, p)
  BY <1>1, <1>3, <1>4, OpsTail
<1>6. p \in DOMAIN t /\ ~On(bindCache, p)
  BY <1>3, <1>5, QueuesWhere
<1> HIDE DEF p, ops
<1>8. TaskRight(p) /\ Elsewhere(t, t', p)
  BY <1>2, DroppedRight DEF TaskRight
<1>9. QueuesOK(t', ops, sess.last, bindCache)
  BY <1>5, <1>6, <1>8, QueuesElse DEF Fit
<1>11. IsSession(sess') /\ sess'.ops = ops /\ sess'.last = sess.last /\ sess'.undo = sess.undo
  <2>1. \A x, y : [sess EXCEPT !.ops = x, !.copy = y] = Sess(sess.open, y, x, sess.last, sess.undo)
    BY <1>3, SessChanges DEF SessionOK
  <2>2. sess' = Sess(sess.open, Without(sess.copy, p), ops, sess.last, sess.undo)
    BY <1>2, <2>1, Zenon
  <2> QED
    BY <2>2, SessIs
<1>12. SessionOK(opt, sess')
  BY <1>3, <1>11 DEF SessionOK
<1>13. PodsOK(pv, pvc, astray', pod') /\ CachesRight
  BY <1>1, <1>2, PodsUnchanged, CachesReverted
<1>14. QueuesOK(t', sess'.ops, sess'.last, bindCache')
  BY <1>2, <1>9, <1>11
<1> QED
  BY <1>1, <1>8, <1>12, <1>13, <1>14, TaskStep

\* It does not, and the session lets go the volumes of the task allocated last.
LEMMA CommitLetsGoStep ==
    ASSUME BindingInv, Commit, CommitLetsGo
    PROVE  BindingInv'
<1> DEFINE p == sess.last
<1>1. /\ HasLast /\ LetGo(p) /\ sess' = [sess EXCEPT !.last = ""]
      /\ UNCHANGED <<pv, pvc, volFeed, opt, pod, bindCache, astray>>
  BY CommitIs DEF CommitLetsGo
<1>2. /\ On(sess.ops, p) /\ p \in DOMAIN t /\ t[p].st = "allocated" /\ ~On(bindCache, p)
  BY <1>1, LastIsOn
<1>3. /\ TaskRight(p) /\ Elsewhere(t, t', p) /\ p \in DOMAIN t' /\ t'[p].st = t[p].st
      /\ CachesRight
  BY <1>1, <1>2, LetGoRight
<1> HIDE DEF p
<1>4. QueuesOK(t, sess.ops, sess.last, bindCache) /\ SessionOK(opt, sess)
  BY DEF BindingInv
<1>5. QueuesOK(t', sess.ops, sess.last, bindCache)
  BY <1>2, <1>3, <1>4, QueuesElse DEF Fit
<1>6. /\ IsSession(sess') /\ sess'.ops = sess.ops /\ sess'.last = "" /\ sess'.undo = sess.undo
  <2>1. sess' = Sess(sess.open, sess.copy, sess.ops, "", sess.undo)
    BY <1>1, <1>4, SessChanges DEF SessionOK
  <2> QED
    BY <2>1 DEF Sess, IsSession
<1>7. QueuesOK(t', sess'.ops, sess'.last, bindCache')
  <2>1. ~(sess'.last # "")
    BY <1>6
  <2>2. QueuesOK(t', sess.ops, sess'.last, bindCache)
    BY <1>5, <2>1, Zenon DEF QueuesOK
  <2> QED
    BY <1>1, <1>6, <2>2
<1>8. SessionOK(opt, sess')
  BY <1>4, <1>6 DEF SessionOK
<1>9. PodsOK(pv, pvc, astray', pod')
  BY <1>1, PodsUnchanged
<1> QED
  BY <1>1, <1>3, <1>7, <1>8, <1>9, TaskStep

\* Some tasks are dropped; the session changes.
Fewer(T, T2) == DOMAIN T2 \subseteq DOMAIN T /\ \A p \in DOMAIN T2 : T2[p] = T[p]
\* Nothing but the session and the tasks it drops changes.
LEMMA SessionStep ==
    ASSUME BindingInv, UNCHANGED <<pv, pvc, pvCache, pvcCache, volFeed, opt, pod, astray>>,
           Fewer(t, t'), SessionOK(opt, sess'), QueuesOK(t', sess'.ops, sess'.last, bindCache')
    PROVE  BindingInv'
<1>1. /\ InstanceOK(opt, t) /\ ObjectsOK(pv, pvc) /\ FeedOK(pv, pvc, volFeed)
      /\ VolumesCached(pv, pvc, pvCache) /\ ClaimsCached(pvc, pvcCache)
      /\ TasksOK(pv, pvc, astray, t) /\ PodsOK(pv, pvc, astray, pod)
  BY DEF BindingInv
<1>2. InstanceOK(opt, t') /\ TasksOK(pv, pvc, astray, t')
  BY <1>1 DEF InstanceOK, TasksOK, Fewer
<1>3. /\ InstanceOK(opt, t)' /\ ObjectsOK(pv, pvc)' /\ FeedOK(pv, pvc, volFeed)'
      /\ VolumesCached(pv, pvc, pvCache)' /\ ClaimsCached(pvc, pvcCache)'
      /\ TasksOK(pv, pvc, astray, t)' /\ SessionOK(opt, sess)'
      /\ QueuesOK(t, sess.ops, sess.last, bindCache)' /\ PodsOK(pv, pvc, astray, pod)'
  BY <1>1, <1>2
<1> QED
  BY <1>3, Zenon DEF BindingInv

\* A session that has allocated nothing.
LEMMA NewSession ==
    ASSUME NEW o, NEW s, NEW x, NEW y, NEW e, NEW l, NEW u, s = Sess(x, y, e, l, u),
           NoneLast(l), ~u
    PROVE  SessionOK(o, s) /\ s.ops = e /\ s.last = l
<1>1. IsSession(s) /\ s.ops = e /\ s.last = l /\ s.undo = u
  BY SessIs
<1>2. ~s.undo
  BY <1>1, Zenon
<1> QED
  BY <1>1, <1>2, Zenon DEF SessionOK, NoneLast

\* No session.
LEMMA ClosedSession ==
    ASSUME NEW o
    PROVE  SessionOK(o, NoSession) /\ NoSession.ops = <<>> /\ NoSession.last = ""
<1> DEFINE no == FALSE
           e == <<>>
           l == ""
<1>1. NoSession = Sess(no, e, e, l, no)
  BY DEF NoSession, Sess
<1>2. ~no /\ NoneLast(l)
  BY DEF NoneLast
<1>3. e = <<>> /\ l = ""
  OBVIOUS
<1> HIDE DEF no, e, l
<1>4. SessionOK(o, NoSession) /\ NoSession.ops = e /\ NoSession.last = l
  BY <1>1, <1>2, NewSession
<1> QED
  BY <1>3, <1>4, Zenon

\* No task is with the session then.
LEMMA QueuesNone ==
    ASSUME NEW T, NEW ops, NEW last, NEW queue, QueuesOK(T, ops, last, queue)
    PROVE  QueuesOK(T, <<>>, "", queue)
<1>1. IsSeq(<<>>) /\ DOMAIN <<>> = {} /\ ~("" # "")
  BY DEF IsSeq, Range
<1> QED
  BY <1>1, Zenon DEF QueuesOK

\* A session is opened.
LEMMA OpenSessionStep ==
    ASSUME BindingInv, OpenSession
    PROVE  BindingInv'
<1> DEFINE c == [p \in {q \in DOMAIN k : k[q].st = "pending"} |-> k[p].dev]
           yes == TRUE
           no == FALSE
           e == <<>>
           l == ""
<1>1. /\ sess' = [NoSession EXCEPT !.open = yes, !.copy = c]
      /\ UNCHANGED <<pv, pvc, pvCache, pvcCache, volFeed, opt, pod, t, bindCache, astray>>
  BY DEF OpenSession, volVars
<1>2. NoSession = Sess(no, e, e, l, no)
  BY DEF NoSession, Sess
<1>3. ~no /\ NoneLast(l)
  BY DEF NoneLast
<1>0. e = <<>> /\ l = ""
  OBVIOUS
<1> HIDE DEF c, yes, no, e, l
<1>4. IsSession(NoSession) /\ NoSession.ops = e /\ NoSession.last = l /\ NoSession.undo = no
  BY <1>2, SessIs
<1>5. \A x, y : [NoSession EXCEPT !.open = x, !.copy = y]
                = Sess(x, y, NoSession.ops, NoSession.last, NoSession.undo)
  BY <1>4, SessChanges
<1>6. sess' = Sess(yes, c, e, l, no)
  <2>1. sess' = Sess(yes, c, NoSession.ops, NoSession.last, NoSession.undo)
    BY <1>1, <1>5, Zenon
  <2> QED
    BY <1>4, <2>1
<1>7. SessionOK(opt, sess') /\ sess'.ops = <<>> /\ sess'.last = ""
  <2>1. SessionOK(opt, sess') /\ sess'.ops = e /\ sess'.last = l
    BY <1>3, <1>6, NewSession
  <2> QED
    BY <1>0, <2>1, Zenon
<1>8. QueuesOK(t, <<>>, "", bindCache)
  BY QueuesNone DEF BindingInv
<1>9. QueuesOK(t', sess'.ops, sess'.last, bindCache')
  BY <1>1, <1>7, <1>8
<1>10. Fewer(t, t')
  BY <1>1 DEF Fewer
<1> QED
  BY <1>1, <1>7, <1>9, <1>10, SessionStep

\* The statement is to be discarded.
LEMMA DiscardStep ==
    ASSUME BindingInv, Discard
    PROVE  BindingInv'
<1> DEFINE yes == TRUE
<1>1. /\ opt.min = 0 /\ sess' = [sess EXCEPT !.undo = yes]
      /\ UNCHANGED <<pv, pvc, pvCache, pvcCache, volFeed, opt, pod, t, bindCache, astray>>
  BY DEF Discard, volVars
<1> HIDE DEF yes
<1>2. SessionOK(opt, sess) /\ QueuesOK(t, sess.ops, sess.last, bindCache)
  BY DEF BindingInv
<1>3. \A x : [sess EXCEPT !.undo = x] = Sess(sess.open, sess.copy, sess.ops, sess.last, x)
  BY <1>2, SessChanges DEF SessionOK
<1>4. sess' = Sess(sess.open, sess.copy, sess.ops, sess.last, yes)
  BY <1>1, <1>3, Zenon
<1>5. IsSession(sess') /\ sess'.ops = sess.ops /\ sess'.last = sess.last
  BY <1>4, SessIs
<1>6. SessionOK(opt, sess')
  BY <1>1, <1>2, <1>5 DEF SessionOK
<1>7. QueuesOK(t', sess'.ops, sess'.last, bindCache')
  BY <1>1, <1>2, <1>5
<1>8. Fewer(t, t')
  BY <1>1 DEF Fewer
<1> QED
  BY <1>1, <1>6, <1>7, <1>8, SessionStep

\* A session ends, and what it had allocated to a job that did not get ready with it.
LEMMA CloseSessionStep ==
    ASSUME BindingInv, CloseSession
    PROVE  BindingInv'
<1>1. /\ sess' = NoSession /\ t' = Restrict(t, DOMAIN t \ Range(sess.ops))
      /\ UNCHANGED <<pv, pvc, pvCache, pvcCache, volFeed, opt, pod, bindCache, astray>>
  BY DEF CloseSession, volVars
<1>3. SessionOK(opt, sess') /\ sess'.ops = <<>> /\ sess'.last = ""
  BY <1>1, ClosedSession
<1>4. Fewer(t, t')
  BY <1>1 DEF Fewer, Restrict
<1>5. QueuesOK(t, sess.ops, sess.last, bindCache)
  BY DEF BindingInv
<1>6. QueuesOK(t, <<>>, "", bindCache)
  BY <1>5, QueuesNone
<1>7. ASSUME NEW i \in DOMAIN bindCache
      PROVE  bindCache[i] \in DOMAIN t' /\ t'[bindCache[i]].st \in {"queued", "writing"}
  <2>1. On(bindCache, bindCache[i])
    BY DEF On
  <2>2. /\ bindCache[i] \in DOMAIN t /\ t[bindCache[i]].st \in {"queued", "writing"}
        /\ ~On(sess.ops, bindCache[i])
    BY <1>5, <2>1, QueuesWhere
  <2>3. bindCache[i] \notin Range(sess.ops)
    BY <2>2 DEF On, Range
  <2> QED
    BY <1>1, <2>2, <2>3 DEF Restrict
<1>8. t' = [p \in DOMAIN t' |-> t'[p]]
  BY <1>1 DEF Restrict
<1>9. QueuesOK(t', sess'.ops, sess'.last, bindCache)
  <2>1. QueuesOK(t, sess'.ops, sess'.last, bindCache)
    BY <1>3, <1>6
  <2>2. \A i \in DOMAIN sess'.ops : sess'.ops[i] \in DOMAIN t' /\ t'[sess'.ops[i]].st = "allocated"
    <3>1. DOMAIN <<>> = {}
      OBVIOUS
    <3>2. DOMAIN sess'.ops = {}
      BY <1>3, <3>1, Zenon
    <3> QED
      BY <3>2, Zenon
  <2> QED
    BY <1>7, <1>8, <2>1, <2>2, Zenon DEF QueuesOK
<1>10. QueuesOK(t', sess'.ops, sess'.last, bindCache')
  BY <1>1, <1>9
<1> QED
  BY <1>1, <1>3, <1>4, <1>10, SessionStep

\* The last task of a discarded statement is taken back.
LEMMA UnallocateStep ==
    ASSUME BindingInv, unallocate
    PROVE  BindingInv'
<1> DEFINE p == Last(sess.ops)
           n == t[p].node
           ops == Front(sess.ops)
           u == Len(sess.ops) > 1
<1>1. /\ sess.undo /\ sess.ops # <<>> /\ RevertVolumes(p) /\ t' = Without(t, p)
      /\ sess' = [sess EXCEPT !.ops = ops, !.undo = u]
      /\ IF n \in DOMAIN cards
         THEN DeallocateFunc(p, n, SubResource(opt.dev, cards[n], p, sess.copy[p]))
         ELSE UNCHANGED <<cards, pod, podFeed, left>>
      /\ UNCHANGED <<pv, pvc, volFeed, opt, bindCache, astray>>
  BY DEF unallocate
<1>2. QueuesOK(t, sess.ops, sess.last, bindCache) /\ SessionOK(opt, sess)
  BY DEF BindingInv
<1>3. NoneLast(sess.last) /\ opt.min = 0
  BY <1>1, <1>2 DEF SessionOK, NoneLast
<1>4. SameNodes(pod, pod')
  <2>1. CASE n \in DOMAIN cards
    BY <2>1, <1>1, DeallocateFuncSame
  <2>2. CASE n \notin DOMAIN cards
    BY <2>2, <1>1, NodesSame DEF BindingInv
  <2> QED
    BY <2>1, <2>2
<1>5. QueuesOK(t, ops, sess.last, bindCache) /\ On(sess.ops, p) /\ ~On(ops, p)
  BY <1>1, <1>2, <1>3, OpsFront
<1>6. ~On(bindCache, p)
  BY <1>2, <1>5, QueuesWhere
<1> HIDE DEF p, ops, u
<1>7. TaskRight(p) /\ Elsewhere(t, t', p)
  BY <1>1, DroppedRight DEF TaskRight
<1>8. QueuesOK(t', ops, sess.last, bindCache)
  BY <1>5, <1>6, <1>7, QueuesElse DEF Fit
<1>9. IsSession(sess') /\ sess'.ops = ops /\ sess'.last = sess.last
  <2>1. \A x, y : [sess EXCEPT !.ops = x, !.undo = y] = Sess(sess.open, sess.copy, x, sess.last, y)
    BY <1>2, SessChanges DEF SessionOK
  <2>2. sess' = Sess(sess.open, sess.copy, ops, sess.last, u)
    BY <1>1, <2>1, Zenon
  <2> QED
    BY <2>2, SessIs
<1>10. SessionOK(opt, sess')
  BY <1>2, <1>3, <1>9 DEF SessionOK
<1>11. CachesRight
  BY <1>1, CachesReverted
<1>12. PodsOK(pv, pvc, astray', pod')
  BY <1>1, <1>4, PodsStep
<1>13. QueuesOK(t', sess'.ops, sess'.last, bindCache')
  BY <1>1, <1>8, <1>9
<1> QED
  BY <1>1, <1>7, <1>10, <1>11, <1>12, <1>13, TaskStep

\* Nothing is known yet and nothing under way.
NothingHeld(P, C, lost, o) ==
    /\ VolumesCached(P, C, <<>>) /\ ClaimsCached(C, <<>>)
    /\ TasksOK(P, C, lost, <<>>) /\ InstanceOK(o, <<>>) /\ QueuesOK(<<>>, <<>>, "", <<>>)

\* That is right.
LEMMA NothingRight ==
    ASSUME NEW P, NEW C, NEW lost, NEW o, \E s \in Scenarios : o = s.opt
    PROVE  NothingHeld(P, C, lost, o)
<1>1. <<>> = [x \in {} |-> x] /\ DOMAIN <<>> = {} /\ IsSeq(<<>>)
  BY DEF IsSeq, Range
<1>2. <<>> = [x \in DOMAIN <<>> |-> <<>>[x]]
  OBVIOUS
<1>3. VolumesCached(P, C, <<>>) /\ ClaimsCached(C, <<>>)
  BY <1>1, <1>2 DEF VolumesCached, ClaimsCached
<1>4. TasksOK(P, C, lost, <<>>) /\ InstanceOK(o, <<>>)
  BY <1>1 DEF TasksOK, InstanceOK
<1>5. QueuesOK(<<>>, <<>>, "", <<>>)
  BY <1>1, <1>2 DEF QueuesOK
<1> QED
  BY <1>3, <1>4, <1>5 DEF NothingHeld

\* The scheduler starts again.
LEMMA StartAgainStep ==
    ASSUME BindingInv, StartAgain
    PROVE  BindingInv'
<1>1. /\ pvCache' = <<>> /\ pvcCache' = <<>> /\ sess' = NoSession /\ t' = <<>> /\ bindCache' = <<>>
      /\ volFeed' = [pv |-> Listed(pv), pvc |-> Listed(pvc)]
      /\ UNCHANGED <<pv, pvc, opt, pod, astray>>
  BY DEF StartAgain
<1>2. InstanceOK(opt, t) /\ ObjectsOK(pv, pvc) /\ PodsOK(pv, pvc, astray, pod)
  BY DEF BindingInv
<1>3. FeedOK(pv, pvc, volFeed')
  BY <1>1, <1>2, FeedListed
<1>5. SessionOK(opt, sess') /\ sess'.ops = <<>> /\ sess'.last = ""
  BY <1>1, ClosedSession
<1>6. NothingHeld(pv, pvc, astray, opt)
  BY <1>2, NothingRight DEF InstanceOK
<1>7. /\ InstanceOK(opt, t)' /\ ObjectsOK(pv, pvc)' /\ FeedOK(pv, pvc, volFeed)'
      /\ VolumesCached(pv, pvc, pvCache)' /\ ClaimsCached(pvc, pvcCache)'
      /\ TasksOK(pv, pvc, astray, t)' /\ SessionOK(opt, sess)'
      /\ QueuesOK(t, sess.ops, sess.last, bindCache)' /\ PodsOK(pv, pvc, astray, pod)'
  BY <1>1, <1>2, <1>3, <1>5, <1>6 DEF NothingHeld
<1> QED
  BY <1>7, Zenon DEF BindingInv

(***************************************************************************)
(* The binder.                                                             *)
(***************************************************************************)
\* A task is dropped that neither the session nor the binder has any more.
LEMMA DroppedStep ==
    ASSUME BindingInv, NEW p, t' = Without(t, p), UNCHANGED <<pv, pvc, volFeed, opt, sess, astray>>,
           CachesRight, ~On(sess.ops, p), ~On(bindCache', p),
           QueuesOK(t, sess.ops, sess.last, bindCache'), PodsOK(pv, pvc, astray, pod')
    PROVE  BindingInv'
<1>1. TaskRight(p) /\ Elsewhere(t, t', p)
  BY DroppedRight DEF TaskRight
<1>2. QueuesOK(t', sess.ops, sess.last, bindCache')
  BY <1>1, QueuesElse DEF Fit
<1>3. SessionOK(opt, sess') /\ QueuesOK(t', sess'.ops, sess'.last, bindCache')
  BY <1>2 DEF BindingInv
<1>4. PodsOK(pv, pvc, astray', pod')
  OBVIOUS
<1> QED
  BY <1>1, <1>3, <1>4, TaskStep

\* The binder fails with its first task.
LEMMA FailStep ==
    ASSUME BindingInv, bindCache # <<>>, Fail(Head(bindCache)), bindCache' = Tail(bindCache),
           UNCHANGED <<pv, pvc, volFeed, opt, pod, sess, astray>>
    PROVE  BindingInv'
<1> DEFINE p == Head(bindCache)
<1>1. RevertVolumes(p) /\ t' = Without(t, p)
  BY DEF Fail
<1>2. QueuesOK(t, sess.ops, sess.last, bindCache)
  BY DEF BindingInv
<1>3. QueuesOK(t, sess.ops, sess.last, bindCache') /\ On(bindCache, p) /\ ~On(bindCache', p)
  BY <1>2, QueueTail
<1>4. ~On(sess.ops, p)
  BY <1>2, <1>3, QueuesWhere
<1>5. CachesRight
  BY <1>1, CachesReverted
<1>6. PodsOK(pv, pvc, astray, pod')
  BY DEF BindingInv
<1> HIDE DEF p
<1> QED
  BY <1>1, <1>3, <1>4, <1>5, <1>6, DroppedStep

\* The task's state changes; the queue is given.
LEMMA BecomeStep ==
    ASSUME BindingInv, NEW p \in DOMAIN t, NEW x, t' = [t EXCEPT ![p] = Become(t[p], x)],
           MayBecome(p, x), astray \subseteq astray', ~On(sess.ops, p),
           UNCHANGED <<pv, pvc, pvCache, pvcCache, volFeed, opt, sess, pod>>,
           QueuesOK(t, sess.ops, sess.last, bindCache'),
           ~On(bindCache', p) \/ x \in {"queued", "writing"}
    PROVE  BindingInv'
<1>1. TaskRight(p) /\ Elsewhere(t, t', p) /\ p \in DOMAIN t' /\ t'[p].st = x
  BY BecomeRight
<1>2. QueuesOK(t', sess.ops, sess.last, bindCache')
  BY <1>1, QueuesElse DEF Fit
<1>3. SessionOK(opt, sess') /\ QueuesOK(t', sess'.ops, sess'.last, bindCache')
  BY <1>2 DEF BindingInv
<1>4. PodsOK(pv, pvc, astray', pod') /\ CachesRight
  BY PodsUnchanged, CachesSame
<1> QED
  BY <1>1, <1>3, <1>4, TaskStep

\* Where the binder's first task is.
LEMMA FirstIs ==
    ASSUME BindingInv, bindCache # <<>>, NEW p, p = Head(bindCache)
    PROVE  /\ p \in DOMAIN t /\ t[p].st \in {"queued", "writing"} /\ ~On(sess.ops, p)
           /\ QueuesOK(t, sess.ops, sess.last, bindCache)
           /\ QueuesOK(t, sess.ops, sess.last, Tail(bindCache)) /\ ~On(Tail(bindCache), p)
           /\ TaskOK(pv, pvc, astray, p, t[p])
<1>1. QueuesOK(t, sess.ops, sess.last, bindCache)
  BY DEF BindingInv
<1>2. QueuesOK(t, sess.ops, sess.last, Tail(bindCache)) /\ On(bindCache, p) /\ ~On(Tail(bindCache), p)
  BY <1>1, QueueTail
<1>3. p \in DOMAIN t /\ t[p].st \in {"queued", "writing"} /\ ~On(sess.ops, p)
  BY <1>1, <1>2, QueuesWhere
<1> QED
  BY <1>1, <1>2, <1>3 DEF BindingInv, TasksOK

\* The binder begins with a task.
LEMMA BindVolumesStep ==
    ASSUME BindingInv, BindVolumes
    PROVE  BindingInv'
<1> DEFINE p == Head(bindCache)
           x == IF t[p].ready THEN "binding" ELSE "writing"
<1>1. /\ bindCache # <<>> /\ t[p].st = "queued" /\ (t[p].none => t[p].ready)
      /\ t' = [t EXCEPT ![p] = Become(t[p], x)]
      /\ bindCache' = IF t[p].ready THEN Tail(bindCache) ELSE bindCache
      /\ UNCHANGED <<pv, pvc, pvCache, pvcCache, volFeed, opt, sess, pod, astray>>
  BY DEF BindVolumes, volVars, Become
<1>2. /\ p \in DOMAIN t /\ ~On(sess.ops, p)
      /\ QueuesOK(t, sess.ops, sess.last, bindCache)
      /\ QueuesOK(t, sess.ops, sess.last, Tail(bindCache)) /\ ~On(Tail(bindCache), p)
      /\ TaskOK(pv, pvc, astray, p, t[p])
  BY <1>1, FirstIs
<1> HIDE DEF p
<1>3. ~t[p].none /\ t[p].ready \in BOOLEAN
  BY <1>1, <1>2 DEF TaskOK
<1>4. CASE t[p].ready
  <2>1. x = "binding" /\ bindCache' = Tail(bindCache)
    BY <1>1, <1>4
  <2>2. MayBecome(p, "binding")
    BY <1>1, <1>2, <1>3, <1>4 DEF TaskOK, MayBecome, ClaimsOK
  <2> QED
    BY <1>1, <1>2, <2>1, <2>2, BecomeStep
<1>5. CASE ~t[p].ready
  <2>1. x = "writing" /\ bindCache' = bindCache
    BY <1>1, <1>5
  <2>2. MayBecome(p, "writing")
    BY <1>1, <1>2, <1>3, <1>5 DEF TaskOK, MayBecome, ClaimsOK
  <2>3. x \in {"queued", "writing"}
    BY <2>1
  <2> QED
    BY <1>1, <1>2, <2>1, <2>2, <2>3, BecomeStep
<1> QED
  BY <1>4, <1>5

WroteBind(vols, i, x) == [vols EXCEPT !.bind[i].obj = x]
WroteProv(vols, i, x) == [vols EXCEPT !.prov[i].obj = x]
FreeOrFor(o, c) == o.claim \in {"", c}

\* A binding or a provision takes the version that was written.
LEMMA WroteBindOK ==
    ASSUME NEW P, NEW C, NEW vols, VolsOK(P, C, vols), NEW i \in DOMAIN vols.bind, NEW x,
           VolumeCopy(P, C, vols.bind[i].pv, x), FreeOrFor(x, vols.bind[i].claim)
    PROVE  VolsOK(P, C, WroteBind(vols, i, x)) /\ Chosen(WroteBind(vols, i, x)) = Chosen(vols)
<1> DEFINE s == vols.bind
           b == s[i]
           b2 == [b EXCEPT !.obj = x]
           s2 == [s EXCEPT ![i] = b2]
           w == WroteBind(vols, i, x)
<1>1. vols = [bind |-> s, prov |-> vols.prov]
  BY DEF VolsOK
<1>2. w = [bind |-> s2, prov |-> vols.prov]
  <2>1. w = [vols EXCEPT !.bind = s2]
    BY DEF WroteBind
  <2> HIDE DEF s2, s, w
  <2> QED
    BY <1>1, <2>1
<1>3. b = [claim |-> b.claim, pv |-> b.pv, obj |-> b.obj]
  BY DEF VolsOK, BindingOK
<1>4. b2 = [claim |-> b.claim, pv |-> b.pv, obj |-> x]
  <2> HIDE DEF b
  <2> QED
    BY <1>3
<1>5. BindingOK(P, C, b2) /\ b2.claim = b.claim
  BY <1>4 DEF BindingOK, FreeOrFor
<1> HIDE DEF b2
<1>6. IsSeq(s)
  BY DEF VolsOK
<1>7. IsSeq(s2) /\ DOMAIN s2 = DOMAIN s
  <2>1. Len(s) \in Nat /\ DOMAIN s = 1 .. Len(s)
    BY <1>6, SeqIs DEF IsSeq
  <2>2. s2 = [j \in 1 .. Len(s) |-> s2[j]] /\ DOMAIN s2 = DOMAIN s
    BY <2>1
  <2> HIDE DEF s2
  <2> QED
    BY <2>1, <2>2, FunctionSeq
<1>8. \A j \in DOMAIN s : s2[j] = IF j = i THEN b2 ELSE s[j]
  OBVIOUS
<1>9. w.bind = s2 /\ w.prov = vols.prov
  BY <1>2
<1> HIDE DEF w, s2
<1>10. \A j \in DOMAIN s2 : BindingOK(P, C, s2[j]) /\ s2[j].claim = s[j].claim
  <2>1. \A j \in DOMAIN s : BindingOK(P, C, s[j])
    BY DEF VolsOK
  <2> QED
    BY <1>5, <1>7, <1>8, <2>1
<1>11. VolsOK(P, C, w)
  BY <1>2, <1>7, <1>9, <1>10 DEF VolsOK
<1>12. Chosen(w) = Chosen(vols)
  BY <1>7, <1>9, <1>10 DEF Chosen
<1> QED
  BY <1>11, <1>12 DEF w
\* So does a provision.
LEMMA WroteProvOK ==
    ASSUME NEW P, NEW C, NEW vols, VolsOK(P, C, vols), NEW i \in DOMAIN vols.prov, NEW x,
           ClaimCopy(C, vols.prov[i].claim, x)
    PROVE  VolsOK(P, C, WroteProv(vols, i, x)) /\ Chosen(WroteProv(vols, i, x)) = Chosen(vols)
<1> DEFINE s == vols.prov
           b == s[i]
           b2 == [b EXCEPT !.obj = x]
           s2 == [s EXCEPT ![i] = b2]
           w == WroteProv(vols, i, x)
<1>1. vols = [bind |-> vols.bind, prov |-> s]
  BY DEF VolsOK
<1>2. w = [bind |-> vols.bind, prov |-> s2]
  <2>1. w = [vols EXCEPT !.prov = s2]
    BY DEF WroteProv
  <2> HIDE DEF s2, s, w
  <2> QED
    BY <1>1, <2>1
<1>3. b = [claim |-> b.claim, obj |-> b.obj]
  BY DEF VolsOK, ProvisionOK
<1>4. b2 = [claim |-> b.claim, obj |-> x]
  <2> HIDE DEF b
  <2> QED
    BY <1>3
<1>5. ProvisionOK(C, b2) /\ b2.claim = b.claim
  BY <1>4 DEF ProvisionOK
<1> HIDE DEF b2
<1>6. IsSeq(s)
  BY DEF VolsOK
<1>7. IsSeq(s2) /\ DOMAIN s2 = DOMAIN s
  <2>1. Len(s) \in Nat /\ DOMAIN s = 1 .. Len(s)
    BY <1>6, SeqIs DEF IsSeq
  <2>2. s2 = [j \in 1 .. Len(s) |-> s2[j]] /\ DOMAIN s2 = DOMAIN s
    BY <2>1
  <2> HIDE DEF s2
  <2> QED
    BY <2>1, <2>2, FunctionSeq
<1>8. \A j \in DOMAIN s : s2[j] = IF j = i THEN b2 ELSE s[j]
  OBVIOUS
<1>9. w.bind = vols.bind /\ w.prov = s2
  BY <1>2
<1> HIDE DEF w, s2
<1>10. \A j \in DOMAIN s2 : ProvisionOK(C, s2[j]) /\ s2[j].claim = s[j].claim
  <2>1. \A j \in DOMAIN s : ProvisionOK(C, s[j])
    BY DEF VolsOK
  <2> QED
    BY <1>5, <1>7, <1>8, <2>1
<1>11. VolsOK(P, C, w)
  BY <1>2, <1>7, <1>9, <1>10 DEF VolsOK
<1>12. Chosen(w) = Chosen(vols)
  BY <1>7, <1>9, <1>10 DEF Chosen, ClaimsIn
<1> QED
  BY <1>11, <1>12 DEF w

\* The volume of a binding is written: the API server takes it only if the copy is the
\* newest, and then it leaves alone what is settled.
LEMMA WriteBindMoves ==
    ASSUME BindingInv, NEW b, BindingOK(pv, pvc, b), ~UpdateFails(pv, b.pv, b.obj),
           PutPV(b.pv, b.obj)
    PROVE  /\ Moved
           /\ VolumeCopy(pv', pvc', b.pv, pv'[b.pv]) /\ FreeOrFor(pv'[b.pv], b.claim)
<1> DEFINE v == b.pv
           o == b.obj
           o2 == [o EXCEPT !.rv = @ + 1]
<1>1. ObjectsOK(pv, pvc) /\ FeedOK(pv, pvc, volFeed)
  BY DEF BindingInv
<1>2. VolumeCopy(pv, pvc, v, o) /\ o.claim \in {"", b.claim} /\ IsVolume(o)
  BY DEF BindingOK, VolumeCopy
<1>3. v \in DOMAIN pv /\ pv[v].rv = o.rv
  BY DEF UpdateFails
<1>4. IsVolume(o2) /\ o2.rv = o.rv + 1 /\ o2.claim = o.claim /\ o2.reach = o.reach
  BY <1>2, NextVolume
<1>5. o.reach = pv[v].reach /\ pv[v].claim \in {"", o.claim}
  BY <1>2, <1>3 DEF VolumeCopy
<1> HIDE DEF o2
<1>6. \A c \in DOMAIN pvc : isPVCFullyBound(pvc[c]) /\ pvc[c].vol = v => o2.claim = c
  BY <1>1, <1>4, <1>5, ZenonT(60) DEF ObjectsOK
<1>7. v \in DOMAIN pvc => o2.claim = v \/ pvc[v].vol # ""
  BY <1>1, <1>3, <1>4, <1>5 DEF ObjectsOK
<1>8. Replaces(pv, pvc, v, o2)
  BY <1>3, <1>4, <1>5, <1>6, <1>7 DEF Replaces
<1>9. Moved /\ pv'[v] = o2 /\ v \in DOMAIN pv'
  BY <1>1, <1>8, PutPVMoves DEF o2
<1>10. VolumeCopy(pv', pvc', v, pv'[v])
  <2>1. ObjectsOK(pv', pvc')
    BY <1>9 DEF Moved
  <2> QED
    BY <1>9, <2>1, FreshCopies
<1> QED
  BY <1>2, <1>4, <1>9, <1>10 DEF FreeOrFor

\* The claim of a provision is written.
LEMMA WriteProvMoves ==
    ASSUME BindingInv, NEW c, ProvisionOK(pvc, c), ~UpdateFails(pvc, c.claim, c.obj),
           PutPVC(c.claim, c.obj)
    PROVE  Moved /\ ClaimCopy(pvc', c.claim, pvc'[c.claim])
<1> DEFINE d == c.claim
           o == c.obj
           o2 == [o EXCEPT !.rv = @ + 1]
<1>1. ObjectsOK(pv, pvc) /\ FeedOK(pv, pvc, volFeed)
  BY DEF BindingInv
<1>2. ClaimCopy(pvc, d, o) /\ IsClaim(o)
  BY DEF ProvisionOK, ClaimCopy
<1>3. d \in DOMAIN pvc /\ pvc[d].rv = o.rv
  BY DEF UpdateFails
<1>4. IsClaim(o2) /\ o2.rv = o.rv + 1 /\ o2.vol = o.vol /\ o2.done = o.done
  BY <1>2, NextClaim
<1>5. o.vol = pvc[d].vol /\ o.done = pvc[d].done
  BY <1>2, <1>3 DEF ClaimCopy
<1> HIDE DEF o2
<1>8. ReplacesClaim(pvc, d, o2)
  BY <1>3, <1>4, <1>5 DEF ReplacesClaim
<1>9. Moved /\ pvc'[d] = o2 /\ d \in DOMAIN pvc'
  BY <1>1, <1>8, PutPVCMoves DEF o2
<1>10. ClaimCopy(pvc', d, pvc'[d])
  <2>1. ObjectsOK(pv', pvc')
    BY <1>9 DEF Moved
  <2> QED
    BY <1>9, <2>1, FreshCopies
<1> QED
  BY <1>9, <1>10

\* The objects move and the task of p goes on with what was written.
LEMMA WrittenStep ==
    ASSUME BindingInv, Moved, UNCHANGED <<opt, pod, sess, astray, pvCache, pvcCache, bindCache>>,
           NEW p \in DOMAIN t, Elsewhere(t, t', p), p \in DOMAIN t',
           TaskOK(pv', pvc', astray, p, t'[p]), t'[p].node = t[p].node, t'[p].st = t[p].st
    PROVE  BindingInv'
<1>1. Kept(pv, pvc, pv', pvc') /\ ObjectsOK(pv', pvc') /\ FeedOK(pv', pvc', volFeed')
  BY DEF Moved
<1>2. /\ InstanceOK(opt, t) /\ TasksOK(pv, pvc, astray, t) /\ SessionOK(opt, sess)
      /\ QueuesOK(t, sess.ops, sess.last, bindCache) /\ PodsOK(pv, pvc, astray, pod)
      /\ VolumesCached(pv, pvc, pvCache) /\ ClaimsCached(pvc, pvcCache)
  BY DEF BindingInv
<1>3. TasksOK(pv', pvc', astray, t)
  <2>1. ASSUME NEW q \in DOMAIN t PROVE TaskOK(pv', pvc', astray, q, t[q])
    <3>1. TaskOK(pv, pvc, astray, q, t[q])
      BY <1>2 DEF TasksOK
    <3> QED
      BY <1>1, <3>1, TaskKept
  <2> QED
    BY <2>1 DEF TasksOK
<1>4. TasksOK(pv', pvc', astray, t')
  BY <1>1, <1>3, TasksElse
<1>5. PodsOK(pv', pvc', astray, pod)
  <2>1. SameNodes(pod, pod)
    BY <1>2, NodesSame
  <2> QED
    BY <1>1, <1>2, <2>1, PodsKept
<1>6. VolumesCached(pv', pvc', pvCache) /\ ClaimsCached(pvc', pvcCache)
  BY <1>1, <1>2, CachesKept
<1>7. InstanceOK(opt, t')
  <2>1. t'[p].node \in opt.nodes
    BY <1>2 DEF InstanceOK
  <2> QED
    BY <1>2, <2>1, InstanceElse
<1>8. QueuesOK(t', sess.ops, sess.last, bindCache)
  <2>1. Fit(t', sess.ops, bindCache, p)
    BY <1>2, QueuesWhere DEF Fit
  <2> QED
    BY <1>2, <2>1, QueuesElse
<1>9. /\ InstanceOK(opt, t)' /\ ObjectsOK(pv, pvc)' /\ FeedOK(pv, pvc, volFeed)'
      /\ VolumesCached(pv, pvc, pvCache)' /\ ClaimsCached(pvc, pvcCache)'
      /\ TasksOK(pv, pvc, astray, t)' /\ SessionOK(opt, sess)'
      /\ QueuesOK(t, sess.ops, sess.last, bindCache)' /\ PodsOK(pv, pvc, astray, pod)'
  BY <1>1, <1>2, <1>4, <1>5, <1>6, <1>7, <1>8
<1> QED
  BY <1>9, Zenon DEF BindingInv

\* One write of bindAPIUpdate: a volume, or after them a claim.
WritesBind(p) ==
    LET vols == t[p].vols
        i == t[p].i
        b == vols.bind[i]
    IN /\ i - Len(vols.bind) <= 0
       /\ ~UpdateFails(pv, b.pv, b.obj) /\ PutPV(b.pv, b.obj)
       /\ t' = [t EXCEPT ![p] = Advanced(t[p], i + 1, WroteBind(vols, i, pv'[b.pv]))]
WritesProv(p) ==
    LET vols == t[p].vols
        j == t[p].i - Len(vols.bind)
        c == vols.prov[j]
    IN /\ ~(j <= 0) /\ j <= Len(vols.prov)
       /\ ~UpdateFails(pvc, c.claim, c.obj) /\ PutPVC(c.claim, c.obj)
       /\ t' = [t EXCEPT ![p] = Advanced(t[p], t[p].i + 1, WroteProv(vols, j, pvc'[c.claim]))]

\* What bindAPIUpdate does with its first task.
LEMMA bindAPIUpdateIs ==
    ASSUME bindAPIUpdate, NEW p, p = Head(bindCache)
    PROVE  /\ bindCache # <<>> /\ t[p].st = "writing"
           /\ UNCHANGED <<opt, pod, sess, astray>>
           /\ \/ WritesBind(p) /\ UNCHANGED <<pvCache, pvcCache, bindCache>>
              \/ WritesProv(p) /\ UNCHANGED <<pvCache, pvcCache, bindCache>>
              \/ Fail(p) /\ bindCache' = Tail(bindCache) /\ UNCHANGED <<pv, pvc, volFeed>>
<1> DEFINE vols == t[p].vols
           i == t[p].i
           j == i - Len(vols.bind)
           b == vols.bind[i]
           c == vols.prov[j]
<1>1. /\ bindCache # <<>> /\ t[p].st = "writing" /\ j <= Len(vols.prov)
      /\ UNCHANGED <<opt, pod, sess, astray>>
  BY Zenon DEF bindAPIUpdate
<1>2. \/ /\ IF j <= 0 THEN ~UpdateFails(pv, b.pv, b.obj) /\ PutPV(b.pv, b.obj)
                      ELSE ~UpdateFails(pvc, c.claim, c.obj) /\ PutPVC(c.claim, c.obj)
         /\ t' = [t EXCEPT ![p].i = i + 1,
                    ![p].vols = IF j <= 0 THEN [@ EXCEPT !.bind[i].obj = pv'[b.pv]]
                                ELSE [@ EXCEPT !.prov[j].obj = pvc'[c.claim]]]
         /\ UNCHANGED <<pvCache, pvcCache, bindCache>>
      \/ Fail(p) /\ bindCache' = Tail(bindCache) /\ UNCHANGED <<pv, pvc, volFeed>>
  BY Zenon DEF bindAPIUpdate
<1> DEFINE V == IF j <= 0 THEN WroteBind(vols, i, pv'[b.pv]) ELSE WroteProv(vols, j, pvc'[c.claim])
<1>3. ASSUME t' = [t EXCEPT ![p].i = i + 1,
                    ![p].vols = IF j <= 0 THEN [@ EXCEPT !.bind[i].obj = pv'[b.pv]]
                                ELSE [@ EXCEPT !.prov[j].obj = pvc'[c.claim]]]
      PROVE  t' = [t EXCEPT ![p] = Advanced(t[p], i + 1, V)]
  BY <1>3, Zenon DEF Advanced, WroteBind, WroteProv
<1>4. \/ /\ IF j <= 0 THEN ~UpdateFails(pv, b.pv, b.obj) /\ PutPV(b.pv, b.obj)
                      ELSE ~UpdateFails(pvc, c.claim, c.obj) /\ PutPVC(c.claim, c.obj)
         /\ t' = [t EXCEPT ![p] = Advanced(t[p], i + 1, V)]
         /\ UNCHANGED <<pvCache, pvcCache, bindCache>>
      \/ Fail(p) /\ bindCache' = Tail(bindCache) /\ UNCHANGED <<pv, pvc, volFeed>>
  BY <1>2, <1>3, Zenon
<1>5. CASE j <= 0
  <2>1. V = WroteBind(vols, i, pv'[b.pv])
    BY <1>5, Zenon
  <2> QED
    BY <1>1, <1>4, <1>5, <2>1, Zenon DEF WritesBind
<1>6. CASE ~(j <= 0)
  <2>1. V = WroteProv(vols, j, pvc'[c.claim])
    BY <1>6, Zenon
  <2> QED
    BY <1>1, <1>4, <1>6, <2>1, Zenon DEF WritesProv
<1> QED
  BY <1>5, <1>6, Zenon

\* The task goes on with volumes that are right and the same choice.
LEMMA AdvancedRight ==
    ASSUME BindingInv, Moved, NEW p \in DOMAIN t, t[p].st = "writing", NEW V,
           VolsOK(pv', pvc', V), Chosen(V) = Chosen(t[p].vols),
           t' = [t EXCEPT ![p] = Advanced(t[p], t[p].i + 1, V)]
    PROVE  /\ Elsewhere(t, t', p) /\ p \in DOMAIN t'
           /\ TaskOK(pv', pvc', astray, p, t'[p]) /\ t'[p].node = t[p].node /\ t'[p].st = t[p].st
<1> DEFINE r == Task(t[p].st, t[p].node, V, t[p].none, t[p].ready, t[p].i + 1)
<1>1. TaskOK(pv, pvc, astray, p, t[p]) /\ Kept(pv, pvc, pv', pvc')
  BY DEF BindingInv, TasksOK, Moved
<1>2. TaskOK(pv', pvc', astray, p, t[p])
  BY <1>1, TaskKept
<1>3. /\ IsTask(t[p]) /\ t[p].i \in Nat \ {0} /\ t[p].none \in BOOLEAN /\ t[p].ready \in BOOLEAN
      /\ ~t[p].none
  BY <1>2 DEF TaskOK
<1>4. t[p].i + 1 \in Nat \ {0}
  BY <1>3
<1>5. p \in astray \/ ClaimsOK(pv', pvc', p, t[p].st, t[p].node, V, t[p].ready)
  BY <1>2, <1>3 DEF TaskOK, ClaimsOK
<1>6. Advanced(t[p], t[p].i + 1, V) = r
  BY <1>3, NamedChanges
<1>7. TaskOK(pv', pvc', astray, p, r)
  BY <1>3, <1>4, <1>5, TaskOKIs
<1>8. r.node = t[p].node /\ r.st = t[p].st
  BY DEF Task
<1> HIDE DEF r
<1>9. Elsewhere(t, t', p) /\ p \in DOMAIN t' /\ t'[p] = r
  BY <1>6 DEF Elsewhere
<1> QED
  BY <1>7, <1>8, <1>9

\* A volume or a claim is written, or the task fails.
LEMMA bindAPIUpdateStep ==
    ASSUME BindingInv, bindAPIUpdate
    PROVE  BindingInv'
<1> DEFINE p == Head(bindCache)
           vols == t[p].vols
<1>1. /\ bindCache # <<>> /\ t[p].st = "writing"
      /\ UNCHANGED <<opt, pod, sess, astray>>
      /\ \/ WritesBind(p) /\ UNCHANGED <<pvCache, pvcCache, bindCache>>
         \/ WritesProv(p) /\ UNCHANGED <<pvCache, pvcCache, bindCache>>
         \/ Fail(p) /\ bindCache' = Tail(bindCache) /\ UNCHANGED <<pv, pvc, volFeed>>
  BY bindAPIUpdateIs
<1>2. p \in DOMAIN t /\ TaskOK(pv, pvc, astray, p, t[p])
  BY <1>1, FirstIs
<1>3. VolsOK(pv, pvc, vols) /\ t[p].i \in Nat \ {0}
  BY <1>2 DEF TaskOK
<1>4. /\ Len(vols.bind) \in Nat /\ DOMAIN vols.bind = 1 .. Len(vols.bind)
      /\ Len(vols.prov) \in Nat /\ DOMAIN vols.prov = 1 .. Len(vols.prov)
  <2>1. vols.bind \in Seq(Range(vols.bind)) /\ vols.prov \in Seq(Range(vols.prov))
    BY <1>3 DEF VolsOK, IsSeq
  <2> QED
    BY <2>1, SeqIs
<1>5. CASE Fail(p) /\ bindCache' = Tail(bindCache) /\ UNCHANGED <<pv, pvc, volFeed>>
  BY <1>1, <1>5, FailStep
<1> HIDE DEF p
<1>6. CASE WritesBind(p) /\ UNCHANGED <<pvCache, pvcCache, bindCache>>
  <2> DEFINE i == t[p].i
             b == vols.bind[i]
             V == WroteBind(vols, i, pv'[b.pv])
  <2>1. /\ i - Len(vols.bind) <= 0 /\ ~UpdateFails(pv, b.pv, b.obj) /\ PutPV(b.pv, b.obj)
        /\ t' = [t EXCEPT ![p] = Advanced(t[p], i + 1, V)]
    BY <1>6, Zenon DEF WritesBind
  <2>2. i \in DOMAIN vols.bind
    BY <1>3, <1>4, <2>1
  <2>3. BindingOK(pv, pvc, b)
    BY <1>3, <2>2 DEF VolsOK
  <2>4. Moved /\ VolumeCopy(pv', pvc', b.pv, pv'[b.pv]) /\ FreeOrFor(pv'[b.pv], b.claim)
    <3> HIDE DEF b
    <3> QED
      BY <2>1, <2>3, WriteBindMoves
  <2>5. VolsOK(pv', pvc', vols)
    BY <1>3, <2>4, VolsKept DEF Moved
  <2>6. VolsOK(pv', pvc', V) /\ Chosen(V) = Chosen(vols)
    <3> DEFINE x == pv'[b.pv]
    <3>1. VolumeCopy(pv', pvc', vols.bind[i].pv, x) /\ FreeOrFor(x, vols.bind[i].claim)
      BY <2>4
    <3> HIDE DEF x, vols, i
    <3>2. VolsOK(pv', pvc', WroteBind(vols, i, x)) /\ Chosen(WroteBind(vols, i, x)) = Chosen(vols)
      BY <2>2, <2>5, <3>1, WroteBindOK
    <3> QED
      BY <3>2 DEF x
  <2> HIDE DEF V
  <2>7. /\ Elsewhere(t, t', p) /\ p \in DOMAIN t'
        /\ TaskOK(pv', pvc', astray, p, t'[p]) /\ t'[p].node = t[p].node /\ t'[p].st = t[p].st
    BY <1>1, <1>2, <2>1, <2>4, <2>6, AdvancedRight
  <2> QED
    BY <1>1, <1>2, <1>6, <2>4, <2>7, WrittenStep
<1>7. CASE WritesProv(p) /\ UNCHANGED <<pvCache, pvcCache, bindCache>>
  <2> DEFINE j == t[p].i - Len(vols.bind)
             c == vols.prov[j]
             V == WroteProv(vols, j, pvc'[c.claim])
  <2>1. /\ ~(j <= 0) /\ j <= Len(vols.prov) /\ ~UpdateFails(pvc, c.claim, c.obj)
        /\ PutPVC(c.claim, c.obj)
        /\ t' = [t EXCEPT ![p] = Advanced(t[p], t[p].i + 1, V)]
    BY <1>7, Zenon DEF WritesProv
  <2>2. j \in DOMAIN vols.prov
    <3>1. j \in Int
      BY <1>3, <1>4
    <3>2. ~(j <= 0) /\ j <= Len(vols.prov)
      BY <2>1
    <3> HIDE DEF j, vols
    <3> QED
      BY <1>4, <3>1, <3>2
  <2>3. ProvisionOK(pvc, c)
    BY <1>3, <2>2 DEF VolsOK
  <2>4. Moved /\ ClaimCopy(pvc', c.claim, pvc'[c.claim])
    <3> HIDE DEF c
    <3> QED
      BY <2>1, <2>3, WriteProvMoves
  <2>5. VolsOK(pv', pvc', vols)
    BY <1>3, <2>4, VolsKept DEF Moved
  <2>6. VolsOK(pv', pvc', V) /\ Chosen(V) = Chosen(vols)
    <3> DEFINE x == pvc'[c.claim]
    <3>1. ClaimCopy(pvc', vols.prov[j].claim, x)
      BY <2>4
    <3> HIDE DEF x, vols, j
    <3>2. VolsOK(pv', pvc', WroteProv(vols, j, x)) /\ Chosen(WroteProv(vols, j, x)) = Chosen(vols)
      BY <2>2, <2>5, <3>1, WroteProvOK
    <3> QED
      BY <3>2 DEF x
  <2> HIDE DEF V
  <2>7. /\ Elsewhere(t, t', p) /\ p \in DOMAIN t'
        /\ TaskOK(pv', pvc', astray, p, t'[p]) /\ t'[p].node = t[p].node /\ t'[p].st = t[p].st
    BY <1>1, <1>2, <2>1, <2>4, <2>6, AdvancedRight
  <2> QED
    BY <1>1, <1>2, <1>7, <2>4, <2>7, WrittenStep
<1> QED
  BY <1>1, <1>5, <1>6, <1>7 DEF p

\* When checkBindings is content, each binding and each provision is.
LEMMA AllBound ==
    ASSUME NEW vols, NEW n, IsSeq(vols.bind), IsSeq(vols.prov), checkBindings(vols, n) = "bound"
    PROVE  /\ \A i \in DOMAIN vols.bind : checkBinding(vols.bind[i], n) = "bound"
           /\ \A i \in DOMAIN vols.prov : checkProvision(vols.prov[i], n) = "bound"
<1> DEFINE f == [i \in DOMAIN vols.bind |-> checkBinding(vols.bind[i], n)]
           g == [i \in DOMAIN vols.prov |-> checkProvision(vols.prov[i], n)]
           a == Len(vols.bind)
           b == Len(vols.prov)
           h == f \o g
           open == {i \in DOMAIN h : h[i] # "bound"}
<1>1. a \in Nat /\ DOMAIN vols.bind = 1 .. a /\ b \in Nat /\ DOMAIN vols.prov = 1 .. b
  BY SeqIs DEF IsSeq
<1>2. f = [i \in 1 .. a |-> f[i]] /\ g = [i \in 1 .. b |-> g[i]]
  BY <1>1
<1>3. (IF open = {} THEN "bound" ELSE h[FirstOf(open)]) = "bound"
  BY Zenon DEF checkBindings
<1>4. \A i \in DOMAIN vols.bind : f[i] = checkBinding(vols.bind[i], n)
  OBVIOUS
<1>5. \A i \in DOMAIN vols.prov : g[i] = checkProvision(vols.prov[i], n)
  OBVIOUS
<1> HIDE DEF f, g, a, b
<1>6. /\ f \in Seq(Range(f)) /\ Len(f) = a /\ DOMAIN f = 1 .. a
      /\ g \in Seq(Range(g)) /\ Len(g) = b /\ DOMAIN g = 1 .. b
  BY <1>1, <1>2, FunctionSeq DEF IsSeq
<1>7. /\ DOMAIN h = 1 .. a + b
      /\ \A i \in 1 .. a : h[i] = f[i]
      /\ \A i \in 1 .. b : h[a + i] = g[i]
  BY <1>1, <1>6
<1> HIDE DEF h
<1>8. open = {}
  <2>1. SUFFICES ASSUME open # {} PROVE FALSE
    OBVIOUS
  <2>2. open \in SUBSET Nat
    BY <1>1, <1>7
  <2>3. FirstOf(open) \in open
    <3> HIDE DEF open
    <3>1. \E i \in open : \A j \in open : i <= j
      BY <2>1, <2>2, LeastOne
    <3> QED
      BY <3>1 DEF FirstOf
  <2> QED
    BY <1>3, <2>1, <2>3
<1>9. \A i \in 1 .. a : f[i] = "bound"
  BY <1>1, <1>7, <1>8
<1>10. \A i \in 1 .. b : g[i] = "bound"
  <2>1. \A i \in 1 .. b : a + i \in DOMAIN h
    BY <1>1, <1>7
  <2> QED
    BY <1>7, <1>8, <2>1
<1> QED
  BY <1>1, <1>4, <1>5, <1>9, <1>10

\* A binding or a provision that is found bound: the claim is, and unless it got another
\* volume than was chosen, to one that the node reaches.
LEMMA BindingBound ==
    ASSUME BindingInv, NEW b, NEW n, checkBinding(b, n) = "bound",
           pvcCache[b.claim].api.vol = b.pv
    PROVE  Settled(pv, pvc, b.claim, n)
<1>1. ObjectsOK(pv, pvc) /\ VolumesCached(pv, pvc, pvCache) /\ ClaimsCached(pvc, pvcCache)
  BY DEF BindingInv
<1>2. b.pv \in DOMAIN pvCache /\ b.claim \in DOMAIN pvcCache
  BY DEF checkBinding
<1>3. n \in GetAPIPV(b.pv).reach /\ isPVCFullyBound(GetAPIPVC(b.claim))
  BY <1>2 DEF checkBinding
<1>4. GetAPIPVC(b.claim).vol = b.pv
  BY DEF GetAPIPVC
<1> QED
  BY <1>1, <1>2, <1>3, <1>4, BoundClaims

\* The same of a provision.
LEMMA ProvisionBound ==
    ASSUME BindingInv, NEW c, NEW n, checkProvision(c, n) = "bound"
    PROVE  Settled(pv, pvc, c.claim, n)
<1> DEFINE o == GetAPIPVC(c.claim)
<1>1. ObjectsOK(pv, pvc) /\ VolumesCached(pv, pvc, pvCache) /\ ClaimsCached(pvc, pvcCache)
  BY DEF BindingInv
<1>2. c.claim \in DOMAIN pvcCache
  BY DEF checkProvision
<1>3. o.vol \in DOMAIN pvCache /\ n \in GetAPIPV(o.vol).reach /\ isPVCFullyBound(o)
  BY <1>2, ZenonT(60) DEF checkProvision
<1> QED
  BY <1>1, <1>2, <1>3, BoundClaims

\* The binder looks whether the volumes are bound.
LEMMA PollStep ==
    ASSUME BindingInv, Poll
    PROVE  BindingInv'
<1> DEFINE p == Head(bindCache)
           vols == t[p].vols
           n == t[p].node
           verdict == IF p \notin DOMAIN k THEN "error" ELSE checkBindings(vols, n)
           other == \E i \in DOMAIN vols.bind :
                      pvcCache[vols.bind[i].claim].api.vol # vols.bind[i].pv
<1>1. /\ bindCache # <<>> /\ t[p].st = "writing" /\ bindCache' = Tail(bindCache)
      /\ UNCHANGED <<pv, pvc, volFeed, opt, pod, sess>>
  BY Zenon DEF Poll
<1>2. \/ /\ verdict = "bound" /\ t' = [t EXCEPT ![p].st = "binding"]
         /\ astray' = IF other THEN astray \cup {p} ELSE astray
         /\ UNCHANGED <<pvCache, pvcCache>>
      \/ Fail(p) /\ UNCHANGED astray
  BY Zenon DEF Poll
<1>3. CASE Fail(p) /\ UNCHANGED astray
  BY <1>1, <1>3, FailStep
<1>4. CASE /\ verdict = "bound" /\ t' = [t EXCEPT ![p].st = "binding"]
           /\ astray' = IF other THEN astray \cup {p} ELSE astray
           /\ UNCHANGED <<pvCache, pvcCache>>
  <2>1. /\ p \in DOMAIN t /\ ~On(sess.ops, p) /\ TaskOK(pv, pvc, astray, p, t[p])
        /\ QueuesOK(t, sess.ops, sess.last, bindCache') /\ ~On(bindCache', p)
    BY <1>1, FirstIs
  <2>2. checkBindings(vols, n) = "bound"
    BY <1>4
  <2> HIDE DEF p
  <2>3. VolsOK(pv, pvc, vols) /\ ~t[p].none
    BY <1>1, <2>1 DEF TaskOK
  <2>4. /\ \A i \in DOMAIN vols.bind : checkBinding(vols.bind[i], n) = "bound"
        /\ \A i \in DOMAIN vols.prov : checkProvision(vols.prov[i], n) = "bound"
    BY <2>2, <2>3, AllBound DEF VolsOK
  <2>5. astray \subseteq astray'
    BY <1>4
  <2>6. MayBecome(p, "binding")
    <3>1. CASE p \in astray'
      BY <2>3, <3>1 DEF MayBecome
    <3>2. CASE p \notin astray'
      <4>1. ~other /\ p \notin astray
        BY <1>4, <3>2
      <4>2. \A c \in ClaimsOf(p) : Settled(pv, pvc, c, n) \/ c \in Chosen(vols)
        BY <2>1, <2>3, <4>1 DEF TaskOK
      <4>3. ASSUME NEW c \in Chosen(vols) PROVE Settled(pv, pvc, c, n)
        <5>1. CASE \E i \in DOMAIN vols.bind : c = vols.bind[i].claim
          <6>1. PICK i \in DOMAIN vols.bind : c = vols.bind[i].claim
            BY <5>1
          <6>2. pvcCache[vols.bind[i].claim].api.vol = vols.bind[i].pv
            BY <4>1
          <6>3. checkBinding(vols.bind[i], n) = "bound"
            BY <2>4
          <6> QED
            BY <6>1, <6>2, <6>3, BindingBound
        <5>2. CASE \E i \in DOMAIN vols.prov : c = vols.prov[i].claim
          <6>1. PICK i \in DOMAIN vols.prov : c = vols.prov[i].claim
            BY <5>2
          <6>3. checkProvision(vols.prov[i], n) = "bound"
            BY <2>4
          <6> QED
            BY <6>1, <6>3, ProvisionBound
        <5> QED
          BY <4>3, <5>1, <5>2 DEF Chosen, ClaimsIn
      <4>4. ClaimsOK(pv, pvc, p, "binding", n, vols, t[p].ready)
        BY <4>2, <4>3 DEF ClaimsOK
      <4> QED
        BY <2>3, <4>4 DEF MayBecome
    <3> QED
      BY <3>1, <3>2
  <2>7. t' = [t EXCEPT ![p] = Become(t[p], "binding")]
    BY <1>4 DEF Become
  <2> QED
    BY <1>1, <1>4, <2>1, <2>5, <2>6, <2>7, BecomeStep
<1> QED
  BY <1>2, <1>3, <1>4

\* A pod is bound to the node of its task: the task's claims are settled there.
LEMMA BoundPods ==
    ASSUME BindingInv, NEW p \in DOMAIN t, t[p].st = "binding", p \in DOMAIN pod,
           pod' = [pod EXCEPT ![p].node = t[p].node]
    PROVE  PodsOK(pv, pvc, astray, pod')
<1> DEFINE o == [pod[p] EXCEPT !.node = t[p].node]
<1>1. pod' = [pod EXCEPT ![p] = o]
  OBVIOUS
<1>2. PodsOK(pv, pvc, astray, pod) /\ TaskOK(pv, pvc, astray, p, t[p])
  BY DEF BindingInv, TasksOK
<1>3. IsPod(o) /\ o.node = t[p].node
  <2>1. IsPod(pod[p])
    BY <1>2 DEF PodsOK
  <2>2. \A x : IsPod([pod[p] EXCEPT !.node = x]) /\ [pod[p] EXCEPT !.node = x].node = x
    BY <2>1, PodFields
  <2> QED
    BY <2>2, Zenon
<1>4. p \in astray \/ \A c \in ClaimsOf(p) : Settled(pv, pvc, c, o.node)
  BY <1>2, <1>3 DEF TaskOK
<1> HIDE DEF o
<1>5. /\ DOMAIN pod' = DOMAIN pod /\ pod'[p] = o /\ \A q \in DOMAIN pod : q # p => pod'[q] = pod[q]
      /\ pod' = [q \in DOMAIN pod' |-> pod'[q]]
  BY <1>1
<1> QED
  BY <1>2, <1>3, <1>4, <1>5 DEF PodsOK

\* The pod is bound, or not.
LEMMA BindStep ==
    ASSUME BindingInv, NEW p, Bind(p)
    PROVE  BindingInv'
<1>1. /\ p \in DOMAIN t /\ t[p].st = "binding"
      /\ UNCHANGED <<pv, pvc, volFeed, opt, sess, bindCache, astray>>
  BY DEF Bind
<1>2. (p \in DOMAIN pod /\ pod' = [pod EXCEPT ![p].node = t[p].node]) \/ pod' = pod
  BY DEF Bind
<1>3. (t' = Without(t, p) /\ UNCHANGED <<pvCache, pvcCache>>) \/ Fail(p)
  BY DEF Bind
<1>4. PodsOK(pv, pvc, astray, pod')
  <2>1. CASE p \in DOMAIN pod /\ pod' = [pod EXCEPT ![p].node = t[p].node]
    BY <1>1, <2>1, BoundPods
  <2>2. CASE pod' = pod
    BY <2>2 DEF BindingInv
  <2> QED
    BY <1>2, <2>1, <2>2
<1>5. t' = Without(t, p) /\ CachesRight
  BY <1>3, CachesSame, CachesReverted DEF Fail
<1>6. QueuesOK(t, sess.ops, sess.last, bindCache)
  BY DEF BindingInv
<1>7. ~On(sess.ops, p) /\ ~On(bindCache, p)
  BY <1>1, <1>6, QueuesWhere
<1> QED
  BY <1>1, <1>4, <1>5, <1>6, <1>7, DroppedStep

-----------------------------------------------------------------------------
(***************************************************************************)
(* Every step.                                                             *)
(***************************************************************************)
\* The session.
LEMMA SessionWorksStep ==
    ASSUME BindingInv, SessionWorks
    PROVE  BindingInv'
<1>3. ASSUME NEW p, AllocatePanics(p) PROVE BindingInv'
  BY <1>3, StartAgainStep DEF AllocatePanics
<1>1. ASSUME NEW p, Allocate(p) PROVE BindingInv'
  BY <1>1, AllocateIs, AllocateGoneStep, AllocateDoneStep
<1>2. ASSUME Commit PROVE BindingInv'
  BY <1>2, CommitIs, CommitKnownStep, CommitGoneStep, CommitLetsGoStep
<1> QED
  BY <1>1, <1>2, <1>3, NotReadyStep, DiscardStep, UnallocateStep, CloseSessionStep
  DEF SessionWorks

\* The binder.
LEMMA BinderWorksStep ==
    ASSUME BindingInv, BinderWorks
    PROVE  BindingInv'
  BY BindVolumesStep, bindAPIUpdateStep, PollStep, BindStep DEF BinderWorks

\* A pod is started, is finished, is deleted.
LEMMA PutPodSame ==
    ASSUME BindingInv, NEW p \in DOMAIN pod, NEW o, PutPod(p, o), IsPod(o), o.node = pod[p].node
    PROVE  SameNodes(pod, pod')
<1>1. pod' = [pod EXCEPT ![p] = o] /\ PodsOK(pv, pvc, astray, pod)
  BY DEF PutPod, BindingInv
<1> QED
  BY <1>1, NodesSame

\* The three keep the invariant.
LEMMA PodStep ==
    ASSUME BindingInv, NEW p, StartPod(p) \/ FinishPod(p) \/ DeletePod(p)
    PROVE  BindingInv'
<1> DEFINE yes == TRUE
           started == [pod[p] EXCEPT !.run = yes]
           ended == [pod[p] EXCEPT !.done = yes]
<1>1. p \in DOMAIN pod /\ UNCHANGED <<volVars, opt, sess, t, bindCache, astray>>
  BY DEF StartPod, FinishPod, DeletePod, PutPod, Outside
<1>2. PutPod(p, started) \/ PutPod(p, ended) \/ pod' = Without(pod, p)
  BY DEF StartPod, FinishPod, DeletePod
<1>3. PodsOK(pv, pvc, astray, pod) /\ IsPod(pod[p])
  BY <1>1 DEF BindingInv, PodsOK
<1> HIDE DEF yes
<1>4. /\ IsPod(started) /\ started.node = pod[p].node
      /\ IsPod(ended) /\ ended.node = pod[p].node
  BY <1>3, PodFields
<1> HIDE DEF started, ended
<1>5. SameNodes(pod, pod')
  BY <1>1, <1>2, <1>3, <1>4, PutPodSame, NodesSame
<1> QED
  BY <1>1, <1>5, OtherStep

\* What is of no concern to volumes and tasks.
LEMMA QuietStep ==
    ASSUME BindingInv, UNCHANGED <<volVars, opt, pod, sess, t, bindCache, astray>>
    PROVE  BindingInv'
<1>1. SameNodes(pod, pod')
  BY NodesSame DEF BindingInv
<1> QED
  BY <1>1, OtherStep

\* The PV controller and the provisioners.
LEMMA VolumesStep ==
    ASSUME BindingInv, UNCHANGED <<opt, pod, sess, t, bindCache, astray, pvCache, pvcCache>>, Moved
    PROVE  BindingInv'
<1>1. SameNodes(pod, pod')
  BY NodesSame DEF BindingInv
<1> QED
  BY <1>1, MovedStep

\* Whatever the PV controller does.
LEMMA PVControllerStep ==
    ASSUME BindingInv, PVController
    PROVE  BindingInv'
<1>1. ObjectsOK(pv, pvc) /\ FeedOK(pv, pvc, volFeed)
  BY DEF BindingInv
<1>2. UNCHANGED <<opt, pod, sess, t, bindCache, astray>>
  BY DEF PVController, taskVars
<1>3. Moved /\ UNCHANGED <<pvCache, pvcCache>>
  <2>1. ASSUME NEW c \in DOMAIN pvc, NEW v \in DOMAIN pv, PVControllerBind(c, v)
        PROVE  Moved /\ UNCHANGED <<pvCache, pvcCache>>
    BY <1>1, <2>1, PVControllerBindMoves DEF PVControllerBind
  <2>2. ASSUME NEW v \in DOMAIN pv, PVControllerUnbind(v)
        PROVE  Moved /\ UNCHANGED <<pvCache, pvcCache>>
    BY <1>1, <2>2, PVControllerUnbindMoves DEF PVControllerUnbind
  <2>3. ASSUME NEW c \in DOMAIN pvc, Provision(c)
        PROVE  Moved /\ UNCHANGED <<pvCache, pvcCache>>
    BY <1>1, <2>3, ProvisionMoves DEF Provision
  <2> QED
    BY <2>1, <2>2, <2>3 DEF PVController
<1> QED
  BY <1>2, <1>3, VolumesStep

\* The invariant holds to begin with.
LEMMA InitRight ==
    ASSUME Init
    PROVE  BindingInv
<1>1. PICK s \in Scenarios :
        /\ opt = s.opt /\ pv = s.pv /\ pvc = s.pvc
        /\ pod = [p \in s.opt.pods |-> NewPod]
        /\ volFeed = [pv |-> Listed(s.pv), pvc |-> Listed(s.pvc)]
        /\ pvCache = <<>> /\ pvcCache = <<>>
        /\ sess = NoSession /\ t = <<>> /\ bindCache = <<>> /\ astray = {}
  BY Zenon DEF Init
<1>2. ObjectsOK(pv, pvc)
  <2>1. /\ pv \in [DOMAIN pv -> Range(pv)] /\ pvc \in [DOMAIN pvc -> Range(pvc)]
        /\ IsFiniteSet(DOMAIN pv) /\ IsFiniteSet(DOMAIN pvc)
        /\ DOMAIN pv \cap DOMAIN pvc = {} /\ "" \notin DOMAIN pv \cup DOMAIN pvc
        /\ \A v \in DOMAIN pv : IsVolume(pv[v])
        /\ \A c \in DOMAIN pvc :
             /\ IsClaim(pvc[c])
             /\ isPVCFullyBound(pvc[c]) => pvc[c].vol \in DOMAIN pv /\ pv[pvc[c].vol].claim = c
    BY <1>1, ScenarioAssumption, Zenon
  <2>2. pv = [v \in DOMAIN pv |-> pv[v]] /\ pvc = [c \in DOMAIN pvc |-> pvc[c]]
    BY <2>1
  <2> QED
    BY <2>1, <2>2 DEF ObjectsOK
<1>3. FeedOK(pv, pvc, volFeed)
  BY <1>1, <1>2, FeedListed
<1>4. SessionOK(opt, sess) /\ sess.ops = <<>> /\ sess.last = ""
  BY <1>1, ClosedSession
<1>5. NothingHeld(pv, pvc, astray, opt)
  BY <1>1, NothingRight
<1>6. PodsOK(pv, pvc, astray, pod)
  <2>1. IsPod(NewPod) /\ NewPod.node = ""
    BY DEF NewPod, IsPod
  <2>2. DOMAIN pod = s.opt.pods /\ pod = [p \in DOMAIN pod |-> pod[p]]
    BY <1>1
  <2>3. \A p \in DOMAIN pod : pod[p] = NewPod
    BY <1>1
  <2> QED
    BY <2>1, <2>2, <2>3 DEF PodsOK
<1>7. /\ VolumesCached(pv, pvc, pvCache) /\ ClaimsCached(pvc, pvcCache)
      /\ TasksOK(pv, pvc, astray, t) /\ InstanceOK(opt, t)
      /\ QueuesOK(t, sess.ops, sess.last, bindCache)
  BY <1>1, <1>4, <1>5 DEF NothingHeld
<1> QED
  BY <1>2, <1>3, <1>4, <1>6, <1>7 DEF BindingInv

\* Every step keeps it.
LEMMA NextRight ==
    ASSUME BindingInv, [Next]_vars
    PROVE  BindingInv'
<1>1. CASE HandlePod
  BY <1>1, QuietStep DEF HandlePod
<1>2. CASE VolumeInformers
  BY <1>2, HandlePVStep, HandlePVCStep DEF VolumeInformers
<1>3. CASE OpenSession
  BY <1>3, OpenSessionStep
<1>4. CASE SessionWorks
  BY <1>4, SessionWorksStep
<1>5. CASE BinderWorks
  BY <1>5, BinderWorksStep
<1>6. CASE BindVolumesPanics \/ Restart
  BY <1>6, StartAgainStep DEF BindVolumesPanics, Restart
<1>7. CASE PVController
  BY <1>7, PVControllerStep
<1>8. ASSUME NEW p \in opt.pods,
             \/ processResyncTask(p) \/ StartPod(p) \/ FinishPod(p) \/ DeletePod(p)
             \/ \E n \in opt.nodes : GetVolumes(p, n) \/ FilterPanics(p, n)
      PROVE  BindingInv'
  <2>1. CASE processResyncTask(p)
    BY <2>1, QuietStep DEF processResyncTask
  <2>2. CASE StartPod(p) \/ FinishPod(p) \/ DeletePod(p)
    BY <2>2, PodStep
  <2>3. ASSUME NEW n \in opt.nodes, GetVolumes(p, n) PROVE BindingInv'
    BY <2>3, GetVolumesStep
  <2>4. ASSUME NEW n \in opt.nodes, FilterPanics(p, n) PROVE BindingInv'
    BY <2>4, StartAgainStep DEF FilterPanics
  <2> QED
    BY <1>8, <2>1, <2>2, <2>3, <2>4
<1>9. ASSUME NEW n \in opt.nodes, SetNode(n) \/ LockAges(n) \/ HandshakeAges(n) \/ Report(n)
      PROVE  BindingInv'
  <2>1. UNCHANGED <<volVars, opt, pod, sess, t, bindCache, astray>>
    BY <1>9, Zenon DEF SetNode, LockAges, HandshakeAges, Report, Outside
  <2> QED
    BY <2>1, QuietStep
<1>10. ASSUME NEW c \in DOMAIN pvc, ProvisionerGivesUp(c) PROVE BindingInv'
  <2>1. ObjectsOK(pv, pvc) /\ FeedOK(pv, pvc, volFeed) /\ ProvisionFails(c)
    BY <1>10 DEF BindingInv, ProvisionerGivesUp
  <2>2. Moved
    BY <2>1, ProvisionFailsMoves
  <2>3. UNCHANGED <<opt, pod, sess, t, bindCache, astray, pvCache, pvcCache>>
    BY <1>10 DEF ProvisionerGivesUp, Outside, ProvisionFails
  <2> QED
    BY <2>2, <2>3, VolumesStep
<1>11. ASSUME NEW v \in DOMAIN pv, DeleteVolume(v) PROVE BindingInv'
  <2>1. ObjectsOK(pv, pvc) /\ FeedOK(pv, pvc, volFeed) /\ pv[v].claim = "" /\ DeletePV(v)
    BY <1>11 DEF BindingInv, DeleteVolume
  <2>2. Moved
    BY <2>1, DeletePVMoves
  <2>3. UNCHANGED <<opt, pod, sess, t, bindCache, astray, pvCache, pvcCache>>
    BY <1>11 DEF DeleteVolume, Outside, DeletePV
  <2> QED
    BY <2>2, <2>3, VolumesStep
<1>12. CASE UNCHANGED vars
  BY <1>12, QuietStep DEF vars, taskVars
<1> QED
  BY <1>1, <1>2, <1>3, <1>4, <1>5, <1>6, <1>7, <1>8, <1>9, <1>10, <1>11, <1>12 DEF Next

-----------------------------------------------------------------------------
\* The invariant: every copy of a volume or claim in a cache, on a feed or in a task's
\* choice tells the truth about the version it is of; what is fully bound stays bound;
\* each task between choice and bind has every claim settled or still chosen, and is
\* with the session or the binder at most once.
THEOREM BindingInvariant == Spec => []BindingInv
<1>1. Init => BindingInv
  BY InitRight
<1>2. BindingInv /\ [Next]_vars => BindingInv'
  BY NextRight
<1> QED
  BY <1>1, <1>2, PTL DEF Spec

\* A pod is bound to a node only when each of its claims is bound, to a volume that is
\* the claim's and that the node reaches, but for the pods that went astray
\* (AssumePodVolumes, bindAPIUpdate, checkBindings): whatever the pods, nodes, classes
\* and volumes, through lost races for a volume, timeouts and restarts.
THEOREM BoundReachableAlways == Spec => []BoundReachable
<1>1. BindingInv => BoundReachable
  <2>1. PodsOK(pv, pvc, astray, pod) => BoundReachable
    BY DEF PodsOK, BoundReachable, Settled
  <2> QED
    BY <2>1 DEF BindingInv
<1> QED
  BY <1>1, BindingInvariant, PTL

=============================================================================
