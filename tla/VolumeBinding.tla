---------------------------- MODULE VolumeBinding ----------------------------
(***************************************************************************)
(* The scheduler's volume binder: the assume caches for volumes and claims *)
(* (an informer's copy of each object, and over it what the scheduler      *)
(* assumes of it), the search for volumes a pod could use on a node, and   *)
(* what is written to and read back from the API server to have the PV     *)
(* controller bind them.                                                   *)
(*                                                                         *)
(* A volume is [rv, claim, class, size, reach]: the claim it is reserved   *)
(* for ("" none) and the nodes it can be reached from.  A claim is         *)
(* [rv, sel, vol, done, class, size, owner]: its selected-node annotation, *)
(* the volume it names, whether the PV controller has completed the        *)
(* binding, and the pod an ephemeral claim belongs to.                     *)
(***************************************************************************)
EXTENDS Integers, Sequences, FiniteSets, TLC, Functions, SequencesExt

CONSTANTS
    Class,     \* storage class -> [delay, provisioner, topology, csi, capacity]
    PodVols    \* pod -> sequence of [claim, ephemeral]

VARIABLES
    pv, pvc,              \* the API server's volumes and claims (partial functions)
    pvCache, pvcCache,    \* the assume caches: name -> [latest, api]
    volFeed               \* [pv, pvc]: events on their way to the two informers

volVars == <<pv, pvc, pvCache, pvcCache, volFeed>>

Put(f, x, v) == [y \in DOMAIN f \cup {x} |-> IF y = x THEN v ELSE f[y]]

Gone == [rv |-> 0]

IsVolume(o) ==
    /\ o = [rv |-> o.rv, claim |-> o.claim, class |-> o.class, size |-> o.size,
            reach |-> o.reach]
    /\ o.rv \in Nat
IsClaim(o) ==
    /\ o = [rv |-> o.rv, sel |-> o.sel, vol |-> o.vol, done |-> o.done, class |-> o.class,
            size |-> o.size, owner |-> o.owner]
    /\ o.rv \in Nat

(***************************************************************************)
(* The assume cache.                                                       *)
(***************************************************************************)
add(cache, name, obj) ==
    IF name \in DOMAIN cache /\ obj.rv <= cache[name].latest.rv THEN cache
    ELSE Put(cache, name, [latest |-> obj, api |-> obj])

delete(cache, name) == Restrict(cache, DOMAIN cache \ {name})

AssumeFails(cache, name, obj) ==
    name \notin DOMAIN cache \/ obj.rv < cache[name].latest.rv

\* objs: name -> the object assumed.
Assume(cache, objs) ==
    [x \in DOMAIN cache |->
       IF x \in DOMAIN objs THEN [cache[x] EXCEPT !.latest = objs[x]] ELSE cache[x]]

\* What is not in the cache is left alone.
Restore(cache, names) ==
    [x \in DOMAIN cache |->
       IF x \in names THEN [cache[x] EXCEPT !.latest = cache[x].api] ELSE cache[x]]

\* What the scheduler assumes of an object, and what the informer last said.
GetPV(v) == pvCache[v].latest
GetPVC(c) == pvcCache[c].latest
GetAPIPV(v) == pvCache[v].api
GetAPIPVC(c) == pvcCache[c].api

ListPVs(class) == {v \in DOMAIN pvCache : GetPV(v).class = class}

HandlePV ==
    /\ volFeed.pv # <<>>
    /\ LET e == Head(volFeed.pv)
       IN pvCache' = IF e.obj = Gone THEN delete(pvCache, e.name)
                     ELSE add(pvCache, e.name, e.obj)
    /\ volFeed' = [volFeed EXCEPT !.pv = Tail(@)]
    /\ UNCHANGED <<pv, pvc, pvcCache>>

HandlePVC ==
    /\ volFeed.pvc # <<>>
    /\ LET e == Head(volFeed.pvc) IN pvcCache' = add(pvcCache, e.name, e.obj)
    /\ volFeed' = [volFeed EXCEPT !.pvc = Tail(@)]
    /\ UNCHANGED <<pv, pvc, pvCache>>

(***************************************************************************)
(* What a pod's claims are, and what volumes it could use on a node.       *)
(***************************************************************************)
\* The elements of s that are in S, in their order.
Keep(s, S) ==
    LET kept[i \in 0 .. Len(s)] ==
          IF i = 0 THEN <<>>
          ELSE IF s[i] \in S THEN Append(kept[i - 1], s[i]) ELSE kept[i - 1]
    IN kept[Len(s)]

ClaimsOf(p) == {PodVols[p][i].claim : i \in DOMAIN PodVols[p]}

isPVCFullyBound(o) == o.vol # "" /\ o.done

isVolumeBoundFails(p, v) ==
    \/ v.claim \notin DOMAIN pvcCache
    \/ v.ephemeral /\ GetPVC(v.claim).owner # p

arePodVolumesBound(p) ==
    \A i \in DOMAIN PodVols[p] :
      /\ ~isVolumeBoundFails(p, PodVols[p][i])
      /\ isPVCFullyBound(GetPVC(PodVols[p][i].claim))

\* A claim the scheduler is to bind; any other unbound claim is the PV
\* controller's and the pod must wait for it.
IsDelayBindingMode(o) == o.class # "" /\ Class[o.class].delay

\* The claims are split into bound, to be bound and neither.
GetPodVolumes(p) ==
    LET claims == [i \in DOMAIN PodVols[p] |-> PodVols[p][i].claim]
        bound == {c \in ClaimsOf(p) : isPVCFullyBound(GetPVC(c))}
        delayed == {c \in ClaimsOf(p) \ bound :
                      IsDelayBindingMode(GetPVC(c)) /\ GetPVC(c).vol = ""}
    IN [bound     |-> bound,
        delayed   |-> Keep(claims, delayed),
        immediate |-> ClaimsOf(p) \ (bound \cup delayed)]

GetPodVolumesFails(p) ==
    \E i \in DOMAIN PodVols[p] :
      \/ isVolumeBoundFails(p, PodVols[p][i])
      \/ LET o == GetPVC(PodVols[p][i].claim)
         IN ~isPVCFullyBound(o) /\ o.class \notin DOMAIN Class \cup {""}

checkBoundClaims(claims, n) ==
    \A c \in claims : LET v == GetPVC(c).vol
                      IN v \in DOMAIN pvCache /\ n \in GetPV(v).reach

\* The volume already reserved for the claim, if the node reaches it; else any of
\* the smallest that are free and large enough.  {} if there is none.  (Of several
\* volumes reserved for the claim the library takes the first, reachable or not.)
FindMatchingVolume(c, chosen, n) ==
    LET o == GetPVC(c)
        obj(v) == GetPV(v)
        big == {v \in ListPVs(o.class) \ chosen : obj(v).size >= o.size}
        own == {v \in big : obj(v).claim = c}
        free == {v \in big : obj(v).claim = "" /\ n \in obj(v).reach}
    IN IF own # {} THEN {v \in own : n \in obj(v).reach}
       ELSE {v \in free : \A w \in free : obj(v).size <= obj(w).size}

byPVCSize(c, d) == GetPVC(c).size < GetPVC(d).size

\* The claims by size; those of the same size in any order.
Sorted(claims) ==
    {s \in {[i \in DOMAIN claims |-> claims[f[i]]] : f \in Bijection(DOMAIN claims, DOMAIN claims)} :
       \A i, j \in DOMAIN s : i < j => ~byPVCSize(s[j], s[i])}

\* Every way to give the claims s, one after the other, a volume each ("" none).
Ways(s, n) ==
    {give \in [DOMAIN s -> DOMAIN pvCache \cup {""}] :
       \A i \in DOMAIN s :
         LET found == FindMatchingVolume(s[i], {give[j] : j \in 1 .. i - 1}, n)
         IN IF found = {} THEN give[i] = "" ELSE give[i] \in found}

\* What is given, and the claims that are left.
Matched(s, give) ==
    LET at == [i \in DOMAIN s |-> i]
        with == Keep(at, {i \in DOMAIN s : give[i] # ""})
        without == Keep(at, {i \in DOMAIN s : give[i] = ""})
    IN [bind |-> [j \in DOMAIN with |->
                    [claim |-> s[with[j]], pv |-> give[with[j]], obj |-> GetPV(give[with[j]])]],
        rest |-> [j \in DOMAIN without |-> s[without[j]]]]

findMatchingVolumes(claims, n) ==
    UNION {{Matched(s, give) : give \in Ways(s, n)} : s \in Sorted(claims)}

\* The class's drivers tell what is left for new volumes, unless they do not.
hasEnoughCapacity(o, n) ==
    Class[o.class].csi =>
      \E room \in Class[o.class].capacity : room.limit >= o.size /\ n \in room.nodes

checkVolumeProvisions(claims, n) ==
    \A c \in Range(claims) :
      LET o == GetPVC(c)
      IN /\ o.class \in DOMAIN Class
         /\ Class[o.class].provisioner
         /\ n \in Class[o.class].topology
         /\ hasEnoughCapacity(o, n)

\* All that AssumePodVolumes may be given for p on n; {} if the pod cannot run there.
FindPodVolumes(p, n) ==
    LET found == GetPodVolumes(p)
        sel(c) == GetPVC(c).sel
        selected == Keep(found.delayed, {c \in ClaimsOf(p) : sel(c) # ""})
        open == Keep(found.delayed, {c \in ClaimsOf(p) : sel(c) = ""})
    IN IF \/ found.immediate # {}
          \/ ~checkBoundClaims(found.bound, n)
          \/ \E c \in Range(selected) : sel(c) # n
       THEN {}
       ELSE {[bind |-> w.bind, prov |-> [i \in DOMAIN (selected \o w.rest) |->
                [claim |-> (selected \o w.rest)[i],
                 obj   |-> GetPVC((selected \o w.rest)[i])]]] :
               w \in {w \in findMatchingVolumes(open, n) :
                        checkVolumeProvisions(selected \o w.rest, n)}}

(***************************************************************************)
(* Assuming and reverting.                                                 *)
(***************************************************************************)
NoVols == [bind |-> <<>>, prov |-> <<>>]
PVsOf(bind) == {bind[i].pv : i \in DOMAIN bind}
ClaimsIn(prov) == {prov[i].claim : i \in DOMAIN prov}

Reserved(b) == [b EXCEPT !.obj.claim = b.claim]
Marked(c, n) == [c EXCEPT !.obj.sel = n]

\* The bindings that are assumed: a volume already reserved for the claim is not dirty.
Dirty(bind) == {b \in Range(bind) : b.obj.claim # b.claim}

\* The positions at which assuming fails.
PVFailures(vols) ==
    {i \in DOMAIN vols.bind :
       vols.bind[i] \in Dirty(vols.bind)
       /\ AssumeFails(pvCache, vols.bind[i].pv, vols.bind[i].obj)}
PVCFailures(vols) ==
    {i \in DOMAIN vols.prov : AssumeFails(pvcCache, vols.prov[i].claim, vols.prov[i].obj)}

FirstOf(at) == CHOOSE i \in at : \A j \in at : i <= j

\* pvCache', pvcCache' when all is assumed, or when it stops at a failure.
AssumePodVolumes(vols, n) ==
    IF PVFailures(vols) # {}
    THEN /\ pvCache' = Restore(pvCache,
                         PVsOf(SubSeq(vols.bind, 1, FirstOf(PVFailures(vols)) - 1)))
         /\ UNCHANGED pvcCache
    ELSE IF PVCFailures(vols) # {}
    THEN /\ pvCache' = Restore(pvCache, PVsOf(vols.bind))
         /\ pvcCache' = Restore(pvcCache,
                          ClaimsIn(SubSeq(vols.prov, 1, FirstOf(PVCFailures(vols)) - 1)))
    ELSE /\ pvCache' = Assume(pvCache, [v \in {b.pv : b \in Dirty(vols.bind)} |->
                         Reserved(CHOOSE b \in Dirty(vols.bind) : b.pv = v).obj])
         /\ pvcCache' = Assume(pvcCache, [c \in ClaimsIn(vols.prov) |->
                          Marked(CHOOSE x \in Range(vols.prov) : x.claim = c, n).obj])

Assumed(vols, n) ==
    [bind |-> [i \in DOMAIN vols.bind |-> Reserved(vols.bind[i])],
     prov |-> [i \in DOMAIN vols.prov |-> Marked(vols.prov[i], n)]]

RevertAssumedPodVolumes(vols) ==
    /\ pvCache' = Restore(pvCache, PVsOf(vols.bind))
    /\ pvcCache' = Restore(pvcCache, ClaimsIn(vols.prov))

(***************************************************************************)
(* Writing to the API server, which refuses what was made from an old copy,*)
(* and reading back.                                                       *)
(***************************************************************************)
UpdateFails(objs, name, obj) == name \notin DOMAIN objs \/ objs[name].rv # obj.rv

PutPV(v, obj) ==
    /\ pv' = Put(pv, v, [obj EXCEPT !.rv = @ + 1])
    /\ volFeed' = [volFeed EXCEPT !.pv = Append(@, [name |-> v, obj |-> pv'[v]])]
    /\ UNCHANGED pvc

PutPVC(c, obj) ==
    /\ pvc' = Put(pvc, c, [obj EXCEPT !.rv = @ + 1])
    /\ volFeed' = [volFeed EXCEPT !.pvc = Append(@, [name |-> c, obj |-> pvc'[c]])]
    /\ UNCHANGED pv

\* One static binding as checkBindings finds it.
checkBinding(b, n) ==
    IF b.pv \notin DOMAIN pvCache \/ b.claim \notin DOMAIN pvcCache THEN "error"
    ELSE LET v == GetAPIPV(b.pv)
         IN IF b.obj.rv > v.rv THEN "wait"
            ELSE IF n \notin v.reach \/ v.claim = "" THEN "error"
            ELSE IF isPVCFullyBound(GetAPIPVC(b.claim)) THEN "bound" ELSE "wait"

\* Mutant: the volume the claim is bound to is not looked at.
MutcheckProvision(c, n) ==
    IF c.claim \notin DOMAIN pvcCache THEN "error"
    ELSE LET o == GetAPIPVC(c.claim)
         IN IF c.obj.rv > o.rv THEN "wait"
            ELSE IF o.sel # n THEN "error"
            ELSE IF isPVCFullyBound(o) THEN "bound" ELSE "wait"

\* A claim to be provisioned: the provisioner takes the selected node away if it
\* fails, and the volume may be announced after the claim that names it.
checkProvision(c, n) ==
    IF c.claim \notin DOMAIN pvcCache THEN "error"
    ELSE LET o == GetAPIPVC(c.claim)
         IN IF c.obj.rv > o.rv THEN "wait"
            ELSE IF o.sel # n THEN "error"
            ELSE IF o.vol = "" THEN "wait"
            ELSE IF o.vol \notin DOMAIN pvCache THEN "wait"
            ELSE IF n \notin GetAPIPV(o.vol).reach THEN "error"
            ELSE IF isPVCFullyBound(o) THEN "bound" ELSE "wait"

\* The first that is not bound decides.
checkBindings(vols, n) ==
    LET verdicts == [i \in DOMAIN vols.bind |-> checkBinding(vols.bind[i], n)]
                    \o [i \in DOMAIN vols.prov |-> checkProvision(vols.prov[i], n)]
        open == {i \in DOMAIN verdicts : verdicts[i] # "bound"}
    IN IF open = {} THEN "bound" ELSE verdicts[FirstOf(open)]

(***************************************************************************)
(* The PV controller and the provisioners.                                 *)
(***************************************************************************)
\* A volume reserved for the claim is bound to it; a claim that needs no pod first
\* may take any free volume.
PVControllerBind(c, v) ==
    /\ pvc[c].vol = ""
    /\ \/ pv[v].claim = c
       \/ /\ ~IsDelayBindingMode(pvc[c])
          /\ pv[v].claim = "" /\ pv[v].class = pvc[c].class /\ pv[v].size >= pvc[c].size
    /\ pv' = [pv EXCEPT ![v].claim = c, ![v].rv = @ + 1]
    /\ pvc' = [pvc EXCEPT ![c].vol = v, ![c].done = TRUE, ![c].rv = @ + 1]
    /\ volFeed' = [pv  |-> Append(volFeed.pv, [name |-> v, obj |-> pv'[v]]),
                   pvc |-> Append(volFeed.pvc, [name |-> c, obj |-> pvc'[c]])]
    /\ UNCHANGED <<pvCache, pvcCache>>

\* A volume reserved for a claim that has got another is free again.
PVControllerUnbind(v) ==
    /\ pv[v].claim \in DOMAIN pvc
    /\ pvc[pv[v].claim].vol \notin {"", v}
    /\ PutPV(v, [pv[v] EXCEPT !.claim = ""])
    /\ UNCHANGED <<pvCache, pvcCache>>

Provisionable(c) ==
    /\ pvc[c].sel # "" /\ pvc[c].vol = ""
    /\ \A v \in DOMAIN pv : pv[v].claim # c

Provision(c) ==
    /\ Provisionable(c)
    /\ PutPV(c, [rv |-> 0, claim |-> c, class |-> pvc[c].class, size |-> pvc[c].size,
                 reach |-> {pvc[c].sel}])
    /\ UNCHANGED <<pvCache, pvcCache>>

ProvisionFails(c) ==
    /\ Provisionable(c)
    /\ PutPVC(c, [pvc[c] EXCEPT !.sel = ""])
    /\ UNCHANGED <<pvCache, pvcCache>>

DeletePV(v) ==
    /\ pv' = Restrict(pv, DOMAIN pv \ {v})
    /\ volFeed' = [volFeed EXCEPT !.pv = Append(@, [name |-> v, obj |-> Gone])]
    /\ UNCHANGED <<pvc, pvCache, pvcCache>>

=============================================================================
