---------------------------- MODULE DeviceSharing ----------------------------
(***************************************************************************)
(* Cards shared by pods.  A node's Devices (Others, one object for the     *)
(* scheduler cache and every session) count what of each card is taken:    *)
(* the gpushare devices by the set of pods on a card, the vgpu devices by  *)
(* counters of type uint.  What a pod has been given stands in an          *)
(* annotation of the pod: here a sequence of [card, mem, core].            *)
(*                                                                         *)
(* One kind of devices is configured at a time: "memory" and "number"      *)
(* (gpushare), "vgpu", or "none", and pods ask for that kind only.         *)
(***************************************************************************)
EXTENDS Integers, Sequences, FiniteSets, TLC, SequencesExt, FiniteSetsExt

CONSTANTS
    Request,   \* pod -> [init, main] (gpushare), [containers, use, nouse] (vgpu)
    Card,      \* node -> sequence of [mem, num, type, healthy]; card i is the i-th
    Word       \* 2^w of a uint, scaled down: larger than any card

ASSUME WordAssumption == Word \in Nat \ {0}

Empty == [pods |-> {}, mem |-> 0, num |-> 0, core |-> 0]

\* FoldLeft with each intermediate value computed once.
Through(op(_, _), base, seq) ==
    FoldLeft(LAMBDA acc, x : CHOOSE y \in {op(a, x) : a \in {acc}} : TRUE, base, seq)

\* A count of type uint.
uint(i) == i % Word

(***************************************************************************)
(* What a node offers and a pod asks for.                                  *)
(***************************************************************************)
getUnhealthyGPUs(n) == {i \in DOMAIN Card[n] : ~Card[n][i].healthy}

\* The cards of a node nobody uses: gpushare leaves out those called unhealthy, vgpu
\* takes all that are registered.
NewGPUDevices(kind, n) ==
    [i \in DOMAIN Card[n] \ (IF kind = "vgpu" THEN {} ELSE getUnhealthyGPUs(n)) |-> Empty]

\* Containers run together, the ones that initialise the pod one after the other.
PodSum(p, what(_)) ==
    Max({FoldLeft(LAMBDA a, c : a + what(c), 0, Request[p].main)}
        \cup {what(c) : c \in Range(Request[p].init)})
getGPUMemoryOfPod(p) == PodSum(p, LAMBDA c : c.mem)
getGPUNumberOfPod(p) == PodSum(p, LAMBDA c : c.num)

checkVGPUResourcesInPod(p) == \E c \in Range(Request[p].containers) : c.num > 0 \/ c.mem > 0

HasDeviceRequest(kind, p) ==
    CASE kind = "memory" -> getGPUMemoryOfPod(p) > 0
      [] kind = "number" -> getGPUNumberOfPod(p) > 0
      [] kind = "vgpu"   -> checkVGPUResourcesInPod(p)
      [] OTHER           -> FALSE

(***************************************************************************)
(* A pod with the annotation dev is put on the node, or taken off it.      *)
(* gpushare knows a pod by its uid, and only one that asks for memory;     *)
(* vgpu counts.                                                            *)
(***************************************************************************)
\* A card that takes d more, or less; a card the node does not have is passed over.
Taken(k, d, sign) ==
    IF d.card \notin DOMAIN k THEN k
    ELSE [k EXCEPT ![d.card].mem  = uint(@ + sign * d.mem),
                   ![d.card].num  = uint(@ + sign),
                   ![d.card].core = uint(@ + sign * d.core)]
Count(cards, dev) == Through(LAMBDA k, d : Taken(k, d, 1), cards, dev)

\* Mutant: the counters are signed.
MutUncount(cards, dev) ==
    Through(LAMBDA k, d : IF d.card \notin DOMAIN k THEN k
                          ELSE [k EXCEPT ![d.card].mem = @ - d.mem, ![d.card].num = @ - 1,
                                         ![d.card].core = @ - d.core],
            cards, dev)
Uncount(cards, dev) == Through(LAMBDA k, d : Taken(k, d, -1), cards, dev)

\* The cards of each container, written to and read from the annotation.
encodePodDevices(ctrdevs) == FoldLeft(LAMBDA a, devs : a \o devs, <<>>, ctrdevs)

OnCards(dev, i) == \E d \in Range(dev) : d.card = i

AddResource(kind, cards, p, dev) ==
    CASE kind = "vgpu"   -> Count(cards, dev)
      [] kind = "memory" -> [i \in DOMAIN cards |->
                               IF OnCards(dev, i) THEN [cards[i] EXCEPT !.pods = @ \cup {p}]
                               ELSE cards[i]]
      [] OTHER           -> cards

\* p is on none of the cards of dev any more.
DropFrom(cards, p, dev) ==
    [i \in DOMAIN cards |->
       IF OnCards(dev, i) THEN [cards[i] EXCEPT !.pods = @ \ {p}] ELSE cards[i]]

SubResource(kind, cards, p, dev) ==
    CASE kind = "vgpu"   -> Uncount(cards, dev)
      [] kind = "memory" -> DropFrom(cards, p, dev)
      [] OTHER           -> cards

(***************************************************************************)
(* gpushare: the first card with the memory, or some cards nobody is on.   *)
(* A choice is [ok, cards, dev]; these count nothing before the pod's      *)
(* annotation is written.                                                  *)
(***************************************************************************)
\* The pods of a card are as they were when they were put on it, none of them over.
getUsedGPUMemory(card) == FoldSet(LAMBDA p, m : m + getGPUMemoryOfPod(p), 0, card.pods)

getDevicesIdleGPUMemory(cards, n) ==
    [i \in DOMAIN cards |-> uint(Card[n][i].mem - getUsedGPUMemory(cards[i]))]

predicateGPUbyMemory(cards, p, n) ==
    LET idle == getDevicesIdleGPUMemory(cards, n)
    IN {i \in DOMAIN cards : idle[i] >= getGPUMemoryOfPod(p)}

getDevicesIdleGPUs(cards) == {i \in DOMAIN cards : cards[i].pods = {}}

\* The order of the cards, a map, is any.
predicateGPUbyNumber(cards, p) ==
    {S \in SUBSET getDevicesIdleGPUs(cards) : Cardinality(S) = getGPUNumberOfPod(p)}

PodOn(cards, p, S, mem) ==
    [ok |-> TRUE, cards |-> [i \in DOMAIN cards |->
        IF i \in S THEN [cards[i] EXCEPT !.pods = @ \cup {p}] ELSE cards[i]],
     dev |-> [i \in 1 .. Cardinality(S) |-> [card |-> SetToSeq(S)[i], mem |-> mem, core |-> 0]]]

NoChoice(cards) == [ok |-> FALSE, cards |-> cards, dev |-> <<>>]

(***************************************************************************)
(* vgpu: for every container the last cards that have room.                *)
(***************************************************************************)
\* A container that names no number of cards has one, and one that names no memory
\* all of the card's.  percent is 101 where it is not given.
resourcereqs(p) ==
    LET Asks(c) == c.num > 0 \/ c.mem > 0
        Req(c) == [c EXCEPT !.num = IF @ = 0 THEN 1 ELSE @,
                            !.percent = IF @ = 101 /\ c.mem = 0 THEN 100 ELSE @]
        asking == SelectSeq(Request[p].containers, Asks)
    IN [i \in DOMAIN asking |-> Req(asking[i])]

\* A single type not to be used excludes nothing.
checkGPUtype(p, type) ==
    IF Request[p].use # {} THEN type \in Request[p].use
    ELSE Cardinality(Request[p].nouse) > 1 => type \notin Request[p].nouse

\* Mutant: what is already taken of the card is not looked at.
MutHasRoom(cap, card, r) ==
    /\ cap.mem >= r.mem
    /\ 100 >= r.core

HasRoom(cap, card, r) ==
    /\ uint(cap.mem - card.mem) >= r.mem
    /\ uint(100 - card.core) >= r.core
    /\ ~(r.core = 100 /\ card.num > 0)
    /\ ~(card.core = 100 /\ r.core = 0)

\* Card i is tried for a container: s is [cards, r (what is still asked), dev].
TryCard(p, n, s, i) ==
    LET cap == Card[n][i]
        mem == IF s.r.percent # 101 /\ s.r.mem = 0 THEN cap.mem * (s.r.percent \div 100)
               ELSE s.r.mem
        r == [s.r EXCEPT !.mem = mem]
    IN IF s.r.num = 0 \/ cap.num <= s.cards[i].num THEN s
       ELSE IF ~HasRoom(cap, s.cards[i], r) \/ ~checkGPUtype(p, cap.type)
       THEN [s EXCEPT !.r = r]
       ELSE LET d == [card |-> i, mem |-> mem, core |-> r.core]
            IN [cards |-> Taken(s.cards, d, 1), r |-> [r EXCEPT !.num = @ - 1],
                dev |-> Append(s.dev, d)]

\* What is counted stays counted when a later container finds no card.
TryContainer(p, n, s, r) ==
    IF ~s.ok \/ r.num > Cardinality(DOMAIN s.cards) THEN [s EXCEPT !.ok = FALSE]
    ELSE LET all == Cardinality(DOMAIN s.cards)
             e == Through(LAMBDA a, i : TryCard(p, n, a, i),
                           [cards |-> s.cards, r |-> r, dev |-> <<>>],
                           [i \in 1 .. all |-> all + 1 - i])
         IN [ok |-> e.r.num = 0, cards |-> e.cards, dev |-> Append(s.dev, e.dev)]

checkNodeGPUSharingPredicate(p, n, cards) ==
    Through(LAMBDA s, r : TryContainer(p, n, s, r),
             [ok |-> TRUE, cards |-> cards, dev |-> <<>>], resourcereqs(p))

(***************************************************************************)
(* The choices the devices may make for a pod; FilterNode asks if there    *)
(* is one, Allocate takes it.                                              *)
(***************************************************************************)
MemoryOffers(p, n, cards) ==
    LET ids == predicateGPUbyMemory(cards, p, n)
    IN IF ids = {} THEN {NoChoice(cards)}
       ELSE {PodOn(cards, p, {Min(ids)}, getGPUMemoryOfPod(p))}

NumberOffers(p, cards) ==
    LET sets == predicateGPUbyNumber(cards, p)
    IN IF sets = {} THEN {NoChoice(cards)} ELSE {PodOn(cards, p, S, 0) : S \in sets}

VirtualOffers(p, n, cards) ==
    {[c EXCEPT !.dev = encodePodDevices(@)] : c \in {checkNodeGPUSharingPredicate(p, n, cards)}}

Offers(kind, p, n, cards) ==
    CASE kind = "vgpu"   -> VirtualOffers(p, n, cards)
      [] kind = "memory" -> MemoryOffers(p, n, cards)
      [] kind = "number" -> NumberOffers(p, cards)

FilterNode(kind, p, n, cards) ==
    HasDeviceRequest(kind, p) => \E c \in Offers(kind, p, n, cards) : c.ok

=============================================================================
