---------------------------- MODULE MCTaskBinding ----------------------------
(***************************************************************************)
(* Small instances of TaskBinding: two or three pods on two nodes, with    *)
(* volumes or with cards.                                                  *)
(***************************************************************************)
EXTENDS TaskBinding

MCNodes == {"n1", "n2"}

\* Classes: volumes made by hand for a waiting claim; with a provisioner too, which has
\* room on n2 only; bound at once.
MCClass ==
    [hand |-> [delay |-> TRUE, provisioner |-> FALSE, topology |-> MCNodes, csi |-> FALSE,
               capacity |-> {}],
     made |-> [delay |-> TRUE, provisioner |-> TRUE, topology |-> MCNodes, csi |-> TRUE,
               capacity |-> {[limit |-> 1, nodes |-> {"n1"}], [limit |-> 9, nodes |-> {"n2"}]}],
     once |-> [delay |-> FALSE, provisioner |-> FALSE, topology |-> MCNodes, csi |-> FALSE,
               capacity |-> {}]]

Volume(class, size, reach) ==
    [rv |-> 1, claim |-> "", class |-> class, size |-> size, reach |-> reach]
Claim(class, size) ==
    [rv |-> 1, sel |-> "", vol |-> "", done |-> FALSE, class |-> class, size |-> size, owner |-> ""]
Uses(c) == [claim |-> c, ephemeral |-> FALSE]

MCPodVols ==
    [plain |-> <<>>, solo |-> <<>>, trio |-> <<>>,
     both  |-> <<Uses("big"), Uses("small")>>, one |-> <<Uses("small")>>,
     share |-> <<Uses("big")>>, again |-> <<Uses("big")>>,
     inner |-> <<[claim |-> "inner", ephemeral |-> TRUE]>>, late |-> <<Uses("late")>>]

\* What pods ask of cards.
Nothing == [init |-> <<>>, main |-> <<>>, containers |-> <<>>, use |-> {}, nouse |-> {}]
Cards(mem, num) == [mem |-> mem, num |-> num]
Container(num, mem, percent, core) ==
    [num |-> num, mem |-> mem, percent |-> percent, core |-> core]
MCRequest ==
    [plain |-> [init |-> <<>>, main |-> <<Cards(6, 1)>>, use |-> {}, nouse |-> {"old"},
                containers |-> <<Container(1, 6, 101, 30)>>],
     solo  |-> [init |-> <<Cards(5, 1)>>, main |-> <<Cards(2, 1), Cards(1, 1)>>, use |-> {},
                nouse |-> {},
                containers |-> <<Container(0, 4, 101, 40), Container(1, 0, 101, 0)>>],
     trio  |-> [init |-> <<>>, main |-> <<Cards(3, 1)>>, use |-> {"new"}, nouse |-> {},
                containers |-> <<Container(1, 0, 50, 100)>>]]
    @@ [p \in DOMAIN MCPodVols |-> Nothing]

ACard == [mem |-> 10, num |-> 2, type |-> "new", healthy |-> TRUE]
MCCard == [n1 |-> <<ACard, [ACard EXCEPT !.type = "old"]>>,
           n2 |-> <<ACard, [ACard EXCEPT !.healthy = FALSE]>>]

None == <<>>
Budget(b) == b @@ [err |-> 0, discard |-> 0, timeout |-> 0, restart |-> 0, finish |-> 0,
                   kill |-> 0, age |-> 0, leave |-> 0, unprov |-> 0, unpv |-> 0]
Opt(pods) == [pods |-> pods, nodes |-> MCNodes, dev |-> "none", lock |-> FALSE, min |-> 0]
Shared(pods, n, dev) == [Opt(pods) EXCEPT !.nodes = {n}, !.dev = dev]

\* Two claims of one pod, and another pod with one of them; an answer is lost.
TwoClaims ==
    [opt |-> Opt({"both", "one"}),
     pv |-> [v1 |-> Volume("hand", 2, {"n1"}), v2 |-> Volume("hand", 3, MCNodes)],
     pvc |-> [big |-> Claim("hand", 2), small |-> Claim("hand", 1)],
     left |-> Budget([err |-> 1])]

\* Two pods share a claim that may be provisioned.
SharedClaim ==
    [opt |-> Opt({"share", "again"}),
     pv |-> [v1 |-> Volume("made", 2, {"n1"})], pvc |-> [big |-> Claim("made", 2)],
     left |-> Budget([timeout |-> 1])]

\* A claim that belongs to another pod, one that no pod has to wait for, and a volume
\* that goes away.
OddClaims ==
    [opt |-> Opt({"inner", "late"}),
     pv |-> [v1 |-> Volume("once", 2, {"n1"}), v2 |-> Volume("hand", 2, {"n2"})],
     pvc |-> [inner |-> [Claim("hand", 1) EXCEPT !.owner = "inner"], late |-> Claim("once", 1)],
     left |-> Budget([unpv |-> 1, restart |-> 1])]

\* A claim is provisioned, and the provisioner gives up once.
Provisioned ==
    [opt |-> Opt({"share", "one"}),
     pv |-> [v1 |-> Volume("hand", 2, MCNodes)],
     pvc |-> [big |-> Claim("made", 2), small |-> Claim("made", 1)],
     left |-> Budget([unprov |-> 1, discard |-> 1])]

\* A gang that a session allocates without a statement.
Gang ==
    [opt |-> [Opt({"one", "solo"}) EXCEPT !.min = 2],
     pv |-> [v1 |-> Volume("hand", 2, MCNodes)], pvc |-> [small |-> Claim("hand", 1)],
     left |-> Budget([restart |-> 1, kill |-> 1])]

\* Cards shared by memory, with and without a lock, given by number, and virtual.
OfCards(o, b) == [opt |-> o, pv |-> None, pvc |-> None, left |-> Budget(b)]
ByMemory == OfCards(Shared({"plain", "solo"}, "n2", "memory"), [discard |-> 1, finish |-> 1])
Locked == OfCards([Shared({"plain", "trio"}, "n1", "memory") EXCEPT !.lock = TRUE],
                  [discard |-> 1, age |-> 1])
Refused == OfCards([Shared({"solo"}, "n2", "memory") EXCEPT !.lock = TRUE],
                   [discard |-> 1, err |-> 1, kill |-> 1, age |-> 1])
ByNumber == OfCards(Shared({"plain", "solo"}, "n1", "number"), [discard |-> 1])
Virtual == OfCards(Shared({"plain", "solo"}, "n1", "vgpu"), [discard |-> 1, leave |-> 1])
VirtualAgain == OfCards(Shared({"plain", "trio"}, "n1", "vgpu"), [err |-> 1])

MCScenarios ==
    {TwoClaims, SharedClaim, OddClaims, Provisioned, Gang, ByMemory, Locked, Refused,
     ByNumber, Virtual, VirtualAgain}

=============================================================================
