----------------------- MODULE SchedulerCache_proofs -----------------------
(***************************************************************************)
(* Theorems about the scheduler's cache, for every set of pods, nodes and  *)
(* Jobs and every sequence of events, bindings and failures: the types and *)
(* the accounting of the nodes.                                            *)
(***************************************************************************)
EXTENDS SchedulerCache, TLAPS, FiniteSetTheorems, SequenceTheorems, WellFoundedInduction

-----------------------------------------------------------------------------
(***************************************************************************)
(* Facts about NodeInfo for any set of pods and any requests: what a sum   *)
(* over a set of pods is, and what the operations on a node do to its      *)
(* totals.  A sum is a fold; that it does not depend on the order in which *)
(* the elements are taken is shown by counting: a pod that asks for r is r *)
(* units, and the sum over a set is the number of its units.               *)
(***************************************************************************)
\* The sum of f over S, and the units it counts.
SumOf(f, S) == MapThenSumSet(LAMBDA x : f[x], S)
Units(f, S) == {u \in S \X Nat : u[2] \in 1 .. f[u[1]]}

\* A non-empty set of subsets of a finite set has an element that none of its
\* other elements is a part of: induction over finite sets, for any property
\* that can be written as a set.
LEMMA SmallestSubset ==
    ASSUME NEW S, IsFiniteSet(S), NEW T \in SUBSET SUBSET S, T # {}
    PROVE  \E s \in T : \A x \in s : s \ {x} \notin T
<1>1. T \subseteq FiniteSubsetsOf(S)
  BY FS_Subset DEF FiniteSubsetsOf
<1>2. PICK s \in T : \A y \in T : <<y, s>> \notin StrictSubsetOrdering(S)
  BY <1>1, FS_StrictSubsetOrderingWellFounded, WFMin
<1>3. ASSUME NEW x \in s, s \ {x} \in T PROVE FALSE
  <2>1. <<s \ {x}, s>> \in (SUBSET S) \X (SUBSET S)
    OBVIOUS
  <2>2. s \ {x} \subseteq s /\ s \ {x} # s
    OBVIOUS
  <2>3. <<s \ {x}, s>> \in StrictSubsetOrdering(S)
    BY <2>1, <2>2 DEF StrictSubsetOrdering
  <2> QED
    BY <1>2, <1>3, <2>3
<1> QED
  BY <1>2, <1>3

\* One element of a set contributes as many units as it asks for.
LEMMA UnitsOfOne ==
    ASSUME NEW S, NEW f, NEW x \in S, f[x] \in Nat
    PROVE  /\ Units(f, S) = Units(f, S \ {x}) \cup ({x} \X (1 .. f[x]))
           /\ Units(f, S \ {x}) \cap ({x} \X (1 .. f[x])) = {}
           /\ IsFiniteSet({x} \X (1 .. f[x]))
           /\ Cardinality({x} \X (1 .. f[x])) = f[x]
<1>1. Units(f, S) = Units(f, S \ {x}) \cup ({x} \X (1 .. f[x]))
  BY DEF Units
<1>2. Units(f, S \ {x}) \cap ({x} \X (1 .. f[x])) = {}
  BY DEF Units
<1>3. IsFiniteSet({x}) /\ Cardinality({x}) = 1
  BY FS_Singleton
<1>4. IsFiniteSet(1 .. f[x]) /\ Cardinality(1 .. f[x]) = f[x]
  BY FS_Interval
<1> DEFINE I == 1 .. f[x]
<1>5. IsFiniteSet({x} \X I) /\ Cardinality({x} \X I) = Cardinality({x}) * Cardinality(I)
  <2> HIDE DEF I
  <2> QED
    BY <1>3, <1>4, FS_Product DEF I
<1>6. Cardinality({x} \X I) = 1 * f[x]
  BY <1>3, <1>4, <1>5
<1>7. 1 * f[x] = f[x]
  OBVIOUS
<1> QED
  BY <1>1, <1>2, <1>5, <1>6, <1>7

\* A finite set has finitely many units.
LEMMA UnitsFinite ==
    ASSUME NEW S, IsFiniteSet(S), NEW f, \A x \in S : f[x] \in Nat
    PROVE  IsFiniteSet(Units(f, S))
<1> DEFINE T == {s \in SUBSET S : ~IsFiniteSet(Units(f, s))}
<1>1. SUFFICES ASSUME T # {} PROVE FALSE
  OBVIOUS
<1>2. PICK s \in T : \A x \in s : s \ {x} \notin T
  BY <1>1, SmallestSubset
<1>3. CASE s = {}
  BY <1>3, FS_EmptySet DEF Units
<1>4. ASSUME NEW x \in s PROVE FALSE
  <2>1. IsFiniteSet(Units(f, s \ {x}))
    BY <1>2, <1>4
  <2> DEFINE U == {x} \X (1 .. f[x])
  <2>2. f[x] \in Nat
    BY <1>2, <1>4
  <2>3. Units(f, s) = Units(f, s \ {x}) \cup U /\ IsFiniteSet(U)
    BY <2>2, <1>4, UnitsOfOne, ZenonT(60)
  <2> HIDE DEF U
  <2>4. IsFiniteSet(Units(f, s))
    BY <2>1, <2>3, FS_Union
  <2> QED
    BY <2>4, <1>2
<1> QED
  BY <1>2, <1>3, <1>4

\* One element more is as many units more as it asks for.
LEMMA UnitsStep ==
    ASSUME NEW S, IsFiniteSet(S), NEW f, \A x \in S : f[x] \in Nat, NEW x \in S
    PROVE  Cardinality(Units(f, S)) = f[x] + Cardinality(Units(f, S \ {x}))
<1>1. IsFiniteSet(Units(f, S \ {x}))
  BY UnitsFinite, FS_Subset
<1>2. Cardinality(Units(f, S \ {x})) \in Nat
  BY <1>1, FS_CardinalityType
<1> DEFINE U == {x} \X (1 .. f[x])
           V == Units(f, S \ {x})
<1>3. /\ Units(f, S) = V \cup U /\ V \cap U = {}
      /\ IsFiniteSet(U) /\ Cardinality(U) = f[x]
  BY UnitsOfOne
<1>4. Cardinality(V \cup U) = Cardinality(V) + Cardinality(U) - Cardinality(V \cap U)
  BY <1>1, <1>3, FS_Union
<1>5. Cardinality(V \cap U) = 0
  BY <1>3, FS_EmptySet
<1> HIDE DEF U, V
<1> QED
  BY <1>2, <1>3, <1>4, <1>5 DEF V

\* The fold of MapThenSumSet is well defined and counts the units.
LEMMA SumIsCount ==
    ASSUME NEW S, IsFiniteSet(S), NEW f, \A x \in S : f[x] \in Nat
    PROVE  SumOf(f, S) = Cardinality(Units(f, S))
<1> DEFINE Eq(g) == g = [s \in SUBSET S |->
                           IF s = {} THEN 0
                           ELSE f[CHOOSE x \in s : TRUE]
                                  + g[s \ {CHOOSE x \in s : TRUE}]]
           iter == CHOOSE g : Eq(g)
           count == [s \in SUBSET S |-> Cardinality(Units(f, s))]
<1>1. SumOf(f, S) = iter[S]
  BY DEF SumOf, MapThenSumSet, MapThenFoldSet
<1>2. Eq(count)
  <2>1. ASSUME NEW s \in SUBSET S
        PROVE  count[s] = IF s = {} THEN 0
                          ELSE f[CHOOSE x \in s : TRUE]
                                 + count[s \ {CHOOSE x \in s : TRUE}]
    <3>1. CASE s = {}
      BY <3>1, FS_EmptySet DEF Units
    <3>2. CASE s # {}
      <4> DEFINE y == CHOOSE x \in s : TRUE
      <4>1. y \in s
        BY <3>2
      <4>2. IsFiniteSet(s) /\ s \ {y} \in SUBSET S
        BY FS_Subset
      <4>3. Cardinality(Units(f, s)) = f[y] + Cardinality(Units(f, s \ {y}))
        BY <4>1, <4>2, UnitsStep
      <4> QED
        BY <3>2, <4>2, <4>3
    <3> QED
      BY <3>1, <3>2
  <2> QED
    BY <2>1
<1>3. Eq(iter)
  BY <1>2
<1> DEFINE T == {s \in SUBSET S : iter[s] # Cardinality(Units(f, s))}
<1>4. T = {}
  <2>1. SUFFICES ASSUME T # {} PROVE FALSE
    OBVIOUS
  <2>2. PICK s \in T : \A x \in s : s \ {x} \notin T
    BY <2>1, SmallestSubset
  <2> DEFINE y == CHOOSE x \in s : TRUE
  <2>3. iter[s] = IF s = {} THEN 0 ELSE f[y] + iter[s \ {y}]
    BY <1>3, <2>2
  <2>4. CASE s = {}
    BY <2>2, <2>3, <2>4, FS_EmptySet DEF Units
  <2>5. CASE s # {}
    <3>1. y \in s
      BY <2>5
    <3>2. iter[s \ {y}] = Cardinality(Units(f, s \ {y}))
      BY <2>2, <3>1
    <3>3. Cardinality(Units(f, s)) = f[y] + Cardinality(Units(f, s \ {y}))
      <4>1. IsFiniteSet(s) /\ \A x \in s : f[x] \in Nat
        BY <2>2, FS_Subset
      <4> QED
        BY <3>1, <4>1, UnitsStep, ZenonT(60)
    <3> QED
      BY <2>2, <2>3, <2>5, <3>2, <3>3
  <2> QED
    BY <2>4, <2>5
<1> QED
  BY <1>1, <1>4

-----------------------------------------------------------------------------
\* What a set of pods asks for: nothing if it is empty, one pod more adds its
\* request, and a part asks for no more than the whole.
LEMMA TotalEmpty == Total({}) = 0
<1>1. Total({}) = SumOf(Req, {}) /\ IsFiniteSet({})
  BY FS_EmptySet DEF Total, SumOf
<1>2. Units(Req, {}) = {}
  BY DEF Units
<1> QED
  BY <1>1, <1>2, SumIsCount, FS_EmptySet

\* The total of a set of pods counts the units their requests ask for; in
\* particular it is a natural number.
LEMMA TotalCounts ==
    ASSUME NEW S \in SUBSET Names
    PROVE  /\ IsFiniteSet(S) /\ IsFiniteSet(Units(Req, S))
           /\ Total(S) = Cardinality(Units(Req, S))
           /\ Total(S) \in Nat
<1>1. IsFiniteSet(S) /\ \A x \in S : Req[x] \in Nat
  BY ApiAssumption, FS_Subset
<1>2. IsFiniteSet(Units(Req, S)) /\ SumOf(Req, S) = Cardinality(Units(Req, S))
  BY <1>1, UnitsFinite, SumIsCount
<1>3. Cardinality(Units(Req, S)) \in Nat
  BY <1>2, FS_CardinalityType
<1> QED
  BY <1>1, <1>2, <1>3 DEF Total, SumOf

\* A pod added to a set of pods adds its request to the total.
LEMMA TotalWith ==
    ASSUME NEW S \in SUBSET Names, NEW p \in Names, p \notin S
    PROVE  Total(S \cup {p}) = Total(S) + Req[p]
<1> DEFINE W == S \cup {p}
<1>1. W \in SUBSET Names /\ W \ {p} = S /\ p \in W
  OBVIOUS
<1> HIDE DEF W
<1>2. IsFiniteSet(W) /\ Total(W) = Cardinality(Units(Req, W))
  BY <1>1, TotalCounts
<1>3. \A x \in W : Req[x] \in Nat
  BY <1>1, ApiAssumption
<1>4. Cardinality(Units(Req, W)) = Req[p] + Cardinality(Units(Req, W \ {p}))
  BY <1>1, <1>2, <1>3, UnitsStep
<1>5. Total(S) = Cardinality(Units(Req, W \ {p})) /\ Total(S) \in Nat /\ Req[p] \in Nat
  BY <1>1, TotalCounts, ApiAssumption
<1>6. Total(W) = Total(S) + Req[p]
  BY <1>2, <1>4, <1>5
<1> QED
  BY <1>6 DEF W

\* A pod taken out of a set of pods takes its request from the total.
LEMMA TotalWithout ==
    ASSUME NEW S \in SUBSET Names, NEW p \in S
    PROVE  Total(S \ {p}) = Total(S) - Req[p]
<1>1. S = (S \ {p}) \cup {p} /\ p \notin S \ {p} /\ S \ {p} \in SUBSET Names /\ p \in Names
  OBVIOUS
<1>2. Total((S \ {p}) \cup {p}) = Total(S \ {p}) + Req[p]
  BY <1>1, TotalWith
<1>3. Total(S \ {p}) \in Nat /\ Req[p] \in Nat /\ Total(S) = Total(S \ {p}) + Req[p]
  BY <1>1, <1>2, TotalCounts, ApiAssumption
<1> QED
  BY <1>3

\* Fewer pods do not request more.
LEMMA TotalMonotone ==
    ASSUME NEW S \in SUBSET Names, NEW R \in SUBSET S
    PROVE  Total(R) <= Total(S)
<1>1. Units(Req, R) \subseteq Units(Req, S)
  BY DEF Units
<1>2. R \in SUBSET Names
  OBVIOUS
<1>3. Cardinality(Units(Req, R)) <= Cardinality(Units(Req, S))
  BY <1>1, TotalCounts, FS_Subset
<1> QED
  BY <1>2, <1>3, TotalCounts

-----------------------------------------------------------------------------
(***************************************************************************)
(* NodeInfo.                                                               *)
(***************************************************************************)
NodeInfoType ==
    [set : BOOLEAN, ready : BOOLEAN, alloc : Int, idle : Int, used : Int,
     releasing : Int, pipelined : Int, tasks : [Names -> TaskStatuses \cup {"None"}]]

NoTotals(ni) ==
    /\ ni.ready = FALSE /\ ni.alloc = 0 /\ ni.idle = 0 /\ ni.used = 0
    /\ ni.releasing = 0 /\ ni.pipelined = 0

\* A NodeInfo without its Node counts nothing.
LEMMA AccountedUnset ==
    ASSUME NEW ni \in NodeInfoType, ~ni.set
    PROVE  Accounted(ni) <=> NoTotals(ni)
<1> DEFINE m == [ni EXCEPT !.tasks = UnsetNodeInfo.tasks]
<1>1. /\ DOMAIN m = DOMAIN UnsetNodeInfo
      /\ m.set = ni.set /\ m.ready = ni.ready /\ m.alloc = ni.alloc /\ m.idle = ni.idle
      /\ m.used = ni.used /\ m.releasing = ni.releasing /\ m.pipelined = ni.pipelined
      /\ m.tasks = UnsetNodeInfo.tasks
  BY DEF NodeInfoType, UnsetNodeInfo
<1>2. Accounted(ni) <=> m = UnsetNodeInfo
  BY DEF Accounted
<1>3. m \in NodeInfoType /\ UnsetNodeInfo \in NodeInfoType
  BY DEF NodeInfoType, UnsetNodeInfo, TaskStatuses
<1> HIDE DEF m
<1>4. ASSUME m = UnsetNodeInfo PROVE NoTotals(ni)
  <2>1. NoTotals(UnsetNodeInfo)
    BY DEF NoTotals, UnsetNodeInfo
  <2> QED
    BY <1>1, <1>4, <2>1 DEF NoTotals
<1>5. ASSUME NoTotals(ni) PROVE m = UnsetNodeInfo
  BY <1>1, <1>3, <1>5 DEF NoTotals, UnsetNodeInfo, NodeInfoType
<1> QED
  BY <1>2, <1>4, <1>5

\* A node made for a task before its Node object is known (node_info.go,
\* NewNodeInfo(nil)) is accounted: it has no totals.
LEMMA UnsetNodeIsAccounted ==
    UnsetNodeInfo \in NodeInfoType /\ Accounted(UnsetNodeInfo) /\ ~UnsetNodeInfo.set
<1>1. UnsetNodeInfo \in NodeInfoType /\ ~UnsetNodeInfo.set
  BY DEF UnsetNodeInfo, NodeInfoType
<1>2. NoTotals(UnsetNodeInfo)
  BY DEF NoTotals, UnsetNodeInfo
<1> QED
  BY <1>1, <1>2, AccountedUnset

\* The three sets a NodeInfo counts are sets of pods.
LEMMA CountedTypes ==
    ASSUME NEW ni
    PROVE  /\ Holding(ni) \in SUBSET Names /\ Leaving(ni) \in SUBSET Names
           /\ Promised(ni) \in SUBSET Names
           /\ Total(Holding(ni)) \in Nat /\ Total(Leaving(ni)) \in Nat
           /\ Total(Promised(ni)) \in Nat
  BY TotalCounts DEF Holding, Leaving, Promised

\* setNode counts again from the tasks.
LEMMA setNodeCounts ==
    ASSUME NEW ni \in NodeInfoType, NEW obj, obj.alloc \in Int
    PROVE  LET m == setNode(ni, obj)
           IN  /\ m \in NodeInfoType /\ m.set = TRUE /\ m.alloc = obj.alloc
               /\ m.tasks = ni.tasks /\ m.ready = ni.ready
               /\ m.used = Total(Holding(ni))
               /\ (m.used <= m.alloc => Accounted(m))
<1> DEFINE m == setNode(ni, obj)
<1>1. /\ m \in NodeInfoType /\ m.set = TRUE /\ m.alloc = obj.alloc
      /\ m.tasks = ni.tasks /\ m.ready = ni.ready
      /\ m.used = Total(Holding(ni)) /\ m.releasing = Total(Leaving(ni))
      /\ m.pipelined = Total(Promised(ni)) /\ m.idle = m.alloc - m.used
  <2> DEFINE a == obj.alloc
             h == Total(Holding(ni))
             l == Total(Leaving(ni))
             q == Total(Promised(ni))
             i == a - h
  <2>1. a \in Int /\ h \in Int /\ l \in Int /\ q \in Int /\ i \in Int
    BY CountedTypes
  <2>2. m = [ni EXCEPT !.set = TRUE, !.alloc = a, !.idle = i, !.used = h,
                       !.releasing = l, !.pipelined = q]
    BY DEF setNode
  <2> HIDE DEF a, h, l, q, i, m
  <2>3. /\ m \in NodeInfoType /\ m.set = TRUE /\ m.alloc = a /\ m.tasks = ni.tasks
        /\ m.ready = ni.ready /\ m.used = h /\ m.releasing = l /\ m.pipelined = q
        /\ m.idle = i
    <3>1. m \in NodeInfoType
      BY <2>1, <2>2 DEF NodeInfoType
    <3>2. /\ m.set = TRUE /\ m.alloc = a /\ m.tasks = ni.tasks
          /\ m.ready = ni.ready /\ m.used = h /\ m.releasing = l
      BY <2>1, <2>2 DEF NodeInfoType
    <3>3. m.pipelined = q /\ m.idle = i
      BY <2>1, <2>2 DEF NodeInfoType
    <3> QED
      BY <3>1, <3>2, <3>3
  <2> QED
    BY <2>3 DEF a, h, l, q, i
<1>2. Holding(m) = Holding(ni) /\ Leaving(m) = Leaving(ni) /\ Promised(m) = Promised(ni)
  BY <1>1 DEF Holding, Leaving, Promised
<1> HIDE DEF m
<1>3. m.used <= m.alloc => Accounted(m)
  BY <1>1, <1>2 DEF Accounted
<1> QED
  BY <1>1, <1>3 DEF m

\* Whether a node is ready is not counted.
LEMMA ReadyIsFree ==
    ASSUME NEW ni \in NodeInfoType, Accounted(ni), NEW r \in BOOLEAN, ni.set \/ ~r
    PROVE  LET m == [ni EXCEPT !.ready = r]
           IN  m \in NodeInfoType /\ Accounted(m) /\ m.tasks = ni.tasks
               /\ m.set = ni.set /\ m.alloc = ni.alloc /\ m.ready = r
<1> DEFINE m == [ni EXCEPT !.ready = r]
<1>1. /\ m \in NodeInfoType /\ m.set = ni.set /\ m.alloc = ni.alloc /\ m.ready = r
      /\ m.tasks = ni.tasks /\ m.used = ni.used /\ m.releasing = ni.releasing
      /\ m.pipelined = ni.pipelined /\ m.idle = ni.idle
  BY DEF NodeInfoType
<1>2. Holding(m) = Holding(ni) /\ Leaving(m) = Leaving(ni) /\ Promised(m) = Promised(ni)
  BY <1>1 DEF Holding, Leaving, Promised
<1> HIDE DEF m
<1>3. ASSUME ni.set PROVE Accounted(m)
  BY <1>1, <1>2, <1>3 DEF Accounted
<1>4. ASSUME ~ni.set PROVE Accounted(m)
  <2>1. NoTotals(ni) /\ r = FALSE
    BY <1>4, AccountedUnset
  <2>2. NoTotals(m) /\ ~m.set
    BY <1>1, <1>4, <2>1 DEF NoTotals
  <2> QED
    BY <1>1, <2>2, AccountedUnset
<1>5. Accounted(m)
  BY <1>3, <1>4
<1> QED
  BY <1>1, <1>5 DEF m

\* A Node object as the informer delivers it.
NodeObject == [alloc : Nat, ready : BOOLEAN, there : BOOLEAN]

\* NewNodeInfo of a Node object has all its capacity idle and no task, so it
\* is accounted.
LEMMA NewNodeInfoIsAccounted ==
    ASSUME NEW obj, obj.alloc \in Nat, obj.ready \in BOOLEAN
    PROVE  LET m == NewNodeInfo(obj)
           IN  m \in NodeInfoType /\ Accounted(m) /\ m.set = TRUE /\ m.alloc = obj.alloc
               /\ m.tasks = [p \in Names |-> "None"]
<1> DEFINE u == setNode(UnsetNodeInfo, obj)
<1>1. Holding(UnsetNodeInfo) = {}
  BY DEF Holding, UnsetNodeInfo
<1>2. /\ u \in NodeInfoType /\ u.set = TRUE /\ u.alloc = obj.alloc
      /\ u.tasks = UnsetNodeInfo.tasks /\ u.used = 0
      /\ (u.used <= u.alloc => Accounted(u))
  <2>1. obj.alloc \in Int /\ UnsetNodeInfo \in NodeInfoType
    BY UnsetNodeIsAccounted
  <2> QED
    BY <1>1, <2>1, TotalEmpty, setNodeCounts
<1> HIDE DEF u
<1>3. Accounted(u)
  BY <1>2
<1> DEFINE m == [u EXCEPT !.ready = obj.ready]
<1>4. /\ m \in NodeInfoType /\ Accounted(m) /\ m.tasks = u.tasks
      /\ m.set = u.set /\ m.alloc = u.alloc
  BY <1>2, <1>3, ReadyIsFree
<1>5. NewNodeInfo(obj) = m
  BY DEF NewNodeInfo, u
<1>6. UnsetNodeInfo.tasks = [p \in Names |-> "None"]
  BY DEF UnsetNodeInfo
<1> HIDE DEF m
<1> QED
  BY <1>2, <1>4, <1>5, <1>6

\* SetNode keeps the totals right, keeps the tasks, and gives the node what
\* its object has if it changes anything but its readiness.
LEMMA SetNodeIsAccounted ==
    ASSUME NEW ni \in NodeInfoType, Accounted(ni),
           NEW obj, obj.alloc \in Nat, obj.ready \in BOOLEAN
    PROVE  LET m == SetNode(ni, obj)
           IN  /\ m \in NodeInfoType /\ Accounted(m) /\ m.tasks = ni.tasks
               /\ \/ m.set = TRUE /\ m.alloc = obj.alloc
                  \/ m.set = ni.set /\ m.alloc = ni.alloc /\ m.ready = FALSE
<1> DEFINE u == setNode(ni, obj)
<1>1. /\ u \in NodeInfoType /\ u.set = TRUE /\ u.alloc = obj.alloc /\ u.tasks = ni.tasks
      /\ (u.used <= u.alloc => Accounted(u))
  <2>1. obj.alloc \in Int
    OBVIOUS
  <2> QED
    BY <2>1, setNodeCounts
<1> HIDE DEF u
<1>2. CASE setNodeState(ni, obj) /\ setNodeState(u, obj)
  <2>1. Accounted(u)
    BY <1>1, <1>2 DEF setNodeState
  <2> QED
    BY <1>1, <1>2, <2>1, ReadyIsFree DEF SetNode, u
<1>3. CASE ~(setNodeState(ni, obj) /\ setNodeState(u, obj))
  <2>1. SetNode(ni, obj) = [ni EXCEPT !.ready = FALSE]
    BY <1>3 DEF SetNode, u
  <2> QED
    BY <2>1, ReadyIsFree
<1> QED
  BY <1>2, <1>3

\* A clone has the tasks and the totals of its original.
LEMMA CloneIsAccounted ==
    ASSUME NEW ni \in NodeInfoType, Accounted(ni)
    PROVE  LET m == CloneNode(ni)
           IN  /\ m \in NodeInfoType /\ Accounted(m) /\ m.tasks = ni.tasks
               /\ m.set = ni.set /\ m.alloc = ni.alloc /\ m.ready = ni.ready
<1>1. CASE ~ni.set
  BY <1>1 DEF CloneNode
<1>2. CASE ni.set
  <2> DEFINE o == [alloc |-> ni.alloc]
             m == setNode(ni, o)
  <2>1. o.alloc \in Int
    BY DEF NodeInfoType
  <2>2. /\ m \in NodeInfoType /\ m.set = TRUE /\ m.alloc = ni.alloc /\ m.tasks = ni.tasks
        /\ m.ready = ni.ready
        /\ m.used = Total(Holding(ni)) /\ (m.used <= m.alloc => Accounted(m))
    BY <2>1, setNodeCounts
  <2>3. Accounted(m)
    BY <1>2, <2>2 DEF Accounted
  <2> QED
    BY <1>2, <2>2, <2>3 DEF CloneNode
<1> QED
  BY <1>1, <1>2

\* What Shift does to the totals of a node: to those that count status s it
\* adds r, which is 0 as long as the node has no Node object.
ShiftBy(ni, m, s, r) ==
    /\ m \in NodeInfoType /\ m.set = ni.set /\ m.ready = ni.ready
    /\ m.alloc = ni.alloc /\ m.tasks = ni.tasks
    /\ m.used = ni.used + (IF s = "Pipelined" THEN 0 ELSE r)
    /\ m.idle = ni.idle - (IF s = "Pipelined" THEN 0 ELSE r)
    /\ m.releasing = ni.releasing + (IF s = "Releasing" THEN r ELSE 0)
    /\ m.pipelined = ni.pipelined + (IF s = "Pipelined" THEN r ELSE 0)

\* Shift moves the counters of a node by what the status of the task says,
\* and only if the node has its Node object.
LEMMA ShiftShifts ==
    ASSUME NEW ni \in NodeInfoType, NEW p \in Names, NEW s, NEW sign \in {1, -1}
    PROVE  ShiftBy(ni, Shift(ni, p, s, sign), s, IF ni.set THEN sign * Req[p] ELSE 0)
<1> DEFINE r == IF ni.set THEN sign * Req[p] ELSE 0
           m == Shift(ni, p, s, sign)
<1>1. r \in Int
  BY ApiAssumption
<1>2. m = CASE s = "Pipelined" -> [ni EXCEPT !.pipelined = @ + r]
            [] s = "Releasing" -> [ni EXCEPT !.idle = @ - r, !.used = @ + r,
                                             !.releasing = @ + r]
            [] OTHER           -> [ni EXCEPT !.idle = @ - r, !.used = @ + r]
  BY DEF Shift
<1> HIDE DEF r, m
<1>0. ni.used \in Int /\ ni.idle \in Int /\ ni.releasing \in Int /\ ni.pipelined \in Int
  BY DEF NodeInfoType
<1>3. ASSUME s = "Pipelined" PROVE ShiftBy(ni, m, s, r)
  <2>1. m = [ni EXCEPT !.pipelined = ni.pipelined + r]
    BY <1>2, <1>3
  <2>2. m \in NodeInfoType
    BY <1>1, <1>0, <2>1 DEF NodeInfoType
  <2>3. /\ m.set = ni.set /\ m.ready = ni.ready /\ m.alloc = ni.alloc
        /\ m.tasks = ni.tasks
        /\ m.used = ni.used /\ m.idle = ni.idle
        /\ m.releasing = ni.releasing /\ m.pipelined = ni.pipelined + r
    BY <2>1 DEF NodeInfoType
  <2> QED
    BY <1>0, <1>1, <1>3, <2>2, <2>3 DEF ShiftBy
<1>4. ASSUME s = "Releasing" PROVE ShiftBy(ni, m, s, r)
  <2>1. m = [ni EXCEPT !.idle = ni.idle - r, !.used = ni.used + r,
                      !.releasing = ni.releasing + r]
    BY <1>2, <1>4
  <2>2. m \in NodeInfoType
    <3> DEFINE i == ni.idle - r
               u == ni.used + r
               l == ni.releasing + r
    <3>1. i \in Int /\ u \in Int /\ l \in Int
      BY <1>0, <1>1
    <3>2. m = [ni EXCEPT !.idle = i, !.used = u, !.releasing = l]
      BY <2>1
    <3> HIDE DEF i, u, l
    <3> QED
      BY <3>1, <3>2 DEF NodeInfoType
  <2>3. /\ m.set = ni.set /\ m.ready = ni.ready /\ m.alloc = ni.alloc
        /\ m.tasks = ni.tasks
        /\ m.used = ni.used + r /\ m.idle = ni.idle - r
        /\ m.releasing = ni.releasing + r /\ m.pipelined = ni.pipelined
    BY <2>1 DEF NodeInfoType
  <2> QED
    BY <1>0, <1>1, <1>4, <2>2, <2>3 DEF ShiftBy
<1>5. ASSUME s \notin {"Pipelined", "Releasing"} PROVE ShiftBy(ni, m, s, r)
  <2>1. m = [ni EXCEPT !.idle = ni.idle - r, !.used = ni.used + r]
    BY <1>2, <1>5
  <2>2. m \in NodeInfoType
    <3> DEFINE i == ni.idle - r
               u == ni.used + r
    <3>1. i \in Int /\ u \in Int
      BY <1>0, <1>1
    <3>2. m = [ni EXCEPT !.idle = i, !.used = u]
      BY <2>1
    <3> HIDE DEF i, u
    <3> QED
      BY <3>1, <3>2 DEF NodeInfoType
  <2>3. /\ m.set = ni.set /\ m.ready = ni.ready /\ m.alloc = ni.alloc
        /\ m.tasks = ni.tasks
        /\ m.used = ni.used + r /\ m.idle = ni.idle - r
        /\ m.releasing = ni.releasing /\ m.pipelined = ni.pipelined
    BY <2>1 DEF NodeInfoType
  <2> QED
    BY <1>0, <1>1, <1>5, <2>2, <2>3 DEF ShiftBy
<1>6. ShiftBy(ni, m, s, r)
  BY <1>3, <1>4, <1>5
<1> QED
  BY <1>6 DEF r, m

\* AddTask keeps the totals right if it is allowed.
LEMMA AddTaskIsAccounted ==
    ASSUME NEW ni \in NodeInfoType, Accounted(ni), NEW p \in Names,
           NEW s \in TaskStatuses, CanAddTask(ni, p, s)
    PROVE  LET m == AddTask(ni, p, s)
           IN  /\ m \in NodeInfoType /\ Accounted(m) /\ m.set = ni.set
               /\ m.alloc = ni.alloc /\ m.ready = ni.ready
               /\ m.tasks = [ni.tasks EXCEPT ![p] = s]
<1> DEFINE r == IF ni.set THEN 1 * Req[p] ELSE 0
           h == Shift(ni, p, s, 1)
           m == AddTask(ni, p, s)
<1>1. ShiftBy(ni, h, s, r)
  BY ShiftShifts
<1>2. r \in Int /\ (ni.set => r = Req[p]) /\ (~ni.set => r = 0) /\ Req[p] \in Nat
  BY ApiAssumption
<1>3. m = [h EXCEPT !.tasks = [ni.tasks EXCEPT ![p] = s]]
  BY <1>1 DEF AddTask, ShiftBy, NodeInfoType
<1> HIDE DEF r, h, m
<1>4. /\ m \in NodeInfoType /\ m.set = ni.set /\ m.ready = ni.ready
      /\ m.alloc = ni.alloc /\ m.tasks = [ni.tasks EXCEPT ![p] = s]
      /\ m.used = h.used /\ m.idle = h.idle /\ m.releasing = h.releasing
      /\ m.pipelined = h.pipelined
  BY <1>1, <1>3 DEF ShiftBy, NodeInfoType
<1>5. ni.tasks[p] = "None" /\ ni.tasks \in [Names -> TaskStatuses \cup {"None"}]
  BY DEF CanAddTask, NodeInfoType
<1>6. CASE ni.set
  <2>1. /\ ni.used = Total(Holding(ni)) /\ ni.releasing = Total(Leaving(ni))
        /\ ni.pipelined = Total(Promised(ni)) /\ ni.idle = ni.alloc - ni.used
        /\ ni.used <= ni.alloc /\ m.set
    BY <1>4, <1>6 DEF Accounted
  <2>2. s # "None" /\ p \notin Holding(ni) \cup Leaving(ni) \cup Promised(ni)
    BY <1>5 DEF TaskStatuses, Holding, Leaving, Promised
  <2>3. /\ Holding(m) = IF s = "Pipelined" THEN Holding(ni) ELSE Holding(ni) \cup {p}
        /\ Leaving(m) = IF s = "Releasing" THEN Leaving(ni) \cup {p} ELSE Leaving(ni)
        /\ Promised(m) = IF s = "Pipelined" THEN Promised(ni) \cup {p} ELSE Promised(ni)
    BY <1>4, <1>5, <2>2 DEF Holding, Leaving, Promised
  <2>4. /\ Total(Holding(m)) = Total(Holding(ni)) + (IF s = "Pipelined" THEN 0 ELSE r)
        /\ Total(Leaving(m)) = Total(Leaving(ni)) + (IF s = "Releasing" THEN r ELSE 0)
        /\ Total(Promised(m)) = Total(Promised(ni)) + (IF s = "Pipelined" THEN r ELSE 0)
    BY <1>2, <1>6, <2>2, <2>3, TotalWith, CountedTypes
  <2>5. s # "Pipelined" => r <= ni.idle
    BY <1>2, <1>5, <1>6 DEF CanAddTask, AllocateFail, NodeInfoType
  <2>6. /\ m.used = Total(Holding(m)) /\ m.releasing = Total(Leaving(m))
        /\ m.pipelined = Total(Promised(m))
    BY <1>1, <1>4, <2>1, <2>4 DEF ShiftBy
  <2>7. m.idle = m.alloc - m.used /\ m.used <= m.alloc
    BY <1>1, <1>2, <1>4, <2>1, <2>5 DEF ShiftBy, NodeInfoType
  <2>8. Accounted(m)
    BY <2>1, <2>6, <2>7 DEF Accounted
  <2> QED
    BY <1>4, <2>8 DEF m
<1>7. CASE ~ni.set
  <2>1. NoTotals(ni) /\ r = 0
    BY <1>2, <1>7, AccountedUnset
  <2>2. NoTotals(m) /\ ~m.set
    BY <1>1, <1>4, <1>7, <2>1 DEF NoTotals, ShiftBy
  <2>3. Accounted(m)
    BY <1>4, <2>2, AccountedUnset
  <2> QED
    BY <1>4, <2>3 DEF m
<1> QED
  BY <1>6, <1>7

\* RemoveTask gives back what the node counted for the task.
LEMMA RemoveTaskIsAccounted ==
    ASSUME NEW ni \in NodeInfoType, Accounted(ni), NEW p \in Names
    PROVE  LET m == RemoveTask(ni, p)
           IN  /\ m \in NodeInfoType /\ Accounted(m) /\ m.set = ni.set
               /\ m.alloc = ni.alloc /\ m.ready = ni.ready
               /\ m.tasks = [ni.tasks EXCEPT ![p] = "None"]
<1> DEFINE s == ni.tasks[p]
           r == IF ni.set THEN (-1) * Req[p] ELSE 0
           h == Shift(ni, p, s, -1)
           m == RemoveTask(ni, p)
<1>1. CASE s = "None"
  <2>1. m = ni
    BY <1>1 DEF RemoveTask
  <2>2. ni.tasks = [ni.tasks EXCEPT ![p] = "None"]
    BY <1>1 DEF NodeInfoType
  <2> QED
    BY <2>1, <2>2
<1>2. CASE s # "None"
  <2>1. ShiftBy(ni, h, s, r)
    BY ShiftShifts
  <2>2. r \in Int /\ (ni.set => r = -Req[p]) /\ (~ni.set => r = 0) /\ Req[p] \in Nat
    BY ApiAssumption
  <2>3. ni.tasks \in [Names -> TaskStatuses \cup {"None"}] /\ s = ni.tasks[p]
    BY DEF NodeInfoType
  <2>4. m = [h EXCEPT !.tasks = [ni.tasks EXCEPT ![p] = "None"]]
    BY <1>2, <2>1 DEF RemoveTask, ShiftBy, NodeInfoType
  <2> HIDE DEF r, h, m, s
  <2>5. /\ m \in NodeInfoType /\ m.set = ni.set /\ m.ready = ni.ready
        /\ m.alloc = ni.alloc /\ m.tasks = [ni.tasks EXCEPT ![p] = "None"]
        /\ m.used = h.used /\ m.idle = h.idle /\ m.releasing = h.releasing
        /\ m.pipelined = h.pipelined
    BY <2>1, <2>4 DEF ShiftBy, NodeInfoType
  <2>6. CASE ni.set
    <3>1. /\ ni.used = Total(Holding(ni)) /\ ni.releasing = Total(Leaving(ni))
          /\ ni.pipelined = Total(Promised(ni)) /\ ni.idle = ni.alloc - ni.used
          /\ ni.used <= ni.alloc /\ m.set
      BY <2>5, <2>6 DEF Accounted
    <3>2. /\ s # "Pipelined" => p \in Holding(ni)
          /\ s = "Pipelined" <=> p \in Promised(ni)
          /\ s = "Releasing" <=> p \in Leaving(ni)
          /\ s = "Pipelined" => p \notin Holding(ni)
      BY <1>2, <2>3 DEF Holding, Leaving, Promised
    <3>3. /\ Holding(m) = Holding(ni) \ {p}
          /\ Leaving(m) = Leaving(ni) \ {p}
          /\ Promised(m) = Promised(ni) \ {p}
      BY <2>3, <2>5 DEF Holding, Leaving, Promised
    <3>4. \A S \in SUBSET Names : Total(S \ {p}) = Total(S) - (IF p \in S THEN Req[p] ELSE 0)
      <4> TAKE S \in SUBSET Names
      <4>1. CASE p \in S
        BY <4>1, TotalWithout
      <4>2. CASE p \notin S
        BY <4>2, TotalCounts, S \ {p} = S
      <4> QED
        BY <4>1, <4>2
    <3>5. /\ Total(Holding(m)) = Total(Holding(ni)) + (IF s = "Pipelined" THEN 0 ELSE r)
          /\ Total(Leaving(m)) = Total(Leaving(ni)) + (IF s = "Releasing" THEN r ELSE 0)
          /\ Total(Promised(m)) = Total(Promised(ni)) + (IF s = "Pipelined" THEN r ELSE 0)
      BY <2>2, <2>6, <3>2, <3>3, <3>4, CountedTypes
    <3>6. /\ m.used = Total(Holding(m)) /\ m.releasing = Total(Leaving(m))
          /\ m.pipelined = Total(Promised(m))
      BY <2>1, <2>5, <3>1, <3>5 DEF ShiftBy
    <3>7. m.idle = m.alloc - m.used /\ m.used <= m.alloc
      BY <2>1, <2>2, <2>5, <2>6, <3>1 DEF ShiftBy, NodeInfoType
    <3>8. Accounted(m)
      BY <3>1, <3>6, <3>7 DEF Accounted
    <3> QED
      BY <2>5, <3>8 DEF m
  <2>7. CASE ~ni.set
    <3>1. NoTotals(ni) /\ r = 0
      BY <2>2, <2>7, AccountedUnset
    <3>2. NoTotals(m) /\ ~m.set
      BY <2>1, <2>5, <2>7, <3>1 DEF NoTotals, ShiftBy
    <3>3. Accounted(m)
      BY <2>5, <3>2, AccountedUnset
    <3> QED
      BY <2>5, <3>3 DEF m
  <2> QED
    BY <2>6, <2>7
<1> QED
  BY <1>1, <1>2

\* So does UpdateTask, where it does not end the process.
LEMMA UpdateTaskIsAccounted ==
    ASSUME NEW ni \in NodeInfoType, Accounted(ni), NEW p \in Names,
           NEW s \in TaskStatuses, CanUpdateTask(ni, p, s)
    PROVE  LET m == UpdateTask(ni, p, s)
           IN  /\ m \in NodeInfoType /\ Accounted(m) /\ m.set = ni.set
               /\ m.alloc = ni.alloc /\ m.ready = ni.ready
               /\ m.tasks = [ni.tasks EXCEPT ![p] = s]
<1> DEFINE h == RemoveTask(ni, p)
           m == UpdateTask(ni, p, s)
<1>1. /\ h \in NodeInfoType /\ Accounted(h) /\ h.set = ni.set
      /\ h.alloc = ni.alloc /\ h.ready = ni.ready
      /\ h.tasks = [ni.tasks EXCEPT ![p] = "None"]
  BY RemoveTaskIsAccounted
<1>2. CanAddTask(h, p, s) /\ m = AddTask(h, p, s)
  BY DEF CanUpdateTask, UpdateTask
<1> HIDE DEF h
<1>3. /\ m \in NodeInfoType /\ Accounted(m) /\ m.set = h.set
      /\ m.alloc = h.alloc /\ m.ready = h.ready
      /\ m.tasks = [h.tasks EXCEPT ![p] = s]
  BY <1>1, <1>2, AddTaskIsAccounted
<1>4. [h.tasks EXCEPT ![p] = s] = [ni.tasks EXCEPT ![p] = s]
  BY <1>1 DEF NodeInfoType
<1> QED
  BY <1>1, <1>3, <1>4

\* What the pods on a node ask for is no more than the node has, if the node
\* holds them all.
LEMMA HeldFits ==
    ASSUME NEW ni \in NodeInfoType, Accounted(ni), ni.set,
           NEW S \in SUBSET Holding(ni)
    PROVE  Total(S) <= ni.alloc
<1>1. ni.used = Total(Holding(ni)) /\ ni.used <= ni.alloc
  BY DEF Accounted
<1>2. Holding(ni) \in SUBSET Names /\ S \in SUBSET Names
  BY CountedTypes
<1>3. Total(S) <= Total(Holding(ni)) /\ Total(S) \in Nat /\ Total(Holding(ni)) \in Nat
  BY <1>2, TotalMonotone, TotalCounts
<1> QED
  BY <1>1, <1>3 DEF NodeInfoType

-----------------------------------------------------------------------------
(***************************************************************************)
(* Functions on a part of D, as Go's maps are.                             *)
(***************************************************************************)
Partial(D, V) == UNION {[S -> V] : S \in SUBSET D}

\* What membership means.
LEMMA PartialDef ==
    ASSUME NEW D, NEW V, NEW f
    PROVE  f \in Partial(D, V) <=>
             /\ f = [x \in DOMAIN f |-> f[x]]
             /\ DOMAIN f \subseteq D /\ \A x \in DOMAIN f : f[x] \in V
  BY DEF Partial

\* The empty map.
LEMMA PartialEmpty ==
    ASSUME NEW D, NEW V
    PROVE  <<>> \in Partial(D, V) /\ DOMAIN <<>> = {}
  BY DEF Partial

\* An entry is written, new or not; entries are deleted; an entry that is
\* there is changed.
LEMMA PartialPut ==
    ASSUME NEW D, NEW V, NEW f \in Partial(D, V), NEW x \in D, NEW v \in V
    PROVE  Put(f, x, v) \in Partial(D, V)
  BY PartialDef DEF Put

\* Put sets one entry of a partial function and keeps the others.
LEMMA PutIs ==
    ASSUME NEW f, NEW x, NEW v
    PROVE  /\ DOMAIN Put(f, x, v) = DOMAIN f \cup {x}
           /\ Put(f, x, v)[x] = v
           /\ \A y \in DOMAIN f : y # x => Put(f, x, v)[y] = f[y]
  BY DEF Put

\* A partial function restricted to some of its entries is one.
LEMMA PartialRestrict ==
    ASSUME NEW D, NEW V, NEW f \in Partial(D, V), NEW S \in SUBSET DOMAIN f
    PROVE  Restrict(f, S) \in Partial(D, V)
  BY PartialDef DEF Restrict

\* A partial function with one entry replaced is one.
LEMMA PartialExcept ==
    ASSUME NEW D, NEW V, NEW f \in Partial(D, V), NEW x \in DOMAIN f, NEW v \in V
    PROVE  [f EXCEPT ![x] = v] \in Partial(D, V)
  BY PartialDef

\* SetToSeq lists the elements of a finite set.
LEMMA SetToSeqType ==
    ASSUME NEW S, IsFiniteSet(S)
    PROVE  SetToSeq(S) \in [1 .. Cardinality(S) -> S] /\ Cardinality(S) \in Nat
  BY FS_CardinalityType DEF SetToSeq, ExistsBijection, Bijection, Injection

-----------------------------------------------------------------------------
(***************************************************************************)
(* Types.  A map of nodes holds only nodes whose totals are right.         *)
(***************************************************************************)
OwnTids == {t \in Tids : JobOf[t[1]] # ""}

PodObjects == [uid : 0 .. MaxUid, node : Nodes \cup {""},
               phase : {"Pending", "Running", "Succeeded", "Failed"},
               deleting : BOOLEAN, evicted : BOOLEAN, told : BOOLEAN]

GoodNodes == {ni \in NodeInfoType :
                Accounted(ni) /\ \A p \in Names : ni.tasks[p] # "Pipelined"}

JobEntries == [obj : Nat, group : BOOLEAN]

TaskEntries == [status : TaskStatuses, node : Nodes \cup {""}, pod : PodObjects]

Caches == [jobs : Partial(Jobs, JobEntries), tasks : Partial(OwnTids, TaskEntries),
           nodes : Partial(Nodes, GoodNodes), born : [Jobs -> Nat]]

\* A task is kept by the Job of its pod.
Owned(k) == \A t \in DOMAIN k.tasks : JobOf[t[1]] \in DOMAIN k.jobs

\* What the provers need to know of a cache: its maps, and those of their
\* entries.
LEMMA CacheParts ==
    ASSUME NEW k \in Caches
    PROVE  /\ k.jobs \in Partial(Jobs, JobEntries) /\ DOMAIN k.jobs \subseteq Jobs
           /\ k.tasks \in Partial(OwnTids, TaskEntries) /\ DOMAIN k.tasks \subseteq OwnTids
           /\ k.nodes \in Partial(Nodes, GoodNodes) /\ DOMAIN k.nodes \subseteq Nodes
           /\ k.born \in [Jobs -> Nat]
           /\ \A j \in DOMAIN k.jobs : k.jobs[j] \in JobEntries
           /\ \A t \in DOMAIN k.tasks : k.tasks[t] \in TaskEntries
           /\ \A n \in DOMAIN k.nodes : k.nodes[n] \in GoodNodes
<1>1. /\ k.jobs \in Partial(Jobs, JobEntries)
      /\ k.tasks \in Partial(OwnTids, TaskEntries)
      /\ k.nodes \in Partial(Nodes, GoodNodes) /\ k.born \in [Jobs -> Nat]
  BY DEF Caches
<1> QED
  BY <1>1, PartialDef

\* Replacing one of its maps leaves the others alone.
LEMMA CacheWith ==
    ASSUME NEW k \in Caches
    PROVE  /\ \A f \in Partial(Jobs, JobEntries) :
                LET m == [k EXCEPT !.jobs = f]
                IN  m \in Caches /\ m.jobs = f /\ m.tasks = k.tasks
                    /\ m.nodes = k.nodes /\ m.born = k.born
           /\ \A f \in Partial(OwnTids, TaskEntries) :
                LET m == [k EXCEPT !.tasks = f]
                IN  m \in Caches /\ m.jobs = k.jobs /\ m.tasks = f
                    /\ m.nodes = k.nodes /\ m.born = k.born
           /\ \A f \in Partial(Nodes, GoodNodes) :
                LET m == [k EXCEPT !.nodes = f]
                IN  m \in Caches /\ m.jobs = k.jobs /\ m.tasks = k.tasks
                    /\ m.nodes = f /\ m.born = k.born
  BY DEF Caches

\* The status of a task as it is read off a pod.
LEMMA TaskStatusType ==
    ASSUME NEW o \in PodObjects
    PROVE  /\ getTaskStatus(o) \in TaskStatuses \ {"Pipelined", "Allocated", "Binding"}
           /\ getTaskStatus(o) = "Pending" =>
                o.node = "" /\ o.phase = "Pending" /\ ~o.deleting
           /\ isTerminated(getTaskStatus(o)) <=> isTerminated(o.phase)
           /\ getTaskStatus(o) # "Pending" /\ o.node = "" =>
                o.phase # "Pending" \/ o.deleting
           /\ getTaskStatus(o) = "Running" => o.phase = "Running"
  BY DEF PodObjects, getTaskStatus, TaskStatuses, isTerminated

\* A job is created where there is none.
WithNewJob(k, j) ==
    [k EXCEPT !.born[j] = @ + 1,
              !.jobs = Put(@, j, [obj |-> k.born[j] + 1, group |-> FALSE])]

\* A job added to the cache changes the jobs only.
LEMMA NewJobType ==
    ASSUME NEW k \in Caches, NEW j \in Jobs
    PROVE  /\ WithNewJob(k, j) \in Caches
           /\ WithNewJob(k, j).tasks = k.tasks
           /\ WithNewJob(k, j).nodes = k.nodes
           /\ DOMAIN WithNewJob(k, j).jobs = DOMAIN k.jobs \cup {j}
<1> DEFINE i == k.born[j] + 1
           v == [obj |-> i, group |-> FALSE]
           f == Put(k.jobs, j, v)
           b == [k.born EXCEPT ![j] = i]
<1>1. k.born \in [Jobs -> Nat] /\ k.jobs \in Partial(Jobs, JobEntries)
  BY DEF Caches
<1>2. i \in Nat
  BY <1>1
<1>3. k.born[j] + 1 = i
  OBVIOUS
<1> HIDE DEF i
<1>4. f \in Partial(Jobs, JobEntries) /\ DOMAIN f = DOMAIN k.jobs \cup {j}
  <2>1. v \in JobEntries
    BY <1>2 DEF JobEntries
  <2> HIDE DEF v
  <2> QED
    BY <1>1, <2>1, PartialPut, PutIs
<1>5. b \in [Jobs -> Nat]
  BY <1>1, <1>2
<1> DEFINE m == [k EXCEPT !.born = b, !.jobs = f]
<1>6. WithNewJob(k, j) = m
  BY <1>3 DEF Caches, WithNewJob
<1> HIDE DEF f, b
<1>7. m \in Caches /\ m.tasks = k.tasks /\ m.nodes = k.nodes /\ m.jobs = f
  BY <1>4, <1>5 DEF Caches
<1> QED
  BY <1>4, <1>6, <1>7

\* getOrCreateJob leaves tasks and nodes alone, and the task's job is in the
\* cache after it.
LEMMA getOrCreateJobType ==
    ASSUME NEW k \in Caches, NEW j \in Jobs \cup {""}
    PROVE  LET m == getOrCreateJob(k, j)
           IN  /\ m \in Caches /\ m.tasks = k.tasks /\ m.nodes = k.nodes
               /\ DOMAIN m.jobs = DOMAIN k.jobs \cup ({j} \ {""})
               /\ Owned(k) => Owned(m)
<1>1. CASE j \in DOMAIN k.jobs \cup {""}
  BY <1>1, CacheParts, CacheAssumption DEF getOrCreateJob
<1>2. CASE j \notin DOMAIN k.jobs \cup {""}
  <2>1. j \in Jobs /\ j # "" /\ j \notin DOMAIN k.jobs
    BY <1>2
  <2>2. getOrCreateJob(k, j) = WithNewJob(k, j)
    BY <1>2 DEF getOrCreateJob, WithNewJob
  <2> DEFINE m == getOrCreateJob(k, j)
  <2>3. /\ m \in Caches /\ m.tasks = k.tasks /\ m.nodes = k.nodes
        /\ DOMAIN m.jobs = DOMAIN k.jobs \cup {j}
    BY <2>1, <2>2, NewJobType
  <2> HIDE DEF m
  <2>4. Owned(k) => Owned(m)
    BY <2>3 DEF Owned
  <2>5. {j} = {j} \ {""}
    BY <2>1
  <2> QED
    BY <2>3, <2>4, <2>5 DEF m
<1> QED
  BY <1>1, <1>2

-----------------------------------------------------------------------------
(***************************************************************************)
(* What the handlers do to a cache: its types stay, and how its nodes and  *)
(* tasks change.                                                           *)
(***************************************************************************)
InfoOf(o) == [status |-> getTaskStatus(o), node |-> o.node, pod |-> o]

\* The task of the pod is the only one that may have been written.
TaskWritten(k, m, p, o) ==
    m.tasks \in {k.tasks, Put(k.tasks, <<p, o.uid>>, InfoOf(o))}

\* Nothing has left the nodes, and a node that is new has no Node object.
Grown(k, m) ==
    /\ \A n \in DOMAIN k.nodes :
         /\ n \in DOMAIN m.nodes /\ m.nodes[n].set = k.nodes[n].set
         /\ m.nodes[n].alloc = k.nodes[n].alloc
         /\ \A q \in Names : k.nodes[n].tasks[q] # "None" => m.nodes[n].tasks[q] # "None"
    /\ \A n \in DOMAIN m.nodes \ DOMAIN k.nodes : ~m.nodes[n].set

\* At most pod p has left node n, and its place is free.
Shrunk(k, m, n, p) ==
    /\ DOMAIN m.nodes = DOMAIN k.nodes
    /\ \A y \in DOMAIN k.nodes :
         /\ m.nodes[y].set = k.nodes[y].set /\ m.nodes[y].alloc = k.nodes[y].alloc
         /\ \A q \in Names : y # n \/ q # p => m.nodes[y].tasks[q] = k.nodes[y].tasks[q]
    /\ n \in DOMAIN k.nodes /\ k.nodes[n].set /\ k.nodes[n].tasks[p] # "None" =>
         m.nodes[n].tasks[p] = "None" /\ Req[p] <= m.nodes[n].idle

\* The task of an own pod goes to its Job.
LEMMA AddTaskInfoType ==
    ASSUME NEW k \in Caches, NEW p \in Names, NEW o \in PodObjects, o.uid # 0
    PROVE  /\ AddTaskInfo(k, p, o) \in Caches
           /\ Owned(k) => Owned(AddTaskInfo(k, p, o))
           /\ AddTaskInfo(k, p, o).nodes = k.nodes
           /\ TaskWritten(k, AddTaskInfo(k, p, o), p, o)
<1>1. CASE JobOf[p] = ""
  BY <1>1 DEF AddTaskInfo, TaskWritten
<1>2. CASE JobOf[p] # ""
  <2> DEFINE h == getOrCreateJob(k, JobOf[p])
             t == <<p, o.uid>>
             f == Put(k.tasks, t, InfoOf(o))
             m == AddTaskInfo(k, p, o)
  <2>1. JobOf[p] \in Jobs \cup {""}
    BY CacheAssumption
  <2>2. /\ h \in Caches /\ h.tasks = k.tasks /\ h.nodes = k.nodes
        /\ DOMAIN h.jobs = DOMAIN k.jobs \cup ({JobOf[p]} \ {""})
        /\ Owned(k) => Owned(h)
    BY <2>1, getOrCreateJobType
  <2>3. m = [h EXCEPT !.tasks = Put(h.tasks, t, InfoOf(o))]
    BY <1>2 DEF AddTaskInfo, InfoOf
  <2>4. t \in OwnTids
    <3>0. MaxUid \in Nat /\ o.uid \in 0 .. MaxUid
      BY CacheAssumption DEF PodObjects
    <3>1. o.uid \in 1 .. MaxUid
      BY <3>0
    <3> QED
      BY <1>2, <3>1 DEF OwnTids, Tids
  <2>5. InfoOf(o) \in TaskEntries
    <3>1. getTaskStatus(o) \in TaskStatuses
      BY TaskStatusType
    <3>2. o.node \in Nodes \cup {""}
      BY DEF PodObjects
    <3> QED
      BY <3>1, <3>2 DEF InfoOf, TaskEntries
  <2> HIDE DEF h, t, m
  <2>6. k.tasks \in Partial(OwnTids, TaskEntries)
    BY DEF Caches
  <2>7. f \in Partial(OwnTids, TaskEntries)
    BY <2>4, <2>5, <2>6, PartialPut
  <2>8. m = [h EXCEPT !.tasks = f]
    BY <2>2, <2>3
  <2>9. DOMAIN f = DOMAIN k.tasks \cup {t}
    BY PutIs, ZenonT(60)
  <2> HIDE DEF f
  <2>10. m \in Caches /\ m.jobs = h.jobs /\ m.tasks = f /\ m.nodes = h.nodes
    BY <2>2, <2>7, <2>8, CacheWith, ZenonT(60)
  <2>11. Owned(k) => Owned(m)
    <3>1. t[1] = p
      BY DEF t
    <3> QED
      BY <1>2, <2>2, <2>9, <2>10, <3>1 DEF Owned
  <2> QED
    BY <1>2, <2>2, <2>10, <2>11 DEF m, f, t, TaskWritten
<1> QED
  BY <1>1, <1>2

\* A node that is not known yet begins without its Node object.
LEMMA WithNodeType ==
    ASSUME NEW k \in Caches, NEW n \in Nodes \cup {""}
    PROVE  /\ WithNode(k, n) \in Caches
           /\ WithNode(k, n).tasks = k.tasks /\ WithNode(k, n).jobs = k.jobs
           /\ Owned(k) => Owned(WithNode(k, n))
           /\ Grown(k, WithNode(k, n))
           /\ n # "" => n \in DOMAIN WithNode(k, n).nodes
           /\ \A y \in DOMAIN k.nodes : WithNode(k, n).nodes[y] = k.nodes[y]
<1> DEFINE m == WithNode(k, n)
<1>1. CASE n \in DOMAIN k.nodes \cup {""}
  BY <1>1 DEF WithNode, Grown
<1>2. CASE n \notin DOMAIN k.nodes \cup {""}
  <2> DEFINE f == Put(k.nodes, n, UnsetNodeInfo)
  <2>1. UnsetNodeInfo \in GoodNodes
    BY UnsetNodeIsAccounted DEF GoodNodes, UnsetNodeInfo
  <2>2. n \in Nodes /\ n # "" /\ k.nodes \in Partial(Nodes, GoodNodes)
    BY <1>2 DEF Caches
  <2>3. f \in Partial(Nodes, GoodNodes)
    BY <2>1, <2>2, PartialPut
  <2>4. /\ DOMAIN f = DOMAIN k.nodes \cup {n} /\ f[n] = UnsetNodeInfo
        /\ \A y \in DOMAIN k.nodes : y # n => f[y] = k.nodes[y]
    BY DEF Put
  <2>5. m = [k EXCEPT !.nodes = f]
    BY <1>2 DEF WithNode
  <2> HIDE DEF f, m
  <2>6. m \in Caches /\ m.jobs = k.jobs /\ m.tasks = k.tasks /\ m.nodes = f
    BY <2>3, <2>5, CacheWith
  <2>7. Owned(k) => Owned(m)
    BY <2>6 DEF Owned
  <2>8. \A y \in DOMAIN k.nodes : m.nodes[y] = k.nodes[y]
    BY <1>2, <2>4, <2>6
  <2>9. Grown(k, m)
    BY <2>4, <2>6, <2>8, UnsetNodeIsAccounted DEF Grown
  <2> QED
    BY <2>2, <2>4, <2>6, <2>7, <2>8, <2>9 DEF m
<1> QED
  BY <1>1, <1>2

\* The operations of NodeInfo keep its totals right (above) and
\* promise nothing.
LEMMA GoodAdd ==
    ASSUME NEW ni \in GoodNodes, NEW p \in Names,
           NEW s \in TaskStatuses, s # "Pipelined", CanAddTask(ni, p, s)
    PROVE  /\ AddTask(ni, p, s) \in GoodNodes
           /\ AddTask(ni, p, s).set = ni.set /\ AddTask(ni, p, s).alloc = ni.alloc
           /\ AddTask(ni, p, s).tasks[p] = s /\ AddTask(ni, p, s).tasks[p] # "None"
           /\ \A q \in Names : ni.tasks[q] # "None" => AddTask(ni, p, s).tasks[q] # "None"
<1> DEFINE m == AddTask(ni, p, s)
<1>1. ni \in NodeInfoType /\ Accounted(ni) /\ \A q \in Names : ni.tasks[q] # "Pipelined"
  BY DEF GoodNodes
<1>2. /\ m \in NodeInfoType /\ Accounted(m) /\ m.set = ni.set /\ m.alloc = ni.alloc
      /\ m.tasks = [ni.tasks EXCEPT ![p] = s]
  BY <1>1, AddTaskIsAccounted
<1>3. DOMAIN ni.tasks = Names /\ s # "None"
  BY <1>1 DEF NodeInfoType, TaskStatuses
<1> HIDE DEF m
<1>4. m.tasks[p] = s /\ \A q \in Names : q # p => m.tasks[q] = ni.tasks[q]
  BY <1>2, <1>3
<1>5. m \in GoodNodes
  BY <1>1, <1>2, <1>4 DEF GoodNodes
<1> QED
  BY <1>2, <1>3, <1>4, <1>5 DEF m

\* RemoveTask keeps the node accounted, takes the one task off it and gives
\* its request back.
LEMMA GoodRemove ==
    ASSUME NEW ni \in GoodNodes, NEW p \in Names
    PROVE  /\ RemoveTask(ni, p) \in GoodNodes
           /\ RemoveTask(ni, p).set = ni.set /\ RemoveTask(ni, p).alloc = ni.alloc
           /\ RemoveTask(ni, p).tasks[p] = "None"
           /\ \A q \in Names : q # p => RemoveTask(ni, p).tasks[q] = ni.tasks[q]
           /\ ni.set /\ ni.tasks[p] # "None" => Req[p] <= RemoveTask(ni, p).idle
<1> DEFINE m == RemoveTask(ni, p)
<1>1. ni \in NodeInfoType /\ Accounted(ni) /\ \A q \in Names : ni.tasks[q] # "Pipelined"
  BY DEF GoodNodes
<1>2. /\ m \in NodeInfoType /\ Accounted(m) /\ m.set = ni.set /\ m.alloc = ni.alloc
      /\ m.tasks = [ni.tasks EXCEPT ![p] = "None"]
  BY <1>1, RemoveTaskIsAccounted
<1>3. DOMAIN ni.tasks = Names
  BY <1>1 DEF NodeInfoType
<1> HIDE DEF m
<1>4. m.tasks[p] = "None" /\ \A q \in Names : q # p => m.tasks[q] = ni.tasks[q]
  BY <1>2, <1>3
<1>5. m \in GoodNodes
  BY <1>1, <1>2, <1>4 DEF GoodNodes
<1>6. ASSUME ni.set, ni.tasks[p] # "None" PROVE Req[p] <= m.idle
  <2>1. p \in Holding(ni) /\ Holding(m) = Holding(ni) \ {p}
    BY <1>1, <1>4, <1>6 DEF Holding
  <2>2. /\ m.used = Total(Holding(m)) /\ m.idle = m.alloc - m.used
        /\ ni.used = Total(Holding(ni)) /\ ni.used <= ni.alloc
    BY <1>1, <1>2, <1>6 DEF Accounted
  <2>3. Total(Holding(ni) \ {p}) = Total(Holding(ni)) - Req[p]
    BY <2>1, CountedTypes, TotalWithout
  <2>4. Total(Holding(ni)) \in Nat /\ Req[p] \in Nat /\ m.alloc \in Int
    BY <1>2, CountedTypes, ApiAssumption DEF NodeInfoType
  <2> QED
    BY <1>2, <2>1, <2>2, <2>3, <2>4
<1> QED
  BY <1>2, <1>4, <1>5, <1>6 DEF m

\* UpdateTask keeps the node accounted, and every task stays on it.
LEMMA GoodUpdate ==
    ASSUME NEW ni \in GoodNodes, NEW p \in Names,
           NEW s \in TaskStatuses, s # "Pipelined", CanUpdateTask(ni, p, s)
    PROVE  /\ UpdateTask(ni, p, s) \in GoodNodes
           /\ UpdateTask(ni, p, s).set = ni.set /\ UpdateTask(ni, p, s).alloc = ni.alloc
           /\ \A q \in Names : ni.tasks[q] # "None" => UpdateTask(ni, p, s).tasks[q] # "None"
<1> DEFINE h == RemoveTask(ni, p)
<1>1. /\ h \in GoodNodes /\ h.set = ni.set /\ h.alloc = ni.alloc
      /\ \A q \in Names : q # p => h.tasks[q] = ni.tasks[q]
  BY GoodRemove
<1>2. CanAddTask(h, p, s) /\ UpdateTask(ni, p, s) = AddTask(h, p, s)
  BY DEF CanUpdateTask, UpdateTask
<1> HIDE DEF h
<1>3. /\ AddTask(h, p, s) \in GoodNodes
      /\ AddTask(h, p, s).set = h.set /\ AddTask(h, p, s).alloc = h.alloc
      /\ AddTask(h, p, s).tasks[p] # "None"
  BY <1>1, <1>2, GoodAdd
<1>4. ASSUME NEW q \in Names, h.tasks[q] # "None"
      PROVE  AddTask(h, p, s).tasks[q] # "None"
  BY <1>1, <1>2, <1>4, GoodAdd
<1> QED
  BY <1>1, <1>2, <1>3, <1>4

NotReady(ni) == [ni EXCEPT !.ready = FALSE]

\* A node marked not ready keeps its totals and its tasks.
LEMMA GoodNotReady ==
    ASSUME NEW ni \in GoodNodes
    PROVE  /\ NotReady(ni) \in GoodNodes /\ NotReady(ni).set = ni.set
           /\ NotReady(ni).alloc = ni.alloc /\ NotReady(ni).tasks = ni.tasks
  BY ReadyIsFree DEF GoodNodes, NotReady

\* SetNode keeps the node accounted and its tasks; its capacity is the new
\* one, or the old one where the new one is refused.
LEMMA GoodSetNode ==
    ASSUME NEW ni \in GoodNodes, NEW obj \in NodeObject
    PROVE  /\ SetNode(ni, obj) \in GoodNodes
           /\ SetNode(ni, obj).tasks = ni.tasks
           /\ \/ SetNode(ni, obj).set = TRUE /\ SetNode(ni, obj).alloc = obj.alloc
              \/ SetNode(ni, obj).set = ni.set /\ SetNode(ni, obj).alloc = ni.alloc
<1>1. obj.alloc \in Nat /\ obj.ready \in BOOLEAN
  BY DEF NodeObject
<1>2. ni \in NodeInfoType /\ Accounted(ni) /\ \A q \in Names : ni.tasks[q] # "Pipelined"
  BY DEF GoodNodes
<1>3. /\ SetNode(ni, obj) \in NodeInfoType /\ Accounted(SetNode(ni, obj))
      /\ SetNode(ni, obj).tasks = ni.tasks
      /\ \/ SetNode(ni, obj).set = TRUE /\ SetNode(ni, obj).alloc = obj.alloc
         \/ SetNode(ni, obj).set = ni.set /\ SetNode(ni, obj).alloc = ni.alloc
  BY <1>1, <1>2, SetNodeIsAccounted
<1> QED
  BY <1>2, <1>3 DEF GoodNodes

\* A node made from its Node object is accounted.
LEMMA GoodNewNode ==
    ASSUME NEW obj \in NodeObject
    PROVE  /\ NewNodeInfo(obj) \in GoodNodes /\ NewNodeInfo(obj).set = TRUE
           /\ NewNodeInfo(obj).alloc = obj.alloc
<1>1. obj.alloc \in Nat /\ obj.ready \in BOOLEAN
  BY DEF NodeObject
<1>2. /\ NewNodeInfo(obj) \in NodeInfoType /\ Accounted(NewNodeInfo(obj))
      /\ NewNodeInfo(obj).set = TRUE /\ NewNodeInfo(obj).alloc = obj.alloc
      /\ NewNodeInfo(obj).tasks = [p \in Names |-> "None"]
  BY <1>1, NewNodeInfoIsAccounted
<1> QED
  BY <1>2 DEF GoodNodes

\* The clone of a node that a snapshot takes is accounted as the node is.
LEMMA GoodClone ==
    ASSUME NEW ni \in GoodNodes
    PROVE  CloneNode(ni) \in GoodNodes /\ CloneNode(ni).set = ni.set
  BY CloneIsAccounted DEF GoodNodes

\* A node in the cache is replaced by another.
ReplaceNode(k, n, x) == [k EXCEPT !.nodes[n] = x]

\* A node of the cache replaced by an accounted one leaves the tasks, the
\* jobs and the other nodes.
LEMMA ReplaceNodeType ==
    ASSUME NEW k \in Caches, NEW n \in DOMAIN k.nodes, NEW x \in GoodNodes
    PROVE  /\ ReplaceNode(k, n, x) \in Caches
           /\ ReplaceNode(k, n, x).tasks = k.tasks /\ ReplaceNode(k, n, x).jobs = k.jobs
           /\ Owned(k) => Owned(ReplaceNode(k, n, x))
           /\ DOMAIN ReplaceNode(k, n, x).nodes = DOMAIN k.nodes
           /\ ReplaceNode(k, n, x).nodes[n] = x
           /\ \A y \in DOMAIN k.nodes : y # n => ReplaceNode(k, n, x).nodes[y] = k.nodes[y]
<1> DEFINE f == [k.nodes EXCEPT ![n] = x]
           m == ReplaceNode(k, n, x)
<1>1. k.nodes \in Partial(Nodes, GoodNodes)
  BY DEF Caches
<1>2. f \in Partial(Nodes, GoodNodes)
  BY <1>1, PartialExcept
<1>3. DOMAIN f = DOMAIN k.nodes /\ f[n] = x /\ \A y \in DOMAIN k.nodes : y # n => f[y] = k.nodes[y]
  OBVIOUS
<1>4. m = [k EXCEPT !.nodes = f]
  BY DEF ReplaceNode
<1> HIDE DEF f, m
<1>5. m \in Caches /\ m.jobs = k.jobs /\ m.tasks = k.tasks /\ m.nodes = f
  BY <1>2, <1>4, CacheWith
<1>6. Owned(k) => Owned(m)
  BY <1>5 DEF Owned
<1> QED
  BY <1>3, <1>5, <1>6 DEF m

\* Growing is transitive, and so is adding to one node without taking.
LEMMA GrownTwice ==
    ASSUME NEW k, NEW h, NEW m, Grown(k, h), Grown(h, m)
    PROVE  Grown(k, m)
  BY DEF Grown

\* Whether nodes have only grown depends on the nodes alone.
LEMMA GrownNodes ==
    ASSUME NEW k, NEW h, NEW m, Grown(k, h), m.nodes = h.nodes
    PROVE  Grown(k, m)
  BY DEF Grown

\* A node replaced by one with the same capacity and at least its tasks has
\* only grown.
LEMMA GrownReplace ==
    ASSUME NEW k \in Caches, NEW n \in DOMAIN k.nodes, NEW x \in GoodNodes,
           x.set = k.nodes[n].set, x.alloc = k.nodes[n].alloc,
           \A q \in Names : k.nodes[n].tasks[q] # "None" => x.tasks[q] # "None"
    PROVE  Grown(k, ReplaceNode(k, n, x))
<1> DEFINE m == ReplaceNode(k, n, x)
<1>1. /\ DOMAIN m.nodes = DOMAIN k.nodes /\ m.nodes[n] = x
      /\ \A y \in DOMAIN k.nodes : y # n => m.nodes[y] = k.nodes[y]
  BY ReplaceNodeType
<1> HIDE DEF m
<1>2. Grown(k, m)
  BY <1>1 DEF Grown
<1> QED
  BY <1>2 DEF m

\* addTask: a pod that has a node and has not ended is held by its node
\* afterwards if it was before or the node has room for it.
LEMMA addTaskType ==
    ASSUME NEW k \in Caches, Owned(k), NEW p \in Names, NEW o \in PodObjects, o.uid # 0
    PROVE  /\ addTask(k, p, o) \in Caches /\ Owned(addTask(k, p, o))
           /\ TaskWritten(k, addTask(k, p, o), p, o)
           /\ Grown(k, addTask(k, p, o))
           /\ o.node = "" => addTask(k, p, o).nodes = k.nodes
           /\ /\ o.node \in DOMAIN k.nodes /\ k.nodes[o.node].set
              /\ ~isTerminated(o.phase)
              /\ k.nodes[o.node].tasks[p] # "None" \/ Req[p] <= k.nodes[o.node].idle
              => addTask(k, p, o).nodes[o.node].tasks[p] # "None"
<1> DEFINE n  == o.node
           k1 == WithNode(k, n)
           s  == getTaskStatus(o)
           m  == addTask(k, p, o)
<1>1. n \in Nodes \cup {""}
  BY DEF PodObjects
<1>2. /\ k1 \in Caches /\ k1.tasks = k.tasks /\ Owned(k1) /\ Grown(k, k1)
      /\ (n # "" => n \in DOMAIN k1.nodes)
      /\ \A y \in DOMAIN k.nodes : k1.nodes[y] = k.nodes[y]
  BY <1>1, WithNodeType
<1>3. /\ s \in TaskStatuses /\ s # "Pipelined"
      /\ isTerminated(s) <=> isTerminated(o.phase)
  BY TaskStatusType
<1>4. CASE n = "" \/ isTerminated(s)
  <2>1. m = AddTaskInfo(k1, p, o)
    BY <1>4 DEF addTask
  <2>2. m \in Caches /\ Owned(m) /\ m.nodes = k1.nodes
    <3> HIDE DEF n, k1, s, m
    <3> QED
      BY <1>2, <2>1, AddTaskInfoType
  <2>3. TaskWritten(k, m, p, o)
    BY <1>2, <2>1, AddTaskInfoType DEF TaskWritten
  <2>4. n = "" => m.nodes = k.nodes
    BY <2>2 DEF WithNode
  <2>5. ~(n \in DOMAIN k.nodes /\ ~isTerminated(o.phase))
    <3>1. DOMAIN k.nodes \subseteq Nodes
      BY CacheParts
    <3> QED
      BY <1>3, <1>4, <3>1, CacheAssumption
  <2> HIDE DEF n, k1, s, m
  <2>6. Grown(k, m)
    BY <1>2, <2>2, GrownNodes
  <2> QED
    BY <2>2, <2>3, <2>4, <2>5, <2>6 DEF m, n
<1>5. CASE n # "" /\ ~isTerminated(s) /\ AllocateFail(k1.nodes[n], p, s)
  <2> DEFINE x == NotReady(k1.nodes[n])
  <2>1. m = ReplaceNode(k1, n, x)
    BY <1>5 DEF addTask, ReplaceNode, NotReady
  <2>2. n \in DOMAIN k1.nodes /\ k1.nodes[n] \in GoodNodes
    BY <1>2, <1>5, CacheParts
  <2>3. /\ x \in GoodNodes /\ x.set = k1.nodes[n].set
        /\ x.alloc = k1.nodes[n].alloc /\ x.tasks = k1.nodes[n].tasks
    BY <2>2, GoodNotReady
  <2>4. ~(/\ n \in DOMAIN k.nodes /\ k.nodes[n].set
          /\ k.nodes[n].tasks[p] # "None" \/ Req[p] <= k.nodes[n].idle)
    <3>1. ASSUME n \in DOMAIN k.nodes PROVE k.nodes[n].idle \in Int
      BY <3>1, CacheParts DEF GoodNodes, NodeInfoType
    <3>2. Req[p] \in Nat
      BY ApiAssumption
    <3>3. /\ k1.nodes[n].tasks[p] = "None" /\ k1.nodes[n].set
          /\ Req[p] > k1.nodes[n].idle
      BY <1>5 DEF AllocateFail
    <3> HIDE DEF n, k1, s, m, x
    <3>4. SUFFICES ASSUME n \in DOMAIN k.nodes
                   PROVE  ~(k.nodes[n].tasks[p] # "None" \/ Req[p] <= k.nodes[n].idle)
      OBVIOUS
    <3>5. k1.nodes[n] = k.nodes[n]
      BY <1>2, <3>4
    <3> QED
      BY <3>1, <3>2, <3>3, <3>4, <3>5
  <2> HIDE DEF n, k1, s, m, x
  <2>5. m \in Caches /\ m.tasks = k1.tasks /\ Owned(m)
    BY <1>2, <2>1, <2>2, <2>3, ReplaceNodeType
  <2>6. Grown(k1, m)
    BY <1>2, <2>1, <2>2, <2>3, GrownReplace
  <2>7. Grown(k, m)
    BY <1>2, <2>6, GrownTwice
  <2> QED
    BY <1>2, <1>5, <2>4, <2>5, <2>7 DEF m, n, TaskWritten
<1>6. CASE /\ n # "" /\ ~isTerminated(s) /\ ~AllocateFail(k1.nodes[n], p, s)
           /\ addTaskFails(k, p, o)
  <2>1. m = k1
    BY <1>6 DEF addTask
  <2>2. k1.nodes[n].tasks[p] # "None"
    BY <1>6 DEF addTaskFails, CanAddTask
  <2> HIDE DEF n, k1, s, m
  <2> QED
    BY <1>2, <1>6, <2>1, <2>2 DEF m, n, TaskWritten
<1>7. CASE /\ n # "" /\ ~isTerminated(s) /\ ~AllocateFail(k1.nodes[n], p, s)
           /\ ~addTaskFails(k, p, o)
  <2> DEFINE x == AddTask(k1.nodes[n], p, s)
             h == ReplaceNode(k1, n, x)
  <2>1. m = AddTaskInfo(h, p, o)
    BY <1>7 DEF addTask, ReplaceNode
  <2>2. n \in DOMAIN k1.nodes /\ k1.nodes[n] \in GoodNodes
    BY <1>2, <1>7, CacheParts
  <2>3. CanAddTask(k1.nodes[n], p, s)
    BY <1>7 DEF addTaskFails
  <2>4. /\ x \in GoodNodes /\ x.set = k1.nodes[n].set /\ x.alloc = k1.nodes[n].alloc
        /\ x.tasks[p] # "None"
    BY <1>3, <2>2, <2>3, GoodAdd
  <2>5. \A q \in Names : k1.nodes[n].tasks[q] # "None" => x.tasks[q] # "None"
    BY <1>3, <2>2, <2>3, GoodAdd
  <2> HIDE DEF x
  <2>6. h \in Caches /\ h.tasks = k1.tasks /\ Owned(h) /\ h.nodes[n] = x
    BY <1>2, <2>2, <2>4, ReplaceNodeType
  <2>7. Grown(k1, h)
    BY <1>2, <2>2, <2>4, <2>5, GrownReplace
  <2> HIDE DEF h
  <2>8. m \in Caches /\ Owned(m) /\ m.nodes = h.nodes
    BY <2>1, <2>6, AddTaskInfoType
  <2>9. TaskWritten(k, m, p, o)
    BY <1>2, <2>1, <2>6, AddTaskInfoType DEF TaskWritten
  <2> HIDE DEF n, k1, s, m
  <2>10. Grown(k, m)
    BY <1>2, <2>7, <2>8, GrownTwice, GrownNodes
  <2> QED
    BY <1>7, <2>4, <2>6, <2>8, <2>9, <2>10 DEF m, n
<1> HIDE DEF k1, s
<1> QED
  BY <1>4, <1>5, <1>6, <1>7

\* At most the tasks in S are gone.
TasksGone(k, m, S) ==
    /\ \A t \in DOMAIN m.tasks : t \in DOMAIN k.tasks /\ t \notin S /\ m.tasks[t] = k.tasks[t]

DropTasks(k, S) == [k EXCEPT !.tasks = Restrict(@, DOMAIN @ \ S)]

\* Tasks dropped from the cache leave the nodes and the jobs alone.
LEMMA DropTasksType ==
    ASSUME NEW k \in Caches, NEW S
    PROVE  /\ DropTasks(k, S) \in Caches
           /\ DropTasks(k, S).nodes = k.nodes /\ DropTasks(k, S).jobs = k.jobs
           /\ TasksGone(k, DropTasks(k, S), S)
           /\ Owned(k) => Owned(DropTasks(k, S))
<1> DEFINE f == Restrict(k.tasks, DOMAIN k.tasks \ S)
           m == DropTasks(k, S)
<1>1. k.tasks \in Partial(OwnTids, TaskEntries)
  BY DEF Caches
<1>2. f \in Partial(OwnTids, TaskEntries)
  BY <1>1, PartialRestrict
<1>3. \A t \in DOMAIN f : t \in DOMAIN k.tasks /\ t \notin S /\ f[t] = k.tasks[t]
  BY DEF Restrict
<1>4. m = [k EXCEPT !.tasks = f]
  BY DEF DropTasks
<1> HIDE DEF f, m
<1>5. m \in Caches /\ m.jobs = k.jobs /\ m.tasks = f /\ m.nodes = k.nodes
  BY <1>2, <1>4, CacheWith
<1>6. TasksGone(k, m, S) /\ (Owned(k) => Owned(m))
  BY <1>3, <1>5 DEF Owned, TasksGone
<1> QED
  BY <1>5, <1>6 DEF m

\* So does one task dropped.
LEMMA DropTaskType ==
    ASSUME NEW k \in Caches, NEW t
    PROVE  /\ DropTask(k, t) \in Caches
           /\ DropTask(k, t).nodes = k.nodes
           /\ TasksGone(k, DropTask(k, t), {t})
           /\ Owned(k) => Owned(DropTask(k, t))
<1>1. DropTask(k, t) = DropTasks(k, {t})
  BY DEF DropTask, DropTasks
<1> QED
  BY <1>1, DropTasksType

\* A task taken off a node leaves the other nodes and all tasks; a node that
\* is not there is no difference.
LEMMA RemoveFromType ==
    ASSUME NEW k \in Caches, NEW n, NEW p \in Names
    PROVE  /\ RemoveFrom(k, n, p) \in Caches
           /\ RemoveFrom(k, n, p).tasks = k.tasks
           /\ Owned(k) => Owned(RemoveFrom(k, n, p))
           /\ Shrunk(k, RemoveFrom(k, n, p), n, p)
           /\ n \notin DOMAIN k.nodes => RemoveFrom(k, n, p) = k
<1> DEFINE m == RemoveFrom(k, n, p)
<1>1. CASE n \notin DOMAIN k.nodes
  BY <1>1 DEF RemoveFrom, Shrunk
<1>2. CASE n \in DOMAIN k.nodes
  <2> DEFINE x == RemoveTask(k.nodes[n], p)
  <2>1. k.nodes[n] \in GoodNodes
    BY <1>2, CacheParts
  <2>2. /\ x \in GoodNodes /\ x.set = k.nodes[n].set /\ x.alloc = k.nodes[n].alloc
        /\ x.tasks[p] = "None"
        /\ k.nodes[n].set /\ k.nodes[n].tasks[p] # "None" => Req[p] <= x.idle
    BY <2>1, GoodRemove
  <2>3. \A q \in Names : q # p => x.tasks[q] = k.nodes[n].tasks[q]
    BY <2>1, GoodRemove
  <2>4. m = ReplaceNode(k, n, x)
    BY <1>2 DEF RemoveFrom, ReplaceNode
  <2> HIDE DEF m, x
  <2>5. m \in Caches /\ m.tasks = k.tasks /\ (Owned(k) => Owned(m))
    BY <1>2, <2>2, <2>4, ReplaceNodeType
  <2>6. /\ DOMAIN m.nodes = DOMAIN k.nodes /\ m.nodes[n] = x
        /\ \A y \in DOMAIN k.nodes : y # n => m.nodes[y] = k.nodes[y]
    BY <1>2, <2>2, <2>4, ReplaceNodeType
  <2>7. Shrunk(k, m, n, p)
    BY <1>2, <2>2, <2>3, <2>6 DEF Shrunk
  <2> QED
    BY <1>2, <2>5, <2>7 DEF m
<1> QED
  BY <1>1, <1>2

\* deleteTask: the task is gone, and at most its pod has left node n.
LEMMA deleteTaskType ==
    ASSUME NEW k \in Caches, Owned(k), NEW t \in Tids, NEW n
    PROVE  /\ deleteTask(k, t, n) \in Caches /\ Owned(deleteTask(k, t, n))
           /\ TasksGone(k, deleteTask(k, t, n), {t})
           /\ Shrunk(k, deleteTask(k, t, n), n, t[1])
           /\ n \notin DOMAIN k.nodes => deleteTask(k, t, n).nodes = k.nodes
<1> DEFINE h == DropTask(k, t)
           p == t[1]
           m == RemoveFrom(h, n, p)
<1>1. h \in Caches /\ h.nodes = k.nodes /\ TasksGone(k, h, {t}) /\ Owned(h)
  BY DropTaskType
<1>2. p \in Names
  BY DEF Tids
<1> HIDE DEF h, p, m
<1>3. /\ m \in Caches /\ m.tasks = h.tasks /\ Owned(m) /\ Shrunk(h, m, n, p)
      /\ n \notin DOMAIN h.nodes => m = h
  BY <1>1, <1>2, RemoveFromType DEF m
<1>4. Shrunk(k, m, n, p)
  BY <1>1, <1>3 DEF Shrunk
<1>5. TasksGone(k, m, {t})
  BY <1>1, <1>3 DEF TasksGone
<1>6. deleteTask(k, t, n) = m
  BY DEF deleteTask, m, h, p
<1> QED
  BY <1>1, <1>3, <1>4, <1>5, <1>6 DEF p

\* The node deletePod takes the pod off.
NodeOf(k, p, o) ==
    IF <<p, o.uid>> \in DOMAIN k.tasks THEN k.tasks[<<p, o.uid>>].node ELSE o.node

\* A deleted pod had a uid if it was visible.
LEMMA deletePodType ==
    ASSUME NEW k \in Caches, Owned(k), NEW p \in Names, NEW o \in PodObjects, o.uid # 0
    PROVE  /\ deletePod(k, p, o) \in Caches /\ Owned(deletePod(k, p, o))
           /\ TasksGone(k, deletePod(k, p, o), {<<p, o.uid>>})
           /\ Shrunk(k, deletePod(k, p, o), NodeOf(k, p, o), p)
           /\ NodeOf(k, p, o) = "" => deletePod(k, p, o).nodes = k.nodes
<1> DEFINE t == <<p, o.uid>>
           n == NodeOf(k, p, o)
<1>1. t \in Tids /\ t[1] = p
  <2>1. MaxUid \in Nat /\ o.uid \in 0 .. MaxUid
    BY CacheAssumption DEF PodObjects
  <2>2. o.uid \in 1 .. MaxUid
    BY <2>1
  <2> QED
    BY <2>2 DEF Tids
<1>2. deletePod(k, p, o) = deleteTask(k, t, n)
  BY DEF deletePod, NodeOf
<1>3. "" \notin DOMAIN k.nodes
  BY CacheParts, CacheAssumption
<1> HIDE DEF t, n
<1>4. /\ deleteTask(k, t, n) \in Caches /\ Owned(deleteTask(k, t, n))
      /\ TasksGone(k, deleteTask(k, t, n), {t})
      /\ Shrunk(k, deleteTask(k, t, n), n, t[1])
      /\ n \notin DOMAIN k.nodes => deleteTask(k, t, n).nodes = k.nodes
  BY <1>1, deleteTaskType
<1> QED
  BY <1>1, <1>2, <1>3, <1>4 DEF t, n

\* The Job of a PodGroup is there, and marked.
MarkJob(k, j, g) == [k EXCEPT !.jobs[j].group = g]

\* A job marked as having a pod group or none stays in the cache.
LEMMA MarkJobType ==
    ASSUME NEW k \in Caches, NEW j \in DOMAIN k.jobs, NEW g \in BOOLEAN
    PROVE  /\ MarkJob(k, j, g) \in Caches
           /\ MarkJob(k, j, g).tasks = k.tasks /\ MarkJob(k, j, g).nodes = k.nodes
           /\ Owned(k) => Owned(MarkJob(k, j, g))
<1> DEFINE x == [k.jobs[j] EXCEPT !.group = g]
           f == [k.jobs EXCEPT ![j] = x]
           m == MarkJob(k, j, g)
<1>1. k.jobs \in Partial(Jobs, JobEntries) /\ k.jobs[j] \in JobEntries
  BY CacheParts
<1>2. x \in JobEntries
  BY <1>1 DEF JobEntries
<1>3. m = [k EXCEPT !.jobs = f]
  BY DEF MarkJob
<1> HIDE DEF x, m
<1>4. f \in Partial(Jobs, JobEntries) /\ DOMAIN f = DOMAIN k.jobs
  BY <1>1, <1>2, PartialExcept
<1> HIDE DEF f
<1>5. m \in Caches /\ m.jobs = f /\ m.tasks = k.tasks /\ m.nodes = k.nodes
  BY <1>3, <1>4, CacheWith
<1>6. Owned(k) => Owned(m)
  BY <1>4, <1>5 DEF Owned
<1> QED
  BY <1>5, <1>6 DEF m

\* setPodGroup leaves tasks and nodes alone.
LEMMA setPodGroupType ==
    ASSUME NEW k \in Caches, NEW j \in Jobs
    PROVE  /\ setPodGroup(k, j) \in Caches
           /\ setPodGroup(k, j).tasks = k.tasks /\ setPodGroup(k, j).nodes = k.nodes
           /\ Owned(k) => Owned(setPodGroup(k, j))
<1> DEFINE h == getOrCreateJob(k, j)
<1>1. j \in Jobs \cup {""} /\ j # ""
  BY CacheAssumption
<1>2. h \in Caches /\ h.tasks = k.tasks /\ h.nodes = k.nodes /\ (Owned(k) => Owned(h))
  BY <1>1, getOrCreateJobType
<1>3. j \in DOMAIN h.jobs
  BY <1>1, getOrCreateJobType
<1>4. setPodGroup(k, j) = MarkJob(h, j, TRUE)
  BY DEF setPodGroup, MarkJob
<1> HIDE DEF h
<1> QED
  BY <1>2, <1>3, <1>4, MarkJobType

\* A Job is deleted with its tasks.
LEMMA DropJobType ==
    ASSUME NEW k \in Caches, NEW j, Owned(k)
    PROVE  /\ DropJob(k, j) \in Caches /\ Owned(DropJob(k, j))
           /\ DropJob(k, j).nodes = k.nodes
           /\ TasksGone(k, DropJob(k, j), {})
<1> DEFINE S == TasksOf(k, j)
           h == DropTasks(k, S)
           f == Restrict(k.jobs, DOMAIN k.jobs \ {j})
           m == [h EXCEPT !.jobs = f]
<1>1. /\ h \in Caches /\ h.nodes = k.nodes /\ h.jobs = k.jobs /\ TasksGone(k, h, S)
      /\ Owned(h)
  BY DropTasksType
<1>2. k.jobs \in Partial(Jobs, JobEntries)
  BY DEF Caches
<1>3. f \in Partial(Jobs, JobEntries) /\ DOMAIN f = DOMAIN k.jobs \ {j}
  BY <1>2, PartialRestrict DEF Restrict
<1>4. DropJob(k, j) = m
  BY DEF DropJob, DropTasks, Caches
<1>5. \A t \in DOMAIN k.tasks : t \notin S => JobOf[t[1]] # j
  BY DEF TasksOf
<1> HIDE DEF S, h, f
<1>6. m \in Caches /\ m.tasks = h.tasks /\ m.jobs = f /\ m.nodes = h.nodes
  BY <1>1, <1>3, CacheWith
<1> HIDE DEF m
<1>7. Owned(m)
  BY <1>1, <1>3, <1>5, <1>6 DEF Owned, TasksGone
<1>8. TasksGone(k, m, {})
  BY <1>1, <1>6 DEF TasksGone
<1> QED
  BY <1>1, <1>4, <1>6, <1>7, <1>8

\* What an event about node n may change in the nodes of the cache: the tasks
\* stay, and what is set is set to what the object has.
NodeRefreshed(k, m, n, obj) ==
    /\ \A y \in DOMAIN k.nodes :
         /\ y \in DOMAIN m.nodes /\ m.nodes[y].tasks = k.nodes[y].tasks
         /\ k.nodes[y].set = TRUE => m.nodes[y].set = TRUE
    /\ \A y \in DOMAIN m.nodes :
         \/ y = n /\ m.nodes[y].alloc = obj.alloc
         \/ /\ y \in DOMAIN k.nodes /\ m.nodes[y].set = k.nodes[y].set
            /\ m.nodes[y].alloc = k.nodes[y].alloc

\* updateNode refreshes the one node.
LEMMA updateNodeType ==
    ASSUME NEW k \in Caches, NEW n \in Nodes, NEW obj \in NodeObject
    PROVE  /\ updateNode(k, n, obj) \in Caches
           /\ updateNode(k, n, obj).tasks = k.tasks
           /\ Owned(k) => Owned(updateNode(k, n, obj))
           /\ NodeRefreshed(k, updateNode(k, n, obj), n, obj)
<1> DEFINE m == updateNode(k, n, obj)
           x == SetNode(k.nodes[n], obj)
<1>1. CASE n \notin DOMAIN k.nodes
  BY <1>1 DEF updateNode, NodeRefreshed
<1>2. CASE n \in DOMAIN k.nodes
  <2>1. k.nodes[n] \in GoodNodes
    BY <1>2, CacheParts
  <2>2. /\ x \in GoodNodes /\ x.tasks = k.nodes[n].tasks
        /\ \/ x.set = TRUE /\ x.alloc = obj.alloc
           \/ x.set = k.nodes[n].set /\ x.alloc = k.nodes[n].alloc
    BY <2>1, GoodSetNode
  <2>3. m = ReplaceNode(k, n, x)
    BY <1>2 DEF updateNode, ReplaceNode
  <2> HIDE DEF m, x
  <2>4. m \in Caches /\ m.tasks = k.tasks /\ (Owned(k) => Owned(m))
    BY <1>2, <2>2, <2>3, ReplaceNodeType
  <2>5. /\ DOMAIN m.nodes = DOMAIN k.nodes /\ m.nodes[n] = x
        /\ \A y \in DOMAIN k.nodes : y # n => m.nodes[y] = k.nodes[y]
    BY <1>2, <2>2, <2>3, ReplaceNodeType
  <2>6. NodeRefreshed(k, m, n, obj)
    BY <2>2, <2>5 DEF NodeRefreshed
  <2> QED
    BY <2>4, <2>6 DEF m
<1> QED
  BY <1>1, <1>2

\* addNode refreshes the one node, or adds it.
LEMMA addNodeType ==
    ASSUME NEW k \in Caches, NEW n \in Nodes, NEW obj \in NodeObject
    PROVE  /\ addNode(k, n, obj) \in Caches
           /\ addNode(k, n, obj).tasks = k.tasks
           /\ Owned(k) => Owned(addNode(k, n, obj))
           /\ NodeRefreshed(k, addNode(k, n, obj), n, obj)
<1> DEFINE m == addNode(k, n, obj)
           f == Put(k.nodes, n, NewNodeInfo(obj))
<1>1. CASE n \in DOMAIN k.nodes
  <2>1. addNode(k, n, obj) = updateNode(k, n, obj)
    BY <1>1 DEF addNode, updateNode
  <2> QED
    BY <2>1, updateNodeType
<1>2. CASE n \notin DOMAIN k.nodes
  <2>1. /\ NewNodeInfo(obj) \in GoodNodes /\ NewNodeInfo(obj).set = TRUE
        /\ NewNodeInfo(obj).alloc = obj.alloc
    BY GoodNewNode
  <2>2. k.nodes \in Partial(Nodes, GoodNodes)
    BY DEF Caches
  <2>3. f \in Partial(Nodes, GoodNodes)
    BY <2>1, <2>2, PartialPut
  <2>4. /\ DOMAIN f = DOMAIN k.nodes \cup {n} /\ f[n] = NewNodeInfo(obj)
        /\ \A y \in DOMAIN k.nodes : y # n => f[y] = k.nodes[y]
    BY DEF Put
  <2>5. m = [k EXCEPT !.nodes = f]
    BY <1>2 DEF addNode
  <2> HIDE DEF f, m
  <2>6. m \in Caches /\ m.jobs = k.jobs /\ m.tasks = k.tasks /\ m.nodes = f
    BY <2>3, <2>5, CacheWith
  <2>7. (Owned(k) => Owned(m)) /\ NodeRefreshed(k, m, n, obj)
    BY <1>2, <2>1, <2>4, <2>6 DEF Owned, NodeRefreshed
  <2> QED
    BY <2>6, <2>7 DEF m
<1> QED
  BY <1>1, <1>2

\* deleteNode takes nodes out of a cache and nothing else.
LEMMA deleteNodeType ==
    ASSUME NEW k \in Caches, NEW n
    PROVE  deleteNode(k, n) \in Caches /\ (Owned(k) => Owned(deleteNode(k, n)))
<1> DEFINE f == Restrict(k.nodes, DOMAIN k.nodes \ {n})
           m == deleteNode(k, n)
<1>1. k.nodes \in Partial(Nodes, GoodNodes)
  BY DEF Caches
<1>2. f \in Partial(Nodes, GoodNodes)
  BY <1>1, PartialRestrict
<1>3. m = [k EXCEPT !.nodes = f]
  BY DEF deleteNode
<1> HIDE DEF f, m
<1>4. m \in Caches /\ m.jobs = k.jobs /\ m.tasks = k.tasks
  BY <1>2, <1>3, CacheWith
<1> QED
  BY <1>4 DEF Owned, m

\* A session's decision changes a task and the node it is on together.
Decide(k, t, x, n, y) == [k EXCEPT !.tasks[t] = x, !.nodes[n] = y]

\* A decision writes one task and one node.
LEMMA DecideType ==
    ASSUME NEW k \in Caches, NEW t \in DOMAIN k.tasks, NEW x \in TaskEntries,
           NEW n \in DOMAIN k.nodes, NEW y \in GoodNodes
    PROVE  /\ Decide(k, t, x, n, y) \in Caches
           /\ Owned(k) => Owned(Decide(k, t, x, n, y))
           /\ Decide(k, t, x, n, y).nodes = ReplaceNode(k, n, y).nodes
           /\ \A z \in DOMAIN Decide(k, t, x, n, y).tasks : z \in DOMAIN k.tasks
           /\ Decide(k, t, x, n, y).tasks[t] = x
           /\ \A z \in DOMAIN k.tasks : z # t => Decide(k, t, x, n, y).tasks[z] = k.tasks[z]
<1> DEFINE f == [k.tasks EXCEPT ![t] = x]
           h == ReplaceNode(k, n, y)
           m == [h EXCEPT !.tasks = f]
<1>1. k.tasks \in Partial(OwnTids, TaskEntries)
  BY DEF Caches
<1>2. f \in Partial(OwnTids, TaskEntries)
  BY <1>1, PartialExcept
<1>3. DOMAIN f = DOMAIN k.tasks /\ f[t] = x /\ \A z \in DOMAIN k.tasks : z # t => f[z] = k.tasks[z]
  OBVIOUS
<1>4. h \in Caches /\ h.jobs = k.jobs
  BY ReplaceNodeType
<1>5. Decide(k, t, x, n, y) = m
  BY DEF Decide, ReplaceNode, Caches
<1> HIDE DEF f, h
<1>6. m \in Caches /\ m.jobs = h.jobs /\ m.tasks = f /\ m.nodes = h.nodes
  BY <1>2, <1>4, CacheWith
<1> HIDE DEF m
<1>7. Owned(k) => Owned(m)
  BY <1>3, <1>4, <1>6 DEF Owned
<1> QED
  BY <1>3, <1>5, <1>6, <1>7 DEF h

\* AddBindTask.
BoundCache(k, t, n) ==
    [k EXCEPT !.tasks[t].status = "Binding", !.tasks[t].node = n,
              !.nodes[n] = AddTask(@, t[1], "Binding")]

\* AddBindTask's write to the cache: the task is Binding and holds a place on
\* the node, every other task is as it was.
LEMMA BoundCacheType ==
    ASSUME NEW k \in Caches, Owned(k), NEW t \in DOMAIN k.tasks, NEW n \in DOMAIN k.nodes,
           CanAddTask(k.nodes[n], t[1], "Binding")
    PROVE  /\ BoundCache(k, t, n) \in Caches /\ Owned(BoundCache(k, t, n))
           /\ Grown(k, BoundCache(k, t, n))
           /\ BoundCache(k, t, n).nodes[n].tasks[t[1]] # "None"
           /\ \A z \in DOMAIN BoundCache(k, t, n).tasks :
                /\ z \in DOMAIN k.tasks
                /\ IF z = t THEN /\ BoundCache(k, t, n).tasks[z].status = "Binding"
                                 /\ BoundCache(k, t, n).tasks[z].node = n
                   ELSE BoundCache(k, t, n).tasks[z] = k.tasks[z]
<1> DEFINE x == [k.tasks[t] EXCEPT !.status = "Binding", !.node = n]
           y == AddTask(k.nodes[n], t[1], "Binding")
           m == BoundCache(k, t, n)
<1>1. /\ k.tasks[t] \in TaskEntries /\ k.nodes[n] \in GoodNodes /\ n \in Nodes
      /\ t \in OwnTids
  BY CacheParts
<1>2. x \in TaskEntries /\ x.status = "Binding" /\ x.node = n
  BY <1>1 DEF TaskEntries, TaskStatuses
<1>3. t[1] \in Names
  BY <1>1 DEF OwnTids, Tids
<1>4. "Binding" \in TaskStatuses
  BY DEF TaskStatuses
<1>5. /\ y \in GoodNodes /\ y.set = k.nodes[n].set /\ y.alloc = k.nodes[n].alloc
      /\ y.tasks[t[1]] # "None"
  BY <1>1, <1>3, <1>4, GoodAdd
<1>6. \A q \in Names : k.nodes[n].tasks[q] # "None" => y.tasks[q] # "None"
  BY <1>1, <1>3, <1>4, GoodAdd
<1>7. m = Decide(k, t, x, n, y)
  BY DEF BoundCache, Decide
<1> HIDE DEF x, y, m
<1>8. /\ m \in Caches /\ Owned(m) /\ m.nodes = ReplaceNode(k, n, y).nodes
      /\ m.tasks[t] = x
  BY <1>2, <1>5, <1>7, DecideType
<1>9. /\ \A z \in DOMAIN m.tasks : z \in DOMAIN k.tasks
      /\ \A z \in DOMAIN k.tasks : z # t => m.tasks[z] = k.tasks[z]
  BY <1>2, <1>5, <1>7, DecideType
<1>10. Grown(k, m)
  <2>1. Grown(k, ReplaceNode(k, n, y))
    BY <1>5, <1>6, GrownReplace
  <2> QED
    BY <1>8, <2>1, GrownNodes
<1>11. m.nodes[n].tasks[t[1]] # "None"
  BY <1>5, <1>8, ReplaceNodeType
<1> QED
  BY <1>2, <1>8, <1>9, <1>10, <1>11 DEF m

\* SchedulerCache.Evict, where it does not end the process.
EvictedCache(k, t) ==
    [k EXCEPT !.tasks[t].status = "Releasing",
              !.nodes[k.tasks[t].node] = UpdateTask(@, t[1], "Releasing")]

\* Evict's write to the cache: the task is Releasing and stays on its node,
\* every other task is as it was.
LEMMA EvictedCacheType ==
    ASSUME NEW k \in Caches, Owned(k), NEW t \in DOMAIN k.tasks,
           k.tasks[t].node \in DOMAIN k.nodes,
           CanUpdateTask(k.nodes[k.tasks[t].node], t[1], "Releasing")
    PROVE  /\ EvictedCache(k, t) \in Caches /\ Owned(EvictedCache(k, t))
           /\ Grown(k, EvictedCache(k, t))
           /\ \A z \in DOMAIN EvictedCache(k, t).tasks :
                /\ z \in DOMAIN k.tasks
                /\ IF z = t THEN EvictedCache(k, t).tasks[z].status = "Releasing"
                   ELSE EvictedCache(k, t).tasks[z] = k.tasks[z]
<1> DEFINE n == k.tasks[t].node
           x == [k.tasks[t] EXCEPT !.status = "Releasing"]
           y == UpdateTask(k.nodes[n], t[1], "Releasing")
           m == EvictedCache(k, t)
<1>1. k.tasks[t] \in TaskEntries /\ k.nodes[n] \in GoodNodes /\ t \in OwnTids
  BY CacheParts
<1>2. x \in TaskEntries /\ x.status = "Releasing"
  BY <1>1 DEF TaskEntries, TaskStatuses
<1>3. t[1] \in Names
  BY <1>1 DEF OwnTids, Tids
<1>4. "Releasing" \in TaskStatuses
  BY DEF TaskStatuses
<1>5. y \in GoodNodes /\ y.set = k.nodes[n].set /\ y.alloc = k.nodes[n].alloc
  BY <1>1, <1>3, <1>4, GoodUpdate
<1>6. \A q \in Names : k.nodes[n].tasks[q] # "None" => y.tasks[q] # "None"
  BY <1>1, <1>3, <1>4, GoodUpdate
<1>7. m = Decide(k, t, x, n, y)
  BY DEF EvictedCache, Decide
<1>8. n \in DOMAIN k.nodes
  OBVIOUS
<1> HIDE DEF x, y, m, n
<1>9. /\ m \in Caches /\ Owned(m) /\ m.nodes = ReplaceNode(k, n, y).nodes
      /\ m.tasks[t] = x
  BY <1>2, <1>5, <1>7, <1>8, DecideType
<1>10. /\ \A z \in DOMAIN m.tasks : z \in DOMAIN k.tasks
       /\ \A z \in DOMAIN k.tasks : z # t => m.tasks[z] = k.tasks[z]
  BY <1>2, <1>5, <1>7, <1>8, DecideType
<1>11. Grown(k, m)
  <2>1. Grown(k, ReplaceNode(k, n, y))
    BY <1>5, <1>6, <1>8, GrownReplace
  <2> QED
    BY <1>9, <2>1, GrownNodes
<1> QED
  BY <1>2, <1>9, <1>10, <1>11 DEF m

-----------------------------------------------------------------------------
(***************************************************************************)
(* The type invariant, by the parts of the state, and its steps.           *)
(***************************************************************************)
Entries == [t : OwnTids, node : Nodes]
PodEvents == [name : Names, obj : PodObjects]
NodeEvents == [name : Nodes, obj : NodeObject, new : BOOLEAN]
GroupEvents == [job : Jobs, there : BOOLEAN]

ApiTypes ==
    /\ pod \in [Names -> PodObjects] /\ uids \in [Names -> 0 .. MaxUid]
    /\ node \in [Nodes -> NodeObject] /\ group \in SUBSET Jobs

WatchTypes ==
    /\ podWatch \in Seq(PodEvents) /\ nodeWatch \in Seq(NodeEvents)
    /\ groupWatch \in Seq(GroupEvents) /\ podSeen \in [Names -> PodObjects]

CacheTypes == c \in Caches /\ Owned(c)

ResyncType ==
    \/ rs = Idle
    \/ /\ rs \in [e : Entries, got : PodObjects, step : {"update", "delete", "node", "retry"}]
       /\ rs.step = "update" => rs.got.uid # 0

Batches == {b \in [todo : Seq(Entries), errs : SUBSET Entries] : b.todo # <<>>}

Evictions == [t : OwnTids, node : Nodes, pod : PodObjects, step : {"status", "delete"}]

WorkerTypes ==
    /\ errTasks \in SUBSET Entries /\ ResyncType
    /\ sending = NoBind \/ sending \in Entries
    /\ channel \in Seq(Entries) /\ Len(channel) <= ChannelCap
    /\ bindCache \in Seq(Entries) /\ Len(bindCache) <= BatchNum
    /\ binds \in SUBSET Batches /\ evictions \in SUBSET Evictions

SessionTypes ==
    ssn \in [open : BOOLEAN, nodes : Partial(Nodes, GoodNodes),
             tasks : Partial(OwnTids, TaskStatuses \cup {"Unschedulable"})]

BudgetTypes ==
    /\ scenario \in Scenarios /\ left \in [Disturbances -> Nat]
    /\ \A d \in Disturbances : left[d] <= scenario.budget[d]

Types == /\ ApiTypes /\ WatchTypes /\ CacheTypes /\ WorkerTypes
         /\ SessionTypes /\ BudgetTypes

\* What a disturbance costs.
LEMMA SpendType ==
    ASSUME BudgetTypes, NEW d \in Disturbances, Spend(d), scenario' = scenario
    PROVE  BudgetTypes'
<1>1. scenario.budget \in [Disturbances -> Nat]
  BY CacheAssumption DEF BudgetTypes
<1>2. left' = [left EXCEPT ![d] = left[d] - 1] /\ left[d] > 0 /\ left \in [Disturbances -> Nat]
  BY DEF Spend, BudgetTypes
<1>3. left[d] \in Nat /\ left[d] - 1 \in Nat
  BY <1>2
<1>4. left' \in [Disturbances -> Nat] /\ \A e \in Disturbances : left'[e] <= left[e]
  BY <1>2, <1>3
<1>5. ASSUME NEW e \in Disturbances PROVE left'[e] <= scenario.budget[e]
  BY <1>1, <1>2, <1>4 DEF BudgetTypes
<1> QED
  BY <1>4, <1>5 DEF BudgetTypes

\* The names of the disturbances.
LEMMA DisturbanceNames ==
    /\ "err" \in Disturbances /\ "lost" \in Disturbances /\ "crash" \in Disturbances
    /\ "relist" \in Disturbances /\ "delete" \in Disturbances
    /\ "create" \in Disturbances /\ "finish" \in Disturbances
    /\ "evict" \in Disturbances /\ "resize" \in Disturbances
    /\ "renew" \in Disturbances /\ "group" \in Disturbances
    /\ "foreign" \in Disturbances /\ "volume" \in Disturbances
  BY DEF Disturbances

\* The lists of an informer that begins anew.
LEMMA PodListType ==
    ASSUME ApiTypes, NEW S \in SUBSET Names
    PROVE  /\ Listed(S, PodEvent) \in Seq(PodEvents)
           /\ \A i \in DOMAIN Listed(S, PodEvent) :
                /\ Listed(S, PodEvent)[i].name \in S
                /\ Listed(S, PodEvent)[i].obj = pod[Listed(S, PodEvent)[i].name]
<1>1. IsFiniteSet(S)
  BY ApiAssumption, FS_Subset
<1> DEFINE q == SetToSeq(S)
           N == Cardinality(S)
           L == [i \in 1 .. N |-> [name |-> q[i], obj |-> pod[q[i]]]]
<1>2. q \in [1 .. N -> S] /\ N \in Nat
  BY <1>1, SetToSeqType
<1>3. Listed(S, PodEvent) = L
  BY DEF Listed, PodEvent
<1> HIDE DEF q, N
<1>4. \A i \in 1 .. N : L[i] \in PodEvents /\ L[i].name \in S /\ L[i].obj = pod[L[i].name]
  BY <1>2 DEF PodEvents, ApiTypes
<1>5. L \in Seq(PodEvents) /\ DOMAIN L = 1 .. N
  BY <1>2, <1>4
<1> HIDE DEF L
<1> QED
  BY <1>3, <1>4, <1>5

\* A list of the nodes gives events with the objects the API server has.
LEMMA NodeListType ==
    ASSUME ApiTypes, NEW S \in SUBSET Nodes
    PROVE  /\ Listed(S, NodeEvent) \in Seq(NodeEvents)
           /\ \A i \in DOMAIN Listed(S, NodeEvent) :
                Listed(S, NodeEvent)[i].obj = node[Listed(S, NodeEvent)[i].name]
<1>1. IsFiniteSet(S)
  BY CacheAssumption, FS_Subset
<1> DEFINE q == SetToSeq(S)
           N == Cardinality(S)
           L == [i \in 1 .. N |-> [name |-> q[i], obj |-> node[q[i]], new |-> TRUE]]
<1>2. q \in [1 .. N -> S] /\ N \in Nat
  BY <1>1, SetToSeqType
<1>3. Listed(S, NodeEvent) = L
  BY DEF Listed, NodeEvent
<1> HIDE DEF q, N
<1>4. \A i \in 1 .. N : L[i] \in NodeEvents /\ L[i].obj = node[L[i].name]
  BY <1>2 DEF NodeEvents, ApiTypes
<1>5. L \in Seq(NodeEvents) /\ DOMAIN L = 1 .. N
  BY <1>2, <1>4
<1> HIDE DEF L
<1> QED
  BY <1>3, <1>4, <1>5

\* A list of the pod groups gives events of pod groups.
LEMMA GroupListType ==
    ASSUME NEW S \in SUBSET Jobs
    PROVE  Listed(S, GroupEvent) \in Seq(GroupEvents)
<1>1. IsFiniteSet(S)
  BY CacheAssumption, FS_Subset
<1> DEFINE q == SetToSeq(S)
           N == Cardinality(S)
           L == [i \in 1 .. N |-> [job |-> q[i], there |-> TRUE]]
<1>2. q \in [1 .. N -> S] /\ N \in Nat
  BY <1>1, SetToSeqType
<1>3. Listed(S, GroupEvent) = L
  BY DEF Listed, GroupEvent
<1> HIDE DEF q, N
<1>4. \A i \in 1 .. N : L[i] \in GroupEvents
  BY <1>2 DEF GroupEvents
<1> QED
  BY <1>2, <1>3, <1>4

\* The cache of a scheduler that has just started, and everything else of it.
LEMMA EmptyCacheType == EmptyCache \in Caches /\ Owned(EmptyCache)
  BY PartialEmpty DEF EmptyCache, Caches, Owned

\* No session has the type of a session.
LEMMA NoSessionType ==
    NoSession \in [open : BOOLEAN, nodes : Partial(Nodes, GoodNodes),
                   tasks : Partial(OwnTids, TaskStatuses \cup {"Unschedulable"})]
  BY PartialEmpty DEF NoSession

\* The bounds are positive numbers.
LEMMA Bounds ==
    /\ MaxUid \in Nat /\ ChannelCap \in Nat /\ BatchNum \in Nat
    /\ MaxUid > 0 /\ ChannelCap > 0 /\ BatchNum > 0
<1>1. /\ MaxUid \in Nat \ {0} /\ ChannelCap \in Nat \ {0} /\ BatchNum \in Nat \ {0}
  BY CacheAssumption
<1> QED
  BY <1>1

\* No pod has the type of a pod; it has no uid and no node.
LEMMA NoPodType == NoPod \in PodObjects /\ NoPod.uid = 0 /\ NoPod.node = ""
<1>1. 0 \in 0 .. MaxUid
  BY Bounds
<1> QED
  BY <1>1 DEF NoPod, PodObjects

\* The invariant holds at first.
LEMMA InitTypes == Init => Types
<1> SUFFICES ASSUME Init PROVE Types
  OBVIOUS
<1>1. ApiTypes
  <2>1. uids \in [Names -> 0 .. MaxUid]
    <3>1. 1 \in 0 .. MaxUid /\ 0 \in 0 .. MaxUid
      BY Bounds
    <3> QED
      BY <3>1 DEF Init
  <2>2. \A p \in Names : [NoPod EXCEPT !.uid = uids[p]] \in PodObjects
    BY <2>1, NoPodType DEF PodObjects
  <2>3. pod \in [Names -> PodObjects]
    BY <2>2 DEF Init
  <2>4. node \in [Nodes -> NodeObject] /\ group \in SUBSET Jobs
    BY CacheAssumption DEF Init, NodeObject
  <2> QED
    BY <2>1, <2>3, <2>4 DEF ApiTypes
<1>2. WatchTypes
  <2>1. scenario.pods \in SUBSET Names
    BY CacheAssumption DEF Init
  <2>2. podWatch \in Seq(PodEvents)
    BY <1>1, <2>1, PodListType DEF Init
  <2>3. nodeWatch \in Seq(NodeEvents)
    BY <1>1, NodeListType DEF Init
  <2>4. groupWatch \in Seq(GroupEvents)
    BY GroupListType DEF Init
  <2>5. podSeen \in [Names -> PodObjects]
    BY NoPodType DEF Init
  <2> QED
    BY <2>2, <2>3, <2>4, <2>5 DEF WatchTypes
<1>3. CacheTypes
  BY EmptyCacheType DEF Init, CacheTypes
<1>4. WorkerTypes
  BY Bounds DEF Init, WorkerTypes, ResyncType
<1>5. SessionTypes
  BY NoSessionType DEF Init, SessionTypes
<1>6. BudgetTypes
  <2>1. scenario \in Scenarios /\ left = scenario.budget
    BY DEF Init
  <2>2. scenario.budget \in [Disturbances -> Nat]
    BY <2>1, CacheAssumption
  <2> QED
    BY <2>1, <2>2 DEF BudgetTypes
<1> QED
  BY <1>1, <1>2, <1>3, <1>4, <1>5, <1>6 DEF Types

\* What a step leaves alone keeps its type.
LEMMA SameApi == ApiTypes /\ UNCHANGED api => ApiTypes'
  BY DEF ApiTypes, api

\* A step that leaves the watches alone keeps their types.
LEMMA SameWatches == WatchTypes /\ UNCHANGED watches => WatchTypes'
  BY DEF WatchTypes, watches

\* A step that leaves the cache alone keeps its type, its owners and its
\* accounts.
LEMMA SameCache == CacheTypes /\ UNCHANGED c => CacheTypes'
  BY DEF CacheTypes

\* A step that leaves the workers alone keeps their types.
LEMMA SameWorkers == WorkerTypes /\ UNCHANGED workers => WorkerTypes'
  BY DEF WorkerTypes, ResyncType, workers

\* A step that leaves the session alone keeps its type.
LEMMA SameSession == SessionTypes /\ UNCHANGED ssn => SessionTypes'
  BY DEF SessionTypes

\* A step that spends nothing keeps the type of the budget.
LEMMA SameBudget == BudgetTypes /\ UNCHANGED <<left, scenario>> => BudgetTypes'
  BY DEF BudgetTypes

\* A handler takes the first event of its stream.
LEMMA FirstPodEvent ==
    ASSUME WatchTypes, podWatch # <<>>
    PROVE  /\ Head(podWatch).name \in Names /\ Head(podWatch).obj \in PodObjects
           /\ Tail(podWatch) \in Seq(PodEvents)
           /\ podSeen[Head(podWatch).name] \in PodObjects
<1>1. Head(podWatch) \in PodEvents /\ Tail(podWatch) \in Seq(PodEvents)
  BY DEF WatchTypes
<1>2. Head(podWatch).name \in Names /\ Head(podWatch).obj \in PodObjects
  BY <1>1 DEF PodEvents
<1> QED
  BY <1>1, <1>2 DEF WatchTypes

\* An event of a pod handled (AddPod, UpdatePod, DeletePod) keeps the
\* invariant.
LEMMA HandlePodTypes == Types /\ HandlePod => Types'
<1> SUFFICES ASSUME Types, HandlePod PROVE Types'
  OBVIOUS
<1> DEFINE p   == Head(podWatch).name
           new == Head(podWatch).obj
           old == podSeen[p]
           gone == deletePod(c, p, old)
<1>1. p \in Names /\ new \in PodObjects /\ old \in PodObjects /\ Tail(podWatch) \in Seq(PodEvents)
  BY FirstPodEvent DEF Types, HandlePod
<1>2. c \in Caches /\ Owned(c)
  BY DEF Types, CacheTypes
<1>3. /\ podSeen' = [podSeen EXCEPT ![p] = new] /\ podWatch' = Tail(podWatch)
      /\ UNCHANGED <<api, nodeWatch, groupWatch, workers, ssn, left, scenario>>
  BY DEF HandlePod
<1>4. \/ ~Visible(p, old) /\ Visible(p, new) /\ c' = addTask(c, p, new)
      \/ Visible(p, old) /\ Visible(p, new) /\ c' = updatePod(c, p, old, new)
      \/ Visible(p, old) /\ c' = gone
      \/ UNCHANGED c
  BY DEF HandlePod
<1> HIDE DEF p, new, old
<1>5. Visible(p, old) => gone \in Caches /\ Owned(gone) /\ old.uid # 0
  BY <1>1, <1>2, deletePodType DEF Visible
<1> HIDE DEF gone
<1>6. CacheTypes'
  <2>1. CASE ~Visible(p, old) /\ Visible(p, new) /\ c' = addTask(c, p, new)
    BY <1>1, <1>2, <2>1, addTaskType DEF Visible, CacheTypes
  <2>2. CASE Visible(p, old) /\ Visible(p, new) /\ c' = updatePod(c, p, old, new)
    <3>1. c' = c \/ c' = addTask(gone, p, new)
      BY <2>2 DEF updatePod, gone
    <3>2. new.uid # 0
      BY <2>2 DEF Visible
    <3> QED
      BY <1>1, <1>2, <1>5, <2>2, <3>1, <3>2, addTaskType DEF CacheTypes
  <2>3. CASE Visible(p, old) /\ c' = gone
    BY <1>5, <2>3 DEF CacheTypes
  <2>4. CASE UNCHANGED c
    BY <2>4, SameCache DEF Types
  <2> QED
    BY <1>4, <2>1, <2>2, <2>3, <2>4
<1>7. WatchTypes'
  <2>1. podSeen \in [Names -> PodObjects] /\ nodeWatch' \in Seq(NodeEvents) /\ groupWatch' \in Seq(GroupEvents)
    BY <1>3 DEF Types, WatchTypes
  <2> QED
    BY <1>1, <1>3, <2>1 DEF WatchTypes
<1> QED
  BY <1>3, <1>6, <1>7, SameApi, SameWorkers, SameSession, SameBudget DEF Types

\* An event of a node handled keeps the invariant.
LEMMA HandleNodeTypes == Types /\ HandleNode => Types'
<1> SUFFICES ASSUME Types, HandleNode PROVE Types'
  OBVIOUS
<1> DEFINE n == Head(nodeWatch).name
           o == Head(nodeWatch).obj
<1>1. Head(nodeWatch) \in NodeEvents /\ Tail(nodeWatch) \in Seq(NodeEvents)
  BY DEF Types, WatchTypes, HandleNode
<1>2. n \in Nodes /\ o \in NodeObject
  BY <1>1 DEF NodeEvents
<1>3. c \in Caches /\ Owned(c)
  BY DEF Types, CacheTypes
<1>4. /\ nodeWatch' = Tail(nodeWatch)
      /\ UNCHANGED <<api, podWatch, groupWatch, podSeen, workers, ssn, left, scenario>>
      /\ c' \in {deleteNode(c, n), addNode(c, n, o), updateNode(c, n, o)}
  BY DEF HandleNode
<1> HIDE DEF n, o
<1>5. CacheTypes'
  BY <1>2, <1>3, <1>4, deleteNodeType, addNodeType, updateNodeType DEF CacheTypes
<1>6. WatchTypes'
  BY <1>1, <1>4 DEF Types, WatchTypes
<1> QED
  BY <1>4, <1>5, <1>6, SameApi, SameWorkers, SameSession, SameBudget DEF Types

\* An event of a pod group handled keeps the invariant.
LEMMA HandleGroupTypes == Types /\ HandleGroup => Types'
<1> SUFFICES ASSUME Types, HandleGroup PROVE Types'
  OBVIOUS
<1> DEFINE j == Head(groupWatch).job
<1>1. Head(groupWatch) \in GroupEvents /\ Tail(groupWatch) \in Seq(GroupEvents)
  BY DEF Types, WatchTypes, HandleGroup
<1>2. j \in Jobs
  BY <1>1 DEF GroupEvents
<1>3. c \in Caches /\ Owned(c)
  BY DEF Types, CacheTypes
<1>4. /\ groupWatch' = Tail(groupWatch)
      /\ UNCHANGED <<api, podWatch, nodeWatch, podSeen, workers, ssn, left, scenario>>
      /\ \/ c' = setPodGroup(c, j)
         \/ c' = c
         \/ j \in DOMAIN c.jobs /\ c' = MarkJob(c, j, FALSE)
  BY DEF HandleGroup, MarkJob
<1> HIDE DEF j
<1>5. CacheTypes'
  BY <1>2, <1>3, <1>4, setPodGroupType, MarkJobType DEF CacheTypes
<1>6. WatchTypes'
  BY <1>1, <1>4 DEF Types, WatchTypes
<1> QED
  BY <1>4, <1>5, <1>6, SameApi, SameWorkers, SameSession, SameBudget DEF Types

\* processCleanupJob keeps the invariant.
LEMMA CleanupTypes == Types /\ Cleanup => Types'
<1> SUFFICES ASSUME Types, Cleanup PROVE Types'
  OBVIOUS
<1>1. PICK e : CleanupDue(e) \/ processCleanupJob(e)
  BY DEF Cleanup
<1>2. /\ UNCHANGED <<api, watches, workers, ssn, left, scenario>>
      /\ c' = c \/ c' = DropJob(c, e.job)
  BY <1>1 DEF CleanupDue, processCleanupJob
<1>3. CacheTypes'
  BY <1>2, DropJobType DEF Types, CacheTypes
<1> QED
  BY <1>2, <1>3, SameApi, SameWatches, SameWorkers, SameSession, SameBudget DEF Types

\* A restart.
LEMMA RebootTypes ==
    ASSUME ApiTypes, Reboot
    PROVE  WatchTypes' /\ CacheTypes' /\ WorkerTypes' /\ SessionTypes'
<1>1. WatchTypes'
  <2>1. podWatch' \in Seq(PodEvents)
    BY PodListType DEF Reboot
  <2>2. nodeWatch' \in Seq(NodeEvents)
    BY NodeListType DEF Reboot
  <2>3. groupWatch' \in Seq(GroupEvents)
    BY GroupListType DEF Reboot, ApiTypes
  <2>4. podSeen' \in [Names -> PodObjects]
    BY NoPodType DEF Reboot
  <2> QED
    BY <2>1, <2>2, <2>3, <2>4 DEF WatchTypes
<1>2. CacheTypes'
  BY EmptyCacheType DEF Reboot, CacheTypes
<1>3. WorkerTypes'
  BY Bounds DEF Reboot, WorkerTypes, ResyncType
<1>4. SessionTypes'
  BY NoSessionType DEF Reboot, SessionTypes
<1> QED
  BY <1>1, <1>2, <1>3, <1>4

\* A restart of the scheduler, with its lists of everything there is, keeps
\* the invariant.
LEMMA CrashTypes == Types /\ Crash => Types'
<1> SUFFICES ASSUME Types, Crash PROVE Types'
  OBVIOUS
<1>1. BudgetTypes'
  BY SpendType, DisturbanceNames DEF Types, Crash
<1>2. ApiTypes'
  BY SameApi DEF Types, Crash
<1> QED
  BY <1>1, <1>2, RebootTypes DEF Types, Crash

\* A session and its snapshot.
LEMMA SessionParts ==
    ASSUME SessionTypes
    PROVE  /\ ssn.nodes \in Partial(Nodes, GoodNodes) /\ DOMAIN ssn.nodes \subseteq Nodes
           /\ ssn.tasks \in Partial(OwnTids, TaskStatuses \cup {"Unschedulable"})
           /\ DOMAIN ssn.tasks \subseteq OwnTids
           /\ \A n \in DOMAIN ssn.nodes : ssn.nodes[n] \in GoodNodes
<1>1. /\ ssn.nodes \in Partial(Nodes, GoodNodes)
      /\ ssn.tasks \in Partial(OwnTids, TaskStatuses \cup {"Unschedulable"})
  BY DEF SessionTypes
<1> QED
  BY <1>1, PartialDef

\* Snapshot keeps the invariant: the session has clones of the nodes that are
\* ready and of the tasks.
LEMMA SnapshotTypes == Types /\ Snapshot => Types'
<1> SUFFICES ASSUME Types, Snapshot PROVE Types'
  OBVIOUS
<1> DEFINE ready == {n \in DOMAIN c.nodes : c.nodes[n].ready}
           known == {t \in DOMAIN c.tasks : c.jobs[JobOf[t[1]]].group}
           fn == [n \in ready |-> CloneNode(c.nodes[n])]
           ft == [t \in known |-> c.tasks[t].status]
<1>1. /\ ssn' = [open |-> TRUE, nodes |-> fn, tasks |-> ft]
      /\ UNCHANGED <<api, watches, c, workers, left, scenario>>
  BY DEF Snapshot
<1>2. c \in Caches
  BY DEF Types, CacheTypes
<1>3. \A n \in ready : n \in Nodes /\ CloneNode(c.nodes[n]) \in GoodNodes
  BY <1>2, CacheParts, GoodClone
<1>4. \A t \in known : t \in OwnTids /\ c.tasks[t].status \in TaskStatuses \cup {"Unschedulable"}
  BY <1>2, CacheParts DEF TaskEntries
<1> HIDE DEF ready, known
<1>5. fn \in Partial(Nodes, GoodNodes)
  BY <1>3 DEF Partial
<1>6. ft \in Partial(OwnTids, TaskStatuses \cup {"Unschedulable"})
  BY <1>4 DEF Partial
<1> HIDE DEF fn, ft
<1>7. SessionTypes'
  BY <1>1, <1>5, <1>6 DEF SessionTypes
<1> QED
  BY <1>1, <1>7, SameApi, SameWatches, SameCache, SameWorkers, SameBudget DEF Types

\* The end of a session keeps the invariant.
LEMMA CloseSessionTypes == Types /\ CloseSession => Types'
<1> SUFFICES ASSUME Types, CloseSession PROVE Types'
  OBVIOUS
<1>1. SessionTypes'
  BY NoSessionType DEF CloseSession, SessionTypes
<1> QED
  BY <1>1, SameApi, SameWatches, SameCache, SameWorkers, SameBudget
  DEF Types, CloseSession

\* The session writes down what it has decided.
SessionTask(t, s) == [ssn EXCEPT !.tasks[t] = s]
SessionPlaced(t, s, n, y) == [ssn EXCEPT !.tasks[t] = s, !.nodes[n] = y]

\* A task of the session given a new status leaves the other tasks and the
\* nodes of the session.
LEMMA SessionTaskType ==
    ASSUME SessionTypes, NEW t \in DOMAIN ssn.tasks,
           NEW s \in TaskStatuses \cup {"Unschedulable"}, ssn' = SessionTask(t, s)
    PROVE  /\ SessionTypes'
           /\ ssn'.nodes = ssn.nodes
           /\ \A z \in DOMAIN ssn'.tasks : z \in DOMAIN ssn.tasks
           /\ \A z \in DOMAIN ssn.tasks : ssn'.tasks[z] = IF z = t THEN s ELSE ssn.tasks[z]
<1> DEFINE f == [ssn.tasks EXCEPT ![t] = s]
<1>1. f \in Partial(OwnTids, TaskStatuses \cup {"Unschedulable"})
  BY SessionParts, PartialExcept
<1>2. ssn' = [ssn EXCEPT !.tasks = f]
  BY DEF SessionTask
<1>3. /\ \A z \in DOMAIN f : z \in DOMAIN ssn.tasks
      /\ \A z \in DOMAIN ssn.tasks : f[z] = IF z = t THEN s ELSE ssn.tasks[z]
  OBVIOUS
<1> HIDE DEF f
<1>4. SessionTypes' /\ ssn'.tasks = f /\ ssn'.nodes = ssn.nodes
  BY <1>1, <1>2 DEF SessionTypes
<1> QED
  BY <1>3, <1>4

\* A task placed in the session writes the one task and the one node.
LEMMA SessionPlacedType ==
    ASSUME SessionTypes, NEW t \in DOMAIN ssn.tasks, NEW n \in DOMAIN ssn.nodes,
           NEW s \in TaskStatuses, NEW y \in GoodNodes,
           ssn' = SessionPlaced(t, s, n, y)
    PROVE  /\ SessionTypes'
           /\ \A z \in DOMAIN ssn'.nodes : z \in DOMAIN ssn.nodes
           /\ \A z \in DOMAIN ssn'.tasks : z \in DOMAIN ssn.tasks
           /\ \A z \in DOMAIN ssn.tasks : ssn'.tasks[z] = IF z = t THEN s ELSE ssn.tasks[z]
<1> DEFINE f == [ssn.tasks EXCEPT ![t] = s]
           g == [ssn.nodes EXCEPT ![n] = y]
<1>1. f \in Partial(OwnTids, TaskStatuses \cup {"Unschedulable"})
  BY SessionParts, PartialExcept
<1>2. g \in Partial(Nodes, GoodNodes)
  BY SessionParts, PartialExcept
<1>3. ssn' = [ssn EXCEPT !.tasks = f, !.nodes = g]
  BY DEF SessionPlaced
<1>4. /\ \A z \in DOMAIN f : z \in DOMAIN ssn.tasks
      /\ \A z \in DOMAIN ssn.tasks : f[z] = IF z = t THEN s ELSE ssn.tasks[z]
      /\ \A z \in DOMAIN g : z \in DOMAIN ssn.nodes
  OBVIOUS
<1> HIDE DEF f, g
<1>5. SessionTypes' /\ ssn'.tasks = f /\ ssn'.nodes = g
  BY <1>1, <1>2, <1>3 DEF SessionTypes
<1> QED
  BY <1>4, <1>5

\* What AddBindTask does.
LEMMA AddBindTaskCases ==
    ASSUME Types, NEW t, NEW n, AddBindTask(t, n)
    PROVE  \/ UNCHANGED <<c, channel, sending>>
           \/ /\ Bindable(t, n) /\ c' = BoundCache(c, t, n)
              /\ [t |-> t, node |-> n] \in Entries
              /\ \/ /\ Len(channel) < ChannelCap
                    /\ channel' = Append(channel, [t |-> t, node |-> n])
                    /\ UNCHANGED sending
                 \/ sending' = [t |-> t, node |-> n] /\ UNCHANGED channel
<1>1. CASE ~Bindable(t, n)
  BY <1>1 DEF AddBindTask
<1>2. CASE Bindable(t, n)
  <2>1. t \in OwnTids /\ n \in Nodes
    BY <1>2, CacheParts DEF Bindable, Types, CacheTypes
  <2>2. [t |-> t, node |-> n] \in Entries
    BY <2>1 DEF Entries
  <2> QED
    BY <1>2, <2>2 DEF AddBindTask, BoundCache
<1> QED
  BY <1>1, <1>2

\* A task dispatched (ssn.dispatch and AddBindTask) keeps the invariant.
LEMMA DispatchTypes ==
    ASSUME Types, NEW t, NEW n, Dispatch(t, n)
    PROVE  Types'
<1>1. /\ t \in DOMAIN ssn.tasks /\ n \in DOMAIN ssn.nodes
      /\ CanAddTask(ssn.nodes[n], t[1], "Allocated") /\ AddBindTask(t, n)
      /\ ssn' = SessionPlaced(t, "Allocated", n, AddTask(ssn.nodes[n], t[1], "Allocated"))
      /\ UNCHANGED <<api, watches, errTasks, rs, bindCache, binds, evictions, left, scenario>>
  BY DEF Dispatch, SessionPlaced
<1>2. SessionTypes'
  <2>1. ssn.nodes[n] \in GoodNodes /\ t[1] \in Names
    BY <1>1, SessionParts DEF Types, OwnTids, Tids
  <2>2. "Allocated" \in TaskStatuses
    BY DEF TaskStatuses
  <2>3. AddTask(ssn.nodes[n], t[1], "Allocated") \in GoodNodes
    BY <1>1, <2>1, <2>2, GoodAdd
  <2> QED
    BY <1>1, <2>2, <2>3, SessionPlacedType DEF Types
<1> DEFINE e == [t |-> t, node |-> n]
<1>3. \/ UNCHANGED <<c, channel, sending>>
      \/ /\ Bindable(t, n) /\ c' = BoundCache(c, t, n) /\ e \in Entries
         /\ \/ Len(channel) < ChannelCap /\ channel' = Append(channel, e) /\ UNCHANGED sending
            \/ sending' = e /\ UNCHANGED channel
  BY <1>1, AddBindTaskCases
<1> HIDE DEF e
<1>4. CacheTypes'
  <2>1. CASE UNCHANGED c
    BY <2>1, SameCache DEF Types
  <2>2. CASE Bindable(t, n) /\ c' = BoundCache(c, t, n)
    BY <2>2, BoundCacheType DEF Bindable, Types, CacheTypes
  <2> QED
    BY <1>3, <2>1, <2>2
<1>5. WorkerTypes'
  <2>1. CASE UNCHANGED <<channel, sending>>
    BY <1>1, <2>1, SameWorkers DEF Types, workers
  <2>2. CASE e \in Entries /\ sending' = e /\ UNCHANGED channel
    BY <1>1, <2>2 DEF Types, WorkerTypes, ResyncType
  <2>3. CASE /\ e \in Entries /\ Len(channel) < ChannelCap
             /\ channel' = Append(channel, e) /\ UNCHANGED sending
    <3>1. channel \in Seq(Entries)
      BY DEF Types, WorkerTypes
    <3>2. channel' \in Seq(Entries) /\ Len(channel') <= ChannelCap
      BY <2>3, <3>1, Bounds
    <3> QED
      BY <1>1, <2>3, <3>2 DEF Types, WorkerTypes, ResyncType
  <2> QED
    BY <1>3, <2>1, <2>2, <2>3
<1> QED
  BY <1>1, <1>2, <1>4, <1>5, SameApi, SameWatches, SameBudget DEF Types

\* A binding sent to the channel keeps the invariant.
LEMMA SentTypes == Types /\ Sent => Types'
<1> SUFFICES ASSUME Types, Sent PROVE Types'
  OBVIOUS
<1>1. /\ Len(channel) < ChannelCap /\ channel' = Append(channel, sending)
      /\ sending' = NoBind /\ sending \in Entries /\ channel \in Seq(Entries)
      /\ UNCHANGED <<api, watches, c, errTasks, rs, bindCache, binds, evictions, ssn, left, scenario>>
  BY DEF Sent, Free, Types, WorkerTypes
<1>2. channel' \in Seq(Entries) /\ Len(channel') <= ChannelCap
  BY <1>1, Bounds
<1>3. WorkerTypes'
  BY <1>1, <1>2 DEF Types, WorkerTypes, ResyncType
<1> QED
  BY <1>1, <1>3, SameApi, SameWatches, SameCache, SameSession, SameBudget DEF Types

\* What Evict does.
LEMMA EvictCases ==
    ASSUME Types, NEW t, Evict(t)
    PROVE  /\ t \in DOMAIN ssn.tasks /\ ssn.tasks[t] = "Running"
           /\ Spend("evict") /\ UNCHANGED <<api, scenario, overtaken, displaced>>
           /\ \/ Reboot
              \/ /\ ssn' = SessionTask(t, "Releasing")
                 /\ UNCHANGED <<watches, errTasks, rs, sending, channel, bindCache,
                                binds, crashed>>
                 /\ \/ UNCHANGED <<c, evictions>>
                    \/ /\ t \in DOMAIN c.tasks /\ c.tasks[t].node \in DOMAIN c.nodes
                       /\ CanUpdateTask(c.nodes[c.tasks[t].node], t[1], "Releasing")
                       /\ c' = EvictedCache(c, t)
                       /\ evictions' = evictions \cup
                            {[t |-> t, node |-> c.tasks[t].node,
                              pod |-> c.tasks[t].pod, step |-> "status"]}
  BY DEF Evict, EvictDies, SessionTask, EvictedCache

\* A task evicted (ssn.Evict and cache.Evict) keeps the invariant.
LEMMA EvictTypes ==
    ASSUME Types, NEW t, Evict(t)
    PROVE  Types'
<1>1. ApiTypes' /\ BudgetTypes'
  BY EvictCases, SameApi, SpendType, DisturbanceNames DEF Types
<1>2. CASE Reboot
  BY <1>1, <1>2, RebootTypes DEF Types
<1>3. CASE ~Reboot
  <2>1. /\ t \in DOMAIN ssn.tasks /\ ssn' = SessionTask(t, "Releasing")
        /\ UNCHANGED <<watches, errTasks, rs, sending, channel, bindCache, binds>>
    BY <1>3, EvictCases
  <2>2. SessionTypes'
    <3>1. "Releasing" \in TaskStatuses \cup {"Unschedulable"}
      BY DEF TaskStatuses
    <3> QED
      BY <2>1, <3>1, SessionTaskType DEF Types
  <2>3. CASE UNCHANGED <<c, evictions>>
    BY <1>1, <2>1, <2>2, <2>3, SameWatches, SameCache, SameWorkers DEF Types, workers
  <2>4. CASE ~UNCHANGED <<c, evictions>>
    <3> DEFINE v == [t |-> t, node |-> c.tasks[t].node, pod |-> c.tasks[t].pod,
                     step |-> "status"]
    <3>1. /\ t \in DOMAIN c.tasks /\ c.tasks[t].node \in DOMAIN c.nodes
          /\ CanUpdateTask(c.nodes[c.tasks[t].node], t[1], "Releasing")
          /\ c' = EvictedCache(c, t) /\ evictions' = evictions \cup {v}
      BY <1>3, <2>4, EvictCases
    <3>2. CacheTypes'
      BY <3>1, EvictedCacheType DEF Types, CacheTypes
    <3>3. v \in Evictions
      <4>1. t \in OwnTids /\ c.tasks[t].node \in Nodes /\ c.tasks[t].pod \in PodObjects
        BY <3>1, CacheParts DEF Types, CacheTypes, TaskEntries
      <4> QED
        BY <4>1 DEF Evictions
    <3> HIDE DEF v
    <3>4. WorkerTypes'
      BY <2>1, <3>1, <3>3 DEF Types, WorkerTypes, ResyncType
    <3> QED
      BY <1>1, <2>1, <2>2, <3>2, <3>4, SameWatches DEF Types
  <2> QED
    BY <2>3, <2>4
<1> QED
  BY <1>2, <1>3

-----------------------------------------------------------------------------
\* A pod is written, and its event is on its way.
LEMMA PutPodTypes ==
    ASSUME ApiTypes, WatchTypes, NEW p \in Names, NEW o \in PodObjects, PutPod(p, o)
    PROVE  ApiTypes' /\ WatchTypes'
<1> DEFINE x == [name |-> p, obj |-> o]
<1>1. x \in PodEvents
  BY DEF PodEvents
<1>2. /\ pod' = [pod EXCEPT ![p] = o] /\ podWatch' = Append(podWatch, x)
      /\ UNCHANGED <<uids, node, group, nodeWatch, groupWatch, podSeen>>
  BY DEF PutPod
<1> HIDE DEF x
<1>3. podWatch' \in Seq(PodEvents)
  BY <1>1, <1>2 DEF WatchTypes
<1>4. pod' \in [Names -> PodObjects]
  BY <1>2 DEF ApiTypes
<1> QED
  BY <1>2, <1>3, <1>4 DEF ApiTypes, WatchTypes

\* What the steps on pods write.
LEMMA PodWrites ==
    ASSUME ApiTypes, NEW p \in Names
    PROVE  /\ pod[p] \in PodObjects /\ NoPod \in PodObjects
           /\ [pod[p] EXCEPT !.told = TRUE] \in PodObjects
           /\ [pod[p] EXCEPT !.evicted = TRUE] \in PodObjects
           /\ [pod[p] EXCEPT !.evicted = FALSE] \in PodObjects
           /\ \A s \in {"Running", "Succeeded", "Failed"} :
                [pod[p] EXCEPT !.phase = s] \in PodObjects
           /\ \A n \in Nodes : /\ [pod[p] EXCEPT !.node = n] \in PodObjects
                               /\ [pod[p] EXCEPT !.node = n, !.told = FALSE] \in PodObjects
           /\ Deleted(pod[p]) \in PodObjects
<1>1. pod[p] \in PodObjects /\ NoPod \in PodObjects
  BY NoPodType DEF ApiTypes
<1> QED
  BY <1>1 DEF PodObjects, Deleted

\* A task found unschedulable keeps the invariant.
LEMMA taskUnschedulableTypes ==
    ASSUME Types, NEW t, taskUnschedulable(t)
    PROVE  Types'
<1>1. /\ t \in DOMAIN ssn.tasks /\ PutPod(t[1], [pod[t[1]] EXCEPT !.told = TRUE])
      /\ ssn' = SessionTask(t, "Unschedulable")
      /\ UNCHANGED <<c, workers, left, scenario>>
  BY DEF taskUnschedulable, SessionTask
<1>2. t[1] \in Names
  BY <1>1, SessionParts DEF Types, OwnTids, Tids
<1>3. ApiTypes' /\ WatchTypes'
  BY <1>1, <1>2, PutPodTypes, PodWrites DEF Types
<1>4. SessionTypes'
  BY <1>1, SessionTaskType DEF Types
<1> QED
  BY <1>1, <1>3, <1>4, SameCache, SameWorkers, SameBudget DEF Types

\* processBindTask keeps the invariant.
LEMMA processBindTaskTypes == Types /\ processBindTask => Types'
<1> SUFFICES ASSUME Types, processBindTask PROVE Types'
  OBVIOUS
<1>1. /\ channel # <<>> /\ Len(bindCache) < BatchNum
      /\ channel' = Tail(channel) /\ bindCache' = Append(bindCache, Head(channel))
      /\ channel \in Seq(Entries) /\ bindCache \in Seq(Entries) /\ Len(channel) <= ChannelCap
      /\ UNCHANGED <<api, watches, c, errTasks, rs, sending, binds, evictions, ssn, left, scenario>>
  BY DEF processBindTask, Types, WorkerTypes
<1>2. Head(channel) \in Entries /\ channel' \in Seq(Entries) /\ Len(channel') <= ChannelCap
  BY <1>1, Bounds
<1>3. bindCache' \in Seq(Entries) /\ Len(bindCache') <= BatchNum
  BY <1>1, <1>2, Bounds
<1>4. WorkerTypes'
  BY <1>1, <1>2, <1>3 DEF Types, WorkerTypes, ResyncType
<1> QED
  BY <1>1, <1>4, SameApi, SameWatches, SameCache, SameSession, SameBudget DEF Types

\* A sequence without one of its elements.
LEMMA RemoveAtType ==
    ASSUME NEW S, NEW s \in Seq(S), NEW i \in DOMAIN s
    PROVE  /\ RemoveAt(s, i) \in Seq(S) /\ Len(RemoveAt(s, i)) = Len(s) - 1
           /\ \A j \in DOMAIN RemoveAt(s, i) :
                RemoveAt(s, i)[j] = s[IF j < i THEN j ELSE j + 1]
<1>1. RemoveAt(s, i) = SubSeq(s, 1, i - 1) \o SubSeq(s, i + 1, Len(s))
  BY DEF RemoveAt
<1>2. i \in 1 .. Len(s) /\ Len(s) \in Nat
  OBVIOUS
<1> DEFINE a == SubSeq(s, 1, i - 1)
           b == SubSeq(s, i + 1, Len(s))
<1>3. a \in Seq(S) /\ Len(a) = i - 1 /\ \A j \in 1 .. i - 1 : a[j] = s[j]
  BY <1>2
<1>4. b \in Seq(S) /\ Len(b) = Len(s) - i /\ \A j \in 1 .. Len(s) - i : b[j] = s[i + j]
  BY <1>2
<1> HIDE DEF a, b
<1>5. a \o b \in Seq(S) /\ Len(a \o b) = Len(s) - 1
  BY <1>2, <1>3, <1>4
<1>6. ASSUME NEW j \in 1 .. Len(s) - 1
      PROVE  (a \o b)[j] = s[IF j < i THEN j ELSE j + 1]
  <2>1. (a \o b)[j] = IF j <= Len(a) THEN a[j] ELSE b[j - Len(a)]
    BY <1>2, <1>3, <1>4
  <2>2. CASE j < i
    BY <1>2, <1>3, <2>1, <2>2
  <2>3. CASE ~(j < i)
    <3>1. j - (i - 1) \in 1 .. Len(s) - i /\ i + (j - (i - 1)) = j + 1
      BY <1>2, <2>3
    <3>2. (a \o b)[j] = b[j - (i - 1)]
      BY <1>2, <1>3, <2>1, <2>3
    <3> QED
      BY <1>4, <2>3, <3>1, <3>2
  <2> QED
    BY <2>2, <2>3
<1>7. DOMAIN (a \o b) = 1 .. Len(s) - 1
  BY <1>5
<1>8. RemoveAt(s, i) = a \o b
  BY <1>1 DEF a, b
<1> QED
  BY <1>5, <1>6, <1>7, <1>8

\* What BindTask does with the batch.
LEMMA BindTaskCases ==
    ASSUME Types, BindTask
    PROVE  /\ bindCache # <<>> /\ bindCache' = <<>>
           /\ UNCHANGED <<api, watches, c, rs, sending, channel, evictions, ssn, scenario, history>>
           /\ \/ /\ binds' = binds \cup {[todo |-> bindCache, errs |-> {}]}
                 /\ UNCHANGED <<errTasks, left>>
              \/ /\ Spend("volume")
                 /\ \E i \in DOMAIN bindCache :
                      /\ errTasks' = errTasks \cup {bindCache[i]}
                      /\ \/ binds' = binds
                         \/ /\ RemoveAt(bindCache, i) # <<>>
                            /\ binds' = binds \cup {[todo |-> RemoveAt(bindCache, i), errs |-> {}]}
  BY DEF BindTask

\* Bindings left to do and bindings that failed make a batch.
LEMMA BatchType ==
    ASSUME NEW s \in Seq(Entries), s # <<>>, NEW E \in SUBSET Entries
    PROVE  [todo |-> s, errs |-> E] \in Batches
  BY DEF Batches

\* BindTask, volumes failing or not, keeps the invariant.
LEMMA BindTaskTypes == Types /\ BindTask => Types'
<1> SUFFICES ASSUME Types, BindTask PROVE Types'
  OBVIOUS
<1>1. bindCache \in Seq(Entries) /\ bindCache # <<>> /\ errTasks \in SUBSET Entries /\ binds \in SUBSET Batches
  BY BindTaskCases DEF Types, WorkerTypes
<1>2. BudgetTypes'
  BY BindTaskCases, SpendType, SameBudget, DisturbanceNames DEF Types
<1>3. errTasks' \in SUBSET Entries /\ binds' \in SUBSET Batches
  <2>1. CASE binds' = binds \cup {[todo |-> bindCache, errs |-> {}]} /\ UNCHANGED errTasks
    BY <1>1, <2>1, BatchType
  <2>2. ASSUME NEW i \in DOMAIN bindCache, errTasks' = errTasks \cup {bindCache[i]},
               \/ binds' = binds
               \/ /\ RemoveAt(bindCache, i) # <<>>
                  /\ binds' = binds \cup {[todo |-> RemoveAt(bindCache, i), errs |-> {}]}
        PROVE  errTasks' \in SUBSET Entries /\ binds' \in SUBSET Batches
    <3>1. bindCache[i] \in Entries
      BY <1>1
    <3>2. RemoveAt(bindCache, i) \in Seq(Entries)
      BY <1>1, RemoveAtType
    <3> QED
      BY <1>1, <2>2, <3>1, <3>2, BatchType
  <2> QED
    BY <2>1, <2>2, BindTaskCases
<1>4. WorkerTypes'
  <2>1. bindCache' \in Seq(Entries) /\ Len(bindCache') <= BatchNum
    BY BindTaskCases, Bounds
  <2>2. UNCHANGED <<rs, sending, channel, evictions>>
    BY BindTaskCases
  <2> QED
    BY <1>3, <2>1, <2>2 DEF Types, WorkerTypes, ResyncType
<1> QED
  BY <1>2, <1>4, BindTaskCases, SameApi, SameWatches, SameCache, SameSession DEF Types

\* What is left of a batch after a call.
LEMMA BindNextTypes ==
    ASSUME Types, NEW b \in binds, NEW E \in SUBSET Entries, BindNext(b, E)
    PROVE  errTasks' \in SUBSET Entries /\ binds' \in SUBSET Batches
<1>1. b \in Batches /\ errTasks \in SUBSET Entries /\ binds \in SUBSET Batches
  BY DEF Types, WorkerTypes
<1>2. b.todo \in Seq(Entries) /\ b.todo # <<>> /\ b.errs \in SUBSET Entries
  BY <1>1 DEF Batches
<1>3. Tail(b.todo) \in Seq(Entries) /\ b.errs \cup E \in SUBSET Entries
  BY <1>2
<1> DEFINE next == [todo |-> Tail(b.todo), errs |-> b.errs \cup E]
<1>4. Tail(b.todo) # <<>> => next \in Batches
  BY <1>3, BatchType
<1>5. \/ binds' = binds \ {b} /\ errTasks' = errTasks \cup (b.errs \cup E)
      \/ /\ Tail(b.todo) # <<>> /\ binds' = (binds \ {b}) \cup {next}
         /\ errTasks' = errTasks
  BY DEF BindNext
<1> HIDE DEF next
<1> QED
  BY <1>1, <1>3, <1>4, <1>5

\* What Bind does with the first task of its batch.
LEMMA BindCases ==
    ASSUME Types, NEW b, Bind(b)
    PROVE  /\ b \in binds /\ Head(b.todo) \in Entries
           /\ UNCHANGED <<c, cleaning, rs, sending, channel, bindCache, evictions,
                          ssn, history, scenario>>
           /\ BindNext(b, {}) \/ BindNext(b, {Head(b.todo)})
           /\ UNCHANGED left \/ Spend("lost") \/ Spend("err")
           /\ \/ /\ UNCHANGED <<api, watches>>
                 /\ BindNext(b, {Head(b.todo)})
              \/ /\ Accepts(Head(b.todo))
                 /\ PutPod(Head(b.todo).t[1],
                           [pod[Head(b.todo).t[1]] EXCEPT !.node = Head(b.todo).node,
                                                          !.told = FALSE])
<1>1. b \in binds
  BY DEF Bind
<1>2. b \in Batches
  BY <1>1 DEF Types, WorkerTypes
<1>3. Head(b.todo) \in Entries
  BY <1>2 DEF Batches
<1> QED
  BY <1>1, <1>3 DEF Bind

\* One binding written, refused or answered too late keeps the invariant.
LEMMA BindTypes ==
    ASSUME Types, NEW b, Bind(b)
    PROVE  Types'
<1> DEFINE e == Head(b.todo)
<1>1. b \in binds /\ e \in Entries
  BY BindCases
<1>2. e.t[1] \in Names /\ e.node \in Nodes
  BY <1>1 DEF Entries, OwnTids, Tids
<1>3. errTasks' \in SUBSET Entries /\ binds' \in SUBSET Batches
  <2>1. {} \in SUBSET Entries /\ {e} \in SUBSET Entries
    BY <1>1
  <2>2. BindNext(b, {}) \/ BindNext(b, {e})
    BY BindCases
  <2> QED
    BY <1>1, <2>1, <2>2, BindNextTypes
<1>4. UNCHANGED <<c, rs, sending, channel, bindCache, evictions, ssn, scenario>>
  BY BindCases
<1>5. WorkerTypes'
  BY <1>3, <1>4 DEF Types, WorkerTypes, ResyncType
<1>6. BudgetTypes'
  <2>1. UNCHANGED left \/ Spend("lost") \/ Spend("err")
    BY BindCases
  <2> QED
    BY <1>4, <2>1, SpendType, SameBudget, DisturbanceNames DEF Types
<1>7. ApiTypes' /\ WatchTypes'
  <2>1. \/ UNCHANGED <<api, watches>>
        \/ PutPod(e.t[1], [pod[e.t[1]] EXCEPT !.node = e.node, !.told = FALSE])
    BY BindCases
  <2>2. [pod[e.t[1]] EXCEPT !.node = e.node, !.told = FALSE] \in PodObjects
    BY <1>2, PodWrites DEF Types
  <2> HIDE DEF e
  <2> QED
    BY <1>2, <2>1, <2>2, PutPodTypes, SameApi, SameWatches DEF Types
<1> QED
  BY <1>4, <1>5, <1>6, <1>7, SameCache, SameSession DEF Types

\* What the goroutine of an eviction does.
EntryOf(v) == [t |-> v.t, node |-> v.node]

\* What the two requests of an eviction may do: they write at most one pod,
\* end or go on to the delete, and leave an error task at most.
LEMMA EvictionCases ==
    ASSUME Types, NEW v, EvictStatus(v) \/ EvictDelete(v)
    PROVE  /\ v \in evictions /\ v.t \in OwnTids /\ v.t[1] \in Names /\ EntryOf(v) \in Entries
           /\ UNCHANGED <<c, cleaning, rs, sending, channel, bindCache, binds,
                          ssn, history, scenario>>
           /\ UNCHANGED left \/ Spend("lost") \/ Spend("err")
           /\ errTasks' \in {errTasks, errTasks \cup {EntryOf(v)}}
           /\ \/ evictions' = evictions \ {v}
              \/ evictions' = (evictions \ {v}) \cup {[v EXCEPT !.step = "delete"]}
           /\ \/ UNCHANGED <<api, watches>>
              \/ PutPod(v.t[1], [pod[v.t[1]] EXCEPT !.evicted = TRUE])
              \/ pod[v.t[1]].uid # 0 /\ PutPod(v.t[1], Deleted(pod[v.t[1]]))
<1>1. v \in evictions
  BY DEF EvictStatus, EvictDelete
<1>2. v.t \in OwnTids /\ v.t[1] \in Names /\ EntryOf(v) \in Entries
  BY <1>1 DEF Types, WorkerTypes, Evictions, OwnTids, Tids, Entries, EntryOf
<1>3. CASE EvictStatus(v)
  BY <1>1, <1>2, <1>3 DEF EvictStatus, EvictEnd, EntryOf
<1>4. CASE EvictDelete(v)
  BY <1>1, <1>2, <1>4 DEF EvictDelete, EvictEnd, EntryOf
<1> QED
  BY <1>3, <1>4

\* The requests of an eviction keep the invariant.
LEMMA EvictionTypes ==
    ASSUME Types, NEW v, EvictStatus(v) \/ EvictDelete(v)
    PROVE  Types'
<1>1. /\ v \in evictions /\ v.t[1] \in Names /\ EntryOf(v) \in Entries
      /\ UNCHANGED <<c, rs, sending, channel, bindCache, binds, ssn, scenario>>
  BY EvictionCases
<1>2. ApiTypes' /\ WatchTypes'
  <2>1. \/ UNCHANGED <<api, watches>>
        \/ PutPod(v.t[1], [pod[v.t[1]] EXCEPT !.evicted = TRUE])
        \/ PutPod(v.t[1], Deleted(pod[v.t[1]]))
    BY EvictionCases
  <2> QED
    BY <1>1, <2>1, PodWrites, PutPodTypes, SameApi, SameWatches DEF Types
<1>3. BudgetTypes'
  <2>1. UNCHANGED left \/ Spend("lost") \/ Spend("err")
    BY EvictionCases
  <2> QED
    BY <1>1, <2>1, SpendType, SameBudget, DisturbanceNames DEF Types
<1>4. WorkerTypes'
  <2>1. evictions \in SUBSET Evictions /\ errTasks \in SUBSET Entries
    BY DEF Types, WorkerTypes
  <2>2. [v EXCEPT !.step = "delete"] \in Evictions
    BY <1>1, <2>1 DEF Evictions
  <2>3. /\ errTasks' \in {errTasks, errTasks \cup {EntryOf(v)}}
        /\ \/ evictions' = evictions \ {v}
           \/ evictions' = (evictions \ {v}) \cup {[v EXCEPT !.step = "delete"]}
    BY EvictionCases
  <2>4. evictions' \in SUBSET Evictions /\ errTasks' \in SUBSET Entries
    BY <1>1, <2>1, <2>2, <2>3
  <2> QED
    BY <1>1, <2>4 DEF Types, WorkerTypes, ResyncType
<1> QED
  BY <1>1, <1>2, <1>3, <1>4, SameCache, SameSession DEF Types

\* processResyncTask, reading the pod, keeps the invariant.
LEMMA processResyncTaskTypes ==
    ASSUME Types, NEW e, processResyncTask(e)
    PROVE  Types'
<1>1. /\ e \in errTasks /\ errTasks \in SUBSET Entries /\ e \in Entries
      /\ UNCHANGED <<api, watches, c, sending, channel, bindCache, binds, evictions, ssn, scenario>>
  BY DEF processResyncTask, Types, WorkerTypes
<1>2. BudgetTypes'
  BY <1>1, SpendType, SameBudget, DisturbanceNames DEF Types, processResyncTask
<1>3. pod[e.t[1]] \in PodObjects
  BY <1>1 DEF Types, ApiTypes, Entries, OwnTids, Tids
<1>4. errTasks' \in SUBSET Entries
  BY <1>1 DEF processResyncTask
<1>5. ResyncType'
  <2>1. CASE UNCHANGED rs
    BY <2>1 DEF Types, WorkerTypes, ResyncType
  <2>2. CASE ~UNCHANGED rs
    <3>1. rs' = [e |-> e, got |-> pod[e.t[1]],
                 step |-> IF pod[e.t[1]].uid = 0 THEN "delete" ELSE "update"]
      BY <2>2 DEF processResyncTask
    <3> QED
      BY <1>1, <1>3, <3>1 DEF ResyncType
  <2> QED
    BY <2>1, <2>2
<1>6. WorkerTypes'
  BY <1>1, <1>4, <1>5 DEF Types, WorkerTypes
<1> QED
  BY <1>1, <1>2, <1>6, SameApi, SameWatches, SameCache, SameSession DEF Types

\* The resync worker is busy with a task.
LEMMA ResyncBusy ==
    ASSUME Types, rs.step \in {"update", "delete", "node", "retry"}
    PROVE  /\ rs \in [e : Entries, got : PodObjects, step : {"update", "delete", "node", "retry"}]
           /\ rs.e \in Entries /\ rs.got \in PodObjects /\ rs # Idle
           /\ rs.step = "update" => rs.got.uid # 0
           /\ rs.e.t \in OwnTids /\ rs.e.t[1] \in Names /\ rs.e.node \in Nodes
<1>1. rs # Idle
  BY DEF Idle
<1>2. rs \in [e : Entries, got : PodObjects, step : {"update", "delete", "node", "retry"}]
  BY <1>1 DEF Types, WorkerTypes, ResyncType
<1>3. rs.e \in Entries
  BY <1>2
<1> QED
  BY <1>1, <1>2, <1>3 DEF Types, WorkerTypes, ResyncType, Entries, OwnTids, Tids

\* What the resync worker does with what it read keeps the invariant.
LEMMA ResyncTypes == Types /\ (updateTask \/ syncTaskJob \/ syncTaskNode) => Types'
<1> SUFFICES ASSUME Types, updateTask \/ syncTaskJob \/ syncTaskNode PROVE Types'
  OBVIOUS
<1>1. rs.step \in {"update", "delete", "node", "retry"}
  BY DEF updateTask, syncTaskJob, syncTaskNode
<1>2. /\ rs \in [e : Entries, got : PodObjects, step : {"update", "delete", "node", "retry"}]
      /\ rs.e \in Entries /\ rs.got \in PodObjects /\ rs.e.t \in OwnTids
      /\ rs.e.t[1] \in Names /\ rs.e.node \in Nodes
      /\ rs.step = "update" => rs.got.uid # 0
  BY <1>1, ResyncBusy
<1>3. c \in Caches /\ Owned(c) /\ errTasks \in SUBSET Entries
  BY DEF Types, CacheTypes, WorkerTypes
<1>4. UNCHANGED <<api, watches, sending, channel, bindCache, binds, evictions, ssn, left, scenario>>
  BY DEF updateTask, syncTaskJob, syncTaskNode
<1>5. errTasks' \in SUBSET Entries
  BY <1>2, <1>3 DEF updateTask, syncTaskJob, syncTaskNode
<1>6. ResyncType'
  <2>1. CASE updateTask \/ syncTaskNode
    BY <2>1 DEF updateTask, syncTaskNode, ResyncType
  <2>2. CASE syncTaskJob
    BY <1>2, <2>2 DEF syncTaskJob, ResyncType
  <2> QED
    BY <2>1, <2>2
<1>7. CacheTypes'
  <2>1. CASE updateTask
    <3> DEFINE k == deleteTask(c, rs.e.t, rs.e.node)
    <3>1. k \in Caches /\ Owned(k)
      <4>1. rs.e.t \in Tids
        BY <1>2 DEF OwnTids
      <4> QED
        BY <1>3, <4>1, deleteTaskType
    <3>2. c' = addTask(k, rs.e.t[1], rs.got) /\ rs.got.uid # 0
      BY <1>2, <2>1 DEF updateTask
    <3> HIDE DEF k
    <3> QED
      BY <1>2, <3>1, <3>2, addTaskType DEF CacheTypes
  <2>2. CASE syncTaskJob
    BY <1>2, <1>3, <2>2, DropTaskType DEF syncTaskJob, CacheTypes
  <2>3. CASE syncTaskNode
    BY <1>2, <1>3, <2>3, RemoveFromType DEF syncTaskNode, CacheTypes
  <2> QED
    BY <2>1, <2>2, <2>3
<1>8. WorkerTypes'
  BY <1>4, <1>5, <1>6 DEF Types, WorkerTypes
<1> QED
  BY <1>4, <1>7, <1>8, SameApi, SameWatches, SameSession, SameBudget DEF Types

\* Kubelets and users write pods.
PodStep(p) ==
    \/ KubeletRun(p) \/ KubeletRemove(p) \/ KubeletStatus(p) \/ KubeletEnd(p)
    \/ DeletePod(p) \/ \E n \in Nodes : ForeignBind(p, n)

\* A step of a pod that is there keeps the invariant.
LEMMA PodStepTypes ==
    ASSUME Types, NEW p \in Names, PodStep(p)
    PROVE  Types'
<1>1. UNCHANGED Others
  BY DEF PodStep, KubeletRun, KubeletRemove, KubeletStatus, KubeletEnd, DeletePod,
         ForeignBind
<1>2. BudgetTypes'
  <2>1. \/ UNCHANGED left \/ Spend("finish") \/ Spend("delete") \/ Spend("foreign")
    BY DEF PodStep, KubeletRun, KubeletRemove, KubeletStatus, KubeletEnd,
           DeletePod, ForeignBind
  <2> QED
    BY <1>1, <2>1, SpendType, SameBudget, DisturbanceNames DEF Types, Others
<1>3. \E o \in PodObjects : PutPod(p, o)
  BY PodWrites DEF Types, PodStep, KubeletRun, KubeletRemove, KubeletStatus,
                   KubeletEnd, DeletePod, ForeignBind
<1>4. ApiTypes' /\ WatchTypes'
  BY <1>3, PutPodTypes DEF Types
<1> QED
  BY <1>1, <1>2, <1>4, SameCache, SameWorkers, SameSession DEF Types, Others

\* A pod created keeps the invariant.
LEMMA CreatePodTypes ==
    ASSUME Types, NEW p \in Names, CreatePod(p)
    PROVE  Types'
<1> DEFINE u == uids[p] + 1
           o == [NoPod EXCEPT !.uid = u]
           x == [name |-> p, obj |-> o]
<1>1. uids \in [Names -> 0 .. MaxUid] /\ uids[p] < MaxUid
  BY DEF Types, ApiTypes, CreatePod
<1>2. u \in 0 .. MaxUid
  BY <1>1, Bounds
<1>3. o \in PodObjects
  BY <1>2, NoPodType DEF PodObjects
<1>4. x \in PodEvents
  BY <1>3 DEF PodEvents
<1>5. pod'[p] = o
  BY DEF CreatePod, Types, ApiTypes
<1>6. /\ uids' = [uids EXCEPT ![p] = u] /\ pod' = [pod EXCEPT ![p] = o]
      /\ podWatch' = Append(podWatch, x)
      /\ UNCHANGED <<node, group, nodeWatch, groupWatch, podSeen, Others>>
      /\ Spend("create")
  BY <1>5 DEF CreatePod
<1> HIDE DEF u, o, x
<1>7. ApiTypes'
  BY <1>1, <1>2, <1>3, <1>6 DEF Types, ApiTypes
<1>8. WatchTypes'
  BY <1>4, <1>6 DEF Types, WatchTypes
<1>9. BudgetTypes'
  BY <1>6, SpendType, DisturbanceNames DEF Types, Others
<1> QED
  BY <1>6, <1>7, <1>8, <1>9, SameCache, SameWorkers, SameSession DEF Types, Others

\* The steps that change nodes, and those that change PodGroups.
NodeStep(n) == NodeWorse(n) \/ NodeGoes(n) \/ NodeBack(n)
GroupStep(j) == GroupGoes(j) \/ GroupBack(j)

\* A step of a node keeps the invariant.
LEMMA NodeStepTypes ==
    ASSUME Types, NEW n \in Nodes, NodeStep(n)
    PROVE  Types'
<1>1. node[n] \in NodeObject /\ Alloc[n] \in Nat
  BY CacheAssumption DEF Types, ApiTypes
<1>2. \/ UNCHANGED left \/ Spend("resize") \/ Spend("renew")
  BY DEF NodeStep, NodeWorse, NodeGoes, NodeBack
<1>3. \E o \in NodeObject, new \in BOOLEAN : PutNode(n, o, new)
  <2>1. CASE NodeWorse(n)
    <3>1. [node[n] EXCEPT !.ready = FALSE] \in NodeObject
      BY <1>1 DEF NodeObject
    <3>2. node[n].alloc > 0 => [node[n] EXCEPT !.alloc = node[n].alloc - 1] \in NodeObject
      <4> DEFINE a == node[n].alloc - 1
      <4>1. node[n].alloc > 0 => a \in Nat
        BY <1>1 DEF NodeObject
      <4> HIDE DEF a
      <4>2. a \in Nat => [node[n] EXCEPT !.alloc = a] \in NodeObject
        BY <1>1 DEF NodeObject
      <4> QED
        BY <4>1, <4>2 DEF a
    <3>3. FALSE \in BOOLEAN
      OBVIOUS
    <3> QED
      BY <2>1, <3>1, <3>2, <3>3 DEF NodeWorse
  <2>2. CASE NodeGoes(n)
    <3>1. NoNode \in NodeObject
      BY DEF NoNode, NodeObject
    <3> QED
      BY <2>2, <3>1 DEF NodeGoes
  <2>3. CASE NodeBack(n)
    <3>1. [alloc |-> Alloc[n], ready |-> TRUE, there |-> TRUE] \in NodeObject
      BY <1>1 DEF NodeObject
    <3>2. (~node[n].there) \in BOOLEAN
      BY <1>1 DEF NodeObject
    <3> QED
      BY <2>3, <3>1, <3>2 DEF NodeBack
  <2> QED
    BY <2>1, <2>2, <2>3 DEF NodeStep
<1>4. PICK o \in NodeObject, new \in BOOLEAN : PutNode(n, o, new)
  BY <1>3
<1> DEFINE x == [name |-> n, obj |-> o, new |-> new]
<1>5. x \in NodeEvents
  BY DEF NodeEvents
<1>6. /\ node' = [node EXCEPT ![n] = o] /\ nodeWatch' = Append(nodeWatch, x)
      /\ UNCHANGED <<pod, uids, group, podWatch, groupWatch, podSeen, Others>>
  BY <1>4 DEF PutNode
<1> HIDE DEF x
<1>7. ApiTypes'
  BY <1>6 DEF Types, ApiTypes
<1>8. WatchTypes'
  BY <1>5, <1>6 DEF Types, WatchTypes
<1>9. BudgetTypes'
  BY <1>2, <1>6, SpendType, SameBudget, DisturbanceNames DEF Types, Others
<1> QED
  BY <1>6, <1>7, <1>8, <1>9, SameCache, SameWorkers, SameSession DEF Types, Others

\* A pod group made or deleted keeps the invariant.
LEMMA GroupStepTypes ==
    ASSUME Types, NEW j \in Jobs, GroupStep(j)
    PROVE  Types'
<1>1. \/ UNCHANGED left \/ Spend("group")
  BY DEF GroupStep, GroupGoes, GroupBack
<1>2. PICK there \in BOOLEAN : PutGroup(j, there)
  BY DEF GroupStep, GroupGoes, GroupBack
<1> DEFINE x == [job |-> j, there |-> there]
<1>3. x \in GroupEvents
  BY DEF GroupEvents
<1>4. /\ group' \in {group \cup {j}, group \ {j}} /\ groupWatch' = Append(groupWatch, x)
      /\ UNCHANGED <<pod, uids, node, podWatch, nodeWatch, podSeen, Others>>
  BY <1>2 DEF PutGroup
<1> HIDE DEF x
<1>5. ApiTypes'
  BY <1>4 DEF Types, ApiTypes
<1>6. WatchTypes'
  BY <1>3, <1>4 DEF Types, WatchTypes
<1>7. BudgetTypes'
  BY <1>1, <1>4, SpendType, SameBudget, DisturbanceNames DEF Types, Others
<1> QED
  BY <1>4, <1>5, <1>6, <1>7, SameCache, SameWorkers, SameSession DEF Types, Others

\* A watch that breaks and lists again keeps the invariant.
LEMMA RelistTypes == Types /\ Relist => Types'
<1> SUFFICES ASSUME Types, Relist PROVE Types'
  OBVIOUS
<1>1. UNCHANGED <<api, nodeWatch, podSeen, Others>> /\ Spend("relist")
  BY DEF Relist
<1>2. podWatch' \in Seq(PodEvents)
  BY PodListType DEF Relist, Types, WatchTypes
<1>3. groupWatch' \in Seq(GroupEvents)
  BY GroupListType DEF Relist, Types, WatchTypes, ApiTypes
<1>4. WatchTypes'
  BY <1>1, <1>2, <1>3 DEF Types, WatchTypes
<1>5. BudgetTypes'
  BY <1>1, SpendType, DisturbanceNames DEF Types, Others
<1> QED
  BY <1>1, <1>4, <1>5, SameApi, SameCache, SameWorkers, SameSession DEF Types, Others

\* Every step keeps the types.
LEMMA NextTypes == Types /\ [Next]_vars => Types'
<1> SUFFICES ASSUME Types, [Next]_vars PROVE Types'
  OBVIOUS
<1>1. CASE Handlers
  BY <1>1, HandlePodTypes, HandleNodeTypes, HandleGroupTypes DEF Handlers
<1>2. CASE Cleanup
  BY <1>2, CleanupTypes
<1>3. CASE Session
  BY <1>3, SnapshotTypes, CloseSessionTypes, SentTypes, taskUnschedulableTypes,
     EvictTypes, DispatchTypes DEF Session
<1>4. CASE Resync
  BY <1>4, processResyncTaskTypes, ResyncTypes DEF Resync
<1>5. CASE BindWorker
  BY <1>5, processBindTaskTypes, BindTaskTypes DEF BindWorker
<1>6. CASE Goroutines
  BY <1>6, BindTypes, EvictionTypes DEF Goroutines
<1>7. CASE Kubelet
  BY <1>7, PodStepTypes DEF Kubelet, PodStep
<1>8. CASE Environment
  BY <1>8, CrashTypes, RelistTypes, PodStepTypes, CreatePodTypes, NodeStepTypes,
     GroupStepTypes DEF Environment, PodStep, NodeStep, GroupStep
<1>9. CASE UNCHANGED vars
  BY <1>9, SameApi, SameWatches, SameCache, SameWorkers, SameSession, SameBudget
  DEF Types, vars, api, watches, workers
<1> QED
  BY <1>1, <1>2, <1>3, <1>4, <1>5, <1>6, <1>7, <1>8, <1>9 DEF Next

\* What the types say of the properties of the runs.
LEMMA TypesSuffice == Types => TypeOK /\ NodeAccounting
<1> SUFFICES ASSUME Types PROVE TypeOK /\ NodeAccounting
  OBVIOUS
<1>1. c \in Caches /\ Owned(c)
  BY DEF Types, CacheTypes
<1>2. NodeAccounting
  BY <1>1, CacheParts DEF NodeAccounting, GoodNodes
<1>3. pod \in [Names -> [uid : 0 .. MaxUid, node : Nodes \cup {""},
                         phase : {"Pending", "Running", "Succeeded", "Failed"},
                         deleting : BOOLEAN, evicted : BOOLEAN,
                         told : BOOLEAN]]
  BY DEF Types, ApiTypes, PodObjects
<1>4. /\ DOMAIN c.jobs \subseteq Jobs /\ DOMAIN c.nodes \subseteq Nodes
      /\ \A t \in DOMAIN c.tasks :
           /\ t \in Tids /\ JobOf[t[1]] \in DOMAIN c.jobs
           /\ c.tasks[t].status \in TaskStatuses
  <2>1. c.jobs \in Partial(Jobs, JobEntries)
    BY <1>1 DEF Caches
  <2>2. DOMAIN c.jobs \subseteq Jobs
    BY <2>1, PartialDef
  <2> QED
    BY <1>1, <2>2, CacheParts DEF Owned, OwnTids, TaskEntries
<1>5. Len(channel) <= ChannelCap /\ Len(bindCache) <= BatchNum
  BY DEF Types, WorkerTypes
<1> QED
  BY <1>2, <1>3, <1>4, <1>5 DEF TypeOK

\* The types hold whatever happens.
LEMMA AlwaysTypes == Spec => []Types
  BY InitTypes, NextTypes, PTL DEF Spec

\* The cache keeps to its types: every task belongs to a Job of the cache, the
\* nodes are nodes of the cluster, and neither the channel of bindings nor the
\* batch of the bind worker outgrows its capacity (AddBindTask,
\* processBindTask).
THEOREM TypeCorrect == Spec => []TypeOK
  BY AlwaysTypes, TypesSuffice, PTL

\* The totals of every NodeInfo of the cache are those of its tasks and never
\* exceed what the node has, for every number of nodes and pods, whatever
\* events, bindings, evictions, resynchronisations and restarts do
\* (node_info.go AddTask, RemoveTask, UpdateTask, SetNode).
THEOREM NodesAccounted == Spec => []NodeAccounting
  BY AlwaysTypes, TypesSuffice, PTL

=============================================================================
