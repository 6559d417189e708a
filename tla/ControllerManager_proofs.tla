---------------------- MODULE ControllerManager_proofs ----------------------
(***************************************************************************)
(* What holds of vc-controller-manager for every scenario, every queue,    *)
(* Job and pod that may be submitted, and any number of workers: the types *)
(* (TypeCorrect), that every admitted Job can be run (JobsCanRun) and that *)
(* the garbage collector deletes in time only (OnlyExpired).               *)
(*                                                                         *)
(* The invariant ManagerInv has a part for each controller, and two that   *)
(* they share: copies under way to or in an informer are well formed and   *)
(* never newer than the last version (Shared), and a Job the garbage       *)
(* collector has judged is still ripe, or another Job of the name has      *)
(* taken its place (Judgement).                                            *)
(***************************************************************************)
EXTENDS ControllerManager, TLAPS, FiniteSetTheorems, WellFoundedInduction, NaturalsInduction

-----------------------------------------------------------------------------
\* A set of numbers that has one has a least one.
LEMMA Least ==
    ASSUME NEW T \in SUBSET Nat, T # {}
    PROVE  \E m \in T : \A k \in T : m <= k
<1>1. PICK m \in T : \A k \in T : <<k, m>> \notin OpToRel(<, Nat)
  BY NatLessThanWellFounded, WFMin
<1>2. \A k \in T : ~(k < m)
  BY <1>1 DEF OpToRel
<1> QED
  BY <1>2

Iterate(f, S, base, step, L) ==
    /\ f \in [0 .. L -> S]
    /\ f[0] = base
    /\ \A n \in 1 .. L : f[n] = step[f[n - 1]]

\* A function on 0 .. L can be given by its first value and by what follows
\* each value.
LEMMA Iterates ==
    ASSUME NEW S, NEW base \in S, NEW step \in [S -> S], NEW L \in Nat
    PROVE  \E f : Iterate(f, S, base, step, L)
<1> USE DEF Iterate
<1> DEFINE Good(m) == \E f : Iterate(f, S, base, step, m)
           Bad == {m \in Nat : ~Good(m)}
<1>1. SUFFICES ASSUME Bad # {} PROVE FALSE
  OBVIOUS
<1>2. PICK m \in Bad : \A k \in Bad : m <= k
  <2> HIDE DEF Good
  <2> QED
    BY <1>1, Least
<1>3. CASE m = 0
  <2> DEFINE g == [n \in 0 .. 0 |-> base]
  <2>1. g \in [0 .. 0 -> S] /\ g[0] = base
    OBVIOUS
  <2>2. \A n \in 1 .. 0 : g[n] = step[g[n - 1]]
    OBVIOUS
  <2> HIDE DEF g
  <2>3. Good(0)
    BY <2>1, <2>2
  <2> QED
    BY <1>2, <1>3, <2>3
<1>4. CASE m # 0
  <2>1. m - 1 \in Nat /\ m \in Nat /\ ~(m <= m - 1)
    BY <1>2, <1>4
  <2>2. Good(m - 1)
    <3> HIDE DEF Good
    <3> QED
      BY <1>2, <2>1
  <2>3. PICK f : Iterate(f, S, base, step, m - 1)
    BY <2>2
  <2> DEFINE g == [n \in 0 .. m |-> IF n = m THEN step[f[m - 1]] ELSE f[n]]
  <2>4. f[m - 1] \in S /\ step[f[m - 1]] \in S
    BY <2>1, <2>3
  <2>5. g \in [0 .. m -> S]
    <3>1. ASSUME NEW n \in 0 .. m PROVE g[n] \in S
      BY <2>1, <2>3, <2>4, <3>1
    <3> QED
      BY <3>1
  <2>6. g[0] = base /\ g[m] = step[g[m - 1]]
    BY <2>1, <2>3, <1>4
  <2>7. ASSUME NEW n \in 1 .. m PROVE g[n] = step[g[n - 1]]
    <3>1. CASE n = m
      BY <3>1, <2>6
    <3>2. CASE n # m
      <4>1. n \in 1 .. m - 1 /\ n \in 0 .. m /\ n - 1 \in 0 .. m /\ n - 1 # m
        BY <3>2, <2>1
      <4> QED
        BY <4>1, <3>2, <2>3
    <3> QED
      BY <3>1, <3>2
  <2>8. Good(m)
    <3> HIDE DEF g
    <3> QED
      BY <2>5, <2>6, <2>7
  <2> QED
    BY <2>8, <1>2
<1> QED
  BY <1>3, <1>4

-----------------------------------------------------------------------------
(***************************************************************************)
(* Sorting the tasks.                                                      *)
(***************************************************************************)

\* What topoSort has at hand: names sorted, and for each what it waits for.
Sortings(N) == [sorted : SUBSET N, inDegree : [N -> Int]]

\* The degree of a name is what it had less those of its needs that are
\* sorted.
Counts(s, N, need, degree) ==
    \A t \in N : s.inDegree[t] = degree[t] - Cardinality(need[t] \cap s.sorted)

\* The graph has the edges that the needs call for; a name needs no more
\* others than its degree says (DependsOn may name one twice).
GraphOf(graph, N, need, degree) ==
    /\ degree \in [N -> Nat]
    /\ DOMAIN need = N
    /\ \A t \in N : IsFiniteSet(need[t]) /\ Cardinality(need[t]) <= degree[t]
    /\ \A a \in N, t \in N : <<a, t>> \in graph.edges <=> a \in need[t]

\* A step of topoSort keeps the count, and takes a name only when all it needs
\* is sorted.
LEMMA TakeOne ==
    ASSUME NEW N, NEW graph, NEW need, NEW degree, GraphOf(graph, N, need, degree),
           NEW s \in Sortings(N), Counts(s, N, need, degree)
    PROVE  /\ takeOne(graph, s) \in Sortings(N)
           /\ Counts(takeOne(graph, s), N, need, degree)
           /\ \A t \in takeOne(graph, s).sorted :
                t \in s.sorted \/ need[t] \subseteq s.sorted
<1> DEFINE stack == {t \in DOMAIN s.inDegree \ s.sorted : s.inDegree[t] = 0}
           out == CHOOSE t \in stack : TRUE
           deg == [t \in DOMAIN s.inDegree |->
                     IF <<out, t>> \in graph.edges THEN s.inDegree[t] - 1 ELSE s.inDegree[t]]
           r == [sorted |-> s.sorted \cup {out}, inDegree |-> deg]
<1>1. s.sorted \in SUBSET N /\ s.inDegree \in [N -> Int] /\ DOMAIN s.inDegree = N
  BY DEF Sortings
<1>2. CASE stack = {}
  <2>1. takeOne(graph, s) = s
    BY <1>2 DEF takeOne
  <2> QED
    BY <2>1
<1>3. CASE stack # {}
  <2>1. takeOne(graph, s) = r
    BY <1>3 DEF takeOne
  <2>2. out \in stack
    BY <1>3
  <2> HIDE DEF out
  <2>3. out \in N /\ out \notin s.sorted /\ s.inDegree[out] = 0
    BY <2>2, <1>1
  <2>4. deg \in [N -> Int]
    BY <1>1
  <2>5. r.sorted = s.sorted \cup {out} /\ r.inDegree = deg
    OBVIOUS
  <2>6. r \in Sortings(N)
    BY <2>3, <2>4, <1>1 DEF Sortings
  <2>7. ASSUME NEW t \in N PROVE deg[t] = degree[t] - Cardinality(need[t] \cap r.sorted)
    <3>1. /\ IsFiniteSet(need[t] \cap s.sorted)
          /\ Cardinality(need[t] \cap s.sorted) \in Nat
      <4>1. IsFiniteSet(need[t])
        BY DEF GraphOf
      <4> QED
        BY <4>1, FS_Subset, FS_CardinalityType
    <3>2. degree[t] \in Nat
      BY DEF GraphOf
    <3>3. s.inDegree[t] = degree[t] - Cardinality(need[t] \cap s.sorted)
      BY DEF Counts
    <3>4. CASE out \in need[t]
      <4>1. need[t] \cap r.sorted = (need[t] \cap s.sorted) \cup {out}
        BY <3>4, <2>5
      <4>2. Cardinality(need[t] \cap r.sorted) = Cardinality(need[t] \cap s.sorted) + 1
        BY <4>1, <3>1, <2>3, FS_AddElement
      <4>3. <<out, t>> \in graph.edges
        BY <3>4, <2>3 DEF GraphOf
      <4>4. deg[t] = s.inDegree[t] - 1
        BY <4>3, <1>1
      <4> HIDE DEF deg, r
      <4> QED
        BY <4>2, <4>4, <3>1, <3>2, <3>3
    <3>5. CASE out \notin need[t]
      <4>1. need[t] \cap r.sorted = need[t] \cap s.sorted
        BY <3>5, <2>5
      <4>2. <<out, t>> \notin graph.edges
        BY <3>5, <2>3 DEF GraphOf
      <4>3. deg[t] = s.inDegree[t]
        BY <4>2, <1>1
      <4> QED
        BY <4>1, <4>3, <3>3
    <3> QED
      BY <3>4, <3>5
  <2>8. Counts(r, N, need, degree)
    BY <2>7, <2>5 DEF Counts
  <2>9. need[out] \subseteq s.sorted
    <3>1. /\ IsFiniteSet(need[out]) /\ Cardinality(need[out]) <= degree[out]
          /\ degree[out] \in Nat
      BY <2>3 DEF GraphOf
    <3>2. 0 = degree[out] - Cardinality(need[out] \cap s.sorted)
      BY <2>3 DEF Counts
    <3>3. need[out] \cap s.sorted \in SUBSET need[out]
      OBVIOUS
    <3>4. /\ Cardinality(need[out] \cap s.sorted) <= Cardinality(need[out])
          /\ Cardinality(need[out] \cap s.sorted) = Cardinality(need[out])
               => need[out] \cap s.sorted = need[out]
      BY <3>1, <3>3, FS_Subset
    <3>5. Cardinality(need[out]) \in Nat /\ Cardinality(need[out] \cap s.sorted) \in Nat
      BY <3>1, <3>3, FS_Subset, FS_CardinalityType
    <3>6. need[out] \cap s.sorted = need[out]
      BY <3>1, <3>2, <3>4, <3>5
    <3> QED
      BY <3>6
  <2>10. ASSUME NEW t \in r.sorted PROVE t \in s.sorted \/ need[t] \subseteq s.sorted
    BY <2>9, <2>5
  <2> HIDE DEF r
  <2> QED
    BY <2>1, <2>6, <2>8, <2>10
<1> QED
  BY <1>2, <1>3

\* f says what is sorted after each step.
Sorting(f, graph, N, L) ==
    /\ f \in [0 .. L -> Sortings(N)]
    /\ f[0] = [sorted |-> {}, inDegree |-> graph.inDegree]
    /\ \A n \in 1 .. L : f[n] = takeOne(graph, f[n - 1])

\* If everything was sorted, the names have ranks such that each comes after
\* those it needs: the step that sorted it.
LEMMA Ranks ==
    ASSUME NEW N, IsFiniteSet(N), NEW L \in Nat, Cardinality(N) = L,
           NEW graph, NEW need, GraphOf(graph, N, need, graph.inDegree),
           NEW f, Sorting(f, graph, N, L), Cardinality(f[L].sorted) = L
    PROVE  \E rank \in [N -> 1 .. L] :
             \A t \in N : \A d \in need[t] : d \in N /\ rank[d] < rank[t]
<1> DEFINE degree == graph.inDegree
<1> HIDE DEF degree
<1> USE DEF Sorting
<1>1. \A n \in 0 .. L : f[n] \in Sortings(N) /\ f[n].sorted \in SUBSET N
  BY DEF Sortings
<1>0. GraphOf(graph, N, need, degree) /\ f[0] = [sorted |-> {}, inDegree |-> degree]
  BY DEF degree
<1>2. \A n \in 0 .. L : Counts(f[n], N, need, degree)
  <2> DEFINE Bad == {n \in 0 .. L : ~Counts(f[n], N, need, degree)}
  <2>1. SUFFICES ASSUME Bad # {} PROVE FALSE
    OBVIOUS
  <2>2. Bad \in SUBSET Nat
    OBVIOUS
  <2>3. PICK n \in Bad : \A k \in Bad : n <= k
    <3> HIDE DEF Bad
    <3> QED
      BY <2>1, <2>2, Least
  <2>4. CASE n = 0
    <3>1. f[0].sorted = {} /\ f[0].inDegree = degree
      BY <1>0
    <3>2. ASSUME NEW t \in N
          PROVE  f[0].inDegree[t] = degree[t] - Cardinality(need[t] \cap f[0].sorted)
      <4>1. degree[t] \in Nat
        BY <1>0 DEF GraphOf
      <4>2. need[t] \cap f[0].sorted = {}
        BY <3>1
      <4>3. Cardinality(need[t] \cap f[0].sorted) = 0
        BY <4>2, FS_EmptySet
      <4> QED
        BY <3>1, <4>1, <4>3
    <3> QED
      BY <2>3, <2>4, <3>2 DEF Counts
  <2>5. CASE n # 0
    <3>1. n - 1 \in 0 .. L /\ n \in 1 .. L /\ ~(n <= n - 1)
      BY <2>3, <2>5
    <3>2. Counts(f[n - 1], N, need, degree)
      BY <3>1, <2>3
    <3>3. Counts(takeOne(graph, f[n - 1]), N, need, degree)
      BY <3>1, <3>2, <1>0, <1>1, TakeOne
    <3> QED
      BY <3>1, <3>3, <2>3
  <2> QED
    BY <2>4, <2>5
<1>3. ASSUME NEW n \in 1 .. L, NEW t \in f[n].sorted
      PROVE  t \in f[n - 1].sorted \/ need[t] \subseteq f[n - 1].sorted
  <2>1. n - 1 \in 0 .. L
    OBVIOUS
  <2>2. \A u \in takeOne(graph, f[n - 1]).sorted :
          u \in f[n - 1].sorted \/ need[u] \subseteq f[n - 1].sorted
    BY <2>1, <1>0, <1>1, <1>2, TakeOne
  <2> QED
    BY <2>2
<1>4. f[L].sorted = N
  <2>1. f[L].sorted \in SUBSET N
    BY <1>1
  <2> QED
    BY <2>1, FS_Subset
<1> DEFINE At(t) == {n \in 0 .. L : t \in f[n].sorted}
           rank == [t \in N |-> CHOOSE m \in At(t) : \A k \in At(t) : m <= k]
<1>5. ASSUME NEW t \in N
      PROVE  rank[t] \in 1 .. L /\ t \in f[rank[t]].sorted /\ \A k \in At(t) : rank[t] <= k
  <2>1. At(t) \in SUBSET Nat /\ L \in At(t)
    BY <1>4
  <2>2. \E m \in At(t) : \A k \in At(t) : m <= k
    <3> HIDE DEF At
    <3> QED
      BY <2>1, Least
  <2>3. rank[t] \in At(t) /\ \A k \in At(t) : rank[t] <= k
    <3> HIDE DEF At
    <3> QED
      BY <2>2
  <2> HIDE DEF rank
  <2>4. rank[t] \in 0 .. L /\ t \in f[rank[t]].sorted
    BY <2>3
  <2>5. rank[t] # 0
    <3>1. f[0].sorted = {}
      BY <1>0
    <3> QED
      BY <3>1, <2>4
  <2> QED
    BY <2>3, <2>4, <2>5
<1>6. rank \in [N -> 1 .. L]
  <2>1. ASSUME NEW t \in N PROVE rank[t] \in 1 .. L
    BY <1>5
  <2> HIDE DEF At
  <2> QED
    BY <2>1
<1> HIDE DEF rank
<1>7. ASSUME NEW t \in N, NEW d \in need[t] PROVE d \in N /\ rank[d] < rank[t]
  <2>1. rank[t] \in 1 .. L /\ t \in f[rank[t]].sorted /\ \A k \in At(t) : rank[t] <= k
    BY <1>5
  <2>2. rank[t] - 1 \in 0 .. L /\ ~(rank[t] <= rank[t] - 1)
    BY <2>1
  <2>3. t \notin f[rank[t] - 1].sorted
    BY <2>1, <2>2
  <2>4. d \in f[rank[t] - 1].sorted
    BY <2>1, <2>3, <1>3
  <2>5. d \in N /\ rank[t] - 1 \in At(d)
    BY <2>2, <2>4, <1>1
  <2>6. rank[d] <= rank[t] - 1 /\ rank[d] \in 1 .. L
    BY <2>5, <1>5
  <2> QED
    BY <2>1, <2>5, <2>6
<1> QED
  BY <1>6, <1>7

\* A step of topoSort leads from sortings to sortings.
LEMMA TakeOneType ==
    ASSUME NEW N, NEW graph, NEW s \in Sortings(N)
    PROVE  takeOne(graph, s) \in Sortings(N)
<1> DEFINE stack == {t \in DOMAIN s.inDegree \ s.sorted : s.inDegree[t] = 0}
           out == CHOOSE t \in stack : TRUE
           deg == [t \in DOMAIN s.inDegree |->
                     IF <<out, t>> \in graph.edges THEN s.inDegree[t] - 1 ELSE s.inDegree[t]]
<1>1. s.sorted \in SUBSET N /\ s.inDegree \in [N -> Int] /\ DOMAIN s.inDegree = N
  BY DEF Sortings
<1>2. CASE stack = {}
  BY <1>2 DEF takeOne
<1>3. CASE stack # {}
  <2>1. takeOne(graph, s) = [sorted |-> s.sorted \cup {out}, inDegree |-> deg]
    BY <1>3 DEF takeOne
  <2>2. out \in N
    BY <1>3, <1>1
  <2> HIDE DEF out
  <2>3. deg \in [N -> Int]
    BY <1>1
  <2> HIDE DEF deg
  <2> QED
    BY <2>1, <2>2, <2>3, <1>1 DEF Sortings
<1> QED
  BY <1>2, <1>3

\* takeAll's function: it has the values that its definition gives it.
LEMMA Taken ==
    ASSUME NEW N, NEW graph, NEW L \in Nat, graph.inDegree \in [N -> Int]
    PROVE  \E f : Sorting(f, graph, N, L) /\ takeAll(graph, L) = f[L]
<1> DEFINE base == [sorted |-> {}, inDegree |-> graph.inDegree]
           step == [s \in Sortings(N) |-> takeOne(graph, s)]
<1>1. base \in Sortings(N)
  BY DEF Sortings
<1> HIDE DEF base
<1>2. step \in [Sortings(N) -> Sortings(N)]
  BY TakeOneType
<1>3. PICK f : Iterate(f, Sortings(N), base, step, L)
  <2> HIDE DEF step
  <2> QED
    BY <1>1, <1>2, Iterates
<1> USE DEF Iterate
<1>4. f = [n \in 0 .. L |-> IF n = 0 THEN base ELSE takeOne(graph, f[n - 1])]
  <2>1. ASSUME NEW n \in 0 .. L
        PROVE  f[n] = IF n = 0 THEN base ELSE takeOne(graph, f[n - 1])
    <3>1. CASE n = 0
      BY <3>1, <1>3
    <3>2. CASE n # 0
      <4>1. n \in 1 .. L /\ n - 1 \in 0 .. L
        BY <3>2
      <4>2. f[n - 1] \in Sortings(N)
        BY <4>1, <1>3
      <4> QED
        BY <4>1, <4>2, <3>2, <1>3
    <3> QED
      BY <3>1, <3>2
  <2> QED
    BY <2>1, <1>3
<1> DEFINE take[n \in 0 .. L] == IF n = 0 THEN base ELSE takeOne(graph, take[n - 1])
<1>5. take = [n \in 0 .. L |-> IF n = 0 THEN base ELSE takeOne(graph, take[n - 1])]
  BY <1>4
<1> HIDE DEF take
<1>6. take[0] = base /\ \A n \in 1 .. L : take[n] = takeOne(graph, take[n - 1])
  <2>1. take[0] = base
    BY <1>5
  <2>2. ASSUME NEW n \in 1 .. L PROVE take[n] = takeOne(graph, take[n - 1])
    <3>1. n \in 0 .. L /\ n # 0
      OBVIOUS
    <3> QED
      BY <3>1, <1>5
  <2> QED
    BY <2>1, <2>2
<1>7. \A n \in 0 .. L : take[n] \in Sortings(N)
  <2> DEFINE Bad == {n \in 0 .. L : take[n] \notin Sortings(N)}
  <2>1. SUFFICES ASSUME Bad # {} PROVE FALSE
    OBVIOUS
  <2>2. Bad \in SUBSET Nat
    OBVIOUS
  <2>3. PICK n \in Bad : \A k \in Bad : n <= k
    <3> HIDE DEF Bad
    <3> QED
      BY <2>1, <2>2, Least
  <2>4. n # 0
    BY <2>3, <1>1, <1>6
  <2>5. n - 1 \in 0 .. L /\ n \in 1 .. L /\ ~(n <= n - 1)
    BY <2>3, <2>4
  <2>6. take[n - 1] \in Sortings(N)
    BY <2>3, <2>5
  <2>7. take[n] \in Sortings(N)
    BY <2>5, <2>6, <1>6, TakeOneType
  <2> QED
    BY <2>3, <2>7
<1>8. take \in [0 .. L -> Sortings(N)]
  BY <1>5, <1>7
<1>9. takeAll(graph, L) = take[L]
  BY DEF takeAll, take, base
<1>10. Sorting(take, graph, N, L)
  BY <1>6, <1>8 DEF Sorting, base
<1> QED
  BY <1>9, <1>10

IsTasks(tasks) ==
    /\ tasks \in Seq(Range(tasks))
    /\ \A i \in DOMAIN tasks : IsTask(tasks[i])
Distinct(tasks) ==
    \A i \in DOMAIN tasks : \A k \in DOMAIN tasks \ {i} : tasks[k].name # tasks[i].name

Degree(task) ==
    IF task.dependsOn = {} THEN 0 ELSE Len(CHOOSE d \in task.dependsOn : TRUE)

\* Tasks with different names are as many as their names.
LEMMA NamesCounted ==
    ASSUME NEW tasks, IsTasks(tasks), Distinct(tasks)
    PROVE  /\ IsFiniteSet(TaskNames(tasks))
           /\ Cardinality(TaskNames(tasks)) = Len(tasks)
<1> DEFINE L == Len(tasks)
           N == TaskNames(tasks)
           f == [i \in 1 .. L |-> tasks[i].name]
<1>1. L \in Nat /\ DOMAIN tasks = 1 .. L
  BY DEF IsTasks
<1>2. f \in [1 .. L -> N]
  BY <1>1 DEF TaskNames
<1>3. \A i, k \in 1 .. L : f[i] = f[k] => i = k
  BY <1>1 DEF Distinct
<1>4. \A t \in N : \E i \in 1 .. L : f[i] = t
  BY <1>1 DEF TaskNames
<1> HIDE DEF f, N, L
<1>5. f \in Bijection(1 .. L, N)
  BY <1>2, <1>3, <1>4 DEF Bijection, Injection, Surjection, IsInjective
<1>6. IsFiniteSet(1 .. L) /\ Cardinality(1 .. L) = L
  BY <1>1, FS_Interval
<1> QED
  BY <1>5, <1>6, FS_Bijection DEF ExistsBijection, N, L

\* A task needs no more others than its dependsOn has names.
LEMMA DegreeBounds ==
    ASSUME NEW task, IsTask(task)
    PROVE  /\ Degree(task) \in Nat
           /\ IsFiniteSet(Needs(task)) /\ Cardinality(Needs(task)) <= Degree(task)
<1>1. CASE task.dependsOn = {}
  <2>1. Needs(task) = {} /\ Degree(task) = 0
    BY <1>1 DEF Needs, Degree
  <2> QED
    BY <2>1, FS_EmptySet
<1>2. CASE task.dependsOn # {}
  <2>1. PICK d \in task.dependsOn : TRUE
    BY <1>2
  <2>2. task.dependsOn = {d} /\ d \in Seq(STRING)
    BY <2>1 DEF IsTask
  <2>3. Needs(task) = Range(d) /\ Degree(task) = Len(d)
    BY <2>2 DEF Needs, Degree
  <2>4. Len(d) \in Nat /\ DOMAIN d = 1 .. Len(d)
    BY <2>2
  <2>5. IsFiniteSet(1 .. Len(d)) /\ Cardinality(1 .. Len(d)) = Len(d)
    <3> DEFINE n == Len(d)
    <3>1. n \in Nat
      BY <2>4
    <3> HIDE DEF n
    <3>2. IsFiniteSet(1 .. n) /\ Cardinality(1 .. n) = n
      BY <3>1, FS_Interval
    <3> QED
      BY <3>2 DEF n
  <2>6. Range(d) = {d[i] : i \in 1 .. Len(d)}
    BY <2>4 DEF Range
  <2>7. d \in Surjection(1 .. Len(d), Range(d))
    BY <2>2, <2>4, <2>6 DEF Surjection
  <2>8. IsFiniteSet(Range(d)) /\ Cardinality(Range(d)) <= Len(d)
    BY <2>5, <2>7, FS_Surjection
  <2> QED
    BY <2>3, <2>4, <2>8
<1> QED
  BY <1>1, <1>2

\* The tasks of a Job as the webhooks get them.
LEMMA Sorted ==
    ASSUME NEW tasks, IsTasks(tasks), Distinct(tasks), topoSort(tasks)
    PROVE  \E rank \in [TaskNames(tasks) -> 1 .. Len(tasks)] :
             \A i \in DOMAIN tasks : \A d \in Needs(tasks[i]) :
               d \in TaskNames(tasks) /\ rank[d] < rank[tasks[i].name]
<1> DEFINE N == TaskNames(tasks)
           L == Len(tasks)
           graph == makeGraph(tasks)
           degree == graph.inDegree
           need == [t \in N |-> Needs(tasks[lastNamed(tasks, t)])]
<1>1. L \in Nat /\ DOMAIN tasks = 1 .. L
  BY DEF IsTasks
<1>2. ASSUME NEW i \in DOMAIN tasks
      PROVE  /\ tasks[i].name \in N
             /\ lastNamed(tasks, tasks[i].name) = i
  <2>1. \A k \in DOMAIN tasks : tasks[k].name = tasks[i].name <=> k = i
    BY DEF Distinct
  <2>2. \A k \in DOMAIN tasks : (/\ tasks[k].name = tasks[i].name
                                 /\ \A h \in DOMAIN tasks : tasks[h].name = tasks[i].name => h <= k)
                                <=> k = i
    BY <2>1, <1>1
  <2>3. lastNamed(tasks, tasks[i].name) = i
    BY <2>2 DEF lastNamed
  <2> QED
    BY <2>3 DEF TaskNames
<1>3. ASSUME NEW t \in N PROVE \E i \in DOMAIN tasks : t = tasks[i].name
  BY DEF TaskNames
<1>4. IsFiniteSet(N) /\ Cardinality(N) = L
  BY NamesCounted
<1>5. GraphOf(graph, N, need, degree)
  <2>1. degree = [t \in N |-> Degree(tasks[lastNamed(tasks, t)])]
    BY DEF makeGraph, Degree
  <2>2. ASSUME NEW t \in N
        PROVE  /\ degree[t] \in Nat
               /\ IsFiniteSet(need[t]) /\ Cardinality(need[t]) <= degree[t]
    <3>1. PICK i \in DOMAIN tasks : t = tasks[i].name
      BY <1>3
    <3>2. degree[t] = Degree(tasks[i]) /\ need[t] = Needs(tasks[i])
      BY <3>1, <1>2, <2>1
    <3> HIDE DEF degree, need
    <3> QED
      BY <3>1, <3>2, DegreeBounds DEF IsTasks
  <2>3. ASSUME NEW a \in N, NEW t \in N PROVE <<a, t>> \in graph.edges <=> a \in need[t]
    <3>1. PICK i \in DOMAIN tasks : t = tasks[i].name
      BY <1>3
    <3>2. need[t] = Needs(tasks[i])
      BY <3>1, <1>2
    <3>3. graph.edges = UNION {{<<d, tasks[k].name>> : d \in Needs(tasks[k])} : k \in DOMAIN tasks}
      BY DEF makeGraph
    <3>4. <<a, t>> \in graph.edges
            <=> \E k \in DOMAIN tasks : \E d \in Needs(tasks[k]) : <<a, t>> = <<d, tasks[k].name>>
      BY <3>3
    <3> HIDE DEF graph
    <3>5. \A k \in DOMAIN tasks : \A d \in Needs(tasks[k]) :
            <<a, t>> = <<d, tasks[k].name>> <=> a = d /\ k = i
      BY <3>1 DEF Distinct
    <3> QED
      BY <3>1, <3>2, <3>4, <3>5
  <2>4. degree \in [N -> Nat]
    <3>1. DOMAIN degree = N /\ degree = [t \in N |-> degree[t]]
      BY <2>1
    <3> HIDE DEF degree
    <3> QED
      BY <3>1, <2>2
  <2> HIDE DEF N, graph, degree
  <2> QED
    BY <2>2, <2>3, <2>4 DEF GraphOf
<1>6. PICK f : Sorting(f, graph, N, L) /\ Cardinality(f[L].sorted) = L
  <2>1. degree \in [N -> Int]
    BY <1>5 DEF GraphOf
  <2>2. Cardinality(takeAll(graph, L).sorted) = L
    BY DEF topoSort
  <2> HIDE DEF graph, N, L
  <2> QED
    BY <1>1, <2>1, <2>2, Taken
<1>7. \E rank \in [N -> 1 .. L] :
        \A t \in N : \A d \in need[t] : d \in N /\ rank[d] < rank[t]
  <2> HIDE DEF N, L, graph, degree, need
  <2> QED
    BY <1>1, <1>4, <1>5, <1>6, Ranks DEF degree
<1>8. \A i \in DOMAIN tasks : tasks[i].name \in N /\ need[tasks[i].name] = Needs(tasks[i])
  BY <1>2
<1> HIDE DEF need
<1> QED
  BY <1>7, <1>8

-----------------------------------------------------------------------------
(***************************************************************************)
(* Objects and their copies.                                               *)
(***************************************************************************)

\* A copy of an object: well formed, and no newer than the last version v
\* that any object of its name had.
Copy(v, k, x, obj) ==
    /\ IsObject(k, obj)
    /\ obj.uid \in Nat /\ obj.rv \in Nat /\ 0 < obj.uid /\ obj.uid <= obj.rv
    /\ x \in DOMAIN v[k] /\ obj.rv <= v[k][x]

Versions ==
    /\ DOMAIN vers = Kinds
    /\ \A k \in Kinds : \A x \in DOMAIN vers[k] :
         vers[k][x] \in Nat /\ (k = "group" => vers[k][x] = 1)

Objects ==
    /\ DOMAIN api = Kinds
    /\ \A k \in Kinds : \A x \in DOMAIN api[k] :
         Copy(vers, k, x, api[k][x]) /\ api[k][x].rv = vers[k][x]

Feeds ==
    /\ opt.on \subseteq Watches
    /\ DOMAIN feed = opt.on /\ DOMAIN store = opt.on
    /\ \A w \in opt.on :
         /\ feed[w] \in Seq(Range(feed[w]))
         /\ \A d \in Range(feed[w]) : d.obj = Gone \/ Copy(vers, KindOf[w], d.name, d.obj)

Stores == \A w \in opt.on : \A x \in DOMAIN store[w] : Copy(vers, KindOf[w], x, store[w][x])

Shared == Versions /\ Objects /\ Feeds /\ Stores

\* The last version of a name never goes back.
Onward(v, u) ==
    /\ DOMAIN u = Kinds
    /\ \A k \in Kinds : DOMAIN v[k] \subseteq DOMAIN u[k]
                          /\ \A x \in DOMAIN v[k] : v[k][x] <= u[k][x]

\* A copy stays one.
LEMMA CopyStays ==
    ASSUME NEW v, NEW u, Onward(v, u), NEW k \in Kinds, NEW x, NEW obj, Copy(v, k, x, obj),
           v[k][x] \in Nat, u[k][x] \in Nat
    PROVE  Copy(u, k, x, obj)
<1>1. x \in DOMAIN u[k] /\ v[k][x] <= u[k][x]
  BY DEF Copy, Onward
<1> QED
  BY <1>1 DEF Copy

\* The kinds and what the informers watch.
LEMMA KindsOf ==
    /\ \A w \in Watches : KindOf[w] \in Kinds
    /\ "job" \in Kinds /\ "queue" \in Kinds /\ "group" \in Kinds /\ "pod" \in Kinds
    /\ "command" \in Kinds /\ "rs" \in Kinds
  BY DEF Watches, KindOf, Kinds

\* An object with a uid is not nothing.
LEMMA NotGone ==
    ASSUME NEW obj, "uid" \in DOMAIN obj PROVE obj # Gone
  BY DEF Gone

\* Only the version and the uid of a written object are new.
Stamped(obj, v, u) == [obj EXCEPT !.rv = v, !.uid = u]

\* A stamped object is still one of its kind.
LEMMA StampedFields ==
    ASSUME NEW k, NEW obj, IsObject(k, obj), NEW v, NEW u
    PROVE  /\ IsObject(k, Stamped(obj, v, u))
           /\ Stamped(obj, v, u).rv = v /\ Stamped(obj, v, u).uid = u
           /\ Stamped(obj, v, u) # Gone
<1> DEFINE new == Stamped(obj, v, u)
<1>1. /\ DOMAIN new = DOMAIN obj /\ new.rv = v /\ new.uid = u
      /\ \A f \in DOMAIN obj : f # "rv" /\ f # "uid" => new[f] = obj[f]
  BY DEF Stamped, IsObject
<1> HIDE DEF new
<1>2. k = "queue" => IsQueue(new) /\ new.weight > 0
  BY <1>1 DEF IsObject, IsQueue
<1>3. k = "job" => IsJob(new)
  BY <1>1 DEF IsObject, IsJob
<1>4. IsObject(k, new) /\ new # Gone
  BY <1>1, <1>2, <1>3, NotGone DEF IsObject
<1> QED
  BY <1>1, <1>4 DEF new

\* A new version is at least as high as the last, higher but for PodGroups.
LEMMA NewVersion ==
    ASSUME Versions, NEW k \in Kinds, NEW x
    PROVE  /\ NextVersion(k, x) \in Nat /\ 0 < NextVersion(k, x)
           /\ x \in DOMAIN vers[k] => vers[k][x] <= NextVersion(k, x)
           /\ x \in DOMAIN vers[k] /\ k # "group" => vers[k][x] < NextVersion(k, x)
           /\ k = "group" => NextVersion(k, x) = 1
<1>1. x \in DOMAIN vers[k] => vers[k][x] \in Nat /\ (k = "group" => vers[k][x] = 1)
  BY DEF Versions
<1> QED
  BY <1>1 DEF NextVersion

\* The object that a write leaves.
Written(k, x, obj) ==
    IF obj = Gone THEN Gone
    ELSE Stamped(obj, NextVersion(k, x),
                 IF x \in DOMAIN api[k] THEN obj.uid ELSE NextVersion(k, x))

\* What may be written over an object: its own uid, or that of an older one.
Writable(k, x, obj) ==
    obj = Gone \/ (/\ IsObject(k, obj)
                   /\ x \in DOMAIN api[k] =>
                        obj.uid \in Nat /\ 0 < obj.uid /\ obj.uid <= vers[k][x])

\* A write as the rest of the proofs sees it.
LEMMA WriteEffect ==
    ASSUME Versions, Objects, NEW k \in Kinds, NEW x, NEW obj, Write(k, x, obj)
    PROVE  /\ DOMAIN api' = Kinds /\ DOMAIN vers' = Kinds
           /\ \A h \in Kinds : h # k => api'[h] = api[h] /\ vers'[h] = vers[h]
           /\ api'[k] = Placed(api[k], x, Written(k, x, obj))
           /\ vers'[k] = Put(vers[k], x, NextVersion(k, x))
           /\ DOMAIN feed' = DOMAIN feed
           /\ \A w \in DOMAIN feed :
                feed'[w] = IF KindOf[w] = k
                           THEN Append(feed[w], [name |-> x, obj |-> Written(k, x, obj)])
                           ELSE feed[w]
<1> DEFINE v == NextVersion(k, x)
           new == IF obj = Gone THEN Gone
                  ELSE [obj EXCEPT !.rv = v, !.uid = IF x \in DOMAIN api[k] THEN @ ELSE v]
<1>1. /\ api' = [api EXCEPT ![k] = Placed(@, x, new)]
      /\ vers' = [vers EXCEPT ![k] = Put(@, x, v)]
      /\ feed' = [w \in DOMAIN feed |->
                    IF KindOf[w] = k THEN Append(feed[w], [name |-> x, obj |-> new])
                    ELSE feed[w]]
  BY DEF Write
<1>2. new = Written(k, x, obj)
  BY DEF Written, Stamped
<1> HIDE DEF new, v
<1>3. DOMAIN api = Kinds /\ DOMAIN vers = Kinds
  BY DEF Objects, Versions
<1> QED
  BY <1>1, <1>2, <1>3 DEF v

\* The part of this that is about the objects.
LEMMA WriteApi ==
    ASSUME Versions, Objects, NEW k \in Kinds, NEW x, NEW obj, Write(k, x, obj)
    PROVE  api'[k] = Placed(api[k], x, Written(k, x, obj))
<1> DEFINE new == Written(k, x, obj)
<1>1. /\ DOMAIN api' = Kinds /\ DOMAIN vers' = Kinds
      /\ \A h \in Kinds : h # k => api'[h] = api[h] /\ vers'[h] = vers[h]
      /\ api'[k] = Placed(api[k], x, new)
      /\ vers'[k] = Put(vers[k], x, NextVersion(k, x))
      /\ DOMAIN feed' = DOMAIN feed
      /\ \A w \in DOMAIN feed :
           feed'[w] = IF KindOf[w] = k THEN Append(feed[w], [name |-> x, obj |-> new])
                      ELSE feed[w]
  BY WriteEffect
<1> QED
  BY <1>1

\* What stands under the names after one is set or taken away.
LEMMA PlacedAt ==
    ASSUME NEW f, NEW x, NEW new
    PROVE  /\ new # Gone => /\ DOMAIN Placed(f, x, new) = DOMAIN f \cup {x}
                            /\ Placed(f, x, new)[x] = new
           /\ new = Gone => DOMAIN Placed(f, x, new) = DOMAIN f \ {x}
           /\ \A y \in DOMAIN Placed(f, x, new) :
                y # x => y \in DOMAIN f /\ Placed(f, x, new)[y] = f[y]
  BY DEF Placed, Put, Without, Restrict

\* The written object is a copy of the new version.
LEMMA WrittenCopy ==
    ASSUME Versions, Objects, NEW k \in Kinds, NEW x, NEW obj, Write(k, x, obj),
           Writable(k, x, obj)
    PROVE  LET new == Written(k, x, obj)
           IN new = Gone \/ (Copy(vers', k, x, new) /\ new.rv = vers'[k][x])
<1> DEFINE v == NextVersion(k, x)
           u == IF x \in DOMAIN api[k] THEN obj.uid ELSE v
           new == Written(k, x, obj)
<1>1. CASE obj = Gone
  BY <1>1 DEF Written
<1>2. CASE obj # Gone
  <2>1. IsObject(k, obj) /\ new = Stamped(obj, v, u)
    BY <1>2 DEF Writable, Written
  <2>2. v \in Nat /\ 0 < v /\ (x \in DOMAIN vers[k] => vers[k][x] <= v)
    BY NewVersion
  <2>3. u \in Nat /\ 0 < u /\ u <= v
    <3>1. CASE x \notin DOMAIN api[k]
      BY <3>1, <2>2
    <3>2. CASE x \in DOMAIN api[k]
      <4>1. obj.uid \in Nat /\ 0 < obj.uid /\ obj.uid <= vers[k][x]
        BY <1>2, <3>2 DEF Writable
      <4>2. x \in DOMAIN vers[k] /\ vers[k][x] \in Nat
        BY <3>2 DEF Objects, Copy, Versions
      <4> HIDE DEF v
      <4> QED
        BY <4>1, <4>2, <2>2, <3>2
    <3> QED
      BY <3>1, <3>2
  <2>4. x \in DOMAIN vers'[k] /\ vers'[k][x] = v
    <3>1. vers'[k] = Put(vers[k], x, v)
      BY WriteEffect
    <3> QED
      BY <3>1 DEF Put
  <2> HIDE DEF v, u
  <2>5. IsObject(k, new) /\ new.rv = v /\ new.uid = u
    BY <2>1, StampedFields
  <2> HIDE DEF new
  <2>6. Copy(vers', k, x, new) /\ new.rv = vers'[k][x]
    BY <2>2, <2>3, <2>4, <2>5 DEF Copy
  <2> QED
    BY <2>6 DEF new
<1> QED
  BY <1>1, <1>2

\* Versions only go up.
LEMMA WriteOnward ==
    ASSUME Versions, Objects, NEW k \in Kinds, NEW x, NEW obj, Write(k, x, obj)
    PROVE  Versions' /\ Onward(vers, vers')
<1>1. /\ DOMAIN vers' = Kinds /\ \A h \in Kinds : h # k => vers'[h] = vers[h]
      /\ vers'[k] = Put(vers[k], x, NextVersion(k, x))
  BY WriteEffect
<1>2. /\ NextVersion(k, x) \in Nat
      /\ x \in DOMAIN vers[k] => vers[k][x] <= NextVersion(k, x)
      /\ k = "group" => NextVersion(k, x) = 1
  BY NewVersion
<1>3. ASSUME NEW h \in Kinds, NEW y \in DOMAIN vers'[h]
      PROVE  vers'[h][y] \in Nat /\ (h = "group" => vers'[h][y] = 1)
  BY <1>1, <1>2 DEF Versions, Put
<1>4. ASSUME NEW h \in Kinds, NEW y \in DOMAIN vers[h]
      PROVE  y \in DOMAIN vers'[h] /\ vers[h][y] <= vers'[h][y]
  <2>1. vers[h][y] \in Nat
    BY DEF Versions
  <2> QED
    BY <2>1, <1>1, <1>2 DEF Put
<1>5. Versions'
  BY <1>1, <1>3 DEF Versions
<1> QED
  BY <1>1, <1>4, <1>5 DEF Onward

\* The members of a queue when one is added or the first is taken.
LEMMA RangeAppend ==
    ASSUME NEW s, s \in Seq(Range(s)), NEW e
    PROVE  /\ Range(Append(s, e)) = Range(s) \cup {e}
           /\ Append(s, e) \in Seq(Range(s) \cup {e})
           /\ Append(s, e) \in Seq(Range(Append(s, e)))
           /\ Append(s, e) # <<>>
           /\ s # <<>> => Head(Append(s, e)) = Head(s)
<1>1. /\ Len(s) \in Nat /\ DOMAIN s = 1 .. Len(s)
      /\ DOMAIN Append(s, e) = 1 .. Len(s) + 1
      /\ \A i \in 1 .. Len(s) : Append(s, e)[i] = s[i]
      /\ Append(s, e)[Len(s) + 1] = e
  OBVIOUS
<1>2. Range(Append(s, e)) = Range(s) \cup {e}
  <2>1. ASSUME NEW y \in Range(Append(s, e)) PROVE y \in Range(s) \cup {e}
    <3>1. PICK i \in 1 .. Len(s) + 1 : y = Append(s, e)[i]
      BY <1>1 DEF Range
    <3>2. i \in 1 .. Len(s) \/ i = Len(s) + 1
      BY <1>1
    <3> QED
      BY <3>1, <3>2, <1>1 DEF Range
  <2>2. ASSUME NEW y \in Range(s) PROVE y \in Range(Append(s, e))
    <3>1. PICK i \in 1 .. Len(s) : y = s[i]
      BY <1>1 DEF Range
    <3>2. i \in 1 .. Len(s) + 1 /\ Append(s, e)[i] = y
      BY <3>1, <1>1
    <3> QED
      BY <3>2, <1>1 DEF Range
  <2>3. e \in Range(Append(s, e))
    <3>1. Len(s) + 1 \in 1 .. Len(s) + 1
      BY <1>1
    <3> QED
      BY <3>1, <1>1 DEF Range
  <2> QED
    BY <2>1, <2>2, <2>3
<1>3. Append(s, e) \in Seq(Range(s) \cup {e})
  <2>1. s \in Seq(Range(s) \cup {e})
    OBVIOUS
  <2> QED
    BY <2>1
<1>4. Append(s, e) # <<>>
  BY <1>3
<1>5. s # <<>> => Head(Append(s, e)) = Head(s)
  OBVIOUS
<1> QED
  BY <1>2, <1>3, <1>4, <1>5

\* The first of a queue is taken.
LEMMA RangeTail ==
    ASSUME NEW s, s \in Seq(Range(s)), s # <<>>
    PROVE  /\ Head(s) \in Range(s)
           /\ Tail(s) \in Seq(Range(Tail(s)))
           /\ Range(Tail(s)) \subseteq Range(s)
           /\ Range(s) = Range(Tail(s)) \cup {Head(s)}
           /\ IsInjective(s) => Head(s) \notin Range(Tail(s)) /\ IsInjective(Tail(s))
<1>1. /\ Len(s) \in Nat /\ DOMAIN s = 1 .. Len(s) /\ Len(s) > 0
      /\ Head(s) = s[1]
      /\ DOMAIN Tail(s) = 1 .. Len(s) - 1
      /\ \A i \in 1 .. Len(s) - 1 : Tail(s)[i] = s[i + 1]
      /\ Len(Tail(s)) = Len(s) - 1
  OBVIOUS
<1>2. Head(s) \in Range(s)
  <2>1. 1 \in 1 .. Len(s)
    BY <1>1
  <2> QED
    BY <2>1, <1>1 DEF Range
<1>3. Range(Tail(s)) \subseteq Range(s)
  <2>1. ASSUME NEW y \in Range(Tail(s)) PROVE y \in Range(s)
    <3>1. PICK i \in 1 .. Len(s) - 1 : y = Tail(s)[i]
      BY <1>1 DEF Range
    <3>2. i + 1 \in 1 .. Len(s) /\ y = s[i + 1]
      BY <3>1, <1>1
    <3> QED
      BY <3>2, <1>1 DEF Range
  <2> QED
    BY <2>1
<1>4. ASSUME NEW y \in Range(s), y # Head(s) PROVE y \in Range(Tail(s))
  <2>1. PICK i \in 1 .. Len(s) : y = s[i]
    BY <1>1 DEF Range
  <2>2. i # 1
    BY <2>1, <1>1, <1>4
  <2>3. i - 1 \in 1 .. Len(s) - 1 /\ s[(i - 1) + 1] = y
    BY <2>1, <2>2, <1>1
  <2>4. Tail(s)[i - 1] = y
    BY <2>3, <1>1
  <2> QED
    BY <2>3, <2>4, <1>1 DEF Range
<1>5. Tail(s) \in Seq(Range(Tail(s)))
  <2> DEFINE n == Len(s) - 1
             t == Tail(s)
             T == Range(t)
  <2>1. n \in Nat /\ DOMAIN t = 1 .. n /\ t \in [1 .. n -> Range(s)]
    <3>1. t \in Seq(Range(s)) /\ Len(t) = n /\ n \in Nat
      BY <1>1
    <3> HIDE DEF n, t
    <3>2. t \in [1 .. Len(t) -> Range(s)]
      BY <3>1
    <3> QED
      BY <3>1, <3>2
  <2>2. \A i \in 1 .. n : t[i] \in T
    BY <2>1 DEF Range
  <2> HIDE DEF n, t, T
  <2>3. t \in [1 .. n -> T]
    BY <2>1, <2>2
  <2>4. t \in Seq(T)
    BY <2>1, <2>3
  <2> QED
    BY <2>4 DEF t, T
<1>6. ASSUME IsInjective(s) PROVE Head(s) \notin Range(Tail(s)) /\ IsInjective(Tail(s))
  <2>1. \A i, k \in 1 .. Len(s) : s[i] = s[k] => i = k
    BY <1>1, <1>6 DEF IsInjective
  <2>2. \A i \in 1 .. Len(s) - 1 : i + 1 \in 1 .. Len(s) /\ 1 \in 1 .. Len(s) /\ i + 1 # 1
    BY <1>1
  <2>3. ASSUME Head(s) \in Range(Tail(s)) PROVE FALSE
    <3>1. PICK i \in 1 .. Len(s) - 1 : Head(s) = Tail(s)[i]
      BY <2>3, <1>1 DEF Range
    <3> QED
      BY <3>1, <2>1, <2>2, <1>1
  <2>4. ASSUME NEW i \in 1 .. Len(s) - 1, NEW k \in 1 .. Len(s) - 1, Tail(s)[i] = Tail(s)[k]
        PROVE  i = k
    <3>1. i + 1 = k + 1
      BY <2>1, <2>2, <2>4, <1>1
    <3> QED
      BY <3>1
  <2> QED
    BY <2>3, <2>4, <1>1 DEF IsInjective
<1> QED
  BY <1>2, <1>3, <1>4, <1>5, <1>6

\* A write keeps what is said of the objects and of the copies under way.
LEMMA WriteShared ==
    ASSUME Shared, NEW k \in Kinds, NEW x, NEW obj, Write(k, x, obj), Writable(k, x, obj),
           UNCHANGED <<store, opt>>
    PROVE  Shared' /\ Onward(vers, vers')
<1> DEFINE new == Written(k, x, obj)
<1>1. Versions /\ Objects /\ Feeds /\ Stores
  BY DEF Shared
<1>2. Versions' /\ Onward(vers, vers')
  BY <1>1, WriteOnward
<1>3. new = Gone \/ (Copy(vers', k, x, new) /\ new.rv = vers'[k][x])
  BY <1>1, WrittenCopy
<1>4. /\ DOMAIN api' = Kinds
      /\ \A h \in Kinds : h # k => api'[h] = api[h] /\ vers'[h] = vers[h]
      /\ api'[k] = Placed(api[k], x, new)
      /\ vers'[k] = Put(vers[k], x, NextVersion(k, x))
      /\ DOMAIN feed' = DOMAIN feed
      /\ \A w \in DOMAIN feed :
           feed'[w] = IF KindOf[w] = k THEN Append(feed[w], [name |-> x, obj |-> new])
                      ELSE feed[w]
  BY <1>1, WriteEffect
<1> HIDE DEF new
<1>5. ASSUME NEW h \in Kinds, NEW y, NEW c, Copy(vers, h, y, c) PROVE Copy(vers', h, y, c)
  <2>1. y \in DOMAIN vers[h] /\ y \in DOMAIN vers'[h]
    BY <1>2, <1>5 DEF Copy, Onward
  <2>2. vers[h][y] \in Nat /\ vers'[h][y] \in Nat
    BY <2>1, <1>1, <1>2 DEF Versions
  <2> QED
    BY <2>2, <1>2, <1>5, CopyStays
<1>6. Objects'
  <2>1. ASSUME NEW h \in Kinds, NEW y \in DOMAIN api'[h]
        PROVE  Copy(vers', h, y, api'[h][y]) /\ api'[h][y].rv = vers'[h][y]
    <3>1. CASE h # k
      <4>1. y \in DOMAIN api[h] /\ api'[h] = api[h] /\ vers'[h] = vers[h]
        BY <3>1, <1>4
      <4>2. Copy(vers, h, y, api[h][y]) /\ api[h][y].rv = vers[h][y]
        BY <4>1, <1>1 DEF Objects
      <4> QED
        BY <4>1, <4>2, <1>5
    <3>2. CASE h = k /\ y # x
      <4>0. api'[k] = Placed(api[k], x, new) /\ y \in DOMAIN Placed(api[k], x, new)
        BY <3>2, <1>4
      <4>1. y \in DOMAIN api[k] /\ api'[k][y] = api[k][y]
        BY <4>0, <3>2 DEF Placed, Put, Without, Restrict
      <4>2. Copy(vers, k, y, api[k][y]) /\ api[k][y].rv = vers[k][y]
        BY <4>1, <1>1 DEF Objects
      <4>3. vers'[k][y] = vers[k][y]
        BY <1>4, <3>2, <4>2 DEF Put, Copy
      <4> QED
        BY <3>2, <4>1, <4>2, <4>3, <1>5
    <3>3. CASE h = k /\ y = x
      <4>0. api'[k] = Placed(api[k], x, new) /\ x \in DOMAIN Placed(api[k], x, new)
        BY <3>3, <1>4
      <4>1. new # Gone /\ api'[k][x] = new
        BY <4>0 DEF Placed, Put, Without, Restrict
      <4> QED
        BY <3>3, <4>1, <1>3
    <3> QED
      BY <3>1, <3>2, <3>3
  <2> QED
    BY <2>1, <1>4 DEF Objects
<1>7. Feeds'
  <2>1. /\ opt' = opt /\ opt.on \subseteq Watches
        /\ DOMAIN feed' = opt.on /\ DOMAIN store' = opt.on
    BY <1>1, <1>4 DEF Feeds
  <2>2. ASSUME NEW w \in opt.on
        PROVE  /\ feed'[w] \in Seq(Range(feed'[w]))
               /\ \A d \in Range(feed'[w]) : d.obj = Gone \/ Copy(vers', KindOf[w], d.name, d.obj)
    <3>1. /\ feed[w] \in Seq(Range(feed[w]))
          /\ \A d \in Range(feed[w]) : d.obj = Gone \/ Copy(vers, KindOf[w], d.name, d.obj)
      BY <1>1 DEF Feeds
    <3>2. KindOf[w] \in Kinds
      BY <2>1, KindsOf
    <3>3. \A d \in Range(feed[w]) : d.obj = Gone \/ Copy(vers', KindOf[w], d.name, d.obj)
      BY <3>1, <3>2, <1>5
    <3>4. CASE KindOf[w] # k
      <4>1. feed'[w] = feed[w]
        BY <3>4, <2>1, <1>4
      <4> QED
        BY <4>1, <3>1, <3>3
    <3>5. CASE KindOf[w] = k
      <4> DEFINE d == [name |-> x, obj |-> new]
      <4>1. feed'[w] = Append(feed[w], d)
        BY <3>5, <2>1, <1>4
      <4>2. d.name = x /\ d.obj = new
        OBVIOUS
      <4> HIDE DEF d
      <4>3. Range(Append(feed[w], d)) = Range(feed[w]) \cup {d}
            /\ Append(feed[w], d) \in Seq(Range(feed[w]) \cup {d})
        BY <3>1, RangeAppend
      <4> QED
        BY <4>1, <4>2, <4>3, <3>3, <3>5, <1>3
    <3> QED
      BY <3>4, <3>5
  <2> QED
    BY <2>1, <2>2 DEF Feeds
<1>8. Stores'
  <2>1. ASSUME NEW w \in opt.on, NEW y \in DOMAIN store[w]
        PROVE  Copy(vers', KindOf[w], y, store[w][y])
    <3>1. KindOf[w] \in Kinds
      BY <1>1, KindsOf DEF Feeds
    <3>2. Copy(vers, KindOf[w], y, store[w][y])
      BY <1>1 DEF Stores
    <3> QED
      BY <3>1, <3>2, <1>5
  <2> QED
    BY <2>1 DEF Stores
<1> QED
  BY <1>2, <1>6, <1>7, <1>8 DEF Shared

-----------------------------------------------------------------------------
(***************************************************************************)
(* What the steps write.                                                   *)
(***************************************************************************)

\* A step writes at most one object, of one of the kinds K, or leaves the API
\* server alone.
Served(K) ==
    /\ \/ Unwritten
       \/ \E k \in K : \E x : \E obj : Write(k, x, obj) /\ Writable(k, x, obj)
    /\ UNCHANGED <<store, opt>>

NotJobs == Kinds \ {"job"}

\* A field of an object is changed that is neither its uid nor its version.
LEMMA ChangedFields ==
    ASSUME Shared, NEW k \in Kinds, NEW x \in DOMAIN api[k], NEW new,
           DOMAIN new = DOMAIN api[k][x], new.uid = api[k][x].uid,
           k = "queue" => IsQueue(new) /\ new.weight > 0,
           k = "job" => IsJob(new)
    PROVE  Writable(k, x, new)
<1>1. Copy(vers, k, x, api[k][x]) /\ api[k][x].rv = vers[k][x]
  BY DEF Shared, Objects
<1>2. IsObject(k, new)
  BY <1>1 DEF Copy, IsObject
<1>3. new.uid \in Nat /\ 0 < new.uid /\ new.uid <= vers[k][x]
  BY <1>1 DEF Copy
<1> QED
  BY <1>2, <1>3 DEF Writable

\* A new object.
LEMMA NewObject ==
    ASSUME NEW k, NEW x, x \notin DOMAIN api[k], NEW new, IsObject(k, new)
    PROVE  Writable(k, x, new)
  BY DEF Writable

\* One write of an allowed object.
LEMMA ServedBy ==
    ASSUME NEW K, NEW k \in K, NEW x, NEW obj, Write(k, x, obj), Writable(k, x, obj),
           UNCHANGED <<store, opt>>
    PROVE  Served(K)
  BY DEF Served

\* What writes fewer kinds writes no others.
LEMMA ServedBySome ==
    ASSUME NEW K, NEW M, Served(K), K \subseteq M
    PROVE  Served(M)
  BY DEF Served

\* Deleting is always possible.
LEMMA GoneWritable == ASSUME NEW k, NEW x PROVE Writable(k, x, Gone)
  BY DEF Writable

\* The objects of the API server have uids and versions, the queues their
\* fields.
LEMMA Stored ==
    ASSUME Shared, NEW k \in Kinds, NEW x \in DOMAIN api[k]
    PROVE  /\ IsObject(k, api[k][x]) /\ api[k][x] # Gone
           /\ {"uid", "rv"} \subseteq DOMAIN api[k][x]
<1>1. IsObject(k, api[k][x])
  BY DEF Shared, Objects, Copy
<1>2. {"uid", "rv"} \subseteq DOMAIN api[k][x]
  BY <1>1 DEF IsObject
<1> QED
  BY <1>1, <1>2, NotGone

\* A user creates a queue.
LEMMA CreateQueueServed ==
    ASSUME Shared, NEW q \in DOMAIN NewQueues, CreateQueue(q)
    PROVE  Served(NotJobs)
<1> DEFINE new == createQueuePatch(NewQueues[q])
           obj == [new EXCEPT !.state = ""]
<1>1. /\ q \notin DOMAIN api["queue"] /\ validateQueue(q, new, api["queue"])
      /\ Write("queue", q, obj) /\ UNCHANGED <<store, opt>>
  BY DEF CreateQueue, Outside
<1>2. IsQueue(NewQueues[q])
  BY ManagerAssumption
<1>3. IsQueue(new)
  BY <1>2 DEF createQueuePatch, IsQueue
<1> HIDE DEF new
<1>4. IsQueue(obj) /\ obj.weight = new.weight
  BY <1>3 DEF IsQueue, QueueStates
<1>5. obj.weight > 0
  BY <1>4, <1>1 DEF validateQueue
<1> HIDE DEF obj
<1>6. IsObject("queue", obj)
  BY <1>4, <1>5 DEF IsObject, IsQueue
<1>7. Writable("queue", q, obj)
  BY <1>1, <1>6, NewObject
<1> QED
  BY <1>1, <1>7, ServedBy, KindsOf DEF NotJobs

\* Commands are numbered downwards.
Commands ==
    /\ "operate" \in DOMAIN left /\ left.operate \in Nat
    /\ \A c \in DOMAIN api["command"] : c \in Nat /\ left.operate < c

\* A user operates a queue: a command of a new name, or another weight.
LEMMA OperateQueueServed ==
    ASSUME Shared, Commands, NEW q, OperateQueue(q)
    PROVE  Served(NotJobs)
<1>1. q \in DOMAIN api["queue"] /\ UNCHANGED <<store, opt>>
  BY DEF OperateQueue, Outside
<1>2. CASE \E action \in opt.actions : createQueueCommand(q, action)
  <2>1. PICK action \in opt.actions : createQueueCommand(q, action)
    BY <1>2
  <2> DEFINE obj == [uid |-> 0, rv |-> 0, kind |-> "Queue", target |-> q, action |-> action]
  <2>2. Write("command", left.operate, obj)
    BY <2>1 DEF createQueueCommand
  <2>3. IsObject("command", obj)
    BY DEF IsObject
  <2> HIDE DEF obj
  <2>4. Writable("command", left.operate, obj)
    <3>1. left.operate \notin DOMAIN api["command"]
      BY DEF Commands
    <3> QED
      BY <2>3, <3>1, NewObject
  <2> QED
    BY <1>1, <2>2, <2>4, ServedBy, KindsOf DEF NotJobs
<1>3. CASE \E weight \in {0, 2} :
             LET new == [api["queue"][q] EXCEPT !.weight = weight]
             IN validateQueue(q, new, api["queue"]) /\ Write("queue", q, new)
  <2>1. PICK weight \in {0, 2} :
          LET new == [api["queue"][q] EXCEPT !.weight = weight]
          IN validateQueue(q, new, api["queue"]) /\ Write("queue", q, new)
    BY <1>3
  <2> DEFINE old == api["queue"][q]
             new == [old EXCEPT !.weight = weight]
  <2>2. IsQueue(old) /\ "uid" \in DOMAIN old
    BY <1>1, Stored, KindsOf DEF IsObject
  <2> HIDE DEF old
  <2>3. IsQueue(new) /\ DOMAIN new = DOMAIN old /\ new.uid = old.uid
    BY <2>2 DEF IsQueue
  <2> HIDE DEF new
  <2>4. new.weight > 0 /\ Write("queue", q, new)
    BY <2>1 DEF new, old, validateQueue
  <2>5. Writable("queue", q, new)
    BY <1>1, <2>3, <2>4, ChangedFields, KindsOf DEF old
  <2> QED
    BY <1>1, <2>4, <2>5, ServedBy, KindsOf DEF NotJobs
<1> QED
  BY <1>2, <1>3 DEF OperateQueue

\* The scheduler reports on a queue.
LEMMA QueueStatusServed ==
    ASSUME Shared, NEW q, UpdateQueueStatus(q)
    PROVE  Served(NotJobs)
<1> DEFINE old == api["queue"][q]
           new == [old EXCEPT !.allocated = @ + 1]
<1>1. q \in DOMAIN api["queue"] /\ UNCHANGED <<store, opt>> /\ Write("queue", q, new)
  BY DEF UpdateQueueStatus, Outside
<1>2. IsQueue(old) /\ old.weight > 0 /\ "uid" \in DOMAIN old
  BY <1>1, Stored, KindsOf DEF IsObject
<1> HIDE DEF old
<1>3. /\ IsQueue(new) /\ new.weight > 0
      /\ DOMAIN new = DOMAIN old /\ new.uid = old.uid
  BY <1>2 DEF IsQueue
<1> HIDE DEF new
<1>4. Writable("queue", q, new)
  BY <1>1, <1>3, ChangedFields, KindsOf DEF old
<1> QED
  BY <1>1, <1>4, ServedBy, KindsOf DEF NotJobs

\* Objects of the kinds that only have uids and versions: any other field may
\* be changed.
Plain == {"group", "pod", "rs", "command"}

\* An object of a kind without further rules is changed.
LEMMA PlainServed ==
    ASSUME Shared, NEW k \in Plain, NEW x \in DOMAIN api[k], NEW new,
           DOMAIN new = DOMAIN api[k][x], new.uid = api[k][x].uid,
           Write(k, x, new), UNCHANGED <<store, opt>>
    PROVE  Served(NotJobs)
<1>1. k \in Kinds /\ k \in NotJobs /\ k # "queue" /\ k # "job"
  BY DEF Plain, Kinds, NotJobs
<1>2. Writable(k, x, new)
  BY <1>1, ChangedFields
<1> QED
  BY <1>1, <1>2, ServedBy

\* An object of such a kind is created.
LEMMA PlainCreated ==
    ASSUME NEW k \in Plain, NEW x, x \notin DOMAIN api[k], NEW new,
           {"uid", "rv"} \subseteq DOMAIN new, Write(k, x, new), UNCHANGED <<store, opt>>
    PROVE  Served(NotJobs)
<1>1. k \in NotJobs /\ IsObject(k, new)
  BY DEF Plain, Kinds, NotJobs, IsObject
<1> QED
  BY <1>1, NewObject, ServedBy

\* An object is deleted.
LEMMA GoneServed ==
    ASSUME NEW K, NEW k \in K, NEW x, Write(k, x, Gone), UNCHANGED <<store, opt>>
    PROVE  Served(K)
  BY GoneWritable, ServedBy

\* The scheduler moves a PodGroup on.
LEMMA PodGroupServed ==
    ASSUME Shared, NEW g, UpdatePodGroup(g)
    PROVE  Served(NotJobs)
<1>1. PICK p : Write("group", g, [api["group"][g] EXCEPT !.phase = p])
  BY DEF UpdatePodGroup
<1> DEFINE old == api["group"][g]
           new == [old EXCEPT !.phase = p]
<1>2. g \in DOMAIN api["group"] /\ UNCHANGED <<store, opt>>
  BY DEF UpdatePodGroup, Outside
<1>3. {"uid", "rv"} \subseteq DOMAIN old
  BY <1>2, Stored, KindsOf
<1> HIDE DEF old
<1>4. DOMAIN new = DOMAIN old /\ new.uid = old.uid
  BY <1>3
<1>5. "group" \in Plain /\ Write("group", g, new)
  BY <1>1 DEF Plain, old
<1> HIDE DEF new
<1> QED
  BY <1>2, <1>4, <1>5, PlainServed DEF old

\* The job controller creates a PodGroup.
LEMMA JobGroupServed ==
    ASSUME NEW j, JobGroup(j)
    PROVE  Served(NotJobs)
<1> DEFINE new == createPodGroupPatch([uid |-> 0, rv |-> 0, queue |-> api["job"][j].spec.queue,
                                       phase |-> "", owner |-> GroupOf(j), preemptable |-> ""],
                                      opt.nsQueue)
<1>1. /\ GroupOf(j) \notin DOMAIN api["group"] /\ UNCHANGED <<store, opt>>
      /\ Write("group", GroupOf(j), new)
  BY DEF JobGroup, Outside
<1>2. {"uid", "rv"} \subseteq DOMAIN new
  BY DEF createPodGroupPatch
<1> HIDE DEF new
<1>3. "group" \in Plain
  BY DEF Plain
<1> QED
  BY <1>1, <1>2, <1>3, PlainCreated

\* The webhook keeps the fields of a pod.
LEMMA PodPatchFields ==
    ASSUME NEW pod PROVE DOMAIN createPodPatch(pod) = DOMAIN pod
  BY DEF createPodPatch

\* The job controller creates a pod.
LEMMA JobPodServed ==
    ASSUME NEW j, NEW p \in DOMAIN NewPods, JobPod(j, p)
    PROVE  Served(NotJobs)
<1> DEFINE pod == [NewPods[p] EXCEPT !.group = GroupOf(j), !.owner = GroupOf(j)]
           new == createPodPatch(pod)
<1>1. /\ p \notin DOMAIN api["pod"] /\ UNCHANGED <<store, opt>>
      /\ Write("pod", p, new)
  BY DEF JobPod, Outside
<1>2. {"uid", "rv"} \subseteq DOMAIN pod
  BY ManagerAssumption
<1> HIDE DEF pod
<1>3. {"uid", "rv"} \subseteq DOMAIN new /\ "pod" \in Plain
  BY <1>2, PodPatchFields DEF Plain
<1> HIDE DEF new
<1> QED
  BY <1>1, <1>3, PlainCreated

\* Somebody else creates a pod.
LEMMA CreatePodServed ==
    ASSUME NEW p \in DOMAIN NewPods, CreatePod(p)
    PROVE  Served(NotJobs)
<1> DEFINE set == NewPods[p].owner
           owner == IF set = <<>> THEN <<>> ELSE <<"rs", set[2], api["rs"][set[2]].uid>>
           pod == [NewPods[p] EXCEPT !.owner = owner]
           new == createPodPatch(pod)
<1>1. /\ p \notin DOMAIN api["pod"] /\ UNCHANGED <<store, opt>>
      /\ Write("pod", p, new)
  BY DEF CreatePod, Outside
<1> HIDE DEF owner
<1>2. {"uid", "rv"} \subseteq DOMAIN pod
  BY ManagerAssumption
<1> HIDE DEF pod
<1>3. {"uid", "rv"} \subseteq DOMAIN new /\ "pod" \in Plain
  BY <1>2, PodPatchFields DEF Plain
<1> HIDE DEF new
<1> QED
  BY <1>1, <1>3, PlainCreated

\* A ReplicaSet is scaled.
LEMMA ScaleSetServed ==
    ASSUME Shared, NEW r, ScaleSet(r)
    PROVE  Served(NotJobs)
<1> DEFINE old == api["rs"][r]
           new == [old EXCEPT !.replicas = 1 - @]
<1>1. r \in DOMAIN api["rs"] /\ UNCHANGED <<store, opt>> /\ Write("rs", r, new)
  BY DEF ScaleSet, Outside
<1>2. {"uid", "rv"} \subseteq DOMAIN old
  BY <1>1, Stored, KindsOf
<1> HIDE DEF old
<1>3. DOMAIN new = DOMAIN old /\ new.uid = old.uid /\ "rs" \in Plain
  BY <1>2 DEF Plain
<1> HIDE DEF new
<1> QED
  BY <1>1, <1>3, PlainServed DEF old

\* A pod is marked for deletion.
LEMMA MarkPodServed ==
    ASSUME Shared, NEW p, DeletePodOf(p) \/ UserDeletesPod(p)
    PROVE  Served(NotJobs)
<1> DEFINE old == api["pod"][p]
           new == [old EXCEPT !.deleting = TRUE]
<1>1. p \in DOMAIN api["pod"] /\ UNCHANGED <<store, opt>> /\ Write("pod", p, new)
  BY DEF DeletePodOf, UserDeletesPod, Outside
<1>2. {"uid", "rv"} \subseteq DOMAIN old
  BY <1>1, Stored, KindsOf
<1> HIDE DEF old
<1>3. DOMAIN new = DOMAIN old /\ new.uid = old.uid /\ "pod" \in Plain
  BY <1>2 DEF Plain
<1> HIDE DEF new
<1> QED
  BY <1>1, <1>3, PlainServed DEF old

-----------------------------------------------------------------------------
(***************************************************************************)
(* Jobs.                                                                   *)
(***************************************************************************)

\* A function on 1 .. n has length n.
LEMMA LenOf ==
    ASSUME NEW n \in Nat, NEW S, NEW f \in [1 .. n -> S]
    PROVE  Len(f) = n
<1>1. f \in Seq(S)
  OBVIOUS
<1> QED
  BY <1>1

\* The defaults keep a Job's shape.
LEMMA MutatedTasks ==
    ASSUME NEW tasks, IsTasks(tasks)
    PROVE  IsTasks(mutateSpec(tasks)) /\ Len(mutateSpec(tasks)) = Len(tasks)
<1> DEFINE n == Len(tasks)
           new == mutateSpec(tasks)
           S == {new[i] : i \in 1 .. n}
<1>1. n \in Nat /\ DOMAIN tasks = 1 .. n
  BY DEF IsTasks
<1>2. DOMAIN new = 1 .. n /\ new \in [1 .. n -> S]
  BY <1>1 DEF mutateSpec
<1>3. Len(new) = n
  <2> HIDE DEF new, S, n
  <2> QED
    BY <1>1, <1>2, LenOf
<1>4. ASSUME NEW i \in 1 .. n PROVE IsTask(new[i])
  <2>1. IsTask(tasks[i])
    BY <1>1 DEF IsTasks
  <2>2. DOMAIN new[i] = DOMAIN tasks[i] /\ new[i].dependsOn = tasks[i].dependsOn
    BY <2>1, <1>1 DEF mutateSpec, IsTask
  <2> HIDE DEF new
  <2> QED
    BY <2>1, <2>2 DEF IsTask
<1> HIDE DEF new, n
<1>5. IsTasks(new) /\ Len(new) = n
  <2>1. S = Range(new)
    BY <1>2 DEF Range
  <2>2. new \in Seq(S)
    BY <1>1, <1>2
  <2> QED
    BY <2>1, <2>2, <1>2, <1>3, <1>4 DEF IsTasks
<1> QED
  BY <1>5 DEF new, n

\* What the mutating webhook leaves is a specification.
LEMMA PatchedSpec ==
    ASSUME NEW spec, IsSpec(spec)
    PROVE  IsSpec(createJobPatch(spec))
<1> DEFINE tasks == mutateSpec(spec.tasks)
           new == createJobPatch(spec)
<1>1. IsTasks(tasks)
  BY MutatedTasks DEF IsSpec, IsTasks
<1> HIDE DEF tasks
<1>2. DOMAIN new = DOMAIN spec /\ new.ttl = spec.ttl /\ new.tasks = tasks
  BY DEF createJobPatch, IsSpec, tasks
<1> HIDE DEF new
<1>3. IsSpec(new)
  BY <1>1, <1>2 DEF IsSpec, IsTasks
<1> QED
  BY <1>3 DEF new

\* What the webhook lets in can be run.
LEMMA CreatedRuns ==
    ASSUME NEW spec, IsSpec(spec), NEW queues, validateJobCreate(spec, queues)
    PROVE  CanRun(spec)
<1> DEFINE tasks == spec.tasks
           names == TaskNames(tasks)
<1>1. IsTasks(tasks) /\ tasks # <<>>
  BY DEF IsSpec, IsTasks, validateJobCreate
<1>2. Distinct(tasks)
  BY DEF validateJobCreate, Distinct
<1>3. spec.min <= TotalReplicas(tasks)
  BY DEF validateJobCreate
<1>4. \A i \in DOMAIN tasks : \A m \in tasks[i].min : m <= tasks[i].replicas
  BY DEF validateJobCreate, validTask
<1>5. Cardinality(names) = Len(tasks)
  BY <1>1, <1>2, NamesCounted
<1>6. \E rank \in [names -> 1 .. Len(tasks)] :
        \A i \in DOMAIN tasks : \A d \in Needs(tasks[i]) :
          d \in names /\ rank[d] < rank[tasks[i].name]
  <2>1. CASE \E i \in DOMAIN tasks : tasks[i].dependsOn # {}
    <3>1. topoSort(tasks)
      BY <2>1 DEF validateJobCreate
    <3> HIDE DEF tasks
    <3> QED
      BY <1>1, <1>2, <3>1, Sorted
  <2>2. CASE \A i \in DOMAIN tasks : tasks[i].dependsOn = {}
    <3> DEFINE rank == [t \in names |-> 1]
    <3>1. Len(tasks) \in Nat /\ Len(tasks) # 0
      <4>1. Len(tasks) \in Nat /\ DOMAIN tasks = 1 .. Len(tasks)
        BY <1>1 DEF IsTasks
      <4>2. ASSUME Len(tasks) = 0 PROVE FALSE
        BY <4>1, <4>2, <1>1
      <4> QED
        BY <4>1, <4>2
    <3>2. rank \in [names -> 1 .. Len(tasks)]
      <4> HIDE DEF tasks, names
      <4> QED
        BY <3>1
    <3>3. \A i \in DOMAIN tasks : Needs(tasks[i]) = {}
      BY <2>2 DEF Needs
    <3> HIDE DEF rank
    <3> QED
      BY <3>2, <3>3
  <2> QED
    BY <2>1, <2>2
<1> HIDE DEF names
<1> QED
  BY <1>3, <1>4, <1>5, <1>6 DEF CanRun, names

\* What the webhook lets a user change leaves the names, the dependencies and
\* the time to live.
LEMMA FixedParts ==
    ASSUME NEW old, NEW new, IsSpec(old), IsSpec(new), Fixed(old) = Fixed(new)
    PROVE  /\ old.ttl = new.ttl
           /\ DOMAIN old.tasks = DOMAIN new.tasks
           /\ \A i \in DOMAIN old.tasks : /\ old.tasks[i].name = new.tasks[i].name
                                          /\ old.tasks[i].dependsOn = new.tasks[i].dependsOn
<1> DEFINE Zero(tasks) == [i \in DOMAIN tasks |-> [tasks[i] EXCEPT !.replicas = 0, !.min = {}]]
<1>1. ASSUME NEW spec, IsSpec(spec)
      PROVE  Fixed(spec).ttl = spec.ttl /\ Fixed(spec).tasks = Zero(spec.tasks)
  BY <1>1 DEF Fixed, IsSpec
<1>2. ASSUME NEW spec, IsSpec(spec), NEW i \in DOMAIN spec.tasks
      PROVE  /\ Zero(spec.tasks)[i].name = spec.tasks[i].name
             /\ Zero(spec.tasks)[i].dependsOn = spec.tasks[i].dependsOn
  <2>1. {"name", "dependsOn"} \subseteq DOMAIN spec.tasks[i]
    BY <1>2 DEF IsSpec, IsTask
  <2> QED
    BY <2>1
<1>3. old.ttl = new.ttl /\ Zero(old.tasks) = Zero(new.tasks)
  BY <1>1, ZenonT(60)
<1>4. \A tasks : DOMAIN Zero(tasks) = DOMAIN tasks
  OBVIOUS
<1> HIDE DEF Zero
<1>5. DOMAIN old.tasks = DOMAIN new.tasks
  BY <1>3, <1>4
<1> QED
  BY <1>2, <1>3, <1>5

\* An update that the webhook lets through leaves a Job that can be run.
LEMMA UpdatedRuns ==
    ASSUME NEW old, NEW new, IsSpec(old), IsSpec(new), validateJobUpdate(old, new),
           CanRun(old)
    PROVE  CanRun(new)
<1>1. /\ DOMAIN old.tasks = DOMAIN new.tasks
      /\ \A i \in DOMAIN old.tasks : /\ old.tasks[i].name = new.tasks[i].name
                                     /\ old.tasks[i].dependsOn = new.tasks[i].dependsOn
  BY FixedParts DEF validateJobUpdate
<1>2. TaskNames(old.tasks) = TaskNames(new.tasks)
  BY <1>1 DEF TaskNames
<1>3. \A i \in DOMAIN old.tasks : Needs(old.tasks[i]) = Needs(new.tasks[i])
  BY <1>1 DEF Needs
<1>4. /\ new.min <= TotalReplicas(new.tasks)
      /\ Len(old.tasks) = Len(new.tasks)
      /\ \A i \in DOMAIN new.tasks : \A m \in new.tasks[i].min : m <= new.tasks[i].replicas
  BY DEF validateJobUpdate, validTask
<1> DEFINE names == TaskNames(old.tasks)
<1>5. /\ Cardinality(names) = Len(old.tasks)
      /\ \E rank \in [names -> 1 .. Len(old.tasks)] :
           \A i \in DOMAIN old.tasks : \A d \in Needs(old.tasks[i]) :
             d \in names /\ rank[d] < rank[old.tasks[i].name]
  BY DEF CanRun
<1>6. names = TaskNames(new.tasks)
  BY <1>2
<1> HIDE DEF names
<1>7. \E rank \in [names -> 1 .. Len(new.tasks)] :
        \A i \in DOMAIN new.tasks : \A d \in Needs(new.tasks[i]) :
          d \in names /\ rank[d] < rank[new.tasks[i].name]
  BY <1>1, <1>3, <1>4, <1>5
<1> QED
  BY <1>4, <1>5, <1>6, <1>7 DEF CanRun

\* The Job after kubectl edit.
Edited(spec, e) == [spec EXCEPT !.min = e[1], !.tasks[1].replicas = e[2],
                                !.tasks[1].min = e[3], !.ttl = e[4]]

\* What an edit leaves is a specification.
LEMMA EditedSpec ==
    ASSUME NEW spec, IsSpec(spec), NEW e, e[4] \in SUBSET Int
    PROVE  IsSpec(Edited(spec, e))
<1> DEFINE new == Edited(spec, e)
           first == [spec.tasks[1] EXCEPT !.replicas = e[2], !.min = e[3]]
           tasks == [spec.tasks EXCEPT ![1] = first]
<1>1. /\ DOMAIN new = DOMAIN spec /\ new.ttl = e[4]
      /\ new.tasks = [[spec.tasks EXCEPT ![1].replicas = e[2]] EXCEPT ![1].min = e[3]]
  BY DEF Edited, IsSpec
<1>2. new.tasks = tasks
  BY <1>1
<1> HIDE DEF new
<1>3. /\ Len(spec.tasks) \in Nat /\ DOMAIN spec.tasks = 1 .. Len(spec.tasks)
      /\ \A i \in DOMAIN spec.tasks : IsTask(spec.tasks[i])
  BY DEF IsSpec
<1>4. DOMAIN tasks = DOMAIN spec.tasks
  OBVIOUS
<1>5. ASSUME NEW i \in DOMAIN tasks PROVE IsTask(tasks[i])
  <2>1. IsTask(spec.tasks[i])
    BY <1>3, <1>4
  <2>2. CASE i # 1
    BY <2>1, <2>2
  <2>3. CASE i = 1
    <3>1. tasks[1] = first
      BY <2>3
    <3>2. IsTask(first)
      BY <2>1, <2>3 DEF IsTask
    <3> QED
      BY <3>1, <3>2, <2>3
  <2> QED
    BY <2>2, <2>3
<1>6. tasks \in Seq(Range(tasks))
  <2> DEFINE n == Len(spec.tasks)
             S == Range(tasks)
  <2>1. n \in Nat /\ DOMAIN tasks = 1 .. n
    BY <1>3, <1>4
  <2>2. tasks \in [1 .. n -> S]
    BY <2>1 DEF Range
  <2> HIDE DEF n, tasks, S
  <2>3. tasks \in Seq(S)
    BY <2>1, <2>2
  <2> QED
    BY <2>3 DEF S
<1> HIDE DEF tasks
<1>7. IsSpec(new)
  BY <1>1, <1>2, <1>5, <1>6 DEF IsSpec
<1> QED
  BY <1>7 DEF new

\* The same Job at a later time: what the garbage collector judges by stays,
\* and it is not marked before its time.
Continues(old, obj) ==
    /\ obj.uid = old.uid /\ obj.spec.ttl = old.spec.ttl
    /\ isJobFinished(old) => obj.phase = old.phase /\ obj.at = old.at
    /\ obj.deleting # old.deleting => needsCleanup(old) /\ ExpireAt(old) <= clock

\* A step that writes one Job.
ChangesJob(j, obj) ==
    /\ Write("job", j, obj) /\ Writable("job", j, obj)
    /\ UNCHANGED <<store, opt, clock>>
    /\ obj # Gone => /\ IsJob(obj) /\ CanRun(obj.spec)
                     /\ j \in DOMAIN api["job"] => Continues(api["job"][j], obj)

\* A Job in the API server.
LEMMA StoredJob ==
    ASSUME Shared, NEW j \in DOMAIN api["job"]
    PROVE  /\ IsJob(api["job"][j]) /\ api["job"][j] # Gone
           /\ api["job"][j].uid \in Nat /\ 0 < api["job"][j].uid
           /\ j \in DOMAIN vers["job"] /\ api["job"][j].uid <= vers["job"][j]
<1>1. Copy(vers, "job", j, api["job"][j]) /\ api["job"][j].rv = vers["job"][j]
  BY KindsOf DEF Shared, Objects
<1>2. IsJob(api["job"][j]) /\ api["job"][j] # Gone
  BY <1>1, NotGone DEF Copy, IsObject
<1> QED
  BY <1>1, <1>2 DEF Copy

\* A changed Job may be written.
LEMMA JobWritable ==
    ASSUME Shared, NEW j \in DOMAIN api["job"], NEW new, IsJob(new),
           new.uid = api["job"][j].uid
    PROVE  Writable("job", j, new)
<1>1. IsObject("job", new)
  BY DEF IsObject, IsJob
<1> QED
  BY <1>1, StoredJob DEF Writable

\* A user submits a Job.
LEMMA RunJobChanges ==
    ASSUME clock \in Int, NEW j \in DOMAIN NewJobs, RunJob(j)
    PROVE  \E obj : ChangesJob(j, obj)
<1>1. PICK spec \in NewJobs[j] :
        LET new == createJobPatch(spec)
        IN /\ AdmitJobs("Create", new, new, api["queue"])
           /\ Write("job", j, [uid |-> 0, rv |-> 0, spec |-> new, phase |-> "Pending",
                               at |-> clock, deleting |-> FALSE])
  BY DEF RunJob
<1> DEFINE new == createJobPatch(spec)
           obj == [uid |-> 0, rv |-> 0, spec |-> new, phase |-> "Pending",
                   at |-> clock, deleting |-> FALSE]
<1>2. j \notin DOMAIN api["job"] /\ UNCHANGED <<store, opt, clock>>
  BY DEF RunJob, Outside
<1>3. IsSpec(spec)
  BY ManagerAssumption
<1>4. IsSpec(new) /\ validateJobCreate(new, api["queue"]) /\ Write("job", j, obj)
  BY <1>1, <1>3, PatchedSpec DEF AdmitJobs
<1> HIDE DEF new
<1>5. CanRun(new)
  BY <1>4, CreatedRuns
<1>6. IsJob(obj) /\ obj.spec = new
  BY <1>4 DEF IsJob
<1> HIDE DEF obj
<1>7. Writable("job", j, obj)
  BY <1>2, <1>6, NewObject DEF IsObject, IsJob
<1> QED
  BY <1>2, <1>4, <1>5, <1>6, <1>7 DEF ChangesJob

\* A user edits a Job.
LEMMA EditJobChanges ==
    ASSUME Shared, AdmittedJobsRun, NEW j, EditJob(j)
    PROVE  \E obj : ChangesJob(j, obj)
<1> DEFINE job == api["job"][j]
<1>1. PICK e \in Edits : /\ AdmitJobs("Update", job.spec, Edited(job.spec, e), api["queue"])
                         /\ Write("job", j, [job EXCEPT !.spec = Edited(job.spec, e)])
  BY DEF EditJob, Edited
<1> DEFINE new == Edited(job.spec, e)
           obj == [job EXCEPT !.spec = new]
<1>2. j \in DOMAIN api["job"] /\ UNCHANGED <<store, opt, clock>>
  BY DEF EditJob, Outside
<1>3. IsJob(job) /\ CanRun(job.spec)
  BY <1>2, StoredJob DEF AdmittedJobsRun
<1>4. e[4] \in SUBSET Int
  BY ManagerAssumption
<1>5. IsSpec(job.spec) /\ IsSpec(new) /\ validateJobUpdate(job.spec, new)
  BY <1>1, <1>3, <1>4, EditedSpec DEF AdmitJobs, IsJob
<1> HIDE DEF new
<1>6. CanRun(new) /\ new.ttl = job.spec.ttl
  BY <1>3, <1>5, UpdatedRuns, FixedParts DEF validateJobUpdate
<1>7. Write("job", j, obj)
  BY <1>1 DEF new
<1> HIDE DEF job
<1>8. /\ IsJob(obj) /\ obj.spec = new /\ obj.uid = job.uid /\ obj.phase = job.phase
      /\ obj.at = job.at /\ obj.deleting = job.deleting
  BY <1>3, <1>5 DEF IsJob
<1> HIDE DEF obj
<1>9. Writable("job", j, obj)
  BY <1>2, <1>8, JobWritable DEF job
<1>10. Continues(job, obj)
  BY <1>6, <1>8 DEF Continues
<1> QED
  BY <1>2, <1>6, <1>7, <1>8, <1>9, <1>10 DEF ChangesJob, job

\* A Job finishes.
LEMMA JobEndsChanges ==
    ASSUME Shared, AdmittedJobsRun, clock \in Int, NEW j, JobEnds(j)
    PROVE  \E obj : ChangesJob(j, obj)
<1> DEFINE job == api["job"][j]
           obj == [job EXCEPT !.phase = "Completed", !.at = clock]
<1>1. /\ j \in DOMAIN api["job"] /\ ~isJobFinished(job) /\ Write("job", j, obj)
      /\ UNCHANGED <<store, opt, clock>>
  BY DEF JobEnds, Outside
<1>2. IsJob(job) /\ CanRun(job.spec)
  BY <1>1, StoredJob DEF AdmittedJobsRun
<1> HIDE DEF job
<1>3. /\ IsJob(obj) /\ obj.spec = job.spec /\ obj.uid = job.uid /\ obj.deleting = job.deleting
  BY <1>2 DEF IsJob
<1> HIDE DEF obj
<1>4. Writable("job", j, obj)
  BY <1>1, <1>3, JobWritable DEF job
<1>5. Continues(job, obj)
  BY <1>1, <1>3 DEF Continues
<1> QED
  BY <1>1, <1>2, <1>3, <1>4, <1>5 DEF ChangesJob, job

\* A Job is gone.
LEMMA JobGoneChanges ==
    ASSUME NEW j, DeleteJob(j) \/ JobGoes(j)
    PROVE  \E obj : ChangesJob(j, obj)
<1>1. Write("job", j, Gone) /\ UNCHANGED <<store, opt, clock>>
  BY DEF DeleteJob, JobGoes, Outside
<1> QED
  BY <1>1, GoneWritable DEF ChangesJob

-----------------------------------------------------------------------------
(***************************************************************************)
(* The garbage collector's judgement.                                      *)
(***************************************************************************)

\* The Job i with uid u, if it is still there, may be deleted.
Ripe(jobs, last, now, i, u) ==
    /\ u \in Nat /\ i \in DOMAIN last /\ u <= last[i]
    /\ i \in DOMAIN jobs /\ jobs[i].uid = u =>
         needsCleanup(jobs[i]) /\ ExpireAt(jobs[i]) <= now

Judgement ==
    /\ clock \in Int
    /\ gcc.worker.step = "delete" =>
         Ripe(api["job"], vers["job"], clock, gcc.worker.job, gcc.worker.uid)

\* What the API server has of a Job that was written.
LEMMA WrittenJob ==
    ASSUME NEW j, NEW obj, IsJob(obj)
    PROVE  LET new == Written("job", j, obj)
           IN /\ new # Gone
              /\ new.uid = IF j \in DOMAIN api["job"] THEN obj.uid ELSE NextVersion("job", j)
              /\ new.spec = obj.spec /\ new.phase = obj.phase
              /\ new.at = obj.at /\ new.deleting = obj.deleting
<1> DEFINE new == Written("job", j, obj)
           u == IF j \in DOMAIN api["job"] THEN obj.uid ELSE NextVersion("job", j)
           v == NextVersion("job", j)
<1>1. obj # Gone /\ {"uid", "rv", "spec", "phase", "at", "deleting"} \subseteq DOMAIN obj
  BY NotGone DEF IsJob
<1>2. new = Stamped(obj, v, u)
  BY <1>1 DEF Written
<1> HIDE DEF u, v
<1>3. DOMAIN Stamped(obj, v, u) = DOMAIN obj
  BY DEF Stamped
<1>4. /\ new.uid = u /\ new.spec = obj.spec /\ new.phase = obj.phase
      /\ new.at = obj.at /\ new.deleting = obj.deleting
  BY <1>1, <1>2 DEF Stamped
<1>5. new # Gone
  BY <1>1, <1>2, <1>3, NotGone
<1> QED
  BY <1>4, <1>5 DEF u

\* The other Jobs are as they were.
LEMMA JobsAround ==
    ASSUME Shared, NEW j, NEW obj, ChangesJob(j, obj)
    PROVE  LET new == Written("job", j, obj)
           IN /\ \A i : i # j => /\ i \in DOMAIN api'["job"] <=> i \in DOMAIN api["job"]
                                 /\ i \in DOMAIN api["job"] => api'["job"][i] = api["job"][i]
              /\ j \in DOMAIN api'["job"] <=> new # Gone
              /\ new # Gone => obj # Gone /\ api'["job"][j] = new
              /\ \A i : i \in DOMAIN vers["job"] =>
                   i \in DOMAIN vers'["job"] /\ vers["job"][i] <= vers'["job"][i]
              /\ j \in DOMAIN vers["job"] => vers["job"][j] < NextVersion("job", j)
<1> DEFINE new == Written("job", j, obj)
           f == api["job"]
<1>1. Versions /\ Objects /\ Write("job", j, obj)
  BY DEF Shared, ChangesJob
<1>2. api'["job"] = Placed(f, j, new)
  BY <1>1, WriteApi, KindsOf
<1>3. Onward(vers, vers')
  BY <1>1, WriteOnward, KindsOf
<1>4. j \in DOMAIN vers["job"] => vers["job"][j] < NextVersion("job", j)
  BY <1>1, NewVersion, KindsOf
<1>5. \A i : i \in DOMAIN vers["job"] =>
        i \in DOMAIN vers'["job"] /\ vers["job"][i] <= vers'["job"][i]
  BY <1>3, KindsOf DEF Onward
<1>6. new # Gone => obj # Gone
  BY DEF Written
<1> HIDE DEF new, f
<1>7. /\ \A i : i # j => /\ i \in DOMAIN Placed(f, j, new) <=> i \in DOMAIN f
                         /\ i \in DOMAIN f => Placed(f, j, new)[i] = f[i]
      /\ j \in DOMAIN Placed(f, j, new) <=> new # Gone
      /\ new # Gone => Placed(f, j, new)[j] = new
  BY DEF Placed, Put, Without, Restrict
<1> QED
  BY <1>2, <1>4, <1>5, <1>6, <1>7 DEF new, f

\* A judgement stays right while Jobs are written.
LEMMA RipeStays ==
    ASSUME Shared, NEW j, NEW obj, ChangesJob(j, obj), NEW i, NEW u,
           Ripe(api["job"], vers["job"], clock, i, u)
    PROVE  Ripe(api'["job"], vers'["job"], clock', i, u)
<1> DEFINE new == Written("job", j, obj)
<1>1. /\ \A h : h # j => /\ h \in DOMAIN api'["job"] <=> h \in DOMAIN api["job"]
                         /\ h \in DOMAIN api["job"] => api'["job"][h] = api["job"][h]
      /\ j \in DOMAIN api'["job"] <=> new # Gone
      /\ new # Gone => obj # Gone /\ api'["job"][j] = new
      /\ \A h : h \in DOMAIN vers["job"] =>
           h \in DOMAIN vers'["job"] /\ vers["job"][h] <= vers'["job"][h]
      /\ j \in DOMAIN vers["job"] => vers["job"][j] < NextVersion("job", j)
  BY JobsAround
<1>2. u \in Nat /\ i \in DOMAIN vers["job"] /\ u <= vers["job"][i] /\ clock' = clock
  BY DEF Ripe, ChangesJob
<1>3. /\ vers["job"][i] \in Nat /\ Versions' /\ NextVersion("job", i) \in Nat
  BY <1>2, WriteOnward, NewVersion, KindsOf DEF Shared, Versions, ChangesJob
<1>4. vers'["job"][i] \in Nat
  BY <1>1, <1>2, <1>3, KindsOf DEF Versions
<1>5. i \in DOMAIN vers'["job"] /\ u <= vers'["job"][i]
  BY <1>1, <1>2, <1>3, <1>4
<1>6. ASSUME i \in DOMAIN api'["job"], api'["job"][i].uid = u
      PROVE  needsCleanup(api'["job"][i]) /\ ExpireAt(api'["job"][i]) <= clock
  <2>1. CASE i # j
    <3>1. i \in DOMAIN api["job"] /\ api'["job"][i] = api["job"][i]
      BY <2>1, <1>1, <1>6
    <3> QED
      BY <3>1, <1>6 DEF Ripe
  <2>2. CASE i = j
    <3>1. obj # Gone /\ api'["job"][j] = new /\ IsJob(obj) /\ new # Gone
      BY <2>2, <1>1, <1>6 DEF ChangesJob
    <3>2. /\ new.uid = (IF j \in DOMAIN api["job"] THEN obj.uid ELSE NextVersion("job", j))
          /\ new.spec = obj.spec /\ new.phase = obj.phase
          /\ new.at = obj.at /\ new.deleting = obj.deleting
      BY <3>1, WrittenJob
    <3> HIDE DEF new
    <3>3. j \in DOMAIN api["job"]
      <4>1. ASSUME j \notin DOMAIN api["job"] PROVE FALSE
        <5>1. new.uid = NextVersion("job", i) /\ new.uid = u
          BY <4>1, <3>1, <3>2, <2>2, <1>6
        <5>2. u < NextVersion("job", i)
          BY <1>1, <1>2, <1>3, <2>2
        <5> QED
          BY <5>1, <5>2, <1>2
      <4> QED
        BY <4>1
    <3>4. Continues(api["job"][j], obj) /\ obj.uid = u
      BY <3>1, <3>2, <3>3, <2>2, <1>6 DEF ChangesJob
    <3>5. api["job"][j].uid = u
      BY <3>4 DEF Continues
    <3>6. needsCleanup(api["job"][j]) /\ ExpireAt(api["job"][j]) <= clock
      BY <3>3, <3>5, <2>2 DEF Ripe
    <3>7. /\ new.spec.ttl = api["job"][j].spec.ttl /\ new.phase = api["job"][j].phase
          /\ new.at = api["job"][j].at
      BY <3>2, <3>4, <3>6 DEF Continues, needsCleanup
    <3>8. needsCleanup(new) /\ ExpireAt(new) = ExpireAt(api["job"][j])
      BY <3>6, <3>7 DEF needsCleanup, isJobFinished, ExpireAt
    <3> QED
      BY <3>1, <3>6, <3>8, <2>2
  <2> QED
    BY <2>1, <2>2
<1> QED
  BY <1>2, <1>5, <1>6 DEF Ripe

\* A Job is marked in its time only, and what is there can be run.
LEMMA ChangesKeep ==
    ASSUME Shared, AdmittedJobsRun, NEW j, NEW obj, ChangesJob(j, obj)
    PROVE  /\ AdmittedJobsRun'
           /\ \A i \in DOMAIN api["job"] :
                (/\ i \in DOMAIN api'["job"] /\ api'["job"][i].deleting
                 /\ ~api["job"][i].deleting) =>
                  needsCleanup(api["job"][i]) /\ ExpireAt(api["job"][i]) <= clock
<1> DEFINE new == Written("job", j, obj)
<1>1. /\ \A h : h # j => /\ h \in DOMAIN api'["job"] <=> h \in DOMAIN api["job"]
                         /\ h \in DOMAIN api["job"] => api'["job"][h] = api["job"][h]
      /\ j \in DOMAIN api'["job"] <=> new # Gone
      /\ new # Gone => obj # Gone /\ api'["job"][j] = new
  BY JobsAround
<1>2. new # Gone => new.spec = obj.spec /\ new.deleting = obj.deleting /\ CanRun(obj.spec)
  BY <1>1, WrittenJob DEF ChangesJob
<1> HIDE DEF new
<1>3. ASSUME NEW i \in DOMAIN api'["job"] PROVE CanRun(api'["job"][i].spec)
  <2>1. CASE i # j
    BY <2>1, <1>1 DEF AdmittedJobsRun
  <2>2. CASE i = j
    BY <2>2, <1>1, <1>2
  <2> QED
    BY <2>1, <2>2
<1>4. ASSUME NEW i \in DOMAIN api["job"], i \in DOMAIN api'["job"],
             api'["job"][i].deleting, ~api["job"][i].deleting
      PROVE  needsCleanup(api["job"][i]) /\ ExpireAt(api["job"][i]) <= clock
  <2>1. i = j
    BY <1>1, <1>4
  <2>2. obj.deleting # api["job"][j].deleting /\ obj # Gone
    BY <2>1, <1>1, <1>2, <1>4
  <2>3. Continues(api["job"][j], obj)
    BY <2>1, <2>2, <1>4 DEF ChangesJob
  <2> QED
    BY <2>1, <2>2, <2>3 DEF Continues
<1> QED
  BY <1>3, <1>4 DEF AdmittedJobsRun

-----------------------------------------------------------------------------
(***************************************************************************)
(* The steps of the controllers, of the others and of time.                *)
(***************************************************************************)

\* Versions that stay do not go back.
LEMMA OnwardSame == ASSUME Versions PROVE Onward(vers, vers)
<1>1. \A k \in Kinds : \A x \in DOMAIN vers[k] : vers[k][x] <= vers[k][x]
  BY DEF Versions
<1> QED
  BY <1>1 DEF Onward, Versions

\* Whatever is written, the objects and their copies are in order.
LEMMA ServedShared ==
    ASSUME Shared, NEW K \in SUBSET Kinds, Served(K)
    PROVE  Shared' /\ Onward(vers, vers')
<1>1. UNCHANGED <<store, opt>>
  BY DEF Served
<1>2. CASE Unwritten
  <2>1. UNCHANGED <<api, vers, feed, store, opt>>
    BY <1>1, <1>2 DEF Unwritten
  <2>2. Versions' /\ Objects' /\ Feeds' /\ Stores'
    BY <2>1 DEF Shared, Versions, Objects, Feeds, Stores
  <2>3. Onward(vers, vers')
    BY <2>1, OnwardSame DEF Shared
  <2> QED
    BY <2>2, <2>3 DEF Shared
<1>3. CASE \E k \in K : \E x : \E obj : Write(k, x, obj) /\ Writable(k, x, obj)
  <2>1. PICK k \in K : \E x : \E obj : Write(k, x, obj) /\ Writable(k, x, obj)
    BY <1>3
  <2>2. PICK x : \E obj : Write(k, x, obj) /\ Writable(k, x, obj)
    BY <2>1
  <2>3. PICK obj : Write(k, x, obj) /\ Writable(k, x, obj)
    BY <2>2
  <2>4. k \in Kinds
    OBVIOUS
  <2> QED
    BY <1>1, <2>3, <2>4, WriteShared
<1> QED
  BY <1>2, <1>3 DEF Served

\* A write of another kind leaves this one.
LEMMA ServedOthers ==
    ASSUME Shared, NEW K \in SUBSET Kinds, Served(K), NEW h \in Kinds \ K
    PROVE  api'[h] = api[h] /\ vers'[h] = vers[h]
<1>1. CASE Unwritten
  BY <1>1 DEF Unwritten
<1>2. CASE \E k \in K : \E x : \E obj : Write(k, x, obj) /\ Writable(k, x, obj)
  <2>1. PICK k \in K : \E x : \E obj : Write(k, x, obj)
    BY <1>2
  <2>2. PICK x : \E obj : Write(k, x, obj)
    BY <2>1
  <2>3. PICK obj : Write(k, x, obj)
    BY <2>2
  <2>4. h # k /\ h \in DOMAIN api /\ h \in DOMAIN vers
    BY DEF Shared, Objects, Versions
  <2>5. /\ \E new : api' = [api EXCEPT ![k] = Placed(@, x, new)]
        /\ vers' = [vers EXCEPT ![k] = Put(@, x, NextVersion(k, x))]
    BY <2>3 DEF Write
  <2> QED
    BY <2>4, <2>5
<1> QED
  BY <1>1, <1>2 DEF Served

\* The steps of users, of the scheduler and of Kubernetes.
LEMMA OthersSteps ==
    ASSUME Shared, Commands, AdmittedJobsRun, clock \in Int, Others \/ Kubernetes
    PROVE  /\ Served(NotJobs) \/ \E j : \E obj : ChangesJob(j, obj)
           /\ Outside
<1>1. Outside
  BY DEF Others, Kubernetes, CreateQueue, DeleteQueue, OperateQueue, UpdateQueueStatus,
         UpdatePodGroup, RunJob, DeleteJob, EditJob, JobGroup, JobPod, JobEnds, CreatePod,
         ScaleSet, DeletePodOf, UserDeletesPod, PodStops, GroupGoes, JobGoes
<1>2. UNCHANGED <<store, opt>>
  BY <1>1 DEF Outside
<1>3. "queue" \in NotJobs /\ "pod" \in NotJobs /\ "group" \in NotJobs
  BY KindsOf DEF NotJobs
<1>4. ASSUME NEW q \in DOMAIN NewQueues,
             CreateQueue(q) \/ DeleteQueue(q) \/ OperateQueue(q) \/ UpdateQueueStatus(q)
      PROVE  Served(NotJobs)
  <2>1. CASE CreateQueue(q)
    BY <2>1, CreateQueueServed
  <2>2. CASE DeleteQueue(q)
    BY <2>2, <1>2, <1>3, GoneServed DEF DeleteQueue
  <2>3. CASE OperateQueue(q)
    BY <2>3, OperateQueueServed
  <2>4. CASE UpdateQueueStatus(q)
    BY <2>4, QueueStatusServed
  <2> QED
    BY <1>4, <2>1, <2>2, <2>3, <2>4
<1>5. ASSUME NEW j \in DOMAIN NewJobs,
             RunJob(j) \/ DeleteJob(j) \/ EditJob(j) \/ JobGroup(j) \/ JobEnds(j)
      PROVE  Served(NotJobs) \/ \E i : \E obj : ChangesJob(i, obj)
  BY <1>5, RunJobChanges, JobGoneChanges, EditJobChanges, JobGroupServed, JobEndsChanges
<1>6. ASSUME NEW p \in DOMAIN NewPods, NEW j,
             JobPod(j, p) \/ CreatePod(p) \/ UserDeletesPod(p)
      PROVE  Served(NotJobs)
  BY <1>6, JobPodServed, CreatePodServed, MarkPodServed
<1>7. ASSUME NEW p, DeletePodOf(p) \/ PodStops(p) PROVE Served(NotJobs)
  <2>1. CASE DeletePodOf(p)
    BY <2>1, MarkPodServed
  <2>2. CASE PodStops(p)
    BY <2>2, <1>2, <1>3, GoneServed DEF PodStops
  <2> QED
    BY <1>7, <2>1, <2>2
<1>8. ASSUME NEW g, UpdatePodGroup(g) \/ GroupGoes(g) PROVE Served(NotJobs)
  <2>1. CASE UpdatePodGroup(g)
    BY <2>1, PodGroupServed
  <2>2. CASE GroupGoes(g)
    BY <2>2, <1>2, <1>3, GoneServed DEF GroupGoes
  <2> QED
    BY <1>8, <2>1, <2>2
<1>9. ASSUME NEW r, ScaleSet(r) PROVE Served(NotJobs)
  BY <1>9, ScaleSetServed
<1>10. ASSUME NEW j, JobGoes(j) PROVE \E i : \E obj : ChangesJob(i, obj)
  BY <1>10, JobGoneChanges
<1>11. CASE Others
  <2>1. CASE \E q \in opt.names \cap DOMAIN NewQueues :
               CreateQueue(q) \/ DeleteQueue(q) \/ OperateQueue(q) \/ UpdateQueueStatus(q)
    BY <2>1, <1>1, <1>4
  <2>2. CASE \E j \in opt.names \cap DOMAIN NewJobs :
               RunJob(j) \/ DeleteJob(j) \/ EditJob(j) \/ JobGroup(j) \/ JobEnds(j)
    BY <2>2, <1>1, <1>5
  <2>3. CASE \E j \in opt.names \cap DOMAIN NewJobs, p \in opt.names \cap DOMAIN NewPods :
               JobPod(j, p)
    BY <2>3, <1>1, <1>6
  <2>4. CASE \E p \in opt.names \cap DOMAIN NewPods : CreatePod(p) \/ UserDeletesPod(p)
    BY <2>4, <1>1, <1>6
  <2>5. CASE \E g \in DOMAIN api["group"] : UpdatePodGroup(g)
    BY <2>5, <1>1, <1>8
  <2>6. CASE \E r \in DOMAIN api["rs"] : ScaleSet(r)
    BY <2>6, <1>1, <1>9
  <2> QED
    BY <1>11, <2>1, <2>2, <2>3, <2>4, <2>5, <2>6 DEF Others
<1>12. CASE Kubernetes
  BY <1>12, <1>1, <1>7, <1>8, <1>10 DEF Kubernetes
<1> QED
  BY <1>11, <1>12

-----------------------------------------------------------------------------
(***************************************************************************)
(* The queue controller.                                                   *)
(***************************************************************************)

\* The worker is idle, or it handles the first request with a copy of the
\* request's queue.
Working(v, queue, w) ==
    \/ w = Idle
    \/ /\ queue # <<>> /\ Head(queue) = w.req
       /\ w.step \in {"update", "get", "status"}
       /\ {"step", "op", "req", "copy"} \subseteq DOMAIN w
       /\ Copy(v, "queue", w.req.queue, w.copy)
       /\ w.step = "status" => w.status.state \in QueueStates

QueueFine(v, c) ==
    /\ DOMAIN c = DOMAIN InitQC
    /\ c.queue \in Seq(Range(c.queue))
    /\ Working(v, c.queue, c.worker)

\* A controller without informers does nothing.
QueueRuns ==
    /\ opt.on \cap QueueInformers # {} => QueueInformers \subseteq opt.on
    /\ opt.on \cap QueueInformers = {} => qc = InitQC

Notes == DOMAIN note = opt.on

QueueOK == QueueFine(vers, qc) /\ QueueRuns /\ Notes

\* The fields of the queue controller.
LEMMA QueueFields ==
    DOMAIN InitQC = {"podGroups", "queue", "later", "worker", "commands", "commandsLater",
                     "commander"}
  BY DEF InitQC

\* The queue controller starts with nothing to do.
LEMMA InitQueueFine == ASSUME NEW v PROVE QueueFine(v, InitQC)
<1>1. InitQC.queue = <<>> /\ InitQC.worker = Idle
  BY DEF InitQC
<1>2. <<>> \in Seq(Range(<<>>))
  OBVIOUS
<1> QED
  BY <1>1, <1>2 DEF QueueFine, Working

\* Nothing of this depends on the other fields.
LEMMA QueueStays ==
    ASSUME NEW v, NEW c, NEW d, QueueFine(v, c), DOMAIN d = DOMAIN c,
           d.queue = c.queue, d.worker = c.worker
    PROVE  QueueFine(v, d)
  BY DEF QueueFine

\* A request is queued.
LEMMA EnqueuedFine ==
    ASSUME NEW v, NEW c, QueueFine(v, c), NEW req
    PROVE  QueueFine(v, enqueue(c, req))
<1> DEFINE d == enqueue(c, req)
<1>1. DOMAIN d = DOMAIN c /\ d.queue = Append(c.queue, req) /\ d.worker = c.worker
  BY QueueFields DEF enqueue, QueueFine
<1> HIDE DEF d
<1>2. /\ d.queue \in Seq(Range(d.queue)) /\ d.queue # <<>>
      /\ c.queue # <<>> => Head(d.queue) = Head(c.queue)
  BY <1>1, RangeAppend DEF QueueFine
<1>3. Working(v, d.queue, d.worker)
  BY <1>1, <1>2 DEF Working, QueueFine
<1> QED
  BY <1>1, <1>2, <1>3 DEF QueueFine, d

\* The request that is handled is taken away.
LEMMA FinishedFine ==
    ASSUME NEW v, QueueFine(v, qc), qc.queue # <<>>
    PROVE  /\ QueueFine(v, Finished) /\ DOMAIN Finished = DOMAIN qc
           /\ Finished.worker = Idle
<1>1. /\ DOMAIN Finished = DOMAIN qc /\ Finished.queue = Tail(qc.queue)
      /\ Finished.worker = Idle
  BY QueueFields DEF Finished, QueueFine
<1>2. Tail(qc.queue) \in Seq(Range(Tail(qc.queue)))
  BY RangeTail DEF QueueFine
<1> QED
  BY <1>1, <1>2 DEF QueueFine, Working

\* A request that failed is put off or dropped.
LEMMA FailedFine ==
    ASSUME NEW v, QueueFine(v, qc), qc.queue # <<>>, NEW req, Failed(req)
    PROVE  QueueFine(v, qc')
<1>1. QueueFine(v, Finished) /\ DOMAIN Finished = DOMAIN InitQC
  BY FinishedFine DEF QueueFine
<1>2. CASE qc' = Finished
  BY <1>1, <1>2
<1>3. CASE qc' = [Finished EXCEPT !.later = Append(@, Again(req))]
  <2>1. /\ DOMAIN qc' = DOMAIN Finished /\ qc'.queue = Finished.queue
        /\ qc'.worker = Finished.worker
    BY <1>1, <1>3, QueueFields
  <2> QED
    BY <1>1, <2>1, QueueStays
<1> QED
  BY <1>2, <1>3 DEF Failed

\* The worker goes on with the same request.
LEMMA GoesOnFine ==
    ASSUME NEW v, QueueFine(v, qc), qc.queue # <<>>, NEW w,
           qc' = [qc EXCEPT !.worker = w], Working(v, qc.queue, w)
    PROVE  QueueFine(v, qc')
<1>1. DOMAIN qc' = DOMAIN qc /\ qc'.queue = qc.queue /\ qc'.worker = w
  BY QueueFields DEF QueueFine
<1> QED
  BY <1>1 DEF QueueFine

\* Copies stay copies while versions go up.
LEMMA FineOnward ==
    ASSUME Versions, Versions', Onward(vers, vers'), NEW c, QueueFine(vers, c)
    PROVE  QueueFine(vers', c)
<1> DEFINE w == c.worker
<1>1. ASSUME NEW q, NEW o, Copy(vers, "queue", q, o) PROVE Copy(vers', "queue", q, o)
  <2>1. q \in DOMAIN vers["queue"] /\ q \in DOMAIN vers'["queue"]
    BY <1>1, KindsOf DEF Copy, Onward
  <2>2. vers["queue"][q] \in Nat /\ vers'["queue"][q] \in Nat
    BY <2>1, KindsOf DEF Versions
  <2> QED
    BY <2>2, <1>1, CopyStays, KindsOf
<1>2. Working(vers', c.queue, c.worker)
  BY <1>1 DEF QueueFine, Working
<1> QED
  BY <1>2 DEF QueueFine

\* What a handler of an informer leaves alone.
LEMMA HandlerCalled ==
    ASSUME Notes, NEW w, NEW n \in Due(w), Called(w), Unwritten
    PROVE  /\ Served({}) /\ w \in opt.on
           /\ UNCHANGED <<clock, opt, api, vers>> /\ DOMAIN note' = DOMAIN note
<1>1. w \in opt.on
  BY DEF Due, Notes
<1>2. DOMAIN note' = DOMAIN note /\ UNCHANGED <<store, clock, opt>>
  BY DEF Called
<1> QED
  BY <1>1, <1>2 DEF Served, Unwritten

\* The queue controller's event handlers.
LEMMA QueueHandlersSteps ==
    ASSUME QueueOK, OnQueue \/ OnGroup \/ OnCommand
    PROVE  /\ Served({}) /\ QueueFine(vers, qc') /\ opt.on \cap QueueInformers # {}
           /\ UNCHANGED <<clock, opt, api, vers>> /\ DOMAIN note' = DOMAIN note
<1>0. QueueFine(vers, qc) /\ Notes /\ DOMAIN qc = DOMAIN InitQC
  BY DEF QueueOK, QueueFine
<1>1. CASE OnQueue
  <2>1. PICK n \in Due("qcQueue") :
          /\ Called("qcQueue") /\ Unwritten
          /\ qc' = CASE n.old = Gone -> enqueue(qc, Request(n.name, "SyncQueue"))
                     [] n.new = Gone -> [qc EXCEPT !.podGroups = Without(@, n.name)]
                     [] OTHER        -> qc
    BY <1>1 DEF OnQueue
  <2> DEFINE rest == Without(qc.podGroups, n.name)
  <2>2. \/ qc' = enqueue(qc, Request(n.name, "SyncQueue"))
        \/ qc' = [qc EXCEPT !.podGroups = rest]
        \/ qc' = qc
    BY <2>1
  <2> HIDE DEF rest
  <2>3. ASSUME qc' = [qc EXCEPT !.podGroups = rest] PROVE QueueFine(vers, qc')
    <3> DEFINE d == [qc EXCEPT !.podGroups = rest]
    <3>1. DOMAIN d = DOMAIN qc /\ d.queue = qc.queue /\ d.worker = qc.worker
      BY <1>0, QueueFields
    <3>2. qc' = d
      BY <2>3
    <3> HIDE DEF d
    <3>3. QueueFine(vers, d)
      BY <1>0, <3>1, QueueStays
    <3> QED
      BY <3>2, <3>3
  <2>4. QueueFine(vers, qc')
    BY <2>2, <2>3, <1>0, EnqueuedFine
  <2> QED
    BY <2>1, <2>4, <1>0, HandlerCalled DEF QueueInformers
<1>2. CASE OnGroup
  <2>1. PICK n \in Due("qcGroup") :
          /\ Called("qcGroup") /\ Unwritten
          /\ \/ qc' = deletePodGroup(qc, n.name, n.old)
             \/ qc' = addPodGroup(qc, n.name, n.new)
             \/ qc' = qc
    BY <1>2 DEF OnGroup
  <2> DEFINE q == n.old.queue
             less == IF q \in DOMAIN qc.podGroups
                     THEN [qc.podGroups EXCEPT ![q] = @ \ {n.name}] ELSE qc.podGroups
             more == Put(qc.podGroups, n.new.queue,
                         {n.name} \cup (IF n.new.queue \in DOMAIN qc.podGroups
                                        THEN qc.podGroups[n.new.queue] ELSE {}))
  <2>0. addPodGroup(qc, n.name, n.new)
          = enqueue([qc EXCEPT !.podGroups = more], Request(n.new.queue, "SyncQueue"))
    BY DEF addPodGroup
  <2>9. deletePodGroup(qc, n.name, n.old)
          = enqueue([qc EXCEPT !.podGroups = less], Request(q, "SyncQueue"))
    BY DEF deletePodGroup
  <2>2. \/ qc' = enqueue([qc EXCEPT !.podGroups = less], Request(q, "SyncQueue"))
        \/ qc' = enqueue([qc EXCEPT !.podGroups = more], Request(n.new.queue, "SyncQueue"))
        \/ qc' = qc
    BY <2>0, <2>1, <2>9, Zenon
  <2> HIDE DEF q, less, more
  <2>3. ASSUME NEW g, NEW r, qc' = enqueue([qc EXCEPT !.podGroups = g], r)
        PROVE  QueueFine(vers, qc')
    <3> DEFINE d == [qc EXCEPT !.podGroups = g]
    <3>1. DOMAIN d = DOMAIN qc /\ d.queue = qc.queue /\ d.worker = qc.worker
      BY <1>0, QueueFields
    <3> HIDE DEF d
    <3>2. QueueFine(vers, d)
      BY <1>0, <3>1, QueueStays
    <3> QED
      BY <2>3, <3>2, EnqueuedFine DEF d
  <2>4. QueueFine(vers, qc')
    BY <2>2, <2>3, <1>0
  <2> QED
    BY <2>1, <2>4, <1>0, HandlerCalled DEF QueueInformers
<1>3. CASE OnCommand
  <2>1. PICK n \in Due("qcCommand") :
          /\ Called("qcCommand") /\ Unwritten
          /\ \/ qc' = [qc EXCEPT !.commands = Append(@, [name |-> n.name, obj |-> n.new,
                                                         requeues |-> 0])]
             \/ qc' = qc
    BY <1>3 DEF OnCommand
  <2>2. DOMAIN qc' = DOMAIN qc /\ qc'.queue = qc.queue /\ qc'.worker = qc.worker
    BY <2>1, <1>0, QueueFields
  <2>3. QueueFine(vers, qc')
    BY <2>2, <1>0, QueueStays
  <2> QED
    BY <2>1, <2>3, <1>0, HandlerCalled DEF QueueInformers
<1> QED
  BY <1>1, <1>2, <1>3

\* What a worker leaves alone.
LEMMA WorkerWorks ==
    ASSUME Works
    PROVE  UNCHANGED <<clock, opt, store, note>> /\ DOMAIN note' = DOMAIN note
  BY DEF Works

\* Its command worker, and requests that come back.
LEMMA QueueCommandsSteps ==
    ASSUME QueueOK, handleCommand \/ CommandEnqueue \/ CommandLater \/ QueueLater
    PROVE  /\ Served(NotJobs) /\ QueueFine(vers, qc') /\ opt.on \cap QueueInformers # {}
           /\ UNCHANGED <<clock, opt>> /\ DOMAIN note' = DOMAIN note
<1>0. QueueFine(vers, qc) /\ DOMAIN qc = DOMAIN InitQC
  BY DEF QueueOK, QueueFine
<1>1. Works
  BY DEF handleCommand, CommandEnqueue, CommandLater, QueueLater
<1>2. qc # InitQC
  BY QueueFields DEF InitQC, handleCommand, CommandEnqueue, CommandLater, QueueLater
<1>3. opt.on \cap QueueInformers # {}
  BY <1>2 DEF QueueOK, QueueRuns
<1>4. ASSUME Unwritten PROVE Served(NotJobs)
  BY <1>1, <1>4, WorkerWorks DEF Served
<1>5. CASE handleCommand
  <2> DEFINE cmd == Head(qc.commands)
             taken == [qc EXCEPT !.commands = Tail(@)]
  <2>1. Unwritten \/ Write("command", cmd.name, Gone)
    BY <1>5 DEF handleCommand
  <2>2. Served(NotJobs)
    <3>1. "command" \in NotJobs
      BY KindsOf DEF NotJobs
    <3> QED
      BY <2>1, <3>1, <1>1, <1>4, WorkerWorks, GoneServed
  <2>3. \/ qc' = taken
        \/ \E a : qc' = [taken EXCEPT !.commandsLater = a]
        \/ \E a : qc' = [taken EXCEPT !.commander = a]
    BY <1>5 DEF handleCommand
  <2>4. DOMAIN qc' = DOMAIN qc /\ qc'.queue = qc.queue /\ qc'.worker = qc.worker
    BY <2>3, <1>0, QueueFields
  <2>5. QueueFine(vers, qc')
    BY <2>4, <1>0, QueueStays
  <2> QED
    BY <2>2, <2>5, <1>1, <1>3, WorkerWorks
<1>6. CASE CommandEnqueue
  <2>1. /\ Unwritten
        /\ \E r : qc' = enqueue([qc EXCEPT !.commander = Idle], r)
    BY <1>6 DEF CommandEnqueue
  <2> DEFINE d == [qc EXCEPT !.commander = Idle]
  <2>2. DOMAIN d = DOMAIN qc /\ d.queue = qc.queue /\ d.worker = qc.worker
    BY <1>0, QueueFields
  <2> HIDE DEF d
  <2>3. QueueFine(vers, d)
    BY <2>2, <1>0, QueueStays
  <2>4. QueueFine(vers, qc')
    BY <2>1, <2>3, EnqueuedFine DEF d
  <2> QED
    BY <2>1, <2>4, <1>1, <1>3, <1>4, WorkerWorks
<1>7. CASE CommandLater
  <2>1. Unwritten /\ qc' = [qc EXCEPT !.commands = Append(@, Head(qc.commandsLater)),
                                      !.commandsLater = Tail(@)]
    BY <1>7 DEF CommandLater
  <2>2. DOMAIN qc' = DOMAIN qc /\ qc'.queue = qc.queue /\ qc'.worker = qc.worker
    BY <2>1, <1>0, QueueFields
  <2>3. QueueFine(vers, qc')
    BY <2>2, <1>0, QueueStays
  <2> QED
    BY <2>1, <2>3, <1>1, <1>3, <1>4, WorkerWorks
<1>8. CASE QueueLater
  <2>1. PICK i \in DOMAIN qc.later :
          qc' = [qc EXCEPT !.queue = Append(@, qc.later[i]), !.later = RemoveAt(@, i)]
    BY <1>8 DEF QueueLater, Back
  <2> DEFINE d == enqueue(qc, qc.later[i])
  <2>2. QueueFine(vers, d)
    BY <1>0, EnqueuedFine
  <2>3. DOMAIN qc' = DOMAIN d /\ qc'.queue = d.queue /\ qc'.worker = d.worker
    BY <2>1, <1>0, QueueFields DEF enqueue
  <2> HIDE DEF d
  <2>4. QueueFine(vers, qc')
    BY <2>2, <2>3, QueueStays
  <2>5. Unwritten
    BY <1>8 DEF QueueLater
  <2> QED
    BY <2>4, <2>5, <1>1, <1>3, <1>4, WorkerWorks
<1> QED
  BY <1>5, <1>6, <1>7, <1>8

\* A queue goes from state to state.
LEMMA ExecuteStates ==
    ASSUME NEW state \in QueueStates, NEW action, NEW empty
    PROVE  Execute(state, action, empty).state \in QueueStates
<1>1. ClosedIf(empty) \in QueueStates
  BY DEF ClosedIf, QueueStates
<1>2. \A op, s : Do(op, s).state = s
  BY DEF Do
<1>3. {"Open", "Closed", "Unknown"} \subseteq QueueStates
  BY DEF QueueStates
<1>4. openState(action, empty).state \in QueueStates
  BY <1>1, <1>2, <1>3 DEF openState
<1>5. closedState(action, empty).state \in QueueStates
  BY <1>1, <1>2, <1>3 DEF closedState
<1>6. closingState(action, empty).state \in QueueStates
  BY <1>1, <1>2, <1>3 DEF closingState
<1>7. unknownState(action, empty).state \in QueueStates
  BY <1>1, <1>2, <1>3 DEF unknownState
<1> QED
  BY <1>4, <1>5, <1>6, <1>7 DEF Execute, QueueStates

\* The lister's copy of a queue, if there is one.
LEMMA ListedQueue ==
    ASSUME Shared, "qcQueue" \in opt.on, NEW q
    PROVE  LET copy == Lookup(store["qcQueue"], q)
           IN copy = Gone \/ (Copy(vers, "queue", q, copy) /\ copy.state \in QueueStates)
<1>1. KindOf["qcQueue"] = "queue"
  BY DEF KindOf
<1>2. ASSUME q \in DOMAIN store["qcQueue"] PROVE Copy(vers, "queue", q, store["qcQueue"][q])
  BY <1>1, <1>2 DEF Shared, Stores
<1>3. \A o : Copy(vers, "queue", q, o) => o.state \in QueueStates
  BY DEF Copy, IsObject, IsQueue
<1> QED
  BY <1>2, <1>3 DEF Lookup

\* Its worker takes a request.
LEMMA TakesRequest ==
    ASSUME Shared, QueueOK, processNextWorkItem
    PROVE  QueueFine(vers, qc') /\ Unwritten
<1> DEFINE req == Head(qc.queue)
           copy == Lookup(store["qcQueue"], req.queue)
           todo == Execute(copy.state, req.action, getPodGroups(req.queue) = {})
<1>1. qc.queue # <<>> /\ handleQueue(req) /\ Unwritten /\ QueueFine(vers, qc)
  BY DEF processNextWorkItem, QueueOK
<1>2. "qcQueue" \in opt.on
  <2>1. qc # InitQC
    BY <1>1 DEF InitQC
  <2> QED
    BY <2>1 DEF QueueOK, QueueRuns, QueueInformers
<1>3. copy = Gone \/ (Copy(vers, "queue", req.queue, copy) /\ copy.state \in QueueStates)
  BY <1>2, ListedQueue
<1>4. CASE copy = Gone
  <2>1. qc' = Finished
    BY <1>1, <1>4 DEF handleQueue
  <2> QED
    BY <1>1, <2>1, FinishedFine
<1>5. CASE copy # Gone
  <2>1. todo.state \in QueueStates
    BY <1>3, <1>5, ExecuteStates
  <2>2. \/ syncQueue(req, copy, todo.state)
        \/ qc' = [qc EXCEPT !.worker = [step |-> "update", op |-> todo.op,
                                        req |-> req, copy |-> copy]]
    BY <1>1, <1>5 DEF handleQueue
  <2> HIDE DEF todo, copy
  <2>3. CASE qc' = [qc EXCEPT !.worker = [step |-> "update", op |-> todo.op,
                                          req |-> req, copy |-> copy]]
    <3> DEFINE w == [step |-> "update", op |-> todo.op, req |-> req, copy |-> copy]
    <3>1. Working(vers, qc.queue, w)
      <4>1. /\ w.step = "update" /\ w.req = req /\ w.copy = copy
            /\ DOMAIN w = {"step", "op", "req", "copy"}
        OBVIOUS
      <4> HIDE DEF w
      <4> QED
        BY <4>1, <1>1, <1>3, <1>5 DEF Working
    <3> HIDE DEF w
    <3> QED
      BY <1>1, <2>3, <3>1, GoesOnFine DEF w
  <2>4. CASE syncQueue(req, copy, todo.state)
    <3> DEFINE status == [state |-> todo.state, allocated |-> copy.allocated,
                          count |-> [p \in Counted |->
                                       Cardinality({g \in getPodGroups(req.queue) :
                                                      store["qcGroup"][g].phase = p})]]
               w == [step |-> "status", op |-> "sync", req |-> req,
                     copy |-> copy, status |-> status]
    <3>1. \/ Failed(req)
          \/ qc' = Finished
          \/ qc' = [qc EXCEPT !.worker = w]
      BY <2>4 DEF syncQueue
    <3>2. Working(vers, qc.queue, w)
      <4>1. /\ w.step = "status" /\ w.req = req /\ w.copy = copy
            /\ {"step", "op", "req", "copy"} \subseteq DOMAIN w
            /\ w.status.state = todo.state
        OBVIOUS
      <4> HIDE DEF w
      <4> QED
        BY <4>1, <2>1, <1>1, <1>3, <1>5 DEF Working
    <3> HIDE DEF w
    <3> QED
      BY <1>1, <3>1, <3>2, FailedFine, FinishedFine, GoesOnFine
  <2> QED
    BY <1>1, <2>2, <2>3, <2>4
<1> QED
  BY <1>1, <1>4, <1>5

\* Its worker, from the request to the written status.
LEMMA QueueWorkerSteps ==
    ASSUME Shared, QueueOK, QueueWorker
    PROVE  /\ Served(NotJobs) /\ opt.on \cap QueueInformers # {}
           /\ QueueFine(vers, qc')
           /\ UNCHANGED <<clock, opt>> /\ DOMAIN note' = DOMAIN note
<1>0. QueueFine(vers, qc) /\ DOMAIN qc = DOMAIN InitQC
  BY DEF QueueOK, QueueFine
<1>1. Works
  BY DEF QueueWorker, processNextWorkItem, QueueUpdate, QueueGet, QueueUpdateStatus
<1>2. UNCHANGED <<clock, opt, store>> /\ DOMAIN note' = DOMAIN note
  BY <1>1, WorkerWorks
<1>3. ASSUME Unwritten PROVE Served(NotJobs)
  BY <1>2, <1>3 DEF Served
<1>4. ASSUME qc.queue # <<>> PROVE opt.on \cap QueueInformers # {}
  BY <1>4 DEF QueueOK, QueueRuns, InitQC
<1>5. CASE processNextWorkItem
  BY <1>5, <1>2, <1>3, <1>4, TakesRequest DEF processNextWorkItem
<1> DEFINE w == qc.worker
<1>6. ASSUME w.step \in {"update", "get", "status"}
      PROVE  /\ qc.queue # <<>> /\ Head(qc.queue) = w.req
             /\ {"step", "op", "req", "copy"} \subseteq DOMAIN w
             /\ Copy(vers, "queue", w.req.queue, w.copy)
             /\ w.step = "status" => w.status.state \in QueueStates
  <2>1. w # Idle
    BY <1>6 DEF Idle
  <2> QED
    BY <2>1, <1>0 DEF QueueFine, Working
<1>7. CASE QueueUpdate
  <2>1. w.step = "update" /\ Unwritten
    BY <1>7 DEF QueueUpdate
  <2>2. Failed(w.req) \/ qc' = [qc EXCEPT !.worker.step = "get"]
    BY <1>7 DEF QueueUpdate
  <2>3. ASSUME qc' = [qc EXCEPT !.worker.step = "get"] PROVE QueueFine(vers, qc')
    <3> DEFINE d == [w EXCEPT !.step = "get"]
    <3>1. qc' = [qc EXCEPT !.worker = d]
      BY <2>3
    <3>2. d.step = "get" /\ DOMAIN d = DOMAIN w /\ d.req = w.req /\ d.copy = w.copy
      BY <2>1, <1>6
    <3> HIDE DEF d
    <3>3. Working(vers, qc.queue, d)
      BY <3>2, <2>1, <1>6 DEF Working
    <3>4. qc.queue # <<>>
      BY <2>1, <1>6
    <3> QED
      BY <1>0, <3>4, <3>1, <3>3, GoesOnFine
  <2> QED
    BY <1>0, <1>2, <1>3, <1>4, <1>6, <2>1, <2>2, <2>3, FailedFine
<1>8. CASE QueueGet
  <2> DEFINE stored == Lookup(api["queue"], w.req.queue)
             new == Execute(w.copy.state, w.req.action, getPodGroups(w.req.queue) = {}).state
             d == [step |-> "status", op |-> w.op, req |-> w.req, copy |-> stored,
                   status |-> [Status(stored) EXCEPT !.state = new]]
  <2>1. w.step = "get" /\ Unwritten
    BY <1>8 DEF QueueGet
  <2>2. Failed(w.req) \/ (stored # Gone /\ qc' = [qc EXCEPT !.worker = d])
    BY <1>8 DEF QueueGet
  <2>3. ASSUME stored # Gone, qc' = [qc EXCEPT !.worker = d] PROVE QueueFine(vers, qc')
    <3>1. w.copy.state \in QueueStates
      BY <2>1, <1>6 DEF Copy, IsObject, IsQueue
    <3>2. new \in QueueStates
      BY <3>1, ExecuteStates
    <3>3. w.req.queue \in DOMAIN api["queue"] /\ stored = api["queue"][w.req.queue]
      BY <2>3 DEF Lookup
    <3>4. Copy(vers, "queue", w.req.queue, stored)
      BY <3>3, KindsOf DEF Shared, Objects
    <3> HIDE DEF new, stored
    <3>5. /\ d.step = "status" /\ d.req = w.req /\ d.copy = stored
          /\ {"step", "op", "req", "copy"} \subseteq DOMAIN d
          /\ d.status.state = new
      BY DEF Status
    <3>6. qc' = [qc EXCEPT !.worker = d]
      BY <2>3
    <3> HIDE DEF d
    <3>7. Working(vers, qc.queue, d)
      BY <3>2, <3>4, <3>5, <2>1, <1>6 DEF Working
    <3> QED
      BY <1>0, <1>6, <2>1, <3>6, <3>7, GoesOnFine
  <2> QED
    BY <1>0, <1>2, <1>3, <1>4, <1>6, <2>1, <2>2, <2>3, FailedFine
<1>9. CASE QueueUpdateStatus
  <2> DEFINE obj == [w.copy EXCEPT !.state = w.status.state, !.count = w.status.count,
                                   !.allocated = w.status.allocated]
  <2>1. w.step = "status"
    BY <1>9 DEF QueueUpdateStatus
  <2>2. \/ Unwritten /\ Failed(w.req)
        \/ /\ Current("queue", w.req.queue, w.copy) /\ Write("queue", w.req.queue, obj)
           /\ qc' = Finished
    BY <1>9 DEF QueueUpdateStatus, Succeeded
  <2>3. ASSUME Write("queue", w.req.queue, obj), Current("queue", w.req.queue, w.copy)
        PROVE  Served(NotJobs)
    <3>1. /\ IsObject("queue", w.copy) /\ w.copy.uid \in Nat /\ 0 < w.copy.uid
          /\ w.copy.uid <= w.copy.rv /\ w.copy.rv \in Nat
      BY <2>1, <1>6 DEF Copy
    <3>2. IsQueue(w.copy) /\ w.copy.weight > 0
      BY <3>1 DEF IsObject
    <3>3. DOMAIN obj = DOMAIN w.copy
      OBVIOUS
    <3>4. /\ obj.uid = w.copy.uid /\ obj.state = w.status.state
          /\ obj.weight = w.copy.weight
      BY <3>2 DEF IsQueue
    <3> HIDE DEF obj
    <3>5. IsQueue(obj) /\ obj.weight > 0
      BY <3>2, <3>3, <3>4, <2>1, <1>6 DEF IsQueue
    <3>6. IsObject("queue", obj)
      BY <3>1, <3>3, <3>5 DEF IsObject
    <3>7. w.copy.rv = vers["queue"][w.req.queue]
      BY <2>3, KindsOf DEF Current, Shared, Objects
    <3>8. Writable("queue", w.req.queue, obj)
      BY <3>1, <3>4, <3>6, <3>7 DEF Writable
    <3>9. "queue" \in NotJobs
      BY KindsOf DEF NotJobs
    <3> QED
      BY <2>3, <3>8, <3>9, <1>2, ServedBy
  <2>4. QueueFine(vers, qc')
    BY <2>1, <2>2, <1>0, <1>6, FailedFine, FinishedFine
  <2> QED
    BY <2>1, <2>2, <2>3, <2>4, <1>2, <1>3, <1>4, <1>6
<1> QED
  BY <1>5, <1>7, <1>8, <1>9 DEF QueueWorker

-----------------------------------------------------------------------------
(***************************************************************************)
(* The podgroup controller.                                                *)
(***************************************************************************)

\* A pod is in the queue once, or with one worker, or neither; there are no
\* more workers than the controller was started with.
PgFine(c) ==
    /\ DOMAIN c = DOMAIN InitPGC
    /\ c.queue \in Seq(Range(c.queue)) /\ IsInjective(c.queue)
    /\ Range(c.queue) \cap DOMAIN c.workers = {}
    /\ IsFiniteSet(DOMAIN c.workers)
    /\ Cardinality(DOMAIN c.workers) <= opt.workers

PgOK == PgFine(pgc) /\ opt.workers \in Nat

\* The fields of the podgroup controller.
LEMMA PgFields == DOMAIN InitPGC = {"queue", "again", "later", "workers"}
  BY DEF InitPGC

\* The podgroup controller starts with nothing to do.
LEMMA InitPgFine == ASSUME opt.workers \in Nat PROVE PgFine(InitPGC)
<1>1. InitPGC.queue = <<>> /\ InitPGC.workers = <<>>
  BY DEF InitPGC
<1>2. /\ <<>> \in Seq(Range(<<>>)) /\ DOMAIN <<>> = {}
      /\ IsInjective(<<>>) /\ Range(<<>>) = {}
  BY DEF Range, IsInjective
<1>3. IsFiniteSet({}) /\ Cardinality({}) = 0
  BY FS_EmptySet
<1> QED
  BY <1>1, <1>2, <1>3 DEF PgFine

\* Nothing of this depends on the other fields.
LEMMA PgStays ==
    ASSUME NEW c, NEW d, PgFine(c), DOMAIN d = DOMAIN c, d.queue = c.queue,
           DOMAIN d.workers = DOMAIN c.workers
    PROVE  PgFine(d)
  BY DEF PgFine

\* One that is new at the end of a queue without repetitions.
LEMMA InjectiveAppend ==
    ASSUME NEW s, s \in Seq(Range(s)), IsInjective(s), NEW e, e \notin Range(s)
    PROVE  IsInjective(Append(s, e))
<1>1. /\ Len(s) \in Nat /\ DOMAIN s = 1 .. Len(s)
      /\ DOMAIN Append(s, e) = 1 .. Len(s) + 1
      /\ \A i \in 1 .. Len(s) : Append(s, e)[i] = s[i]
      /\ Append(s, e)[Len(s) + 1] = e
  OBVIOUS
<1>2. /\ \A i \in 1 .. Len(s) : s[i] # e
      /\ \A i, k \in 1 .. Len(s) : s[i] = s[k] => i = k
  BY <1>1 DEF Range, IsInjective
<1>3. \A i \in 1 .. Len(s) + 1 : i \in 1 .. Len(s) \/ i = Len(s) + 1
  BY <1>1
<1> QED
  BY <1>1, <1>2, <1>3 DEF IsInjective

\* A pod that nobody has is added to the queue.
LEMMA PgQueuedFine ==
    ASSUME NEW c, PgFine(c), NEW p, p \notin Range(c.queue), p \notin DOMAIN c.workers,
           NEW d, DOMAIN d = DOMAIN c, d.queue = Append(c.queue, p),
           d.workers = c.workers
    PROVE  PgFine(d)
<1>1. c.queue \in Seq(Range(c.queue)) /\ IsInjective(c.queue)
  BY DEF PgFine
<1>2. /\ Range(d.queue) = Range(c.queue) \cup {p} /\ d.queue \in Seq(Range(d.queue))
      /\ IsInjective(d.queue)
  <2> DEFINE s == c.queue
             t == Append(s, p)
  <2> HIDE DEF s
  <2>1. s \in Seq(Range(s)) /\ IsInjective(s) /\ p \notin Range(s)
    BY <1>1 DEF s
  <2>2. Range(t) = Range(s) \cup {p} /\ t \in Seq(Range(t))
    BY <2>1, RangeAppend
  <2>3. IsInjective(t)
    BY <2>1, InjectiveAppend
  <2>4. d.queue = t
    BY DEF s
  <2> HIDE DEF t
  <2> QED
    BY <2>2, <2>3, <2>4 DEF s
<1> QED
  BY <1>2 DEF PgFine

\* Add of the work queue.
LEMMA PgAddFine ==
    ASSUME NEW c, PgFine(c), NEW p
    PROVE  PgFine(PgAdd(c, p))
<1>0. DOMAIN c = {"queue", "again", "later", "workers"}
  BY PgFields DEF PgFine
<1>1. CASE p \in Range(c.queue)
  BY <1>1 DEF PgAdd
<1>2. CASE p \notin Range(c.queue) /\ p \in DOMAIN c.workers
  <2> DEFINE d == [c EXCEPT !.again = @ \cup {p}]
  <2>1. DOMAIN d = DOMAIN c /\ d.queue = c.queue /\ d.workers = c.workers
    BY <1>0
  <2>2. PgAdd(c, p) = d
    BY <1>2 DEF PgAdd
  <2> HIDE DEF d
  <2> QED
    BY <2>1, <2>2, PgStays
<1>3. CASE p \notin Range(c.queue) /\ p \notin DOMAIN c.workers
  <2> DEFINE d == [c EXCEPT !.queue = Append(c.queue, p)]
  <2>1. DOMAIN d = DOMAIN c /\ d.queue = Append(c.queue, p) /\ d.workers = c.workers
    BY <1>0
  <2>2. PgAdd(c, p) = d
    BY <1>3 DEF PgAdd
  <2> HIDE DEF d
  <2> QED
    BY <1>3, <2>1, <2>2, PgQueuedFine
<1> QED
  BY <1>1, <1>2, <1>3

\* Done: a pod that came again while a worker had it is queued again.
LEMMA PgDoneFine ==
    ASSUME NEW c, PgFine(c), NEW p, p \in DOMAIN c.workers, opt.workers \in Nat
    PROVE  PgFine(PgDone(c, p))
<1> DEFINE d == PgDone(c, p)
           e == [c EXCEPT !.workers = Without(c.workers, p)]
<1>0. DOMAIN c = {"queue", "again", "later", "workers"}
  BY PgFields DEF PgFine
<1>1. DOMAIN Without(c.workers, p) = DOMAIN c.workers \ {p}
  BY DEF Without, Restrict
<1>2. DOMAIN e = DOMAIN c /\ e.queue = c.queue /\ e.workers = Without(c.workers, p)
  BY <1>0
<1> HIDE DEF e
<1>3. DOMAIN e.workers = DOMAIN c.workers \ {p}
  BY <1>1, <1>2
<1>4. IsFiniteSet(DOMAIN e.workers) /\ Cardinality(DOMAIN e.workers) <= opt.workers
  <2>1. IsFiniteSet(DOMAIN c.workers) /\ Cardinality(DOMAIN c.workers) <= opt.workers
    BY DEF PgFine
  <2>2. /\ IsFiniteSet(DOMAIN c.workers \ {p})
        /\ Cardinality(DOMAIN c.workers \ {p}) = Cardinality(DOMAIN c.workers) - 1
        /\ Cardinality(DOMAIN c.workers) \in Nat
    BY <2>1, FS_RemoveElement, FS_CardinalityType
  <2> QED
    BY <2>1, <2>2, <1>3
<1>5. PgFine(e) /\ p \notin DOMAIN e.workers /\ p \notin Range(e.queue)
  BY <1>2, <1>3, <1>4 DEF PgFine
<1>6. /\ DOMAIN d = DOMAIN e /\ d.workers = e.workers
      /\ d.queue = IF p \in c.again THEN Append(e.queue, p) ELSE e.queue
  BY <1>0, <1>2 DEF PgDone
<1> HIDE DEF d
<1>7. CASE p \in c.again
  BY <1>5, <1>6, <1>7, PgQueuedFine DEF d
<1>8. CASE p \notin c.again
  BY <1>5, <1>6, <1>8, PgStays DEF d
<1> QED
  BY <1>7, <1>8

\* The steps of the podgroup controller.
LEMMA GroupSteps ==
    ASSUME Shared, Notes, PgOK, GroupHandlers \/ GroupWorks
    PROVE  /\ Served(NotJobs) /\ PgFine(pgc')
           /\ UNCHANGED <<clock, opt, qc, gcc, jcc>> /\ DOMAIN note' = DOMAIN note
<1>0. PgFine(pgc) /\ opt.workers \in Nat /\ UNCHANGED <<qc, gcc, jcc>>
  BY DEF PgOK, GroupHandlers, GroupWorks
<1>1. DOMAIN pgc = {"queue", "again", "later", "workers"}
  BY <1>0, PgFields DEF PgFine
<1>2. "group" \in NotJobs /\ "group" \in Plain /\ "pod" \in Plain /\ "pod" \in Kinds
  BY DEF Plain, NotJobs, Kinds
<1>3. ASSUME Works
      PROVE  /\ UNCHANGED <<clock, opt, store>> /\ DOMAIN note' = DOMAIN note
             /\ Unwritten => Served(NotJobs)
  BY <1>3, WorkerWorks DEF Served
<1>4. CASE PgOnPod
  <2>1. PICK n \in Due("pgPod") :
          /\ Called("pgPod") /\ Unwritten
          /\ pgc' = PgAdd(pgc, n.name) \/ pgc' = pgc
    BY <1>4 DEF PgOnPod
  <2>2. Served({}) /\ UNCHANGED <<clock, opt>> /\ DOMAIN note' = DOMAIN note
    BY <2>1, HandlerCalled
  <2> QED
    BY <2>1, <2>2, <1>0, PgAddFine, ServedBySome
<1>5. CASE addReplicaSet
  <2>1. PICK n \in Due("pgSet") :
          /\ Called("pgSet") /\ pgc' = pgc
          /\ Unwritten \/ \E g : Write("group", g, Gone)
    BY <1>5 DEF addReplicaSet
  <2>2. UNCHANGED <<store, clock, opt>> /\ DOMAIN note' = DOMAIN note
    BY <2>1 DEF Called
  <2>3. Served(NotJobs)
    <3>1. CASE Unwritten
      BY <3>1, <2>2 DEF Served
    <3>2. CASE \E g : Write("group", g, Gone)
      BY <3>2, <2>2, <1>2, GoneServed
    <3> QED
      BY <2>1, <3>1, <3>2
  <2> QED
    BY <2>1, <2>2, <2>3, <1>0
<1>6. CASE processNextReq
  <2> DEFINE p == Head(pgc.queue)
             c == [pgc EXCEPT !.queue = Tail(@)]
  <2>1. /\ pgc.queue # <<>> /\ Cardinality(DOMAIN pgc.workers) < opt.workers
        /\ Works /\ Unwritten
        /\ \/ pgc' = c
           \/ \E v : pgc' = [c EXCEPT !.workers = Put(@, p, v)]
    BY <1>6 DEF processNextReq
  <2>2. DOMAIN c = DOMAIN pgc /\ c.queue = Tail(pgc.queue) /\ c.workers = pgc.workers
    BY <1>1
  <2>3. pgc.queue \in Seq(Range(pgc.queue)) /\ IsInjective(pgc.queue)
    BY <1>0 DEF PgFine
  <2>4. /\ p \in Range(pgc.queue) /\ Tail(pgc.queue) \in Seq(Range(Tail(pgc.queue)))
        /\ Range(Tail(pgc.queue)) \subseteq Range(pgc.queue)
        /\ p \notin Range(Tail(pgc.queue)) /\ IsInjective(Tail(pgc.queue))
    BY <2>1, <2>3, RangeTail
  <2> HIDE DEF c, p
  <2>5. PgFine(c) /\ p \notin DOMAIN c.workers /\ p \notin Range(c.queue)
    BY <2>2, <2>4, <1>0 DEF PgFine
  <2>6. ASSUME NEW v, pgc' = [c EXCEPT !.workers = Put(c.workers, p, v)] PROVE PgFine(pgc')
    <3>1. DOMAIN Put(c.workers, p, v) = DOMAIN c.workers \cup {p}
      BY DEF Put
    <3>2. /\ DOMAIN pgc' = DOMAIN c /\ pgc'.queue = c.queue
          /\ pgc'.workers = Put(c.workers, p, v)
      BY <2>6, <2>2, <1>1
    <3>3. DOMAIN pgc'.workers = DOMAIN c.workers \cup {p}
      BY <3>1, <3>2
    <3>4. /\ IsFiniteSet(DOMAIN c.workers \cup {p})
          /\ Cardinality(DOMAIN c.workers \cup {p}) = Cardinality(DOMAIN c.workers) + 1
          /\ Cardinality(DOMAIN c.workers) \in Nat
      BY <2>5, FS_AddElement, FS_CardinalityType DEF PgFine
    <3>5. /\ IsFiniteSet(DOMAIN pgc'.workers)
          /\ Cardinality(DOMAIN pgc'.workers) <= opt.workers
      BY <3>3, <3>4, <2>1, <2>2, <1>0
    <3> QED
      BY <2>5, <3>2, <3>3, <3>5 DEF PgFine
  <2>7. PgFine(pgc')
    BY <2>1, <2>5, <2>6
  <2> QED
    BY <2>1, <2>7, <1>0, <1>3
<1>7. CASE PgLater
  <2>1. PICK p : /\ Works /\ Unwritten
                 /\ pgc' = PgAdd([pgc EXCEPT !.later = @ \ {p}], p)
    BY <1>7 DEF PgLater
  <2> DEFINE d == [pgc EXCEPT !.later = @ \ {p}]
  <2>2. DOMAIN d = DOMAIN pgc /\ d.queue = pgc.queue /\ d.workers = pgc.workers
    BY <1>1
  <2>3. pgc' = PgAdd(d, p)
    BY <2>1
  <2> HIDE DEF d
  <2>4. PgFine(d)
    BY <2>2, <1>0, PgStays
  <2> QED
    BY <2>1, <2>3, <2>4, <1>0, <1>3, PgAddFine
<1>8. ASSUME NEW p \in DOMAIN pgc.workers, PgRetry(p) PROVE PgFine(pgc')
  <2> DEFINE d == [pgc EXCEPT !.later = @ \cup {p}]
  <2>1. DOMAIN d = DOMAIN pgc /\ d.queue = pgc.queue /\ d.workers = pgc.workers
    BY <1>1
  <2>2. pgc' = PgDone(d, p)
    BY <1>8 DEF PgRetry
  <2> HIDE DEF d
  <2>3. PgFine(d)
    BY <2>1, <1>0, PgStays
  <2> QED
    BY <2>1, <2>2, <2>3, <1>0, PgDoneFine
<1>9. ASSUME NEW p \in DOMAIN pgc.workers, createNormalPodPGIfNotExist(p)
      PROVE  /\ Served(NotJobs) /\ PgFine(pgc')
             /\ UNCHANGED <<clock, opt, qc, gcc, jcc>> /\ DOMAIN note' = DOMAIN note
  <2> DEFINE pod == pgc.workers[p].pod
             g == GeneratePodgroupName(p, pod)
             new == [uid |-> 0, rv |-> 0, queue |-> pod.queue, phase |-> "Pending",
                     owner |-> newPGOwnerReferences(p, pod),
                     preemptable |-> inheritUpperAnnotations(pod)]
             made == createPodGroupPatch(new, opt.nsQueue)
  <2>1. /\ Works
        /\ \/ Unwritten
           \/ g \notin DOMAIN api["group"] /\ Write("group", g, made)
        /\ \/ PgRetry(p)
           \/ pgc' = [pgc EXCEPT !.workers[p].step = "patch"]
    BY <1>9 DEF createNormalPodPGIfNotExist
  <2>2. {"uid", "rv"} \subseteq DOMAIN made
    BY DEF createPodGroupPatch
  <2> HIDE DEF g, made
  <2>3. Served(NotJobs)
    <3>1. CASE Unwritten
      BY <3>1, <2>1, <1>3
    <3>2. CASE g \notin DOMAIN api["group"] /\ Write("group", g, made)
      BY <3>2, <2>1, <2>2, <1>2, <1>3, PlainCreated
    <3> QED
      BY <2>1, <3>1, <3>2
  <2>4. ASSUME pgc' = [pgc EXCEPT !.workers[p].step = "patch"] PROVE PgFine(pgc')
    <3>1. /\ DOMAIN pgc' = DOMAIN pgc /\ pgc'.queue = pgc.queue
          /\ DOMAIN pgc'.workers = DOMAIN pgc.workers
      BY <2>4, <1>1
    <3> QED
      BY <3>1, <1>0, PgStays
  <2> QED
    BY <2>1, <2>3, <2>4, <1>0, <1>3, <1>8
<1>10. ASSUME NEW p \in DOMAIN pgc.workers, updatePodAnnotations(p)
       PROVE  /\ Served(NotJobs) /\ PgFine(pgc')
              /\ UNCHANGED <<clock, opt, qc, gcc, jcc>> /\ DOMAIN note' = DOMAIN note
  <2> DEFINE stored == Lookup(api["pod"], p)
             g == GeneratePodgroupName(p, pgc.workers[p].pod)
             new == [stored EXCEPT !.group = g]
  <2>1. /\ Works
        /\ \/ Unwritten
           \/ stored # Gone /\ Write("pod", p, new)
        /\ PgRetry(p) \/ pgc' = PgDone(pgc, p)
    BY <1>10 DEF updatePodAnnotations
  <2> HIDE DEF g
  <2>2. ASSUME stored # Gone, Write("pod", p, new) PROVE Served(NotJobs)
    <3>1. p \in DOMAIN api["pod"] /\ stored = api["pod"][p]
      BY <2>2 DEF Lookup
    <3>2. {"uid", "rv"} \subseteq DOMAIN stored
      BY <3>1, <1>2, Stored
    <3> HIDE DEF stored
    <3>3. DOMAIN new = DOMAIN stored /\ new.uid = stored.uid
      BY <3>2
    <3>4. Write("pod", p, new)
      BY <2>2
    <3>5. UNCHANGED <<store, opt>>
      BY <2>1, <1>3
    <3> HIDE DEF new
    <3> QED
      BY <3>1, <3>3, <3>4, <3>5, <1>2, PlainServed
  <2>3. Served(NotJobs)
    BY <2>1, <2>2, <1>3
  <2>4. PgFine(pgc')
    BY <2>1, <1>0, <1>8, PgDoneFine
  <2> QED
    BY <2>1, <2>3, <2>4, <1>0, <1>3
<1> QED
  BY <1>4, <1>5, <1>6, <1>7, <1>9, <1>10 DEF GroupHandlers, GroupWorks

-----------------------------------------------------------------------------
(***************************************************************************)
(* The garbage collector.                                                  *)
(***************************************************************************)

\* The worker is idle, or it has the first Job of the queue.
GcFine(c) ==
    /\ DOMAIN c = DOMAIN InitGCC
    /\ c.queue \in Seq(Range(c.queue))
    /\ \/ c.worker = NoWork
       \/ /\ c.worker.step \in {"get", "delete"}
          /\ c.queue # <<>> /\ Head(c.queue) = c.worker.job

\* The fields of the garbage collector.
LEMMA GcFields == DOMAIN InitGCC = {"queue", "again", "later", "timers", "worker"}
  BY DEF InitGCC

\* The garbage collector starts with nothing to do.
LEMMA InitGcFine == GcFine(InitGCC) /\ InitGCC.worker.step = "idle"
<1>1. InitGCC.queue = <<>> /\ InitGCC.worker = NoWork
  BY DEF InitGCC
<1>2. <<>> \in Seq(Range(<<>>)) /\ NoWork.step = "idle"
  BY DEF NoWork
<1> QED
  BY <1>1, <1>2 DEF GcFine

\* Nothing of this depends on the other fields.
LEMMA GcStays ==
    ASSUME NEW c, NEW d, GcFine(c), DOMAIN d = DOMAIN c, d.queue = c.queue,
           d.worker = c.worker
    PROVE  GcFine(d)
  BY DEF GcFine

\* Done: a Job that came again meanwhile is queued again.
LEMMA GcDoneFine ==
    ASSUME NEW c, DOMAIN c = DOMAIN InitGCC, c.queue \in Seq(Range(c.queue)), c.queue # <<>>
    PROVE  GcFine(GcDone(c)) /\ GcDone(c).worker.step = "idle"
<1> DEFINE d == GcDone(c)
           t == Tail(c.queue)
           s == IF c.again THEN Append(t, Head(c.queue)) ELSE t
<1>1. DOMAIN d = DOMAIN c /\ d.worker = NoWork /\ d.queue = s
  BY GcFields DEF GcDone
<1>2. t \in Seq(Range(t))
  BY RangeTail
<1>3. s \in Seq(Range(s))
  <2>1. CASE c.again
    <3> HIDE DEF t
    <3> QED
      BY <2>1, <1>2, RangeAppend
  <2>2. CASE ~c.again
    BY <2>2, <1>2
  <2> QED
    BY <2>1, <2>2
<1> HIDE DEF d, s
<1>4. GcFine(d)
  BY <1>1, <1>3 DEF GcFine
<1>5. d.worker.step = "idle"
  BY <1>1 DEF NoWork
<1> QED
  BY <1>4, <1>5 DEF d

\* Add of the work queue.
LEMMA GcAddFine ==
    ASSUME NEW c, GcFine(c), NEW j
    PROVE  GcFine(GcAdd(c, j)) /\ GcAdd(c, j).worker = c.worker
<1>0. DOMAIN c = {"queue", "again", "later", "timers", "worker"}
  BY GcFields DEF GcFine
<1>1. CASE c.worker # NoWork /\ c.worker.job = j
  <2> DEFINE d == [c EXCEPT !.again = TRUE]
  <2>1. DOMAIN d = DOMAIN c /\ d.queue = c.queue /\ d.worker = c.worker
    BY <1>0
  <2>2. GcAdd(c, j) = d
    BY <1>1 DEF GcAdd
  <2> HIDE DEF d
  <2> QED
    BY <2>1, <2>2, GcStays
<1>2. CASE ~(c.worker # NoWork /\ c.worker.job = j) /\ j \in Range(c.queue)
  BY <1>2 DEF GcAdd
<1>3. CASE ~(c.worker # NoWork /\ c.worker.job = j) /\ j \notin Range(c.queue)
  <2> DEFINE s == c.queue
             t == Append(s, j)
             d == [c EXCEPT !.queue = t]
  <2>1. DOMAIN d = DOMAIN c /\ d.queue = t /\ d.worker = c.worker
    BY <1>0
  <2>2. GcAdd(c, j) = d
    BY <1>3 DEF GcAdd
  <2> HIDE DEF d, s
  <2>3. s \in Seq(Range(s))
    BY DEF s, GcFine
  <2>4. t \in Seq(Range(t)) /\ t # <<>> /\ (s # <<>> => Head(t) = Head(s))
    BY <2>3, RangeAppend
  <2> HIDE DEF t
  <2>5. GcFine(d)
    BY <2>1, <2>4 DEF GcFine, s
  <2> QED
    BY <2>1, <2>2, <2>5
<1> QED
  BY <1>1, <1>2, <1>3

\* After a judgement the worker goes on with a Job that has expired, or is idle.
LEMMA JudgedFine ==
    ASSUME GcFine(gcc), gcc.queue # <<>>, NEW next \in {"get", "delete"}, NEW job,
           Judged(Head(gcc.queue), job, next)
    PROVE  /\ GcFine(gcc')
           /\ \/ gcc'.worker.step = "idle"
              \/ /\ processTTL(job) = "expired"
                 /\ gcc'.worker = [step |-> next, job |-> Head(gcc.queue),
                                   uid |-> IF job = Gone THEN 0 ELSE job.uid]
<1> DEFINE j == Head(gcc.queue)
           w == [step |-> next, job |-> j, uid |-> IF job = Gone THEN 0 ELSE job.uid]
           c == [gcc EXCEPT !.worker = w]
<1>0. DOMAIN gcc = {"queue", "again", "later", "timers", "worker"}
  BY GcFields DEF GcFine
<1>1. w.step = next /\ w.job = j
  OBVIOUS
<1>2. \/ processTTL(job) = "expired" /\ gcc' = c
      \/ gcc' = GcDone(GcAfter(c, j, job))
      \/ gcc' = GcDone(GcRetry(c, j))
      \/ gcc' = GcDone(c)
  BY DEF Judged, processTTL
<1> HIDE DEF w, j
<1>3. DOMAIN c = DOMAIN gcc /\ c.queue = gcc.queue /\ c.worker = w
  BY <1>0
<1> HIDE DEF c
<1>4. /\ DOMAIN GcAfter(c, j, job) = DOMAIN c /\ GcAfter(c, j, job).queue = c.queue
      /\ DOMAIN GcRetry(c, j) = DOMAIN c /\ GcRetry(c, j).queue = c.queue
  BY <1>0, <1>3 DEF GcAfter, GcRetry
<1>5. DOMAIN gcc = DOMAIN InitGCC /\ gcc.queue \in Seq(Range(gcc.queue))
  BY DEF GcFine
<1>6. CASE gcc' = c /\ processTTL(job) = "expired"
  <2>1. GcFine(c)
    BY <1>1, <1>3, <1>5 DEF GcFine, j
  <2> QED
    BY <2>1, <1>3, <1>6 DEF w, j
<1>7. ASSUME NEW d, DOMAIN d = DOMAIN c, d.queue = c.queue
      PROVE  GcFine(GcDone(d)) /\ GcDone(d).worker.step = "idle"
  BY <1>3, <1>5, <1>7, GcDoneFine
<1>8. CASE gcc' = GcDone(c)
  BY <1>7, <1>8
<1>9. CASE gcc' = GcDone(GcAfter(c, j, job))
  BY <1>4, <1>7, <1>9
<1>10. CASE gcc' = GcDone(GcRetry(c, j))
  BY <1>4, <1>7, <1>10
<1> QED
  BY <1>2, <1>6, <1>8, <1>9, <1>10

\* An expired Job is marked: the Job that was judged, or nothing.
LEMMA GcDeleteChanges ==
    ASSUME Shared, AdmittedJobsRun, Judgement, GcDelete, ~Unwritten
    PROVE  \E j : \E obj : ChangesJob(j, obj)
<1> DEFINE j == gcc.worker.job
           job == Lookup(api["job"], j)
           obj == [job EXCEPT !.deleting = TRUE]
<1>1. /\ job # Gone /\ job.uid = gcc.worker.uid
      /\ Write("job", j, obj) /\ UNCHANGED <<store, opt, clock>>
  BY DEF GcDelete, Works
<1>2. j \in DOMAIN api["job"] /\ job = api["job"][j]
  BY <1>1 DEF Lookup
<1>3. IsJob(job) /\ CanRun(job.spec)
  BY <1>2, StoredJob DEF AdmittedJobsRun
<1>4. Ripe(api["job"], vers["job"], clock, gcc.worker.job, gcc.worker.uid)
  BY DEF Judgement, GcDelete
<1>5. needsCleanup(job) /\ ExpireAt(job) <= clock
  BY <1>1, <1>2, <1>4 DEF Ripe
<1> HIDE DEF job
<1>6. /\ IsJob(obj) /\ obj.spec = job.spec /\ obj.uid = job.uid
      /\ obj.phase = job.phase /\ obj.at = job.at
  BY <1>3 DEF IsJob
<1> HIDE DEF obj
<1>7. Writable("job", j, obj)
  BY <1>2, <1>6, JobWritable
<1>8. Continues(job, obj)
  BY <1>5, <1>6 DEF Continues
<1> QED
  BY <1>1, <1>2, <1>3, <1>6, <1>7, <1>8 DEF ChangesJob

\* A Job in the API server that has expired is ripe.
LEMMA ExpiredRipe ==
    ASSUME Shared, NEW j, processTTL(Lookup(api["job"], j)) = "expired"
    PROVE  Ripe(api["job"], vers["job"], clock, j, Lookup(api["job"], j).uid)
<1> DEFINE job == Lookup(api["job"], j)
<1>1. job # Gone /\ needsCleanup(job) /\ ExpireAt(job) <= clock
  BY DEF processTTL
<1>2. j \in DOMAIN api["job"] /\ job = api["job"][j]
  BY <1>1 DEF Lookup
<1>3. job.uid \in Nat /\ j \in DOMAIN vers["job"] /\ job.uid <= vers["job"][j]
  BY <1>2, StoredJob
<1> QED
  BY <1>1, <1>2, <1>3 DEF Ripe

\* The steps of the garbage collector.
LEMMA GarbageSteps ==
    ASSUME Shared, Notes, GcFine(gcc), AdmittedJobsRun, Judgement,
           GarbageHandlers \/ GarbageWorks
    PROVE  /\ Served({}) \/ \E j : \E obj : ChangesJob(j, obj)
           /\ GcFine(gcc')
           /\ gcc'.worker.step = "delete" =>
                Ripe(api["job"], vers["job"], clock, gcc'.worker.job, gcc'.worker.uid)
           /\ UNCHANGED <<clock, opt, qc, pgc, jcc>> /\ DOMAIN note' = DOMAIN note
<1>0. UNCHANGED <<qc, pgc, jcc>>
  BY DEF GarbageHandlers, GarbageWorks
<1>1. DOMAIN gcc = {"queue", "again", "later", "timers", "worker"}
  BY GcFields DEF GcFine
<1>2. ASSUME Works
      PROVE  /\ UNCHANGED <<clock, opt, store>> /\ DOMAIN note' = DOMAIN note
             /\ Unwritten => Served({})
  BY <1>2, WorkerWorks DEF Served
<1>3. gcc.worker.step = "delete" =>
        Ripe(api["job"], vers["job"], clock, gcc.worker.job, gcc.worker.uid)
  BY DEF Judgement
<1>4. ASSUME gcc.worker.step \in {"get", "delete"}
      PROVE  gcc.queue # <<>> /\ Head(gcc.queue) = gcc.worker.job
  BY <1>4 DEF GcFine, NoWork
<1>5. CASE GcOnJob
  <2>1. PICK n \in Due("gcJob") :
          /\ Called("gcJob") /\ Unwritten
          /\ gcc' = GcAdd(gcc, n.name) \/ gcc' = gcc
    BY <1>5 DEF GcOnJob
  <2>2. Served({}) /\ UNCHANGED <<clock, opt>> /\ DOMAIN note' = DOMAIN note
    BY <2>1, HandlerCalled
  <2>3. GcFine(gcc') /\ gcc'.worker = gcc.worker
    BY <2>1, GcAddFine
  <2> QED
    BY <2>2, <2>3, <1>0, <1>3
<1>6. CASE processJob
  <2>1. /\ gcc.queue # <<>> /\ Works /\ Unwritten
        /\ \E job : Judged(Head(gcc.queue), job, "get")
    BY <1>6 DEF processJob
  <2>2. PICK job : Judged(Head(gcc.queue), job, "get")
    BY <2>1
  <2> DEFINE u == IF job = Gone THEN 0 ELSE job.uid
  <2>4. /\ GcFine(gcc')
        /\ \/ gcc'.worker.step = "idle"
           \/ /\ processTTL(job) = "expired"
              /\ gcc'.worker = [step |-> "get", job |-> Head(gcc.queue), uid |-> u]
    BY <2>1, <2>2, JudgedFine
  <2> HIDE DEF u
  <2>3. GcFine(gcc') /\ gcc'.worker.step # "delete"
    BY <2>4
  <2> QED
    BY <2>1, <2>3, <1>0, <1>2
<1>7. ASSUME gcc.queue # <<>>, NEW j, gcc' = GcDone(GcRetry(gcc, j)) \/ gcc' = GcDone(gcc)
      PROVE  GcFine(gcc') /\ gcc'.worker.step # "delete"
  <2> DEFINE d == GcRetry(gcc, j)
  <2>1. DOMAIN d = DOMAIN gcc /\ d.queue = gcc.queue
    BY <1>1 DEF GcRetry
  <2> HIDE DEF d
  <2>2. DOMAIN gcc = DOMAIN InitGCC /\ gcc.queue \in Seq(Range(gcc.queue))
    BY DEF GcFine
  <2>3. /\ GcFine(GcDone(d)) /\ GcDone(d).worker.step = "idle"
        /\ GcFine(GcDone(gcc)) /\ GcDone(gcc).worker.step = "idle"
    BY <1>7, <2>1, <2>2, GcDoneFine
  <2> QED
    BY <1>7, <2>3 DEF d
<1>8. CASE GcGet
  <2> DEFINE j == gcc.worker.job
             job == Lookup(api["job"], j)
  <2>1. /\ gcc.worker.step = "get" /\ Works /\ Unwritten
        /\ gcc' = GcDone(GcRetry(gcc, j)) \/ Judged(j, job, "delete")
    BY <1>8 DEF GcGet
  <2>2. gcc.queue # <<>> /\ Head(gcc.queue) = j
    BY <2>1, <1>4
  <2>3. ASSUME Judged(j, job, "delete")
        PROVE  /\ GcFine(gcc')
               /\ gcc'.worker.step = "delete" =>
                    Ripe(api["job"], vers["job"], clock, gcc'.worker.job, gcc'.worker.uid)
    <3> HIDE DEF j, job
    <3>1. /\ GcFine(gcc')
          /\ \/ gcc'.worker.step = "idle"
             \/ /\ processTTL(job) = "expired"
                /\ gcc'.worker = [step |-> "delete", job |-> j,
                                  uid |-> IF job = Gone THEN 0 ELSE job.uid]
      BY <2>2, <2>3, JudgedFine
    <3>2. ASSUME gcc'.worker.step = "delete"
          PROVE  Ripe(api["job"], vers["job"], clock, gcc'.worker.job, gcc'.worker.uid)
      <4>1. /\ processTTL(job) = "expired"
            /\ gcc'.worker.job = j /\ gcc'.worker.uid = IF job = Gone THEN 0 ELSE job.uid
        BY <3>1, <3>2
      <4>2. job # Gone
        BY <4>1 DEF processTTL
      <4>3. Ripe(api["job"], vers["job"], clock, j, job.uid)
        BY <4>1, ExpiredRipe DEF job
      <4> QED
        BY <4>1, <4>2, <4>3
    <3> QED
      BY <3>1, <3>2
  <2>4. /\ GcFine(gcc')
        /\ gcc'.worker.step = "delete" =>
             Ripe(api["job"], vers["job"], clock, gcc'.worker.job, gcc'.worker.uid)
    BY <2>1, <2>2, <2>3, <1>7
  <2> QED
    BY <2>1, <2>4, <1>0, <1>2
<1>9. CASE GcDelete
  <2>1. /\ gcc.worker.step = "delete" /\ Works
        /\ \E j : gcc' = GcDone(GcRetry(gcc, j)) \/ gcc' = GcDone(gcc)
    BY <1>9 DEF GcDelete
  <2>2. gcc.queue # <<>>
    BY <2>1, <1>4
  <2>3. GcFine(gcc') /\ gcc'.worker.step # "delete"
    BY <2>1, <2>2, <1>7
  <2>4. Served({}) \/ \E j : \E obj : ChangesJob(j, obj)
    BY <2>1, <1>2, <1>9, GcDeleteChanges
  <2> QED
    BY <2>1, <2>3, <2>4, <1>0, <1>2
<1>10. CASE GcLater
  <2>1. /\ Works /\ Unwritten
        /\ \/ \E t : gcc' = GcAdd([gcc EXCEPT !.timers = @ \ {t}], t.job)
           \/ \E j : gcc' = GcAdd([gcc EXCEPT !.later = @ \ {j}], j)
    BY <1>10 DEF GcLater
  <2>2. \E d, j : /\ gcc' = GcAdd(d, j) /\ DOMAIN d = DOMAIN gcc
                  /\ d.queue = gcc.queue /\ d.worker = gcc.worker
    <3>1. ASSUME NEW t, gcc' = GcAdd([gcc EXCEPT !.timers = @ \ {t}], t.job)
          PROVE  \E d, k : /\ gcc' = GcAdd(d, k) /\ DOMAIN d = DOMAIN gcc
                           /\ d.queue = gcc.queue /\ d.worker = gcc.worker
      <4> DEFINE d == [gcc EXCEPT !.timers = @ \ {t}]
      <4>1. DOMAIN d = DOMAIN gcc /\ d.queue = gcc.queue /\ d.worker = gcc.worker
        BY <1>1
      <4>2. gcc' = GcAdd(d, t.job)
        BY <3>1
      <4> HIDE DEF d
      <4> QED
        BY <4>1, <4>2
    <3>2. ASSUME NEW j, gcc' = GcAdd([gcc EXCEPT !.later = @ \ {j}], j)
          PROVE  \E d, k : /\ gcc' = GcAdd(d, k) /\ DOMAIN d = DOMAIN gcc
                           /\ d.queue = gcc.queue /\ d.worker = gcc.worker
      <4> DEFINE d == [gcc EXCEPT !.later = @ \ {j}]
      <4>1. DOMAIN d = DOMAIN gcc /\ d.queue = gcc.queue /\ d.worker = gcc.worker
        BY <1>1
      <4>2. gcc' = GcAdd(d, j)
        BY <3>2
      <4> HIDE DEF d
      <4> QED
        BY <4>1, <4>2
    <3> QED
      BY <2>1, <3>1, <3>2
  <2>3. PICK d, j : /\ gcc' = GcAdd(d, j) /\ DOMAIN d = DOMAIN gcc
                    /\ d.queue = gcc.queue /\ d.worker = gcc.worker
    BY <2>2
  <2>4. GcFine(gcc') /\ gcc'.worker = gcc.worker
    BY <2>3, GcStays, GcAddFine
  <2> QED
    BY <2>1, <2>4, <1>0, <1>2, <1>3
<1> QED
  BY <1>5, <1>6, <1>8, <1>9, <1>10 DEF GarbageHandlers, GarbageWorks

-----------------------------------------------------------------------------
(***************************************************************************)
(* The job cache.                                                          *)
(***************************************************************************)

\* Whatever leads to an entry leads to one that is there.
JcFine(c) ==
    /\ DOMAIN c = DOMAIN InitJCC
    /\ c.queue \in Seq(Range(c.queue))
    /\ Range(c.jobs) \cup c.waiting \cup Range(c.queue) \subseteq DOMAIN c.entries

\* The fields of the job cache.
LEMMA JcFields == DOMAIN InitJCC = {"entries", "jobs", "waiting", "queue"}
  BY DEF InitJCC

\* The job cache starts empty.
LEMMA InitJcFine == JcFine(InitJCC)
<1>1. /\ InitJCC.queue = <<>> /\ InitJCC.jobs = <<>> /\ InitJCC.waiting = {}
      /\ InitJCC.entries = <<>>
  BY DEF InitJCC
<1>2. <<>> \in Seq(Range(<<>>)) /\ Range(<<>>) = {}
  BY DEF Range
<1> QED
  BY <1>1, <1>2 DEF JcFine

\* An entry is changed.
LEMMA JcStays ==
    ASSUME NEW c, NEW d, JcFine(c), DOMAIN d = DOMAIN c, d.queue = c.queue,
           d.jobs = c.jobs, d.waiting = c.waiting, DOMAIN d.entries = DOMAIN c.entries
    PROVE  JcFine(d)
  BY DEF JcFine

\* The name of a Job leads to an entry.
LEMMA LeadsTo ==
    ASSUME NEW c, JcFine(c), NEW key \in DOMAIN c.jobs
    PROVE  c.jobs[key] \in DOMAIN c.entries
<1>1. c.jobs[key] \in Range(c.jobs)
  BY DEF Range
<1> QED
  BY <1>1 DEF JcFine

\* What a function has when one value is set.
LEMMA PutRange ==
    ASSUME NEW f, NEW x, NEW v
    PROVE  /\ DOMAIN Put(f, x, v) = DOMAIN f \cup {x}
           /\ Range(Put(f, x, v)) \subseteq Range(f) \cup {v}
<1>1. DOMAIN Put(f, x, v) = DOMAIN f \cup {x}
  BY DEF Put
<1>2. ASSUME NEW y \in Range(Put(f, x, v)) PROVE y \in Range(f) \cup {v}
  <2>1. PICK a \in DOMAIN f \cup {x} : y = Put(f, x, v)[a]
    BY <1>1 DEF Range
  <2>2. y = IF a = x THEN v ELSE f[a]
    BY <2>1 DEF Put
  <2>3. CASE a = x
    BY <2>2, <2>3
  <2>4. CASE a # x
    <3>1. y = f[a] /\ a \in DOMAIN f
      BY <2>2, <2>4
    <3> QED
      BY <3>1 DEF Range
  <2> QED
    BY <2>3, <2>4
<1> QED
  BY <1>1, <1>2

\* There is an entry for the name.
LEMMA WithEntryFine ==
    ASSUME NEW c, JcFine(c), NEW key, NEW name, NEW job
    PROVE  /\ JcFine(WithEntry(c, key, name, job))
           /\ key \in DOMAIN WithEntry(c, key, name, job).jobs
<1>0. DOMAIN c = {"entries", "jobs", "waiting", "queue"}
  BY JcFields DEF JcFine
<1>1. CASE key \in DOMAIN c.jobs
  BY <1>1 DEF WithEntry
<1>2. CASE key \notin DOMAIN c.jobs
  <2> DEFINE i == Fresh(c)
             n == NewEntry(name, job)
             d == [c EXCEPT !.entries = Put(c.entries, i, n), !.jobs = Put(c.jobs, key, i)]
  <2>1. WithEntry(c, key, name, job) = d
    BY <1>2 DEF WithEntry
  <2> HIDE DEF i, n
  <2>2. /\ DOMAIN d = DOMAIN c /\ d.queue = c.queue /\ d.waiting = c.waiting
        /\ d.entries = Put(c.entries, i, n) /\ d.jobs = Put(c.jobs, key, i)
    BY <1>0
  <2>3. /\ DOMAIN d.entries = DOMAIN c.entries \cup {i}
        /\ DOMAIN d.jobs = DOMAIN c.jobs \cup {key}
        /\ Range(d.jobs) \subseteq Range(c.jobs) \cup {i}
    <3>1. /\ DOMAIN Put(c.entries, i, n) = DOMAIN c.entries \cup {i}
          /\ DOMAIN Put(c.jobs, key, i) = DOMAIN c.jobs \cup {key}
          /\ Range(Put(c.jobs, key, i)) \subseteq Range(c.jobs) \cup {i}
      BY PutRange
    <3> HIDE DEF d
    <3> QED
      BY <2>2, <3>1
  <2> HIDE DEF d
  <2>4. JcFine(d)
    BY <2>2, <2>3 DEF JcFine
  <2> QED
    BY <2>1, <2>3, <2>4
<1> QED
  BY <1>1, <1>2

\* An entry is to be cleaned up.
LEMMA DeleteJobFine ==
    ASSUME NEW c, JcFine(c), NEW i \in DOMAIN c.entries
    PROVE  JcFine(deleteJob(c, i))
<1> DEFINE d == deleteJob(c, i)
<1>1. /\ DOMAIN d = DOMAIN c /\ d.queue = c.queue /\ d.jobs = c.jobs
      /\ d.entries = c.entries /\ d.waiting = c.waiting \cup {i}
  BY JcFields DEF JcFine, deleteJob
<1> HIDE DEF d
<1>2. JcFine(d)
  BY <1>1 DEF JcFine
<1> QED
  BY <1>2 DEF d

\* An entry is written.
LEMMA EntryWritten ==
    ASSUME NEW c, JcFine(c), NEW f, DOMAIN f = DOMAIN c.entries
    PROVE  /\ JcFine([c EXCEPT !.entries = f])
           /\ [c EXCEPT !.entries = f].jobs = c.jobs
           /\ [c EXCEPT !.entries = f].entries = f
<1> DEFINE d == [c EXCEPT !.entries = f]
<1>1. /\ DOMAIN d = DOMAIN c /\ d.queue = c.queue /\ d.jobs = c.jobs
      /\ d.entries = f /\ d.waiting = c.waiting
  BY JcFields DEF JcFine
<1> HIDE DEF d
<1>2. JcFine(d)
  BY <1>1, JcStays
<1> QED
  BY <1>1, <1>2 DEF d

\* What the handlers make of the cache.
LEMMA AddFine ==
    ASSUME NEW c, JcFine(c), NEW key, NEW job
    PROVE  JcFine(Add(c, key, job))
<1> DEFINE d == WithEntry(c, key, key, job)
           k == d.jobs[key]
           e == [d EXCEPT !.entries[k].job = job, !.entries[k].name = key]
<1>1. JcFine(d)
  BY WithEntryFine
<1>2. Add(c, key, job) = d \/ Add(c, key, job) = e
  BY DEF Add
<1> HIDE DEF d, k
<1>3. DOMAIN d = {"entries", "jobs", "waiting", "queue"}
  BY <1>1, JcFields DEF JcFine
<1>4. /\ DOMAIN e = DOMAIN d /\ e.queue = d.queue /\ e.jobs = d.jobs
      /\ e.waiting = d.waiting /\ DOMAIN e.entries = DOMAIN d.entries
  BY <1>3
<1> HIDE DEF e
<1> QED
  BY <1>1, <1>2, <1>4, JcStays

\* A newer version of a Job.
LEMMA UpdateFine ==
    ASSUME NEW c, JcFine(c), NEW key, NEW job
    PROVE  JcFine(Update(c, key, job))
<1> DEFINE f == [c.entries EXCEPT ![c.jobs[key]].job = job]
<1>1. Update(c, key, job) = c \/ Update(c, key, job) = [c EXCEPT !.entries = f]
  BY JcFields DEF Update, JcFine
<1>2. DOMAIN f = DOMAIN c.entries
  OBVIOUS
<1> HIDE DEF f
<1> QED
  BY <1>1, <1>2, EntryWritten

\* A Job is gone.
LEMMA DeleteFine ==
    ASSUME NEW c, JcFine(c), NEW key
    PROVE  JcFine(Delete(c, key))
<1> DEFINE k == c.jobs[key]
           f == [c.entries EXCEPT ![k].job = NoJob]
           d == [c EXCEPT !.entries = f]
<1>1. CASE key \in DOMAIN c.jobs
  <2>1. Delete(c, key) = deleteJob(d, k)
    BY <1>1, JcFields DEF Delete, JcFine
  <2>2. DOMAIN f = DOMAIN c.entries /\ k \in DOMAIN c.entries
    BY <1>1, LeadsTo
  <2> HIDE DEF f, k
  <2>3. JcFine(d) /\ d.entries = f
    BY <2>2, EntryWritten
  <2> HIDE DEF d
  <2> QED
    BY <2>1, <2>2, <2>3, DeleteJobFine
<1>2. CASE key \notin DOMAIN c.jobs
  BY <1>2 DEF Delete
<1> QED
  BY <1>1, <1>2

\* A pod of a Job.
LEMMA AddPodFine ==
    ASSUME NEW c, JcFine(c), NEW key, NEW p
    PROVE  JcFine(AddPod(c, key, p)) /\ JcFine(UpdatePod(c, key))
<1> DEFINE d == WithEntry(c, key, "", NoJob)
           f == [d.entries EXCEPT ![d.jobs[key]].pods = @ \cup {p}]
<1>1. JcFine(d)
  BY WithEntryFine
<1>2. UpdatePod(c, key) = d
  BY DEF UpdatePod
<1>3. AddPod(c, key, p) = [d EXCEPT !.entries[d.jobs[key]].pods = @ \cup {p}]
  BY DEF AddPod
<1> HIDE DEF d
<1>4. [d EXCEPT !.entries[d.jobs[key]].pods = @ \cup {p}] = [d EXCEPT !.entries = f]
  BY <1>1, JcFields DEF JcFine
<1>5. DOMAIN f = DOMAIN d.entries
  OBVIOUS
<1> HIDE DEF f
<1> QED
  BY <1>1, <1>2, <1>3, <1>4, <1>5, EntryWritten

\* A pod of a Job is gone.
LEMMA DeletePodFine ==
    ASSUME NEW c, JcFine(c), NEW key, NEW p
    PROVE  JcFine(DeletePod(c, key, p))
<1> DEFINE d == WithEntry(c, key, "", NoJob)
           f == [d.entries EXCEPT ![d.jobs[key]].pods = @ \ {p}]
           e == [d EXCEPT !.entries = f]
<1>1. JcFine(d) /\ key \in DOMAIN d.jobs
  BY WithEntryFine
<1>2. [d EXCEPT !.entries[d.jobs[key]].pods = @ \ {p}] = e
  <2> HIDE DEF d
  <2> QED
    BY <1>1, JcFields DEF JcFine
<1>3. DeletePod(c, key, p) = deleteJob(e, e.jobs[key]) \/ DeletePod(c, key, p) = e
  BY <1>2, Zenon DEF DeletePod
<1> HIDE DEF d
<1>4. DOMAIN f = DOMAIN d.entries
  OBVIOUS
<1> HIDE DEF f
<1>5. JcFine(e) /\ e.jobs = d.jobs
  BY <1>1, <1>4, EntryWritten
<1> HIDE DEF e
<1>6. e.jobs[key] \in DOMAIN e.entries
  BY <1>1, <1>5, LeadsTo
<1> QED
  BY <1>3, <1>5, <1>6, DeleteJobFine

\* The clean-up takes the first entry of the queue.
LEMMA CleanupFine ==
    ASSUME JcFine(jcc), processCleanupJob
    PROVE  JcFine(jcc')
<1> DEFINE i == Head(jcc.queue)
           e == jcc.entries[i]
           c == [jcc EXCEPT !.queue = Tail(@)]
           less == Without(c.jobs, e.name)
           d == [c EXCEPT !.jobs = less]
<1>0. DOMAIN jcc = {"entries", "jobs", "waiting", "queue"}
  BY JcFields DEF JcFine
<1>1. jcc.queue # <<>> /\ (jcc' = deleteJob(c, i) \/ jcc' = Collect(d))
  BY DEF processCleanupJob
<1>2. jcc.queue \in Seq(Range(jcc.queue))
  BY DEF JcFine
<1>3. /\ i \in Range(jcc.queue) /\ Tail(jcc.queue) \in Seq(Range(Tail(jcc.queue)))
      /\ Range(Tail(jcc.queue)) \subseteq Range(jcc.queue)
  BY <1>1, <1>2, RangeTail
<1>4. /\ DOMAIN c = DOMAIN jcc /\ c.queue = Tail(jcc.queue) /\ c.jobs = jcc.jobs
      /\ c.waiting = jcc.waiting /\ c.entries = jcc.entries
  BY <1>0
<1> HIDE DEF c, i, e
<1>5. JcFine(c) /\ i \in DOMAIN c.entries
  BY <1>3, <1>4 DEF JcFine
<1>6. Range(less) \subseteq Range(c.jobs)
  BY DEF Without, Restrict, Range
<1> HIDE DEF less
<1>7. /\ DOMAIN d = DOMAIN c /\ d.queue = c.queue /\ d.jobs = less
      /\ d.waiting = c.waiting /\ d.entries = c.entries
  BY <1>0, <1>4
<1> HIDE DEF d
<1>8. JcFine(d)
  BY <1>5, <1>6, <1>7 DEF JcFine
<1> DEFINE live == Range(d.jobs) \cup d.waiting \cup Range(d.queue)
           rest == Restrict(d.entries, DOMAIN d.entries \cap live)
<1>9. Collect(d) = [d EXCEPT !.entries = rest]
  BY DEF Collect
<1>10. DOMAIN rest = DOMAIN d.entries \cap live
  BY DEF Restrict
<1> HIDE DEF rest
<1>11. /\ DOMAIN Collect(d) = DOMAIN d /\ Collect(d).queue = d.queue
       /\ Collect(d).jobs = d.jobs /\ Collect(d).waiting = d.waiting
       /\ Collect(d).entries = rest
  BY <1>0, <1>4, <1>7, <1>9
<1>12. JcFine(Collect(d))
  BY <1>8, <1>10, <1>11 DEF JcFine
<1> QED
  BY <1>1, <1>5, <1>12, DeleteJobFine

\* The steps of the job cache.
LEMMA CacheSteps ==
    ASSUME Notes, JcFine(jcc), CacheHandlers \/ CacheWorks
    PROVE  /\ Served({}) /\ JcFine(jcc')
           /\ UNCHANGED <<clock, opt, qc, pgc, gcc>> /\ DOMAIN note' = DOMAIN note
<1>0. UNCHANGED <<qc, pgc, gcc>>
  BY DEF CacheHandlers, CacheWorks
<1>1. ASSUME Works, Unwritten
      PROVE  Served({}) /\ UNCHANGED <<clock, opt>> /\ DOMAIN note' = DOMAIN note
  BY <1>1, WorkerWorks DEF Served
<1>2. CASE JcOnJob
  <2>1. PICK n \in Due("jcJob") :
          /\ Called("jcJob") /\ Unwritten
          /\ \/ jcc' = Add(jcc, n.name, n.new)
             \/ jcc' = Delete(jcc, n.name)
             \/ jcc' = Update(jcc, n.name, n.new)
    BY <1>2 DEF JcOnJob
  <2>2. JcFine(jcc')
    BY <2>1, AddFine, DeleteFine, UpdateFine
  <2>3. Served({}) /\ UNCHANGED <<clock, opt>> /\ DOMAIN note' = DOMAIN note
    BY <2>1, HandlerCalled
  <2> QED
    BY <2>2, <2>3, <1>0
<1>3. CASE JcOnPod
  <2>1. PICK n \in Due("jcPod") :
          /\ Called("jcPod") /\ Unwritten
          /\ \/ jcc' = jcc
             \/ \E key : \/ jcc' = DeletePod(jcc, key, n.name)
                         \/ jcc' = AddPod(jcc, key, n.name)
                         \/ jcc' = UpdatePod(jcc, key)
    BY <1>3 DEF JcOnPod
  <2>2. JcFine(jcc')
    BY <2>1, DeletePodFine, AddPodFine
  <2>3. Served({}) /\ UNCHANGED <<clock, opt>> /\ DOMAIN note' = DOMAIN note
    BY <2>1, HandlerCalled
  <2> QED
    BY <2>2, <2>3, <1>0
<1>4. CASE processCleanupJob
  <2>1. Works /\ Unwritten
    BY <1>4 DEF processCleanupJob
  <2> QED
    BY <2>1, <1>0, <1>1, <1>4, CleanupFine
<1>5. CASE JcDelayOver
  <2>1. PICK i \in jcc.waiting :
          /\ Works /\ Unwritten
          /\ jcc' = [jcc EXCEPT !.waiting = @ \ {i},
                                !.queue = IF i \in Range(@) THEN @ ELSE Append(@, i)]
    BY <1>5 DEF JcDelayOver
  <2> DEFINE q == IF i \in Range(jcc.queue) THEN jcc.queue ELSE Append(jcc.queue, i)
  <2>2. /\ DOMAIN jcc' = DOMAIN jcc /\ jcc'.queue = q /\ jcc'.jobs = jcc.jobs
        /\ jcc'.waiting = jcc.waiting \ {i} /\ jcc'.entries = jcc.entries
    BY <2>1, JcFields DEF JcFine
  <2>3. jcc.queue \in Seq(Range(jcc.queue))
    BY DEF JcFine
  <2>4. q \in Seq(Range(q)) /\ Range(q) \subseteq Range(jcc.queue) \cup {i}
    <3> DEFINE s == jcc.queue
    <3> HIDE DEF s
    <3>1. s \in Seq(Range(s))
      BY <2>3 DEF s
    <3>2. Append(s, i) \in Seq(Range(Append(s, i))) /\ Range(Append(s, i)) = Range(s) \cup {i}
      BY <3>1, RangeAppend
    <3>3. q = s \/ q = Append(s, i)
      BY DEF s
    <3> HIDE DEF q
    <3> QED
      BY <3>1, <3>2, <3>3 DEF s
  <2> HIDE DEF q
  <2>5. JcFine(jcc')
    BY <2>2, <2>4 DEF JcFine
  <2> QED
    BY <2>1, <2>5, <1>0, <1>1
<1> QED
  BY <1>2, <1>3, <1>4, <1>5 DEF CacheHandlers, CacheWorks

-----------------------------------------------------------------------------
(***************************************************************************)
(* All together.                                                           *)
(***************************************************************************)

\* A step writes no command.
Elsewhere ==
    \/ Unwritten
    \/ \E k \in Kinds \ {"command"} : \E x : \E obj : Write(k, x, obj)

\* Only a user creates commands and only the queue controller deletes them.
LEMMA OthersElsewhere ==
    ASSUME Others \/ Kubernetes, \A q : ~OperateQueue(q)
    PROVE  Elsewhere
<1>1. {"queue", "group", "pod", "rs", "job"} = Kinds \ {"command"}
  BY DEF Kinds
<1>2. ASSUME NEW q, CreateQueue(q) \/ DeleteQueue(q) \/ UpdateQueueStatus(q)
      PROVE  Elsewhere
  <2>1. \E obj : Write("queue", q, obj)
    BY <1>2 DEF CreateQueue, DeleteQueue, UpdateQueueStatus
  <2> QED
    BY <2>1, <1>1 DEF Elsewhere
<1>3. ASSUME NEW g, UpdatePodGroup(g) \/ GroupGoes(g) PROVE Elsewhere
  <2>1. \E obj : Write("group", g, obj)
    BY <1>3 DEF UpdatePodGroup, GroupGoes
  <2> QED
    BY <2>1, <1>1 DEF Elsewhere
<1>4. ASSUME NEW j, RunJob(j) \/ DeleteJob(j) \/ EditJob(j) \/ JobEnds(j) \/ JobGoes(j)
      PROVE  Elsewhere
  <2>1. \E obj : Write("job", j, obj)
    BY <1>4 DEF RunJob, DeleteJob, EditJob, JobEnds, JobGoes
  <2> QED
    BY <2>1, <1>1 DEF Elsewhere
<1>5. ASSUME NEW j, JobGroup(j) PROVE Elsewhere
  <2>1. \E obj : Write("group", GroupOf(j), obj)
    BY <1>5 DEF JobGroup
  <2> QED
    BY <2>1, <1>1 DEF Elsewhere
<1>6. ASSUME NEW p, NEW j, \/ JobPod(j, p) \/ CreatePod(p) \/ UserDeletesPod(p)
                           \/ DeletePodOf(p) \/ PodStops(p)
      PROVE  Elsewhere
  <2>1. \E obj : Write("pod", p, obj)
    BY <1>6 DEF JobPod, CreatePod, UserDeletesPod, DeletePodOf, PodStops
  <2> QED
    BY <2>1, <1>1 DEF Elsewhere
<1>7. ASSUME NEW r, ScaleSet(r) PROVE Elsewhere
  <2>1. \E obj : Write("rs", r, obj)
    BY <1>7 DEF ScaleSet
  <2> QED
    BY <2>1, <1>1 DEF Elsewhere
<1>8. CASE Others
  BY <1>2, <1>3, <1>4, <1>5, <1>6, <1>7, <1>8 DEF Others
<1>9. CASE Kubernetes
  BY <1>3, <1>4, <1>6, <1>9 DEF Kubernetes
<1> QED
  BY <1>8, <1>9

\* The same of the controllers.
LEMMA ControllersElsewhere ==
    ASSUME \/ QueueHandlers \/ CommandEnqueue \/ CommandLater \/ QueueWorks \/ QueueBack
           \/ GroupHandlers \/ GroupWorks \/ GarbageHandlers \/ GarbageWorks
           \/ CacheHandlers \/ CacheWorks
    PROVE  Elsewhere
<1>1. {"queue", "group", "pod", "rs", "job"} = Kinds \ {"command"}
  BY DEF Kinds
<1>2. CASE QueueHandlers \/ CommandEnqueue \/ CommandLater \/ QueueBack
  BY <1>2 DEF QueueHandlers, QueueBack, OnQueue, OnGroup, OnCommand, CommandEnqueue,
              CommandLater, QueueLater, Elsewhere
<1>3. CASE CacheHandlers \/ CacheWorks
  BY <1>3 DEF CacheHandlers, CacheWorks, JcOnJob, JcOnPod, processCleanupJob, JcDelayOver,
              Elsewhere
<1>4. CASE QueueWorks
  <2>1. Unwritten \/ \E x : \E obj : Write("queue", x, obj)
    BY <1>4 DEF QueueWorks, QueueWorker, processNextWorkItem, QueueUpdate, QueueGet,
                QueueUpdateStatus, Succeeded
  <2> QED
    BY <2>1, <1>1 DEF Elsewhere
<1>5. CASE GarbageHandlers \/ GarbageWorks
  <2>1. Unwritten \/ \E x : \E obj : Write("job", x, obj)
    BY <1>5 DEF GarbageHandlers, GarbageWorks, GcOnJob, processJob, GcGet, GcDelete, GcLater
  <2> QED
    BY <2>1, <1>1 DEF Elsewhere
<1>6. CASE GroupHandlers \/ GroupWorks
  <2>1. CASE PgOnPod \/ processNextReq \/ PgLater
    BY <2>1 DEF PgOnPod, processNextReq, PgLater, Elsewhere
  <2>2. ASSUME NEW p, addReplicaSet \/ createNormalPodPGIfNotExist(p) PROVE Elsewhere
    <3>1. Unwritten \/ \E x : \E obj : Write("group", x, obj)
      BY <2>2 DEF addReplicaSet, createNormalPodPGIfNotExist
    <3> QED
      BY <3>1, <1>1 DEF Elsewhere
  <2>3. ASSUME NEW p, updatePodAnnotations(p) PROVE Elsewhere
    <3>1. Unwritten \/ \E x : \E obj : Write("pod", x, obj)
      BY <2>3 DEF updatePodAnnotations
    <3> QED
      BY <3>1, <1>1 DEF Elsewhere
  <2> QED
    BY <1>6, <2>1, <2>2, <2>3 DEF GroupHandlers, GroupWorks
<1> QED
  BY <1>2, <1>3, <1>4, <1>5, <1>6

\* A disturbance is used up, if any.
LEMMA LeftSteps ==
    ASSUME Next
    PROVE  UNCHANGED left \/ \E d : Disturb(d)
<1>1. CASE Others \/ Kubernetes
  BY <1>1 DEF Others, Kubernetes, CreateQueue, DeleteQueue, OperateQueue, UpdateQueueStatus,
       UpdatePodGroup, RunJob, DeleteJob, EditJob, JobGroup, JobPod, JobEnds, CreatePod,
       ScaleSet, DeletePodOf, UserDeletesPod, PodStops, GroupGoes, JobGoes
<1>2. CASE Restart \/ Informers \/ Time
  BY <1>2 DEF Restart, Informers, Deliver, Time, Tick
<1>3. CASE QueueHandlers \/ QueueCommands \/ QueueWorks \/ QueueBack
  BY <1>3 DEF QueueHandlers, OnQueue, OnGroup, OnCommand, QueueCommands, handleCommand,
       CommandEnqueue, CommandLater, QueueWorks, QueueWorker, processNextWorkItem,
       QueueUpdate, QueueGet, QueueUpdateStatus, QueueBack, QueueLater, CallWorks, CallFails
<1>4. CASE GroupHandlers \/ GroupWorks
  BY <1>4 DEF GroupHandlers, GroupWorks, PgOnPod, addReplicaSet, processNextReq, PgLater,
       createNormalPodPGIfNotExist, updatePodAnnotations, CallWorks, CallFails
<1>5. CASE GarbageHandlers \/ GarbageWorks
  BY <1>5 DEF GarbageHandlers, GarbageWorks, GcOnJob, processJob, GcGet, GcDelete, GcLater,
       CallWorks, CallFails
<1>6. CASE CacheHandlers \/ CacheWorks
  BY <1>6 DEF CacheHandlers, CacheWorks, JcOnJob, JcOnPod, processCleanupJob, JcDelayOver,
       CallWorks, CallFails
<1> QED
  BY <1>1, <1>2, <1>3, <1>4, <1>5, <1>6 DEF Next

\* Commands that nobody writes stay.
LEMMA CommandsElsewhere ==
    ASSUME Objects, Elsewhere
    PROVE  api'["command"] = api["command"]
<1>1. CASE Unwritten
  BY <1>1 DEF Unwritten
<1>2. CASE \E k \in Kinds \ {"command"} : \E x : \E obj : Write(k, x, obj)
  <2>1. PICK k \in Kinds \ {"command"} : \E x : \E obj : Write(k, x, obj)
    BY <1>2
  <2>2. \E f : api' = [api EXCEPT ![k] = f]
    BY <2>1 DEF Write
  <2>3. k # "command" /\ "command" \in DOMAIN api
    BY <2>1, KindsOf DEF Objects
  <2> QED
    BY <2>2, <2>3
<1> QED
  BY <1>1, <1>2 DEF Elsewhere

\* No two commands have the same name.
LEMMA CommandsKept ==
    ASSUME Shared, Commands, Next
    PROVE  Commands'
<1>1. Versions /\ Objects
  BY DEF Shared
<1>2. /\ "operate" \in DOMAIN left' /\ left'.operate \in Nat
      /\ left'.operate <= left.operate
  <2>1. CASE UNCHANGED left
    BY <2>1 DEF Commands
  <2>2. ASSUME NEW d, Disturb(d)
        PROVE  /\ "operate" \in DOMAIN left' /\ left'.operate \in Nat
               /\ left'.operate <= left.operate
    <3>1. left[d] > 0 /\ left' = [left EXCEPT ![d] = @ - 1]
      BY <2>2 DEF Disturb
    <3>2. "operate" \in DOMAIN left /\ left.operate \in Nat
      BY DEF Commands
    <3>3. CASE d = "operate"
      BY <3>1, <3>2, <3>3
    <3>4. CASE d # "operate"
      BY <3>1, <3>2, <3>4
    <3> QED
      BY <3>3, <3>4
  <2> QED
    BY <2>1, <2>2, LeftSteps
<1>3. ASSUME \A c \in DOMAIN api'["command"] : c \in DOMAIN api["command"] PROVE Commands'
  <2>1. left.operate \in Nat
    BY DEF Commands
  <2>2. ASSUME NEW c \in DOMAIN api'["command"] PROVE c \in Nat /\ left'.operate < c
    <3>1. c \in Nat /\ left.operate < c
      BY <1>3, <2>2 DEF Commands
    <3> QED
      BY <3>1, <2>1, <1>2
  <2> QED
    BY <2>2, <1>2 DEF Commands
<1>4. CASE Elsewhere
  BY <1>1, <1>3, <1>4, CommandsElsewhere
<1>5. ASSUME NEW x, Write("command", x, Gone) PROVE Commands'
  <2>1. api'["command"] = Placed(api["command"], x, Gone)
    <3>1. api'["command"] = Placed(api["command"], x, Written("command", x, Gone))
      BY <1>1, <1>5, WriteApi, KindsOf
    <3> QED
      BY <3>1 DEF Written
  <2>2. \A c \in DOMAIN api'["command"] : c \in DOMAIN api["command"]
    BY <2>1 DEF Placed, Without, Restrict
  <2> QED
    BY <2>2, <1>3
<1>6. ASSUME NEW q, OperateQueue(q) PROVE Commands'
  <2>1. \/ \E obj : Write("command", left.operate, obj)
        \/ \E obj : Write("queue", q, obj)
    BY <1>6 DEF OperateQueue, createQueueCommand
  <2>2. CASE \E obj : Write("queue", q, obj)
    <3>1. Elsewhere
      BY <2>2, KindsOf DEF Elsewhere
    <3> QED
      BY <3>1, <1>4
  <2>3. CASE \E obj : Write("command", left.operate, obj)
    <3>1. PICK obj : Write("command", left.operate, obj)
      BY <2>3
    <3> DEFINE n == left.operate
               new == Written("command", n, obj)
    <3>2. api'["command"] = Placed(api["command"], n, new)
      BY <3>1, <1>1, WriteApi, KindsOf
    <3> HIDE DEF new
    <3>3. \A c \in DOMAIN api'["command"] : c \in DOMAIN api["command"] \/ c = n
      BY <3>2 DEF Placed, Without, Restrict, Put
    <3>4. n \in Nat /\ n > 0 /\ left'.operate = n - 1
      BY <1>6 DEF OperateQueue, Disturb, Commands
    <3>5. ASSUME NEW c \in DOMAIN api'["command"] PROVE c \in Nat /\ left'.operate < c
      <4>1. CASE c = n
        BY <4>1, <3>4
      <4>2. CASE c \in DOMAIN api["command"]
        <5>1. c \in Nat /\ n < c
          BY <4>2 DEF Commands
        <5> QED
          BY <5>1, <3>4
      <4> QED
        BY <4>1, <4>2, <3>3
    <3> QED
      BY <3>5, <1>2 DEF Commands
  <2> QED
    BY <2>1, <2>2, <2>3
<1>7. CASE Others \/ Kubernetes
  BY <1>4, <1>6, <1>7, OthersElsewhere
<1>8. CASE handleCommand
  <2>1. Unwritten \/ \E x : Write("command", x, Gone)
    BY <1>8 DEF handleCommand
  <2> QED
    BY <2>1, <1>4, <1>5 DEF Elsewhere
<1>9. CASE Restart \/ Informers \/ Time
  <2>1. api' = api
    BY <1>9 DEF Restart, Informers, Deliver, Time, Tick
  <2> QED
    BY <2>1, <1>3
<1> QED
  BY <1>4, <1>7, <1>8, <1>9, ControllersElsewhere DEF Next, QueueCommands

\* An informer receives a change.
LEMMA DeliverShared ==
    ASSUME Shared, NEW w \in DOMAIN feed, Deliver(w)
    PROVE  Shared'
<1>1. Versions /\ Objects /\ Feeds /\ Stores
  BY DEF Shared
<1> DEFINE s == feed[w]
           d == Head(s)
<1>2. /\ s # <<>> /\ feed' = [feed EXCEPT ![w] = Tail(s)]
      /\ store' = [store EXCEPT ![w] = Placed(store[w], d.name, d.obj)]
      /\ UNCHANGED <<api, vers, opt>>
  BY DEF Deliver
<1>3. /\ w \in opt.on /\ opt.on \subseteq Watches /\ DOMAIN feed = opt.on
      /\ DOMAIN store = opt.on
  BY <1>1 DEF Feeds
<1>4. /\ s \in Seq(Range(s))
      /\ \A e \in Range(s) : e.obj = Gone \/ Copy(vers, KindOf[w], e.name, e.obj)
  BY <1>1, <1>3 DEF Feeds
<1> HIDE DEF s
<1>5. d \in Range(s) /\ Tail(s) \in Seq(Range(Tail(s))) /\ Range(Tail(s)) \subseteq Range(s)
  BY <1>2, <1>4, RangeTail
<1>6. Versions' /\ Objects'
  BY <1>1, <1>2 DEF Versions, Objects
<1>7. Feeds'
  <2>1. DOMAIN feed' = opt.on /\ DOMAIN store' = opt.on
    BY <1>2, <1>3
  <2>2. ASSUME NEW v \in opt.on
        PROVE  /\ feed'[v] \in Seq(Range(feed'[v]))
               /\ \A e \in Range(feed'[v]) : e.obj = Gone \/ Copy(vers, KindOf[v], e.name, e.obj)
    <3>1. CASE v = w
      <4>1. feed'[v] = Tail(s)
        BY <3>1, <1>2, <1>3
      <4> QED
        BY <4>1, <3>1, <1>4, <1>5
    <3>2. CASE v # w
      <4>1. feed'[v] = feed[v]
        BY <3>2, <1>2, <1>3
      <4> QED
        BY <4>1, <1>1 DEF Feeds
    <3> QED
      BY <3>1, <3>2
  <2> QED
    BY <2>1, <2>2, <1>2, <1>3 DEF Feeds
<1>8. Stores'
  <2>1. d.obj = Gone \/ Copy(vers, KindOf[w], d.name, d.obj)
    BY <1>4, <1>5
  <2> HIDE DEF d
  <2>2. ASSUME NEW v \in opt.on, NEW x \in DOMAIN store'[v]
        PROVE  Copy(vers, KindOf[v], x, store'[v][x])
    <3>1. CASE v = w
      <4>1. store'[v] = Placed(store[w], d.name, d.obj)
        BY <3>1, <1>2, <1>3
      <4>2. \/ x \in DOMAIN store[w] /\ store'[v][x] = store[w][x]
            \/ d.obj # Gone /\ x = d.name /\ store'[v][x] = d.obj
        BY <4>1, <2>2 DEF Placed, Put, Without, Restrict
      <4> QED
        BY <4>2, <3>1, <2>1, <1>1, <1>3 DEF Stores
    <3>2. CASE v # w
      <4>1. store'[v] = store[v]
        BY <3>2, <1>2, <1>3
      <4> QED
        BY <4>1, <2>2, <1>1 DEF Stores
    <3> QED
      BY <3>1, <3>2
  <2> QED
    BY <2>2, <1>2 DEF Stores
<1> QED
  BY <1>6, <1>7, <1>8 DEF Shared

\* The informers list what there is.
LEMMA ListedShared ==
    ASSUME Shared, Listed, UNCHANGED <<api, vers, opt>>
    PROVE  Shared' /\ DOMAIN note' = DOMAIN note
<1>1. Versions /\ Objects /\ Feeds /\ Stores
  BY DEF Shared
<1>2. /\ opt.on \subseteq Watches /\ DOMAIN feed = opt.on /\ DOMAIN store = opt.on
  BY <1>1 DEF Feeds
<1>3. /\ store' = [w \in opt.on |-> api[KindOf[w]]]
      /\ feed' = [w \in opt.on |-> <<>>] /\ DOMAIN note' = DOMAIN note
  BY <1>2 DEF Listed
<1>4. Versions' /\ Objects'
  BY <1>1 DEF Versions, Objects
<1>5. Feeds'
  <2>1. <<>> \in Seq(Range(<<>>)) /\ Range(<<>>) = {}
    BY DEF Range
  <2>2. \A w \in opt.on : feed'[w] = <<>>
    BY <1>3
  <2> QED
    BY <2>1, <2>2, <1>2, <1>3 DEF Feeds
<1>6. Stores'
  <2>1. ASSUME NEW w \in opt.on, NEW x \in DOMAIN store'[w]
        PROVE  Copy(vers, KindOf[w], x, store'[w][x])
    <3>1. store'[w] = api[KindOf[w]] /\ KindOf[w] \in Kinds
      BY <1>2, <1>3, KindsOf
    <3> QED
      BY <2>1, <3>1, <1>1 DEF Objects
  <2> QED
    BY <2>1 DEF Stores
<1> QED
  BY <1>3, <1>4, <1>5, <1>6 DEF Shared

\* The inductive invariant.
ManagerInv ==
    /\ Shared /\ Commands /\ QueueOK /\ PgOK
    /\ GcFine(gcc) /\ JcFine(jcc)
    /\ AdmittedJobsRun /\ Judgement

\* A step marks no Job before its time.
InTime ==
    \A j \in DOMAIN api["job"] :
      (/\ j \in DOMAIN api'["job"] /\ api'["job"][j].deleting
       /\ ~api["job"][j].deleting) =>
        needsCleanup(api["job"][j]) /\ ExpireAt(api["job"][j]) <= clock

\* What every step that writes keeps.
LEMMA WritesKeep ==
    ASSUME ManagerInv, Served(NotJobs) \/ (\E j : \E obj : ChangesJob(j, obj)),
           UNCHANGED <<clock, opt>>, DOMAIN note' = DOMAIN note
    PROVE  /\ Shared' /\ AdmittedJobsRun' /\ InTime /\ Notes'
           /\ \A c : QueueFine(vers, c) => QueueFine(vers', c)
           /\ \A i, u : Ripe(api["job"], vers["job"], clock, i, u) =>
                          Ripe(api'["job"], vers'["job"], clock', i, u)
<1>0. Shared /\ AdmittedJobsRun /\ Notes /\ Versions
  BY DEF ManagerInv, QueueOK, Shared
<1>1. NotJobs \in SUBSET Kinds /\ "job" \in Kinds \ NotJobs /\ "job" \in Kinds
  BY KindsOf DEF NotJobs
<1>2. Shared' /\ Onward(vers, vers')
  <2>1. CASE Served(NotJobs)
    BY <2>1, <1>0, <1>1, ServedShared
  <2>2. ASSUME NEW j, NEW obj, ChangesJob(j, obj) PROVE Shared' /\ Onward(vers, vers')
    <3>1. Write("job", j, obj) /\ Writable("job", j, obj) /\ UNCHANGED <<store, opt>>
      BY <2>2 DEF ChangesJob
    <3> QED
      BY <3>1, <1>0, <1>1, WriteShared
  <2> QED
    BY <2>1, <2>2
<1>3. ASSUME NEW c, QueueFine(vers, c) PROVE QueueFine(vers', c)
  <2>1. Versions'
    BY <1>2 DEF Shared
  <2> QED
    BY <2>1, <1>0, <1>2, <1>3, FineOnward
<1>4. Notes'
  BY <1>0 DEF Notes
<1>5. CASE Served(NotJobs)
  <2>1. api'["job"] = api["job"] /\ vers'["job"] = vers["job"]
    BY <1>5, <1>0, <1>1, ServedOthers
  <2>2. AdmittedJobsRun' /\ InTime
    BY <2>1, <1>0 DEF AdmittedJobsRun, InTime
  <2> QED
    BY <2>1, <2>2, <1>2, <1>3, <1>4
<1>6. ASSUME NEW j, NEW obj, ChangesJob(j, obj)
      PROVE  /\ AdmittedJobsRun' /\ InTime
             /\ \A i, u : Ripe(api["job"], vers["job"], clock, i, u) =>
                            Ripe(api'["job"], vers'["job"], clock', i, u)
  <2>1. AdmittedJobsRun' /\ InTime
    BY <1>0, <1>6, ChangesKeep DEF InTime
  <2>2. ASSUME NEW i, NEW u, Ripe(api["job"], vers["job"], clock, i, u)
        PROVE  Ripe(api'["job"], vers'["job"], clock', i, u)
    BY <1>0, <1>6, <2>2, RipeStays
  <2> QED
    BY <2>1, <2>2
<1> QED
  BY <1>2, <1>3, <1>4, <1>5, <1>6

\* A finite set in a sequence.
LEMMA SetSequence ==
    ASSUME NEW S, IsFiniteSet(S)
    PROVE  SetToSeq(S) \in Seq(S)
<1> DEFINE n == Cardinality(S)
<1>1. n \in Nat /\ ExistsBijection(1 .. n, S)
  BY FS_CardinalityType
<1> HIDE DEF n
<1>2. \E f \in [1 .. n -> S] : IsInjective(f)
  BY <1>1 DEF ExistsBijection, Bijection, Injection
<1>3. SetToSeq(S) \in [1 .. n -> S]
  BY <1>2 DEF SetToSeq, n
<1> QED
  BY <1>1, <1>3

\* Initially.
LEMMA InitInv ==
    ASSUME Init PROVE ManagerInv
<1>1. PICK s \in Scenarios :
        /\ opt = s.opt /\ left = s.left /\ api = s.api
        /\ vers = [k \in Kinds |-> [x \in DOMAIN s.api[k] |-> s.api[k][x].rv]]
        /\ store = [w \in s.opt.on |-> <<>>]
        /\ note = [w \in s.opt.on |-> <<>>]
        /\ feed = [w \in s.opt.on |->
                     LET kind == s.api[KindOf[w]]
                         names == SetToSeq(DOMAIN kind)
                     IN [i \in DOMAIN names |-> [name |-> names[i], obj |-> kind[names[i]]]]]
        /\ clock = 1
        /\ qc = InitQC /\ pgc = InitPGC /\ gcc = InitGCC /\ jcc = InitJCC
  BY DEF Init
<1>2. /\ opt.on \subseteq Watches /\ opt.workers \in Nat
      /\ opt.on \cap QueueInformers # {} => QueueInformers \subseteq opt.on
      /\ DOMAIN api = Kinds
      /\ \A k \in Kinds : \A x \in DOMAIN api[k] :
           /\ IsObject(k, api[k][x])
           /\ api[k][x].uid \in Nat /\ api[k][x].rv \in Nat
           /\ 0 < api[k][x].uid /\ api[k][x].uid <= api[k][x].rv
      /\ \A g \in DOMAIN api["group"] : api["group"][g].rv = 1
      /\ \A j \in DOMAIN api["job"] : CanRun(api["job"][j].spec)
      /\ "operate" \in DOMAIN left /\ left.operate \in Nat
      /\ \A c \in DOMAIN api["command"] : c \in Nat /\ left.operate < c
  BY <1>1, ManagerAssumption
<1>3. /\ DOMAIN vers = Kinds
      /\ \A k \in Kinds : /\ DOMAIN vers[k] = DOMAIN api[k]
                          /\ \A x \in DOMAIN api[k] : vers[k][x] = api[k][x].rv
  BY <1>1
<1>4. Versions
  BY <1>2, <1>3 DEF Versions
<1>5. Objects
  BY <1>2, <1>3 DEF Objects, Copy
<1>6. /\ DOMAIN store = opt.on /\ DOMAIN note = opt.on /\ DOMAIN feed = opt.on
      /\ \A w \in opt.on : DOMAIN store[w] = {}
  BY <1>1
<1>7. Stores
  BY <1>6 DEF Stores
<1>8. Feeds
  <2>1. ASSUME NEW w \in opt.on
        PROVE  /\ feed[w] \in Seq(Range(feed[w]))
               /\ \A d \in Range(feed[w]) : d.obj = Gone \/ Copy(vers, KindOf[w], d.name, d.obj)
    <3> DEFINE kind == api[KindOf[w]]
               names == SetToSeq(DOMAIN kind)
               f == feed[w]
    <3>1. f = [i \in DOMAIN names |-> [name |-> names[i], obj |-> kind[names[i]]]]
      BY <1>1
    <3>2. KindOf[w] \in Kinds
      BY <1>2, KindsOf
    <3>3. IsFiniteSet(DOMAIN kind)
      BY <3>2, <1>1, ManagerAssumption
    <3> HIDE DEF f, kind
    <3>4. names \in Seq(DOMAIN kind)
      BY <3>3, SetSequence
    <3> HIDE DEF names
    <3>5. /\ DOMAIN f = 1 .. Len(names) /\ Len(names) \in Nat
          /\ \A i \in 1 .. Len(names) : /\ names[i] \in DOMAIN kind
                                        /\ f[i].name = names[i] /\ f[i].obj = kind[names[i]]
      BY <3>1, <3>4
    <3>6. f \in Seq(Range(f))
      <4> DEFINE n == Len(names)
      <4>1. \A i \in 1 .. n : f[i] \in Range(f)
        BY <3>5 DEF Range
      <4>2. f = [i \in 1 .. n |-> f[i]]
        BY <3>1, <3>4
      <4> HIDE DEF n
      <4>3. f \in [1 .. n -> Range(f)]
        BY <4>1, <4>2
      <4>4. n \in Nat
        BY <3>5 DEF n
      <4> QED
        BY <4>3, <4>4
    <3>7. ASSUME NEW d \in Range(f) PROVE Copy(vers, KindOf[w], d.name, d.obj)
      <4>1. PICK i \in 1 .. Len(names) : d = f[i]
        BY <3>5 DEF Range
      <4>2. d.name \in DOMAIN kind /\ d.obj = kind[d.name]
        BY <4>1, <3>5
      <4> QED
        BY <4>2, <3>2, <1>5 DEF Objects, kind
    <3> QED
      BY <3>6, <3>7 DEF f
  <2> QED
    BY <2>1, <1>2, <1>6 DEF Feeds
<1>9. Judgement
  BY <1>1, InitGcFine DEF Judgement
<1>10. PgOK
  BY <1>1, <1>2, InitPgFine DEF PgOK
<1>11. QueueOK
  BY <1>1, <1>2, <1>6, InitQueueFine DEF QueueOK, QueueRuns, Notes
<1> QED
  BY <1>1, <1>2, <1>4, <1>5, <1>7, <1>8, <1>9, <1>10, <1>11, InitGcFine, InitJcFine
     DEF ManagerInv, Shared, Commands, AdmittedJobsRun

\* Every step.
LEMMA NextInv ==
    ASSUME ManagerInv, Next
    PROVE  ManagerInv' /\ InTime
<1>0. /\ Shared /\ Commands /\ QueueOK /\ PgOK /\ GcFine(gcc) /\ JcFine(jcc)
      /\ AdmittedJobsRun /\ Judgement /\ Notes /\ clock \in Int
      /\ QueueFine(vers, qc) /\ PgFine(pgc) /\ opt.workers \in Nat
  BY DEF ManagerInv, QueueOK, PgOK, Judgement
<1>1. Commands'
  BY <1>0, CommandsKept
<1>2. {} \subseteq NotJobs
  OBVIOUS
\* The parts of a step that writes.
<1>3. ASSUME Served(NotJobs) \/ (\E j : \E obj : ChangesJob(j, obj)),
             UNCHANGED <<clock, opt>>, DOMAIN note' = DOMAIN note,
             QueueFine(vers, qc'), opt.on \cap QueueInformers = {} => qc' = qc,
             PgFine(pgc'), GcFine(gcc'), JcFine(jcc'),
             gcc'.worker.step = "delete" =>
               Ripe(api["job"], vers["job"], clock, gcc'.worker.job, gcc'.worker.uid)
      PROVE  ManagerInv' /\ InTime
  <2>1. /\ Shared' /\ AdmittedJobsRun' /\ InTime /\ Notes'
        /\ \A c : QueueFine(vers, c) => QueueFine(vers', c)
        /\ \A i, u : Ripe(api["job"], vers["job"], clock, i, u) =>
                       Ripe(api'["job"], vers'["job"], clock', i, u)
    BY <1>3, WritesKeep
  <2>2. QueueFine(vers', qc')
    BY <1>3, <2>1
  <2>3. QueueRuns'
    BY <1>0, <1>3 DEF QueueOK, QueueRuns
  <2>4. QueueOK'
    BY <2>1, <2>2, <2>3 DEF QueueOK
  <2>5. PgOK'
    BY <1>0, <1>3 DEF PgOK, PgFine
  <2>6. Judgement'
    BY <1>0, <1>3, <2>1 DEF Judgement
  <2>7. GcFine(gcc)' /\ JcFine(jcc)'
    BY <1>3
  <2> QED
    BY <1>1, <2>1, <2>4, <2>5, <2>6, <2>7 DEF ManagerInv
<1>4. gcc.worker.step = "delete" =>
        Ripe(api["job"], vers["job"], clock, gcc.worker.job, gcc.worker.uid)
  BY <1>0 DEF Judgement
<1>5. CASE Others \/ Kubernetes
  <2>1. /\ Served(NotJobs) \/ \E j : \E obj : ChangesJob(j, obj)
        /\ UNCHANGED <<note, clock, opt, qc, pgc, gcc, jcc>>
    BY <1>0, <1>5, OthersSteps DEF Outside
  <2> QED
    BY <2>1, <1>0, <1>3, <1>4
<1>6. CASE QueueHandlers \/ QueueCommands \/ QueueWorks \/ QueueBack
  <2>1. UNCHANGED <<pgc, gcc, jcc>>
    BY <1>6 DEF QueueHandlers, QueueCommands, QueueWorks, QueueBack
  <2>2. /\ Served(NotJobs) /\ QueueFine(vers, qc') /\ opt.on \cap QueueInformers # {}
        /\ UNCHANGED <<clock, opt>> /\ DOMAIN note' = DOMAIN note
    <3>1. CASE QueueHandlers
      BY <3>1, <1>0, <1>2, QueueHandlersSteps, ServedBySome DEF QueueHandlers
    <3>2. CASE QueueCommands \/ QueueBack
      BY <3>2, <1>0, QueueCommandsSteps DEF QueueCommands, QueueBack
    <3>3. CASE QueueWorks
      BY <3>3, <1>0, QueueWorkerSteps DEF QueueWorks
    <3> QED
      BY <1>6, <3>1, <3>2, <3>3
  <2> QED
    BY <2>1, <2>2, <1>0, <1>3, <1>4
<1>7. CASE GroupHandlers \/ GroupWorks
  <2>1. /\ Served(NotJobs) /\ PgFine(pgc')
        /\ UNCHANGED <<clock, opt, qc, gcc, jcc>> /\ DOMAIN note' = DOMAIN note
    BY <1>0, <1>7, GroupSteps
  <2> QED
    BY <2>1, <1>0, <1>3, <1>4
<1>8. CASE GarbageHandlers \/ GarbageWorks
  <2>1. /\ Served({}) \/ \E j : \E obj : ChangesJob(j, obj)
        /\ GcFine(gcc')
        /\ gcc'.worker.step = "delete" =>
             Ripe(api["job"], vers["job"], clock, gcc'.worker.job, gcc'.worker.uid)
        /\ UNCHANGED <<clock, opt, qc, pgc, jcc>> /\ DOMAIN note' = DOMAIN note
    BY <1>0, <1>8, GarbageSteps
  <2>2. Served({}) => Served(NotJobs)
    BY <1>2, ServedBySome
  <2> QED
    BY <2>1, <2>2, <1>0, <1>3
<1>9. CASE CacheHandlers \/ CacheWorks
  <2>1. /\ Served({}) /\ JcFine(jcc')
        /\ UNCHANGED <<clock, opt, qc, pgc, gcc>> /\ DOMAIN note' = DOMAIN note
    BY <1>0, <1>9, CacheSteps
  <2>2. Served(NotJobs)
    BY <2>1, <1>2, ServedBySome
  <2> QED
    BY <2>1, <2>2, <1>0, <1>3, <1>4
<1>10. CASE Informers
  <2>1. PICK w \in DOMAIN feed : Deliver(w)
    BY <1>10 DEF Informers
  <2>2. /\ UNCHANGED <<api, vers, clock, opt, qc, pgc, gcc, jcc>>
        /\ DOMAIN note' = DOMAIN note
    BY <1>10, <2>1 DEF Informers, Deliver
  <2>3. Shared'
    BY <1>0, <2>1, DeliverShared
  <2> QED
    BY <2>2, <2>3, <1>0, <1>1
       DEF ManagerInv, QueueOK, QueueRuns, Notes, PgOK, PgFine, AdmittedJobsRun, Judgement, InTime
<1>11. CASE Restart
  <2>1. /\ UNCHANGED <<api, vers, clock, opt>> /\ Listed
        /\ qc' = InitQC /\ pgc' = InitPGC /\ gcc' = InitGCC /\ jcc' = InitJCC
    BY <1>11 DEF Restart
  <2>2. Shared' /\ DOMAIN note' = DOMAIN note
    BY <1>0, <2>1, ListedShared
  <2>3. QueueOK'
    <3>1. QueueFine(vers, InitQC)
      BY InitQueueFine
    <3>2. QueueRuns' /\ Notes'
      BY <2>1, <2>2, <1>0 DEF QueueOK, QueueRuns, Notes
    <3> QED
      BY <2>1, <3>1, <3>2 DEF QueueOK
  <2>4. PgOK'
    <3>1. PgFine(InitPGC)
      BY <1>0, InitPgFine
    <3> QED
      BY <3>1, <2>1, <1>0 DEF PgOK, PgFine
  <2>5. Judgement' /\ GcFine(gcc)' /\ JcFine(jcc)'
    BY <2>1, <1>0, InitGcFine, InitJcFine DEF Judgement
  <2>6. AdmittedJobsRun' /\ InTime
    BY <2>1, <1>0 DEF AdmittedJobsRun, InTime
  <2> QED
    BY <2>2, <2>3, <2>4, <2>5, <2>6, <1>1 DEF ManagerInv
<1>12. CASE Time
  <2>1. /\ UNCHANGED <<api, vers, feed, store, note, opt, qc, pgc, gcc, jcc>>
        /\ clock' = clock + 1
    BY <1>12 DEF Time, Tick
  <2>2. Shared'
    BY <2>1, <1>0 DEF Shared, Versions, Objects, Feeds, Stores
  <2>3. QueueOK' /\ PgOK' /\ GcFine(gcc)' /\ JcFine(jcc)' /\ AdmittedJobsRun' /\ InTime
    BY <2>1, <1>0 DEF QueueOK, QueueRuns, Notes, PgOK, PgFine, AdmittedJobsRun, InTime
  <2>4. ASSUME NEW i, NEW u, Ripe(api["job"], vers["job"], clock, i, u)
        PROVE  Ripe(api["job"], vers["job"], clock', i, u)
    <3>1. ASSUME i \in DOMAIN api["job"], api["job"][i].uid = u
          PROVE  needsCleanup(api["job"][i]) /\ ExpireAt(api["job"][i]) <= clock'
      <4> DEFINE job == api["job"][i]
      <4>1. needsCleanup(job) /\ ExpireAt(job) <= clock
        BY <2>4, <3>1 DEF Ripe
      <4>2. IsJob(job)
        BY <3>1, <1>0, StoredJob
      <4> HIDE DEF job
      <4>3. ExpireAt(job) \in Int
        <5>1. job.spec.ttl # {} /\ job.spec.ttl \in SUBSET Int /\ job.at \in Int
          BY <4>1, <4>2 DEF needsCleanup, IsJob, IsSpec
        <5>2. (CHOOSE t \in job.spec.ttl : TRUE) \in Int
          BY <5>1
        <5> QED
          BY <5>1, <5>2 DEF ExpireAt
      <4>4. ExpireAt(job) <= clock'
        BY <4>1, <4>3, <2>1, <1>0
      <4> QED
        BY <4>1, <4>4 DEF job
    <3> QED
      BY <2>4, <3>1 DEF Ripe
  <2>5. Judgement'
    BY <2>1, <2>4, <1>0, <1>4 DEF Judgement
  <2> QED
    BY <2>2, <2>3, <2>5, <1>1 DEF ManagerInv
<1> QED
  BY <1>5, <1>6, <1>7, <1>8, <1>9, <1>10, <1>11, <1>12 DEF Next

\* Nothing happens.
LEMMA StutterInv ==
    ASSUME ManagerInv, UNCHANGED vars
    PROVE  ManagerInv' /\ InTime
<1>1. UNCHANGED <<api, vers, feed, store, note, clock, left, opt, qc, pgc, gcc, jcc>>
  BY DEF vars, apiVars
<1>2. Shared'
  BY <1>1 DEF ManagerInv, Shared, Versions, Objects, Feeds, Stores
<1>3. Commands' /\ QueueOK' /\ PgOK'
  BY <1>1 DEF ManagerInv, Commands, QueueOK, QueueRuns, Notes, PgOK, PgFine
<1>4. GcFine(gcc)' /\ JcFine(jcc)' /\ AdmittedJobsRun' /\ Judgement' /\ InTime
  BY <1>1 DEF ManagerInv, AdmittedJobsRun, Judgement, InTime
<1> QED
  BY <1>2, <1>3, <1>4 DEF ManagerInv

\* The types of the controllers' state.
LEMMA InvTypes ==
    ASSUME ManagerInv PROVE TypeOK
<1>1. Versions /\ Objects /\ Feeds /\ Stores
  BY DEF ManagerInv, Shared
<1>2. \A k \in Kinds : \A x \in DOMAIN api[k] :
        0 < api[k][x].uid /\ api[k][x].uid <= api[k][x].rv /\ api[k][x].rv = vers[k][x]
  BY <1>1 DEF Objects, Copy
<1>3. \A q \in DOMAIN api["queue"] :
        /\ api["queue"][q].state \in {"", "Open", "Closed", "Closing", "Unknown"}
        /\ api["queue"][q].weight > 0
  <2>1. ASSUME NEW q \in DOMAIN api["queue"]
        PROVE  /\ api["queue"][q].state \in {"", "Open", "Closed", "Closing", "Unknown"}
               /\ api["queue"][q].weight > 0
    <3>1. IsObject("queue", api["queue"][q])
      BY <2>1, <1>1, KindsOf DEF Objects, Copy
    <3> QED
      BY <3>1 DEF IsObject, IsQueue, QueueStates
  <2> QED
    BY <2>1
<1>4. \A w \in DOMAIN feed : \A x \in DOMAIN store[w] : store[w][x].rv <= vers[KindOf[w]][x]
  BY <1>1 DEF Feeds, Stores, Copy
<1>5. /\ qc.worker.step \in {"idle", "update", "get", "status"}
      /\ qc.worker # Idle => qc.queue # <<>> /\ Head(qc.queue) = qc.worker.req
  BY DEF ManagerInv, QueueOK, QueueFine, Working, Idle
<1>6. /\ Cardinality(DOMAIN pgc.workers) <= opt.workers
      /\ Range(pgc.queue) \cap DOMAIN pgc.workers = {}
  BY DEF ManagerInv, PgOK, PgFine
<1>7. /\ gcc.worker.step \in {"idle", "get", "delete"}
      /\ gcc.worker # NoWork => gcc.queue # <<>> /\ Head(gcc.queue) = gcc.worker.job
  BY DEF ManagerInv, GcFine, NoWork
<1>8. Range(jcc.jobs) \cup jcc.waiting \cup Range(jcc.queue) \subseteq DOMAIN jcc.entries
  BY DEF ManagerInv, JcFine
<1> QED
  BY <1>2, <1>3, <1>4, <1>5, <1>6, <1>7, <1>8 DEF TypeOK

\* Along every behaviour.
LEMMA Invariant == Spec => []ManagerInv
<1>1. Init => ManagerInv
  BY InitInv
<1>2. ManagerInv /\ [Next]_vars => ManagerInv'
  BY NextInv, StutterInv
<1> QED
  BY <1>1, <1>2, PTL DEF Spec

\* The state of the API server and of the four controllers has its shape
\* however they interleave: no worker holds what another holds, no cache
\* entry is missing.
THEOREM TypeCorrect == Spec => []TypeOK
<1>1. ManagerInv => TypeOK
  BY InvTypes
<1> QED
  BY <1>1, Invariant, PTL

\* A Job that the webhooks let in, or let change, can be run.
THEOREM JobsCanRun == Spec => []AdmittedJobsRun
<1>1. ManagerInv => AdmittedJobsRun
  BY DEF ManagerInv
<1> QED
  BY <1>1, Invariant, PTL

\* The garbage collector deletes a Job only when its time is over.
THEOREM OnlyExpired == Spec => CollectsExpired
<1>1. ManagerInv /\ [Next]_vars => [InTime]_vars
  BY NextInv
<1> QED
  BY <1>1, Invariant, PTL DEF Spec, CollectsExpired, InTime

=============================================================================
