--------------------------- MODULE JobCache_proofs ---------------------------
(***************************************************************************)
(* The proof of JobsCached: however late its informers are, whatever is    *)
(* deleted and made again meanwhile, when the job controller has caught up *)
(* it finds every Job with its pods under the Job's name.                  *)
(*                                                                         *)
(* The changes of an object reach the controller one by one and in order:  *)
(* each begins where the one before it ended, the last one ends with the   *)
(* object there is (FeedLinked, NoteLinked).  At any time the cache shows  *)
(* the objects as they were after the changes handled so far (Shows), but  *)
(* for names under which the clean-up has swept an entry away.             *)
(***************************************************************************)
EXTENDS ControllerManager_proofs

-----------------------------------------------------------------------------
(***************************************************************************)
(* Sequences of changes, each with the name of the object that it changes. *)
(***************************************************************************)
Silent(s, x) == \A i \in DOMAIN s : s[i].name # x

First(s, i) == \A k \in DOMAIN s : k < i => s[k].name # s[i].name

Final(s, i) == \A k \in DOMAIN s : k > i => s[k].name # s[i].name

\* j is the next change of the object that i changes.
Adjacent(s, i, j) ==
    /\ i < j /\ s[i].name = s[j].name
    /\ \A k \in DOMAIN s : i < k /\ k < j => s[k].name # s[i].name

-----------------------------------------------------------------------------
(***************************************************************************)
(* The invariant.                                                          *)
(***************************************************************************)

\* What a change may do: a Job does not get older; a pod keeps its Job, and
\* one that is being deleted remains so.
Follows(k, old, new) ==
    /\ k = "job" /\ old # Gone /\ new # Gone => ~(new.rv < old.rv)
    /\ k = "pod" /\ new # Gone => IsPod(new)
    /\ k = "pod" /\ old # Gone /\ new # Gone =>
         new.job = old.job /\ (old.deleting => new.deleting)

\* The changes s lead from the objects in old to those in now.
FeedLinked(k, s, old, now) ==
    /\ \A i \in DOMAIN s : First(s, i) => Follows(k, Lookup(old, s[i].name), s[i].obj)
    /\ \A i, j \in DOMAIN s : Adjacent(s, i, j) => Follows(k, s[i].obj, s[j].obj)
    /\ \A i \in DOMAIN s : Final(s, i) => s[i].obj = Lookup(now, s[i].name)
    /\ \A x \in DOMAIN old \cup DOMAIN now : Silent(s, x) => Lookup(old, x) = Lookup(now, x)

\* The calls s lead to the objects in now.
NoteLinked(k, s, now) ==
    /\ s \in Seq(Range(s))
    /\ \A i \in DOMAIN s : Follows(k, s[i].old, s[i].new)
    /\ \A i, j \in DOMAIN s : Adjacent(s, i, j) => s[j].old = s[i].new
    /\ \A i \in DOMAIN s : Final(s, i) => s[i].new = Lookup(now, s[i].name)

FeedOK(w) == FeedLinked(KindOf[w], feed[w], store[w], api[KindOf[w]])
NoteOK(w) == NoteLinked(KindOf[w], note[w], store[w])

\* The object x after the calls that have been handled: before the first one
\* that is due, or as the store has it.
HandledOf(s, now, x) ==
    IF Silent(s, x) THEN Lookup(now, x)
    ELSE s[CHOOSE i \in DOMAIN s : s[i].name = x /\ First(s, i)].old

HandledJob(j) == HandledOf(note["jcJob"], store["jcJob"], j)
HandledPod(p) == HandledOf(note["jcPod"], store["jcPod"], p)

\* A pod that the cache should have in the entry of j.
LivePod(pod, j) == pod # Gone /\ pod.job = j /\ ~pod.deleting

\* What the cache c has under the name j.
JobIn(c, j)  == IF j \in DOMAIN c.jobs THEN Entry(c, j).job ELSE NoJob
PodsIn(c, j) == IF j \in DOMAIN c.jobs THEN Entry(c, j).pods ELSE {}

Shows(c, j) ==
    /\ JobIn(c, j) = HandledJob(j)
    /\ \A p : p \in PodsIn(c, j) <=> LivePod(HandledPod(p), j)

Shown == \A j : j # "" => <<"swept", j>> \in blind \/ Shows(jcc, j)

\* Every name leads to an entry of its own; there are finitely many entries,
\* and they have their fields.
Good(c) ==
    /\ JcFine(c) /\ IsFiniteSet(DOMAIN c.entries)
    /\ \A j, k \in DOMAIN c.jobs : c.jobs[j] = c.jobs[k] => j = k
    /\ \A i \in DOMAIN c.entries : DOMAIN c.entries[i] = {"name", "job", "pods"}

PodsShaped == \A p \in DOMAIN api["pod"] : IsPod(api["pod"][p])

JobsNamed == "" \notin DOMAIN api["job"]

Finite == IsFiniteSet(DOMAIN api["job"]) /\ IsFiniteSet(DOMAIN api["pod"])

CacheInv ==
    /\ PodsShaped /\ JobsNamed /\ Finite
    /\ opt.on \cap JobInformers # {} => JobInformers \subseteq opt.on
    /\ "jcJob" \in opt.on =>
         /\ \A w \in JobInformers : FeedOK(w) /\ NoteOK(w)
         /\ Good(jcc) /\ Shown

-----------------------------------------------------------------------------
(***************************************************************************)
(* A change more, a change less.                                           *)
(***************************************************************************)

\* The parts of a sequence that has grown by one.
LEMMA Appended ==
    ASSUME NEW S, NEW s \in Seq(S), NEW e
    PROVE  /\ DOMAIN s = 1 .. Len(s) /\ Len(s) \in Nat
           /\ DOMAIN Append(s, e) = 1 .. Len(s) + 1
           /\ \A i \in 1 .. Len(s) : Append(s, e)[i] = s[i]
           /\ Append(s, e)[Len(s) + 1] = e
<1>1. s \in Seq(S \cup {e}) /\ e \in S \cup {e}
  OBVIOUS
<1> QED
  BY <1>1

\* Where the last change of a longer sequence stands.
LEMMA AppendLinks ==
    ASSUME NEW S, NEW s \in Seq(S), NEW e
    PROVE  LET t == Append(s, e)
               n == Len(s)
           IN /\ \A i \in DOMAIN t : First(t, i) =>
                   \/ i \in DOMAIN s /\ First(s, i)
                   \/ i = n + 1 /\ Silent(s, e.name)
              /\ \A i, j \in DOMAIN t : Adjacent(t, i, j) =>
                   \/ i \in DOMAIN s /\ j \in DOMAIN s /\ Adjacent(s, i, j)
                   \/ j = n + 1 /\ i \in DOMAIN s /\ Final(s, i) /\ s[i].name = e.name
              /\ \A i \in DOMAIN t : Final(t, i) =>
                   \/ i = n + 1
                   \/ i \in DOMAIN s /\ Final(s, i) /\ s[i].name # e.name
              /\ \A x : Silent(t, x) <=> Silent(s, x) /\ x # e.name
<1> DEFINE t == Append(s, e)
           n == Len(s)
<1>1. /\ DOMAIN s = 1 .. n /\ n \in Nat /\ DOMAIN t = 1 .. n + 1
      /\ \A i \in 1 .. n : t[i] = s[i] /\ i \in 1 .. n + 1
      /\ t[n + 1] = e /\ n + 1 \in 1 .. n + 1
      /\ \A i \in 1 .. n + 1 : i \in 1 .. n \/ i = n + 1
  BY Appended
<1> HIDE DEF t, n
<1>2. ASSUME NEW i \in DOMAIN t, First(t, i)
      PROVE  \/ i \in DOMAIN s /\ First(s, i)
             \/ i = n + 1 /\ Silent(s, e.name)
  <2>1. CASE i \in 1 .. n
    BY <1>1, <1>2, <2>1 DEF First
  <2>2. CASE i = n + 1
    <3>1. \A k \in 1 .. n : k < n + 1
      BY <1>1
    <3> QED
      BY <1>1, <1>2, <2>2, <3>1 DEF First, Silent
  <2> QED
    BY <1>1, <2>1, <2>2
<1>3. ASSUME NEW i \in DOMAIN t, NEW j \in DOMAIN t, Adjacent(t, i, j)
      PROVE  \/ i \in DOMAIN s /\ j \in DOMAIN s /\ Adjacent(s, i, j)
             \/ j = n + 1 /\ i \in DOMAIN s /\ Final(s, i) /\ s[i].name = e.name
  <2>1. i \in 1 .. n
    <3>1. i < j /\ i \in 1 .. n + 1 /\ j \in 1 .. n + 1
      BY <1>1, <1>3 DEF Adjacent
    <3> QED
      BY <1>1, <3>1
  <2>2. CASE j \in 1 .. n
    BY <1>1, <1>3, <2>1, <2>2 DEF Adjacent
  <2>3. CASE j = n + 1
    <3>1. \A k \in 1 .. n : k < n + 1
      BY <1>1
    <3>2. \A k \in DOMAIN s : k > i => s[k].name # s[i].name
      <4>1. \A k \in 1 .. n : k > i => i < k
        BY <1>1, <2>1
      <4> QED
        BY <1>1, <1>3, <2>1, <2>3, <3>1, <4>1 DEF Adjacent
    <3> QED
      BY <1>1, <1>3, <2>1, <2>3, <3>2 DEF Adjacent, Final
  <2> QED
    BY <1>1, <2>2, <2>3
<1>4. ASSUME NEW i \in DOMAIN t, Final(t, i)
      PROVE  \/ i = n + 1
             \/ i \in DOMAIN s /\ Final(s, i) /\ s[i].name # e.name
  <2>1. CASE i \in 1 .. n
    <3>1. n + 1 > i
      BY <1>1, <2>1
    <3> QED
      BY <1>1, <1>4, <2>1, <3>1 DEF Final
  <2> QED
    BY <1>1, <2>1
<1>5. ASSUME NEW x PROVE Silent(t, x) <=> Silent(s, x) /\ x # e.name
  BY <1>1 DEF Silent
<1> QED
  BY <1>2, <1>3, <1>4, <1>5 DEF t, n

\* The parts of a sequence without its first element.
LEMMA Shortened ==
    ASSUME NEW S, NEW s \in Seq(S), s # <<>>
    PROVE  /\ DOMAIN s = 1 .. Len(s) /\ Len(s) \in Nat /\ 1 \in DOMAIN s /\ Head(s) = s[1]
           /\ Tail(s) \in Seq(S)
           /\ \A i \in DOMAIN Tail(s) : /\ i \in Nat /\ i + 1 \in DOMAIN s /\ i + 1 > 1
                                        /\ Tail(s)[i] = s[i + 1]
           /\ \A k \in DOMAIN s : k = 1 \/ (k - 1 \in DOMAIN Tail(s) /\ (k - 1) + 1 = k)
<1>1. /\ DOMAIN s = 1 .. Len(s) /\ Len(s) \in Nat /\ Len(s) > 0
      /\ Tail(s) \in Seq(S) /\ DOMAIN Tail(s) = 1 .. Len(s) - 1 /\ Head(s) = s[1]
      /\ \A i \in 1 .. Len(s) - 1 : Tail(s)[i] = s[i + 1]
  OBVIOUS
<1> QED
  BY <1>1

\* Where the changes of a sequence stand when the first has been taken.
LEMMA TailLinks ==
    ASSUME NEW S, NEW s \in Seq(S), s # <<>>
    PROVE  LET t == Tail(s)
               x == s[1].name
           IN /\ \A i \in DOMAIN t : t[i] = s[i + 1] /\ i + 1 \in DOMAIN s
              /\ \A i \in DOMAIN t : First(t, i) =>
                   \/ t[i].name = x /\ Adjacent(s, 1, i + 1)
                   \/ t[i].name # x /\ First(s, i + 1)
              /\ \A i, j \in DOMAIN t : Adjacent(t, i, j) => Adjacent(s, i + 1, j + 1)
              /\ \A i \in DOMAIN t : Final(t, i) => Final(s, i + 1)
              /\ \A y : Silent(t, y) =>
                   \/ y = x /\ Final(s, 1)
                   \/ y # x /\ Silent(s, y)
<1> DEFINE t == Tail(s)
           x == s[1].name
<1>1. /\ DOMAIN s = 1 .. Len(s) /\ Len(s) \in Nat /\ 1 \in DOMAIN s
      /\ \A i \in DOMAIN t : i \in Nat /\ i + 1 \in DOMAIN s /\ i + 1 > 1 /\ t[i] = s[i + 1]
      /\ \A k \in DOMAIN s : k = 1 \/ (k - 1 \in DOMAIN t /\ (k - 1) + 1 = k)
      /\ \A k \in DOMAIN s : k \in Nat /\ 1 <= k
  BY Shortened
<1> HIDE DEF t, x
<1>2. ASSUME NEW i \in DOMAIN t, First(t, i)
      PROVE  \/ t[i].name = x /\ Adjacent(s, 1, i + 1)
             \/ t[i].name # x /\ First(s, i + 1)
  <2>1. ASSUME NEW k \in DOMAIN s, k # 1, k < i + 1 PROVE s[k].name # s[i + 1].name
    <3>1. k - 1 \in DOMAIN t /\ k - 1 < i /\ t[k - 1] = s[k] /\ t[i] = s[i + 1]
      <4>1. k - 1 \in DOMAIN t /\ (k - 1) + 1 = k /\ k \in Nat /\ i \in Nat
        BY <1>1, <2>1
      <4>2. t[k - 1] = s[k] /\ t[i] = s[i + 1]
        BY <1>1, <4>1
      <4> QED
        BY <4>1, <4>2, <2>1
    <3> QED
      BY <3>1, <1>2 DEF First
  <2>2. CASE t[i].name = x
    <3>1. s[1].name = s[i + 1].name /\ 1 < i + 1
      BY <1>1, <2>2 DEF x
    <3>2. ASSUME NEW k \in DOMAIN s, 1 < k, k < i + 1 PROVE s[k].name # s[1].name
      <4>1. k # 1
        BY <3>2
      <4> QED
        BY <4>1, <3>1, <3>2, <2>1
    <3> QED
      BY <3>1, <3>2, <2>2 DEF Adjacent
  <2>3. CASE t[i].name # x
    <3>1. s[1].name # s[i + 1].name
      BY <1>1, <2>3 DEF x
    <3> QED
      BY <3>1, <2>1, <2>3 DEF First
  <2> QED
    BY <2>2, <2>3
<1>3. ASSUME NEW i \in DOMAIN t, NEW j \in DOMAIN t, Adjacent(t, i, j)
      PROVE  Adjacent(s, i + 1, j + 1)
  <2>1. i \in Nat /\ j \in Nat /\ i < j /\ t[i] = s[i + 1] /\ t[j] = s[j + 1]
    BY <1>1, <1>3 DEF Adjacent
  <2>2. ASSUME NEW k \in DOMAIN s, i + 1 < k, k < j + 1 PROVE s[k].name # s[i + 1].name
    <3>1. k # 1 /\ k \in Nat
      BY <1>1, <2>1, <2>2
    <3>2. k - 1 \in DOMAIN t /\ (k - 1) + 1 = k
      BY <1>1, <3>1
    <3>3. t[k - 1] = s[k] /\ i < k - 1 /\ k - 1 < j
      <4>1. t[k - 1] = s[(k - 1) + 1]
        BY <1>1, <3>2
      <4> QED
        BY <4>1, <3>1, <3>2, <2>1, <2>2
    <3> QED
      BY <3>2, <3>3, <2>1, <1>3 DEF Adjacent
  <2>3. i + 1 < j + 1 /\ s[i + 1].name = s[j + 1].name
    BY <2>1, <1>3 DEF Adjacent
  <2> QED
    BY <2>2, <2>3 DEF Adjacent
<1>4. ASSUME NEW i \in DOMAIN t, Final(t, i) PROVE Final(s, i + 1)
  <2>1. ASSUME NEW k \in DOMAIN s, k > i + 1 PROVE s[k].name # s[i + 1].name
    <3>1. k # 1 /\ k \in Nat /\ i \in Nat
      BY <1>1, <2>1
    <3>2. k - 1 \in DOMAIN t /\ (k - 1) + 1 = k
      BY <1>1, <3>1
    <3>3. t[k - 1] = s[k] /\ k - 1 > i /\ t[i] = s[i + 1]
      <4>1. t[k - 1] = s[(k - 1) + 1] /\ t[i] = s[i + 1]
        BY <1>1, <3>2
      <4> QED
        BY <4>1, <3>1, <3>2, <2>1
    <3> QED
      BY <3>2, <3>3, <1>4 DEF Final
  <2> QED
    BY <2>1 DEF Final
<1>5. ASSUME NEW y, Silent(t, y)
      PROVE  \/ y = x /\ Final(s, 1)
             \/ y # x /\ Silent(s, y)
  <2>1. ASSUME NEW k \in DOMAIN s, k # 1 PROVE s[k].name # y
    <3>1. k - 1 \in DOMAIN t /\ (k - 1) + 1 = k
      BY <1>1, <2>1
    <3>2. t[k - 1] = s[(k - 1) + 1]
      BY <1>1, <3>1
    <3> QED
      BY <3>1, <3>2, <1>5 DEF Silent
  <2>2. \A k \in DOMAIN s : k > 1 => k # 1
    BY <1>1
  <2> QED
    BY <2>1, <2>2 DEF x, Final, Silent
<1> QED
  BY <1>1, <1>2, <1>3, <1>4, <1>5 DEF t, x

\* Among the changes of an object there is a first one.
LEMMA SomeFirst ==
    ASSUME NEW S, NEW s \in Seq(S), NEW x, ~Silent(s, x)
    PROVE  \E i \in DOMAIN s : s[i].name = x /\ First(s, i)
<1> DEFINE T == {i \in DOMAIN s : s[i].name = x}
<1>1. DOMAIN s = 1 .. Len(s) /\ Len(s) \in Nat
  OBVIOUS
<1>2. T \in SUBSET Nat /\ T # {}
  BY <1>1 DEF Silent
<1>3. PICK m \in T : \A k \in T : m <= k
  <2> HIDE DEF T
  <2> QED
    BY <1>2, Least
<1>4. \A k \in DOMAIN s : k < m => s[k].name # x
  <2>1. \A k \in DOMAIN s : k \in Nat
    BY <1>1
  <2> QED
    BY <1>2, <1>3, <2>1
<1> QED
  BY <1>3, <1>4 DEF First

\* And only one.
LEMMA OneFirst ==
    ASSUME NEW S, NEW s \in Seq(S), NEW i \in DOMAIN s, NEW j \in DOMAIN s,
           First(s, i), First(s, j), s[i].name = s[j].name
    PROVE  i = j
<1>1. i \in Nat /\ j \in Nat
  OBVIOUS
<1>2. ~(i < j) /\ ~(j < i)
  BY DEF First
<1> QED
  BY <1>1, <1>2

\* What a name stands for after the calls handled so far.
LEMMA HandledIs ==
    ASSUME NEW S, NEW s \in Seq(S), NEW now
    PROVE  /\ \A x : Silent(s, x) => HandledOf(s, now, x) = Lookup(now, x)
           /\ \A i \in DOMAIN s : First(s, i) => HandledOf(s, now, s[i].name) = s[i].old
<1>1. ASSUME NEW i \in DOMAIN s, First(s, i)
      PROVE  HandledOf(s, now, s[i].name) = s[i].old
  <2> DEFINE x == s[i].name
             j == CHOOSE k \in DOMAIN s : s[k].name = x /\ First(s, k)
  <2>1. ~Silent(s, x)
    BY DEF Silent
  <2>2. j \in DOMAIN s /\ s[j].name = x /\ First(s, j)
    <3> HIDE DEF x
    <3>1. \E k \in DOMAIN s : s[k].name = x /\ First(s, k)
      BY <1>1 DEF x
    <3> QED
      BY <3>1
  <2> HIDE DEF j
  <2>3. j = i
    BY <1>1, <2>2, OneFirst
  <2> QED
    BY <2>1, <2>3 DEF HandledOf, j
<1> QED
  BY <1>1 DEF HandledOf

\* What is found under a name after one is set or taken away.
LEMMA LookupPlaced ==
    ASSUME NEW f, NEW x, NEW new, NEW y
    PROVE  Lookup(Placed(f, x, new), y) = IF y = x THEN new ELSE Lookup(f, y)
  BY DEF Lookup, Placed, Put, Without, Restrict

\* A name without changes stands for what it stood for.
LEMMA FeedSilent ==
    ASSUME NEW k, NEW s, NEW old, NEW now, FeedLinked(k, s, old, now), NEW x, Silent(s, x)
    PROVE  Lookup(old, x) = Lookup(now, x)
  BY DEF FeedLinked, Lookup

\* A change is made.
LEMMA FeedAppended ==
    ASSUME NEW S, NEW s \in Seq(S), NEW k, NEW old, NEW now, FeedLinked(k, s, old, now),
           NEW x, NEW new, Follows(k, Lookup(now, x), new)
    PROVE  FeedLinked(k, Append(s, [name |-> x, obj |-> new]), old, Placed(now, x, new))
<1> DEFINE e == [name |-> x, obj |-> new]
           t == Append(s, e)
           n == Len(s)
           later == Placed(now, x, new)
<1>1. /\ DOMAIN s = 1 .. n /\ n \in Nat /\ DOMAIN t = 1 .. n + 1
      /\ \A i \in DOMAIN s : t[i] = s[i]
      /\ t[n + 1] = e
  BY Appended
<1>2. e.name = x /\ e.obj = new
  OBVIOUS
<1> HIDE DEF e
<1>3. /\ \A i \in DOMAIN t : First(t, i) =>
           (i \in DOMAIN s /\ First(s, i)) \/ (i = n + 1 /\ Silent(s, e.name))
      /\ \A i, j \in DOMAIN t : Adjacent(t, i, j) =>
           \/ i \in DOMAIN s /\ j \in DOMAIN s /\ Adjacent(s, i, j)
           \/ j = n + 1 /\ i \in DOMAIN s /\ Final(s, i) /\ s[i].name = e.name
      /\ \A i \in DOMAIN t : Final(t, i) =>
           i = n + 1 \/ (i \in DOMAIN s /\ Final(s, i) /\ s[i].name # e.name)
      /\ \A y : Silent(t, y) <=> Silent(s, y) /\ y # e.name
  BY AppendLinks
<1>4. \A y : Lookup(later, y) = IF y = x THEN new ELSE Lookup(now, y)
  BY LookupPlaced
<1> HIDE DEF t, n, later
<1>5. ASSUME NEW i \in DOMAIN t, First(t, i)
      PROVE  Follows(k, Lookup(old, t[i].name), t[i].obj)
  <2>1. CASE i \in DOMAIN s /\ First(s, i)
    BY <2>1, <1>1 DEF FeedLinked
  <2>2. CASE i = n + 1 /\ Silent(s, x)
    <3>1. Lookup(old, x) = Lookup(now, x)
      BY <2>2, FeedSilent
    <3> QED
      BY <3>1, <2>2, <1>1, <1>2
  <2> QED
    BY <1>2, <1>3, <1>5, <2>1, <2>2
<1>6. ASSUME NEW i \in DOMAIN t, NEW j \in DOMAIN t, Adjacent(t, i, j)
      PROVE  Follows(k, t[i].obj, t[j].obj)
  <2>1. CASE i \in DOMAIN s /\ j \in DOMAIN s /\ Adjacent(s, i, j)
    BY <2>1, <1>1 DEF FeedLinked
  <2>2. CASE j = n + 1 /\ i \in DOMAIN s /\ Final(s, i) /\ s[i].name = x
    <3>1. s[i].obj = Lookup(now, x)
      BY <2>2 DEF FeedLinked
    <3> QED
      BY <3>1, <2>2, <1>1, <1>2
  <2> QED
    BY <1>2, <1>3, <1>6, <2>1, <2>2
<1>7. ASSUME NEW i \in DOMAIN t, Final(t, i) PROVE t[i].obj = Lookup(later, t[i].name)
  <2>1. CASE i = n + 1
    BY <2>1, <1>1, <1>2, <1>4
  <2>2. CASE i \in DOMAIN s /\ Final(s, i) /\ s[i].name # x
    <3>1. s[i].obj = Lookup(now, s[i].name)
      BY <2>2 DEF FeedLinked
    <3> QED
      BY <3>1, <2>2, <1>1, <1>4
  <2> QED
    BY <1>2, <1>3, <1>7, <2>1, <2>2
<1>8. ASSUME NEW y, Silent(t, y) PROVE Lookup(old, y) = Lookup(later, y)
  <2>1. Silent(s, y) /\ y # x
    BY <1>2, <1>3, <1>8
  <2>2. Lookup(old, y) = Lookup(now, y)
    BY <2>1, FeedSilent
  <2> QED
    BY <2>1, <2>2, <1>4
<1>9. FeedLinked(k, t, old, later)
  BY <1>5, <1>6, <1>7, <1>8 DEF FeedLinked
<1> QED
  BY <1>9 DEF t, e, later

\* A change is received.
LEMMA FeedTaken ==
    ASSUME NEW S, NEW s \in Seq(S), s # <<>>, NEW k, NEW old, NEW now,
           FeedLinked(k, s, old, now)
    PROVE  FeedLinked(k, Tail(s), Placed(old, s[1].name, s[1].obj), now)
<1> DEFINE t == Tail(s)
           x == s[1].name
           new == s[1].obj
           later == Placed(old, x, new)
<1>1. /\ \A i \in DOMAIN t : t[i] = s[i + 1] /\ i + 1 \in DOMAIN s
      /\ \A i \in DOMAIN t : First(t, i) =>
           \/ t[i].name = x /\ Adjacent(s, 1, i + 1)
           \/ t[i].name # x /\ First(s, i + 1)
      /\ \A i, j \in DOMAIN t : Adjacent(t, i, j) => Adjacent(s, i + 1, j + 1)
      /\ \A i \in DOMAIN t : Final(t, i) => Final(s, i + 1)
      /\ \A y : Silent(t, y) => (y = x /\ Final(s, 1)) \/ (y # x /\ Silent(s, y))
  BY TailLinks
<1>2. 1 \in DOMAIN s
  BY Shortened
<1>3. \A y : Lookup(later, y) = IF y = x THEN new ELSE Lookup(old, y)
  BY LookupPlaced
<1> HIDE DEF t, later
<1>4. ASSUME NEW i \in DOMAIN t, First(t, i)
      PROVE  Follows(k, Lookup(later, t[i].name), t[i].obj)
  <2>1. CASE t[i].name = x /\ Adjacent(s, 1, i + 1)
    <3>1. Follows(k, s[1].obj, s[i + 1].obj)
      BY <2>1, <1>1, <1>2 DEF FeedLinked
    <3> QED
      BY <3>1, <2>1, <1>1, <1>3
  <2>2. CASE t[i].name # x /\ First(s, i + 1)
    <3>1. Follows(k, Lookup(old, s[i + 1].name), s[i + 1].obj)
      BY <2>2, <1>1 DEF FeedLinked
    <3> QED
      BY <3>1, <2>2, <1>1, <1>3
  <2> QED
    BY <1>1, <1>4, <2>1, <2>2
<1>5. ASSUME NEW i \in DOMAIN t, NEW j \in DOMAIN t, Adjacent(t, i, j)
      PROVE  Follows(k, t[i].obj, t[j].obj)
  <2>1. Adjacent(s, i + 1, j + 1) /\ i + 1 \in DOMAIN s /\ j + 1 \in DOMAIN s
    BY <1>1, <1>5
  <2>2. Follows(k, s[i + 1].obj, s[j + 1].obj)
    BY <2>1 DEF FeedLinked
  <2> QED
    BY <2>2, <1>1
<1>6. ASSUME NEW i \in DOMAIN t, Final(t, i) PROVE t[i].obj = Lookup(now, t[i].name)
  <2>1. Final(s, i + 1) /\ i + 1 \in DOMAIN s
    BY <1>1, <1>6
  <2>2. s[i + 1].obj = Lookup(now, s[i + 1].name)
    BY <2>1 DEF FeedLinked
  <2> QED
    BY <2>2, <1>1
<1>7. ASSUME NEW y, Silent(t, y) PROVE Lookup(later, y) = Lookup(now, y)
  <2>1. CASE y = x /\ Final(s, 1)
    <3>1. s[1].obj = Lookup(now, s[1].name)
      BY <2>1, <1>2 DEF FeedLinked
    <3> QED
      BY <3>1, <2>1, <1>3
  <2>2. CASE y # x /\ Silent(s, y)
    <3>1. Lookup(old, y) = Lookup(now, y)
      BY <2>2, FeedSilent
    <3> QED
      BY <3>1, <2>2, <1>3
  <2> QED
    BY <1>1, <1>7, <2>1, <2>2
<1>8. FeedLinked(k, t, later, now)
  BY <1>4, <1>5, <1>6, <1>7 DEF FeedLinked
<1> QED
  BY <1>8 DEF t, later

\* A call becomes due.
LEMMA NoteAppended ==
    ASSUME NEW k, NEW s, NEW now, NoteLinked(k, s, now), NEW x, NEW new,
           Follows(k, Lookup(now, x), new)
    PROVE  LET t == Append(s, [name |-> x, old |-> Lookup(now, x), new |-> new])
               later == Placed(now, x, new)
           IN /\ NoteLinked(k, t, later)
              /\ \A y : HandledOf(t, later, y) = HandledOf(s, now, y)
<1> DEFINE e == [name |-> x, old |-> Lookup(now, x), new |-> new]
           t == Append(s, e)
           n == Len(s)
           later == Placed(now, x, new)
<1>0. s \in Seq(Range(s))
  BY DEF NoteLinked
<1>1. /\ DOMAIN s = 1 .. n /\ n \in Nat /\ DOMAIN t = 1 .. n + 1
      /\ \A i \in DOMAIN s : t[i] = s[i] /\ i \in DOMAIN t
      /\ t[n + 1] = e /\ n + 1 \in DOMAIN t /\ \A i \in DOMAIN t : i \in DOMAIN s \/ i = n + 1
  BY <1>0, Appended
<1>2. e.name = x /\ e.old = Lookup(now, x) /\ e.new = new
  OBVIOUS
<1> HIDE DEF e
<1>3. /\ \A i \in DOMAIN t : First(t, i) =>
           (i \in DOMAIN s /\ First(s, i)) \/ (i = n + 1 /\ Silent(s, e.name))
      /\ \A i, j \in DOMAIN t : Adjacent(t, i, j) =>
           \/ i \in DOMAIN s /\ j \in DOMAIN s /\ Adjacent(s, i, j)
           \/ j = n + 1 /\ i \in DOMAIN s /\ Final(s, i) /\ s[i].name = e.name
      /\ \A i \in DOMAIN t : Final(t, i) =>
           i = n + 1 \/ (i \in DOMAIN s /\ Final(s, i) /\ s[i].name # e.name)
      /\ \A y : Silent(t, y) <=> Silent(s, y) /\ y # e.name
  BY <1>0, AppendLinks
<1>4. \A y : Lookup(later, y) = IF y = x THEN new ELSE Lookup(now, y)
  BY LookupPlaced
<1>5. t \in Seq(Range(t))
  BY <1>0, RangeAppend
<1> HIDE DEF t, n, later
<1>6. ASSUME NEW i \in DOMAIN t PROVE Follows(k, t[i].old, t[i].new)
  BY <1>1, <1>2 DEF NoteLinked
<1>7. ASSUME NEW i \in DOMAIN t, NEW j \in DOMAIN t, Adjacent(t, i, j)
      PROVE  t[j].old = t[i].new
  <2>1. CASE i \in DOMAIN s /\ j \in DOMAIN s /\ Adjacent(s, i, j)
    BY <2>1, <1>1 DEF NoteLinked
  <2>2. CASE j = n + 1 /\ i \in DOMAIN s /\ Final(s, i) /\ s[i].name = x
    <3>1. s[i].new = Lookup(now, x)
      BY <2>2 DEF NoteLinked
    <3> QED
      BY <3>1, <2>2, <1>1, <1>2
  <2> QED
    BY <1>2, <1>3, <1>7, <2>1, <2>2
<1>8. ASSUME NEW i \in DOMAIN t, Final(t, i) PROVE t[i].new = Lookup(later, t[i].name)
  <2>1. CASE i = n + 1
    BY <2>1, <1>1, <1>2, <1>4
  <2>2. CASE i \in DOMAIN s /\ Final(s, i) /\ s[i].name # x
    <3>1. s[i].new = Lookup(now, s[i].name)
      BY <2>2 DEF NoteLinked
    <3> QED
      BY <3>1, <2>2, <1>1, <1>4
  <2> QED
    BY <1>2, <1>3, <1>8, <2>1, <2>2
<1>9. NoteLinked(k, t, later)
  BY <1>5, <1>6, <1>7, <1>8 DEF NoteLinked
<1>10. ASSUME NEW y PROVE HandledOf(t, later, y) = HandledOf(s, now, y)
  <2>1. CASE Silent(t, y)
    <3>1. Silent(s, y) /\ y # x
      BY <2>1, <1>2, <1>3
    <3>2. HandledOf(s, now, y) = Lookup(now, y)
      BY <3>1, <1>0, HandledIs
    <3>3. HandledOf(t, later, y) = Lookup(later, y)
      BY <2>1, <1>5, HandledIs
    <3> QED
      BY <3>1, <3>2, <3>3, <1>4
  <2>2. CASE ~Silent(t, y)
    <3>1. PICK i \in DOMAIN t : t[i].name = y /\ First(t, i)
      BY <2>2, <1>5, SomeFirst
    <3>2. HandledOf(t, later, y) = t[i].old
      BY <3>1, <1>5, HandledIs
    <3>3. CASE i \in DOMAIN s /\ First(s, i)
      <4>1. HandledOf(s, now, s[i].name) = s[i].old
        BY <3>3, <1>0, HandledIs
      <4> QED
        BY <4>1, <3>1, <3>2, <3>3, <1>1
    <3>4. CASE i = n + 1 /\ Silent(s, x)
      <4>1. y = x /\ t[i].old = Lookup(now, x)
        BY <3>1, <3>4, <1>1, <1>2
      <4>2. HandledOf(s, now, x) = Lookup(now, x)
        BY <3>4, <1>0, HandledIs
      <4> QED
        BY <4>1, <4>2, <3>2
    <3> QED
      BY <3>1, <3>3, <3>4, <1>2, <1>3
  <2> QED
    BY <2>1, <2>2
<1> QED
  BY <1>9, <1>10 DEF t, e, later

\* The first call is handled.
LEMMA NoteCalled ==
    ASSUME NEW k, NEW s, NEW now, NoteLinked(k, s, now), s # <<>>
    PROVE  NoteLinked(k, Tail(s), now)
<1> DEFINE t == Tail(s)
           x == s[1].name
<1>0. s \in Seq(Range(s)) /\ t \in Seq(Range(t))
  BY RangeTail DEF NoteLinked
<1>1. /\ \A i \in DOMAIN t : t[i] = s[i + 1] /\ i + 1 \in DOMAIN s
      /\ \A i \in DOMAIN t : First(t, i) =>
           \/ t[i].name = x /\ Adjacent(s, 1, i + 1)
           \/ t[i].name # x /\ First(s, i + 1)
      /\ \A i, j \in DOMAIN t : Adjacent(t, i, j) => Adjacent(s, i + 1, j + 1)
      /\ \A i \in DOMAIN t : Final(t, i) => Final(s, i + 1)
      /\ \A y : Silent(t, y) => (y = x /\ Final(s, 1)) \/ (y # x /\ Silent(s, y))
  BY <1>0, TailLinks
<1>2. 1 \in DOMAIN s /\ Head(s) = s[1] /\ \A i \in DOMAIN s : i \in Nat /\ ~(i < 1)
  BY <1>0, Shortened
<1> HIDE DEF t
<1>3. ASSUME NEW i \in DOMAIN t PROVE Follows(k, t[i].old, t[i].new)
  BY <1>1 DEF NoteLinked
<1>4. ASSUME NEW i \in DOMAIN t, NEW j \in DOMAIN t, Adjacent(t, i, j)
      PROVE  t[j].old = t[i].new
  <2>1. Adjacent(s, i + 1, j + 1) /\ i + 1 \in DOMAIN s /\ j + 1 \in DOMAIN s
    BY <1>1, <1>4
  <2>2. s[j + 1].old = s[i + 1].new
    BY <2>1 DEF NoteLinked
  <2> QED
    BY <2>2, <1>1
<1>5. ASSUME NEW i \in DOMAIN t, Final(t, i) PROVE t[i].new = Lookup(now, t[i].name)
  <2>1. Final(s, i + 1) /\ i + 1 \in DOMAIN s
    BY <1>1, <1>5
  <2>2. s[i + 1].new = Lookup(now, s[i + 1].name)
    BY <2>1 DEF NoteLinked
  <2> QED
    BY <2>2, <1>1
<1>6. NoteLinked(k, t, now)
  BY <1>0, <1>3, <1>4, <1>5 DEF NoteLinked
<1> QED
  BY <1>6 DEF t

\* That is where the object has got to, and no other.
LEMMA NoteHandled ==
    ASSUME NEW k, NEW s, NEW now, NoteLinked(k, s, now), s # <<>>, NEW n, n = Head(s)
    PROVE  /\ Follows(k, n.old, n.new) /\ HandledOf(s, now, n.name) = n.old
           /\ HandledOf(Tail(s), now, n.name) = n.new
           /\ \A y : y # n.name => HandledOf(Tail(s), now, y) = HandledOf(s, now, y)
<1> DEFINE t == Tail(s)
           x == s[1].name
<1>0. s \in Seq(Range(s)) /\ t \in Seq(Range(t))
  BY RangeTail DEF NoteLinked
<1>1. /\ \A i \in DOMAIN t : t[i] = s[i + 1] /\ i + 1 \in DOMAIN s
      /\ \A i \in DOMAIN t : First(t, i) =>
           \/ t[i].name = x /\ Adjacent(s, 1, i + 1)
           \/ t[i].name # x /\ First(s, i + 1)
      /\ \A i, j \in DOMAIN t : Adjacent(t, i, j) => Adjacent(s, i + 1, j + 1)
      /\ \A i \in DOMAIN t : Final(t, i) => Final(s, i + 1)
      /\ \A y : Silent(t, y) => (y = x /\ Final(s, 1)) \/ (y # x /\ Silent(s, y))
  BY <1>0, TailLinks
<1>2. 1 \in DOMAIN s /\ Head(s) = s[1] /\ \A i \in DOMAIN s : i \in Nat /\ ~(i < 1)
  BY <1>0, Shortened
<1> HIDE DEF t
<1>3. Follows(k, s[1].old, s[1].new)
  BY <1>2 DEF NoteLinked
<1>4. HandledOf(s, now, x) = s[1].old
  <2>1. First(s, 1)
    BY <1>2 DEF First
  <2> QED
    BY <2>1, <1>0, <1>2, HandledIs
<1>5. ASSUME NEW y
      PROVE  HandledOf(t, now, y) = IF y = x THEN s[1].new ELSE HandledOf(s, now, y)
  <2>1. CASE Silent(t, y)
    <3>1. HandledOf(t, now, y) = Lookup(now, y)
      BY <2>1, <1>0, HandledIs
    <3>2. CASE y = x /\ Final(s, 1)
      <4>1. s[1].new = Lookup(now, x)
        BY <3>2, <1>2 DEF NoteLinked
      <4> QED
        BY <4>1, <3>1, <3>2
    <3>3. CASE y # x /\ Silent(s, y)
      BY <3>1, <3>3, <1>0, HandledIs
    <3> QED
      BY <2>1, <3>2, <3>3, <1>1
  <2>2. CASE ~Silent(t, y)
    <3>1. PICK i \in DOMAIN t : t[i].name = y /\ First(t, i)
      BY <2>2, <1>0, SomeFirst
    <3>2. HandledOf(t, now, y) = t[i].old
      BY <3>1, <1>0, HandledIs
    <3>3. CASE t[i].name = x /\ Adjacent(s, 1, i + 1)
      <4>1. s[i + 1].old = s[1].new
        BY <3>3, <1>1, <1>2 DEF NoteLinked
      <4> QED
        BY <4>1, <3>1, <3>2, <3>3, <1>1
    <3>4. CASE t[i].name # x /\ First(s, i + 1)
      <4>1. HandledOf(s, now, s[i + 1].name) = s[i + 1].old
        BY <3>4, <1>0, <1>1, HandledIs
      <4> QED
        BY <4>1, <3>1, <3>2, <3>4, <1>1
    <3> QED
      BY <3>1, <3>3, <3>4, <1>1
  <2> QED
    BY <2>1, <2>2
<1> QED
  BY <1>2, <1>3, <1>4, <1>5 DEF t

-----------------------------------------------------------------------------
(***************************************************************************)
(* The operations of the cache.                                            *)
(***************************************************************************)

\* From c to d only the entry of key has changed: it has job and pods now.
After(c, d, key, job, pods) ==
    /\ Good(d)
    /\ JobIn(d, key) = job /\ PodsIn(d, key) = pods
    /\ \A j : j # key => JobIn(d, j) = JobIn(c, j) /\ PodsIn(d, j) = PodsIn(c, j)

\* The fields of a cache.
LEMMA GoodFields ==
    ASSUME NEW c, Good(c)
    PROVE  DOMAIN c = {"entries", "jobs", "waiting", "queue"}
  BY JcFields DEF Good, JcFine

\* A new entry is none of those there are.
LEMMA FreshIsNew ==
    ASSUME NEW c, IsFiniteSet(DOMAIN c.entries)
    PROVE  Fresh(c) \notin DOMAIN c.entries
<1> DEFINE E == DOMAIN c.entries
           n == Cardinality(E)
           I == 1 .. n + 1
<1>1. n \in Nat
  BY FS_CardinalityType
<1> HIDE DEF n
<1>2. IsFiniteSet(I) /\ Cardinality(I) = n + 1
  <2>1. n + 1 \in Nat /\ 1 \in Int /\ n + 1 \in Int
    BY <1>1
  <2>2. Cardinality(I) = IF 1 > n + 1 THEN 0 ELSE (n + 1) - 1 + 1
    BY <2>1, FS_Interval
  <2> QED
    BY <2>1, <2>2, FS_Interval, <1>1
<1>3. ASSUME I \subseteq E PROVE FALSE
  <2>1. Cardinality(I) <= Cardinality(E)
    BY <1>3, FS_Subset
  <2> QED
    BY <2>1, <1>1, <1>2 DEF n
<1>4. \E i \in I : i \notin E
  BY <1>3
<1> QED
  BY <1>4 DEF Fresh, n

\* An entry is made.
LEMMA EntryMade ==
    ASSUME NEW c, Good(c), NEW key, key \notin DOMAIN c.jobs, NEW name, NEW job
    PROVE  LET d == WithEntry(c, key, name, job)
           IN After(c, d, key, job, {}) /\ key \in DOMAIN d.jobs
<1> DEFINE i == Fresh(c)
           e == NewEntry(name, job)
           d == WithEntry(c, key, name, job)
<1>1. /\ JcFine(c) /\ IsFiniteSet(DOMAIN c.entries)
      /\ DOMAIN c = {"entries", "jobs", "waiting", "queue"}
  BY GoodFields DEF Good
<1>2. i \notin DOMAIN c.entries
  BY <1>1, FreshIsNew
<1>3. DOMAIN e = {"name", "job", "pods"} /\ e.job = job /\ e.pods = {}
  BY DEF NewEntry
<1> HIDE DEF i, e
<1>4. d.entries = Put(c.entries, i, e) /\ d.jobs = Put(c.jobs, key, i)
  BY <1>1 DEF WithEntry, i, e
<1>5. JcFine(d)
  BY <1>1, WithEntryFine
<1> HIDE DEF d
<1>6. /\ DOMAIN d.jobs = DOMAIN c.jobs \cup {key} /\ d.jobs[key] = i
      /\ \A j \in DOMAIN c.jobs : j # key => d.jobs[j] = c.jobs[j]
      /\ DOMAIN d.entries = DOMAIN c.entries \cup {i} /\ d.entries[i] = e
      /\ \A k \in DOMAIN c.entries : k # i => d.entries[k] = c.entries[k]
  BY <1>4 DEF Put
<1>7. \A j \in DOMAIN c.jobs : c.jobs[j] \in DOMAIN c.entries /\ c.jobs[j] # i
  BY <1>1, <1>2, LeadsTo
<1>8. \A j, k \in DOMAIN d.jobs : d.jobs[j] = d.jobs[k] => j = k
  BY <1>6, <1>7 DEF Good
<1>9. IsFiniteSet(DOMAIN d.entries)
  BY <1>1, <1>6, FS_AddElement
<1>10. Good(d)
  BY <1>3, <1>5, <1>6, <1>8, <1>9 DEF Good
<1>11. JobIn(d, key) = job /\ PodsIn(d, key) = {}
  BY <1>3, <1>6 DEF JobIn, PodsIn, Entry
<1>12. ASSUME NEW j, j # key PROVE JobIn(d, j) = JobIn(c, j) /\ PodsIn(d, j) = PodsIn(c, j)
  <2>1. CASE j \in DOMAIN c.jobs
    <3>1. j \in DOMAIN d.jobs /\ Entry(d, j) = Entry(c, j)
      BY <2>1, <1>6, <1>7, <1>12 DEF Entry
    <3> QED
      BY <2>1, <3>1 DEF JobIn, PodsIn
  <2>2. CASE j \notin DOMAIN c.jobs
    BY <2>2, <1>6, <1>12 DEF JobIn, PodsIn
  <2> QED
    BY <2>1, <2>2
<1> QED
  BY <1>6, <1>10, <1>11, <1>12 DEF After, d

\* The entry of a name, made if there is none.
LEMMA EntryThere ==
    ASSUME NEW c, Good(c), NEW key
    PROVE  LET d == WithEntry(c, key, "", NoJob)
           IN After(c, d, key, JobIn(c, key), PodsIn(c, key)) /\ key \in DOMAIN d.jobs
<1> DEFINE d == WithEntry(c, key, "", NoJob)
<1>1. CASE key \in DOMAIN c.jobs
  <2>1. d = c
    BY <1>1 DEF WithEntry
  <2> QED
    BY <1>1, <2>1 DEF After
<1>2. CASE key \notin DOMAIN c.jobs
  <2>1. JobIn(c, key) = NoJob /\ PodsIn(c, key) = {}
    BY <1>2 DEF JobIn, PodsIn
  <2> QED
    BY <1>2, <2>1, EntryMade
<1> QED
  BY <1>1, <1>2

\* An entry is written.
LEMMA EntrySet ==
    ASSUME NEW c, Good(c), NEW key \in DOMAIN c.jobs, NEW e,
           DOMAIN e = {"name", "job", "pods"},
           NEW d, d = [c EXCEPT !.entries = [c.entries EXCEPT ![c.jobs[key]] = e]]
    PROVE  After(c, d, key, e.job, e.pods) /\ key \in DOMAIN d.jobs /\ d.jobs = c.jobs
<1> DEFINE i == c.jobs[key]
           f == [c.entries EXCEPT ![i] = e]
<1>1. JcFine(c) /\ DOMAIN c = {"entries", "jobs", "waiting", "queue"}
  BY GoodFields DEF Good
<1>2. i \in DOMAIN c.entries
  BY <1>1, LeadsTo
<1>3. /\ DOMAIN f = DOMAIN c.entries /\ f[i] = e
      /\ \A k \in DOMAIN c.entries : k # i => f[k] = c.entries[k]
  BY <1>2
<1> HIDE DEF f
<1>4. JcFine(d) /\ d.jobs = c.jobs /\ d.entries = f
  BY <1>1, <1>3, EntryWritten DEF f
<1>5. Good(d)
  BY <1>3, <1>4 DEF Good
<1>6. JobIn(d, key) = e.job /\ PodsIn(d, key) = e.pods
  BY <1>3, <1>4 DEF JobIn, PodsIn, Entry
<1>7. ASSUME NEW j, j # key PROVE JobIn(d, j) = JobIn(c, j) /\ PodsIn(d, j) = PodsIn(c, j)
  <2>1. CASE j \in DOMAIN c.jobs
    <3>1. c.jobs[j] \in DOMAIN c.entries /\ c.jobs[j] # i
      BY <2>1, <1>1, <1>7, LeadsTo DEF Good
    <3>2. Entry(d, j) = Entry(c, j)
      BY <3>1, <1>3, <1>4 DEF Entry
    <3> QED
      BY <2>1, <3>2, <1>4 DEF JobIn, PodsIn
  <2>2. CASE j \notin DOMAIN c.jobs
    BY <2>2, <1>4 DEF JobIn, PodsIn
  <2> QED
    BY <2>1, <2>2
<1> QED
  BY <1>4, <1>5, <1>6, <1>7 DEF After

\* Clean-ups that are put off change no entry.
LEMMA PutOff ==
    ASSUME NEW c, Good(c), NEW i \in DOMAIN c.entries
    PROVE  LET d == deleteJob(c, i)
           IN Good(d) /\ \A j : JobIn(d, j) = JobIn(c, j) /\ PodsIn(d, j) = PodsIn(c, j)
<1> DEFINE d == deleteJob(c, i)
<1>1. JcFine(c) /\ DOMAIN c = {"entries", "jobs", "waiting", "queue"}
  BY GoodFields DEF Good
<1>2. JcFine(d)
  BY <1>1, DeleteJobFine
<1>3. d.entries = c.entries /\ d.jobs = c.jobs
  BY <1>1 DEF deleteJob
<1> HIDE DEF d
<1>4. Good(d)
  BY <1>2, <1>3 DEF Good
<1> QED
  BY <1>3, <1>4 DEF JobIn, PodsIn, Entry, d

\* The parts of After.
LEMMA AfterThat ==
    ASSUME NEW c, NEW d, NEW e, NEW key, NEW j1, NEW p1, NEW j2, NEW p2,
           After(c, d, key, j1, p1), After(d, e, key, j2, p2)
    PROVE  After(c, e, key, j2, p2)
  BY DEF After

\* A Job is added.
LEMMA JobAdded ==
    ASSUME NEW c, Good(c), NEW key, NEW job
    PROVE  LET d == Add(c, key, job)
           IN /\ After(c, d, key, JobIn(d, key), PodsIn(c, key))
              /\ JobIn(c, key) = NoJob => JobIn(d, key) = job
<1> DEFINE d == WithEntry(c, key, key, job)
           i == d.jobs[key]
           r == [d EXCEPT !.entries[i].job = job, !.entries[i].name = key]
           a == Add(c, key, job)
<1>1. a = IF Entry(d, key).job = NoJob THEN r ELSE d
  BY DEF Add
<1>2. /\ Good(d) /\ key \in DOMAIN d.jobs
      /\ After(c, d, key, JobIn(d, key), PodsIn(c, key)) /\ PodsIn(d, key) = PodsIn(c, key)
      /\ JobIn(d, key) = (IF key \in DOMAIN c.jobs THEN JobIn(c, key) ELSE job)
  <2>1. CASE key \in DOMAIN c.jobs
    <3>1. d = c
      BY <2>1 DEF WithEntry
    <3> QED
      BY <2>1, <3>1 DEF After
  <2>2. CASE key \notin DOMAIN c.jobs
    <3>1. After(c, d, key, job, {}) /\ key \in DOMAIN d.jobs
      BY <2>2, EntryMade
    <3>2. PodsIn(c, key) = {}
      BY <2>2 DEF PodsIn
    <3> HIDE DEF d
    <3> QED
      BY <2>2, <3>1, <3>2 DEF After
  <2> QED
    BY <2>1, <2>2
<1> HIDE DEF d
<1>3. JobIn(d, key) = Entry(d, key).job /\ PodsIn(d, key) = Entry(d, key).pods
  BY <1>2 DEF JobIn, PodsIn
<1>4. CASE Entry(d, key).job # NoJob
  <2>1. a = d
    BY <1>1, <1>4
  <2>2. JobIn(c, key) = NoJob => JobIn(d, key) = job
    BY <1>2, <1>3, <1>4
  <2> HIDE DEF a
  <2> QED
    BY <1>2, <2>1, <2>2 DEF a
<1>5. CASE Entry(d, key).job = NoJob
  <2> DEFINE e == [Entry(d, key) EXCEPT !.job = job, !.name = key]
             f == [d.entries EXCEPT ![i] = e]
  <2>1. JcFine(d) /\ DOMAIN d = {"entries", "jobs", "waiting", "queue"}
    BY <1>2, GoodFields DEF Good
  <2>2. i \in DOMAIN d.entries
    BY <2>1, <1>2, LeadsTo
  <2>3. DOMAIN Entry(d, key) = {"name", "job", "pods"}
    BY <2>2, <1>2 DEF Good, Entry
  <2>4. DOMAIN e = {"name", "job", "pods"} /\ e.job = job /\ e.pods = PodsIn(d, key)
    BY <2>3, <1>3
  <2>5. r = [d EXCEPT !.entries = f]
    BY <2>1, <2>2 DEF Entry
  <2> HIDE DEF e, r
  <2>6. After(d, r, key, e.job, e.pods)
    BY <2>4, <2>5, <1>2, EntrySet
  <2>7. After(c, r, key, job, PodsIn(c, key))
    BY <2>4, <2>6, <1>2, AfterThat
  <2>8. a = r
    BY <1>1, <1>5
  <2> HIDE DEF a
  <2>9. JobIn(r, key) = job
    BY <2>7 DEF After
  <2> QED
    BY <2>7, <2>8, <2>9 DEF a
<1> QED
  BY <1>4, <1>5

\* One field of an entry is written.
LEMMA JobSet ==
    ASSUME NEW c, Good(c), NEW key \in DOMAIN c.jobs, NEW job
    PROVE  After(c, [c EXCEPT !.entries[c.jobs[key]].job = job], key, job, PodsIn(c, key))
<1> DEFINE i == c.jobs[key]
           e == [c.entries[i] EXCEPT !.job = job]
           d == [c EXCEPT !.entries[i].job = job]
<1>1. JcFine(c) /\ DOMAIN c = {"entries", "jobs", "waiting", "queue"}
  BY GoodFields DEF Good
<1>2. i \in DOMAIN c.entries
  BY <1>1, LeadsTo
<1>3. DOMAIN c.entries[i] = {"name", "job", "pods"} /\ PodsIn(c, key) = c.entries[i].pods
  BY <1>2 DEF Good, PodsIn, Entry
<1>4. DOMAIN e = {"name", "job", "pods"} /\ e.job = job /\ e.pods = PodsIn(c, key)
  BY <1>3
<1>5. d = [c EXCEPT !.entries = [c.entries EXCEPT ![i] = e]]
  BY <1>1, <1>2
<1> HIDE DEF d, e
<1>6. After(c, d, key, e.job, e.pods)
  BY <1>4, <1>5, EntrySet
<1> QED
  BY <1>4, <1>6 DEF d

\* The other.
LEMMA PodsSet ==
    ASSUME NEW c, Good(c), NEW key \in DOMAIN c.jobs, NEW pods
    PROVE  After(c, [c EXCEPT !.entries[c.jobs[key]].pods = pods], key, JobIn(c, key), pods)
<1> DEFINE i == c.jobs[key]
           e == [c.entries[i] EXCEPT !.pods = pods]
           d == [c EXCEPT !.entries[i].pods = pods]
<1>1. JcFine(c) /\ DOMAIN c = {"entries", "jobs", "waiting", "queue"}
  BY GoodFields DEF Good
<1>2. i \in DOMAIN c.entries
  BY <1>1, LeadsTo
<1>3. DOMAIN c.entries[i] = {"name", "job", "pods"} /\ JobIn(c, key) = c.entries[i].job
  BY <1>2 DEF Good, JobIn, Entry
<1>4. DOMAIN e = {"name", "job", "pods"} /\ e.pods = pods /\ e.job = JobIn(c, key)
  BY <1>3
<1>5. d = [c EXCEPT !.entries = [c.entries EXCEPT ![i] = e]]
  BY <1>1, <1>2
<1> HIDE DEF d, e
<1>6. After(c, d, key, e.job, e.pods)
  BY <1>4, <1>5, EntrySet
<1> QED
  BY <1>4, <1>6 DEF d

\* A Job is updated, if it is not older than the one there is.
LEMMA JobUpdated ==
    ASSUME NEW c, Good(c), NEW key, NEW job
    PROVE  LET d == Update(c, key, job)
           IN /\ After(c, d, key, JobIn(d, key), PodsIn(c, key))
              /\ JobIn(c, key) # NoJob /\ ~(job.rv < JobIn(c, key).rv) => JobIn(d, key) = job
<1> DEFINE r == [c EXCEPT !.entries[c.jobs[key]].job = job]
           d == Update(c, key, job)
<1>1. After(c, c, key, JobIn(c, key), PodsIn(c, key))
  BY DEF After
<1>2. CASE key \notin DOMAIN c.jobs
  <2>1. d = c /\ JobIn(c, key) = NoJob
    BY <1>2 DEF Update, JobIn
  <2> HIDE DEF d
  <2> QED
    BY <1>1, <2>1 DEF d
<1>3. CASE key \in DOMAIN c.jobs
  <2>1. JobIn(c, key) = Entry(c, key).job
    BY <1>3 DEF JobIn
  <2>2. After(c, r, key, job, PodsIn(c, key))
    BY <1>3, JobSet
  <2>3. JobIn(r, key) = job
    BY <2>2 DEF After
  <2>4. \/ d = r
        \/ d = c /\ JobIn(c, key) # NoJob /\ job.rv < JobIn(c, key).rv
    BY <1>3, <2>1, Zenon DEF Update
  <2> HIDE DEF d, r
  <2> QED
    BY <1>1, <2>2, <2>3, <2>4 DEF d
<1> QED
  BY <1>2, <1>3

\* A Job is deleted.
LEMMA JobDeleted ==
    ASSUME NEW c, Good(c), NEW key
    PROVE  After(c, Delete(c, key), key, NoJob, PodsIn(c, key))
<1> DEFINE r == [c EXCEPT !.entries[c.jobs[key]].job = NoJob]
           i == c.jobs[key]
<1>1. CASE key \notin DOMAIN c.jobs
  <2>1. Delete(c, key) = c /\ JobIn(c, key) = NoJob
    BY <1>1 DEF Delete, JobIn
  <2> QED
    BY <2>1 DEF After
<1>2. CASE key \in DOMAIN c.jobs
  <2>1. After(c, r, key, NoJob, PodsIn(c, key))
    BY <1>2, JobSet
  <2>2. Delete(c, key) = deleteJob(r, i)
    BY <1>2, Zenon DEF Delete
  <2>3. Good(r) /\ r.jobs = c.jobs
    BY <2>1, GoodFields DEF After
  <2> HIDE DEF r
  <2>4. i \in DOMAIN r.entries
    BY <1>2, <2>3, LeadsTo DEF Good
  <2>5. /\ Good(deleteJob(r, i))
        /\ \A j : /\ JobIn(deleteJob(r, i), j) = JobIn(r, j)
                  /\ PodsIn(deleteJob(r, i), j) = PodsIn(r, j)
    BY <2>3, <2>4, PutOff
  <2> QED
    BY <2>1, <2>2, <2>5 DEF After
<1> QED
  BY <1>1, <1>2

\* A pod is added, or replaces its old self.
LEMMA PodAdded ==
    ASSUME NEW c, Good(c), NEW key, NEW p
    PROVE  /\ After(c, AddPod(c, key, p), key, JobIn(c, key), PodsIn(c, key) \cup {p})
           /\ After(c, UpdatePod(c, key), key, JobIn(c, key), PodsIn(c, key))
<1> DEFINE d == WithEntry(c, key, "", NoJob)
           r == [d EXCEPT !.entries[d.jobs[key]].pods = PodsIn(d, key) \cup {p}]
<1>1. After(c, d, key, JobIn(c, key), PodsIn(c, key)) /\ key \in DOMAIN d.jobs
  BY EntryThere
<1>2. UpdatePod(c, key) = d
  BY DEF UpdatePod
<1>3. AddPod(c, key, p) = [d EXCEPT !.entries[d.jobs[key]].pods = @ \cup {p}]
  BY DEF AddPod
<1> HIDE DEF d
<1>4. /\ Good(d) /\ JobIn(d, key) = JobIn(c, key) /\ PodsIn(d, key) = PodsIn(c, key)
  BY <1>1 DEF After
<1>5. AddPod(c, key, p) = r
  <2>1. DOMAIN d = {"entries", "jobs", "waiting", "queue"} /\ d.jobs[key] \in DOMAIN d.entries
    BY <1>1, <1>4, GoodFields, LeadsTo DEF Good
  <2>2. PodsIn(d, key) = d.entries[d.jobs[key]].pods
    BY <1>1 DEF PodsIn, Entry
  <2>3. DOMAIN d.entries[d.jobs[key]] = {"name", "job", "pods"}
    BY <2>1, <1>4 DEF Good
  <2> QED
    BY <1>3, <2>1, <2>2, <2>3
<1>6. After(d, r, key, JobIn(d, key), PodsIn(d, key) \cup {p})
  BY <1>1, <1>4, PodsSet
<1> HIDE DEF r
<1> QED
  BY <1>1, <1>2, <1>4, <1>5, <1>6, AfterThat

\* A pod is deleted.
LEMMA PodDeleted ==
    ASSUME NEW c, Good(c), NEW key, NEW p
    PROVE  After(c, DeletePod(c, key, p), key, JobIn(c, key), PodsIn(c, key) \ {p})
<1> DEFINE d == WithEntry(c, key, "", NoJob)
           i == d.jobs[key]
           a == [d EXCEPT !.entries[i].pods = @ \ {p}]
           r == [d EXCEPT !.entries[i].pods = PodsIn(d, key) \ {p}]
<1>1. After(c, d, key, JobIn(c, key), PodsIn(c, key)) /\ key \in DOMAIN d.jobs
  BY EntryThere
<1>2. \/ DeletePod(c, key, p) = deleteJob(a, a.jobs[key])
      \/ DeletePod(c, key, p) = a
  BY Zenon DEF DeletePod
<1> HIDE DEF d
<1>3. /\ Good(d) /\ JobIn(d, key) = JobIn(c, key) /\ PodsIn(d, key) = PodsIn(c, key)
  BY <1>1 DEF After
<1>4. a = r
  <2>1. DOMAIN d = {"entries", "jobs", "waiting", "queue"} /\ i \in DOMAIN d.entries
    BY <1>1, <1>3, GoodFields, LeadsTo DEF Good
  <2>2. PodsIn(d, key) = d.entries[i].pods
    BY <1>1 DEF PodsIn, Entry
  <2>3. DOMAIN d.entries[i] = {"name", "job", "pods"}
    BY <2>1, <1>3 DEF Good
  <2> QED
    BY <2>1, <2>2, <2>3
<1>5. After(d, r, key, JobIn(d, key), PodsIn(d, key) \ {p})
  BY <1>1, <1>3, PodsSet
<1>6. Good(r) /\ r.jobs = d.jobs
  BY <1>3, <1>5, GoodFields DEF After
<1> HIDE DEF r, a
<1>7. r.jobs[key] \in DOMAIN r.entries
  BY <1>1, <1>6, LeadsTo DEF Good
<1>8. After(c, r, key, JobIn(c, key), PodsIn(c, key) \ {p})
  BY <1>1, <1>3, <1>5, AfterThat
<1> DEFINE z == deleteJob(r, r.jobs[key])
<1>9. Good(z) /\ \A j : JobIn(z, j) = JobIn(r, j) /\ PodsIn(z, j) = PodsIn(r, j)
  BY <1>6, <1>7, PutOff
<1> HIDE DEF z
<1>10. After(c, z, key, JobIn(c, key), PodsIn(c, key) \ {p})
  BY <1>8, <1>9 DEF After
<1> QED
  BY <1>2, <1>4, <1>8, <1>10 DEF z

\* Only what waits to be cleaned up is different.
LEMMA SameEntries ==
    ASSUME NEW c, NEW d, Good(c), JcFine(d), d.entries = c.entries, d.jobs = c.jobs
    PROVE  Good(d) /\ \A j : JobIn(d, j) = JobIn(c, j) /\ PodsIn(d, j) = PodsIn(c, j)
  BY DEF Good, JobIn, PodsIn, Entry

\* The clean-up drops an entry without Job and pods; if it drops another one,
\* that is noticed.
LEMMA CleanedUp ==
    ASSUME Good(jcc), processCleanupJob
    PROVE  /\ Good(jcc')
           /\ \A j : \/ <<"swept", j>> \in blind'
                     \/ JobIn(jcc', j) = JobIn(jcc, j) /\ PodsIn(jcc', j) = PodsIn(jcc, j)
<1> DEFINE i == Head(jcc.queue)
           e == jcc.entries[i]
           c == [jcc EXCEPT !.queue = Tail(@)]
           d == [c EXCEPT !.jobs = Without(c.jobs, e.name)]
<1>0. DOMAIN jcc = {"entries", "jobs", "waiting", "queue"} /\ JcFine(jcc)
  BY GoodFields DEF Good
<1>1. JcFine(jcc')
  BY <1>0, CleanupFine
<1>2. CASE ~jobTerminated(e)
  <2>1. jcc' = deleteJob(c, i)
    BY <1>2 DEF processCleanupJob
  <2>2. jcc'.entries = jcc.entries /\ jcc'.jobs = jcc.jobs
    BY <2>1, <1>0 DEF deleteJob
  <2> QED
    BY <2>2, <1>1, SameEntries
<1>3. CASE jobTerminated(e)
  <2>1. /\ jcc' = Collect(d)
        /\ blind' = IF e.name \in DOMAIN jcc.jobs /\ jcc.jobs[e.name] # i
                    THEN blind \cup {<<"swept", e.name>>} ELSE blind
    BY <1>3 DEF processCleanupJob
  <2> DEFINE live == Range(d.jobs) \cup d.waiting \cup Range(d.queue)
             rest == Restrict(d.entries, DOMAIN d.entries \cap live)
  <2>2. DOMAIN c = DOMAIN jcc /\ c.jobs = jcc.jobs /\ c.entries = jcc.entries
    BY <1>0
  <2>3. DOMAIN d = DOMAIN jcc /\ d.jobs = Without(jcc.jobs, e.name) /\ d.entries = jcc.entries
    BY <1>0, <2>2
  <2> HIDE DEF c, d, e
  <2>4. Collect(d) = [d EXCEPT !.entries = rest]
    BY DEF Collect
  <2>5. jcc'.jobs = d.jobs /\ jcc'.entries = rest
    BY <2>1, <2>3, <2>4, <1>0
  <2>6. /\ DOMAIN rest = DOMAIN jcc.entries \cap live
        /\ \A k \in DOMAIN rest : rest[k] = jcc.entries[k]
    BY <2>3 DEF Restrict
  <2>7. /\ DOMAIN d.jobs = DOMAIN jcc.jobs \ {e.name}
        /\ \A j \in DOMAIN d.jobs : d.jobs[j] = jcc.jobs[j]
    BY <2>3 DEF Without, Restrict
  <2> HIDE DEF live, rest
  <2>8. Good(jcc')
    <3>1. IsFiniteSet(DOMAIN rest)
      BY <2>6, FS_Subset DEF Good
    <3> QED
      BY <3>1, <1>1, <2>5, <2>6, <2>7 DEF Good
  <2>9. ASSUME NEW j, j \in DOMAIN d.jobs
        PROVE  JobIn(jcc', j) = JobIn(jcc, j) /\ PodsIn(jcc', j) = PodsIn(jcc, j)
    <3>1. jcc'.jobs[j] \in DOMAIN rest
      BY <1>1, <2>5, <2>9, LeadsTo
    <3>2. Entry(jcc', j) = Entry(jcc, j)
      BY <3>1, <2>5, <2>6, <2>7, <2>9 DEF Entry
    <3> QED
      BY <3>2, <2>5, <2>7, <2>9 DEF JobIn, PodsIn
  <2>10. ASSUME NEW j, j \notin DOMAIN d.jobs
         PROVE  \/ <<"swept", j>> \in blind'
                \/ JobIn(jcc', j) = JobIn(jcc, j) /\ PodsIn(jcc', j) = PodsIn(jcc, j)
    <3>1. JobIn(jcc', j) = NoJob /\ PodsIn(jcc', j) = {}
      BY <2>5, <2>10 DEF JobIn, PodsIn
    <3>2. CASE j \notin DOMAIN jcc.jobs
      BY <3>1, <3>2 DEF JobIn, PodsIn
    <3>3. CASE j \in DOMAIN jcc.jobs
      <4>1. j = e.name
        BY <2>7, <2>10, <3>3
      <4>2. CASE jcc.jobs[j] # i
        BY <4>1, <4>2, <3>3, <2>1
      <4>3. CASE jcc.jobs[j] = i
        <5>1. Entry(jcc, j) = e
          BY <4>3 DEF Entry, e
        <5> QED
          BY <5>1, <3>1, <3>3, <1>3 DEF JobIn, PodsIn, jobTerminated
      <4> QED
        BY <4>2, <4>3
    <3> QED
      BY <3>2, <3>3
  <2> QED
    BY <2>8, <2>9, <2>10
<1> QED
  BY <1>2, <1>3

\* The delay of an entry is over.
LEMMA DelayOver ==
    ASSUME Good(jcc), JcFine(jcc'), JcDelayOver
    PROVE  Good(jcc') /\ \A j : JobIn(jcc', j) = JobIn(jcc, j) /\ PodsIn(jcc', j) = PodsIn(jcc, j)
<1>1. DOMAIN jcc = {"entries", "jobs", "waiting", "queue"}
  BY GoodFields
<1>2. jcc'.entries = jcc.entries /\ jcc'.jobs = jcc.jobs
  BY <1>1 DEF JcDelayOver
<1> QED
  BY <1>2, SameEntries

-----------------------------------------------------------------------------
(***************************************************************************)
(* What the steps write.                                                   *)
(***************************************************************************)

\* A pod keeps its Job and is not undeleted; a Job has a name.
Keeps(k, x, obj) ==
    /\ k = "pod" /\ obj # Gone =>
         /\ IsPod(obj)
         /\ x \in DOMAIN api["pod"] =>
              obj.job = api["pod"][x].job /\ (api["pod"][x].deleting => obj.deleting)
    /\ k = "job" => x # ""

Careful ==
    \/ Unwritten
    \/ \E k \in Kinds : \E x : \E obj : Write(k, x, obj) /\ Keeps(k, x, obj)

\* Other objects may be written as one likes.
LEMMA OtherKinds ==
    ASSUME NEW k \in {"queue", "group", "command", "rs"}, NEW x, NEW obj, Write(k, x, obj)
    PROVE  Careful
<1>1. k \in Kinds /\ Keeps(k, x, obj)
  BY DEF Kinds, Keeps
<1> QED
  BY <1>1 DEF Careful

\* A Job that has a name is written.
LEMMA NamedJob ==
    ASSUME NEW j, j # "", NEW obj, Write("job", j, obj)
    PROVE  Careful
<1>1. Keeps("job", j, obj)
  BY DEF Keeps
<1> QED
  BY <1>1, KindsOf DEF Careful

\* A pod is written that has its fields.
LEMMA PodWritten ==
    ASSUME NEW p, NEW obj, Write("pod", p, obj), Keeps("pod", p, obj)
    PROVE  Careful
  BY KindsOf DEF Careful

\* The webhook changes other fields of a pod.
LEMMA PatchedPod ==
    ASSUME NEW pod, IsPod(pod)
    PROVE  IsPod(createPodPatch(pod)) /\ createPodPatch(pod).job = pod.job
  BY DEF createPodPatch, IsPod

\* A pod is created.
LEMMA PodCreated ==
    ASSUME NEW j, NEW p \in DOMAIN NewPods, JobPod(j, p) \/ CreatePod(p)
    PROVE  Careful
<1>1. IsPod(NewPods[p])
  BY ManagerAssumption
<1>2. ASSUME NEW pod, IsPod(pod), p \notin DOMAIN api["pod"],
             Write("pod", p, createPodPatch(pod))
      PROVE  Careful
  <2>1. IsPod(createPodPatch(pod))
    BY <1>2, PatchedPod
  <2>2. Keeps("pod", p, createPodPatch(pod))
    BY <2>1, <1>2 DEF Keeps
  <2> QED
    BY <2>2, <1>2, PodWritten
<1>3. CASE JobPod(j, p)
  <2> DEFINE pod == [NewPods[p] EXCEPT !.group = GroupOf(j), !.owner = GroupOf(j)]
  <2>1. p \notin DOMAIN api["pod"] /\ Write("pod", p, createPodPatch(pod))
    BY <1>3 DEF JobPod
  <2>2. IsPod(pod)
    BY <1>1 DEF IsPod
  <2> HIDE DEF pod
  <2> QED
    BY <2>1, <2>2, <1>2
<1>4. CASE CreatePod(p)
  <2> DEFINE set == NewPods[p].owner
             owner == IF set = <<>> THEN <<>> ELSE <<"rs", set[2], api["rs"][set[2]].uid>>
             pod == [NewPods[p] EXCEPT !.owner = owner]
  <2>1. p \notin DOMAIN api["pod"] /\ Write("pod", p, createPodPatch(pod))
    BY <1>4 DEF CreatePod
  <2> HIDE DEF owner
  <2>2. IsPod(pod)
    BY <1>1 DEF IsPod
  <2> HIDE DEF pod
  <2> QED
    BY <2>1, <2>2, <1>2
<1> QED
  BY <1>3, <1>4

\* A pod is deleted, in two steps, or annotated.
LEMMA PodChanged ==
    ASSUME PodsShaped, NEW p,
           DeletePodOf(p) \/ UserDeletesPod(p) \/ PodStops(p) \/ updatePodAnnotations(p)
    PROVE  Careful
<1> DEFINE old == api["pod"][p]
<1>1. CASE DeletePodOf(p) \/ UserDeletesPod(p)
  <2> DEFINE new == [old EXCEPT !.deleting = TRUE]
  <2>1. p \in DOMAIN api["pod"] /\ Write("pod", p, new)
    BY <1>1 DEF DeletePodOf, UserDeletesPod
  <2>2. IsPod(old)
    BY <2>1 DEF PodsShaped
  <2> HIDE DEF old
  <2>3. IsPod(new) /\ new.job = old.job /\ new.deleting
    BY <2>2 DEF IsPod
  <2> HIDE DEF new
  <2>4. Keeps("pod", p, new)
    BY <2>1, <2>3 DEF Keeps, old
  <2> QED
    BY <2>1, <2>4, PodWritten
<1>2. CASE PodStops(p)
  <2>1. Write("pod", p, Gone) /\ Keeps("pod", p, Gone)
    BY <1>2 DEF PodStops, Keeps
  <2> QED
    BY <2>1, PodWritten
<1>3. CASE updatePodAnnotations(p)
  <2> DEFINE stored == Lookup(api["pod"], p)
  <2>1. CASE Unwritten
    BY <2>1 DEF Careful
  <2>2. CASE stored # Gone /\ \E g : Write("pod", p, [stored EXCEPT !.group = g])
    <3>1. PICK g : Write("pod", p, [stored EXCEPT !.group = g])
      BY <2>2
    <3> DEFINE new == [stored EXCEPT !.group = g]
    <3>2. p \in DOMAIN api["pod"] /\ stored = old
      BY <2>2 DEF Lookup
    <3>3. IsPod(stored)
      BY <3>2 DEF PodsShaped
    <3> HIDE DEF stored, old
    <3>4. IsPod(new) /\ new.job = stored.job /\ new.deleting = stored.deleting
      BY <3>3 DEF IsPod
    <3>5. Write("pod", p, new)
      BY <3>1
    <3> HIDE DEF new
    <3>6. Keeps("pod", p, new)
      BY <3>2, <3>4 DEF Keeps, old
    <3> QED
      BY <3>5, <3>6, PodWritten
  <2> QED
    BY <1>3, <2>1, <2>2 DEF updatePodAnnotations
<1> QED
  BY <1>1, <1>2, <1>3

\* Users, the scheduler, the job controller and Kubernetes.
LEMMA OthersCareful ==
    ASSUME PodsShaped, JobsNamed, Others \/ Kubernetes
    PROVE  Careful
<1>1. ASSUME NEW q, CreateQueue(q) \/ DeleteQueue(q) \/ OperateQueue(q) \/ UpdateQueueStatus(q)
      PROVE  Careful
  <2>1. \E k \in {"queue", "command"} : \E x : \E obj : Write(k, x, obj)
    BY <1>1 DEF CreateQueue, DeleteQueue, UpdateQueueStatus, OperateQueue, createQueueCommand
  <2> QED
    BY <2>1, OtherKinds
<1>2. ASSUME NEW g, UpdatePodGroup(g) \/ GroupGoes(g) \/ JobGroup(g) PROVE Careful
  <2>1. \E x : \E obj : Write("group", x, obj)
    BY <1>2 DEF UpdatePodGroup, GroupGoes, JobGroup
  <2> QED
    BY <2>1, OtherKinds
<1>3. ASSUME NEW j, DeleteJob(j) \/ EditJob(j) \/ JobEnds(j) \/ JobGoes(j) PROVE Careful
  <2>1. j \in DOMAIN api["job"] /\ \E obj : Write("job", j, obj)
    BY <1>3 DEF DeleteJob, EditJob, JobEnds, JobGoes
  <2>2. j # ""
    BY <2>1 DEF JobsNamed
  <2> QED
    BY <2>1, <2>2, NamedJob, ZenonT(60)
<1>4. ASSUME NEW j \in DOMAIN NewJobs, RunJob(j) PROVE Careful
  <2>1. \E obj : Write("job", j, obj)
    BY <1>4 DEF RunJob
  <2>2. j # ""
    BY ManagerAssumption
  <2> QED
    BY <2>1, <2>2, NamedJob
<1>5. ASSUME NEW r, ScaleSet(r) PROVE Careful
  <2>1. \E obj : Write("rs", r, obj)
    BY <1>5 DEF ScaleSet
  <2> QED
    BY <2>1, OtherKinds
<1>6. ASSUME NEW j, NEW p \in DOMAIN NewPods, JobPod(j, p) \/ CreatePod(p) PROVE Careful
  BY <1>6, PodCreated
<1>7. ASSUME NEW p, DeletePodOf(p) \/ UserDeletesPod(p) \/ PodStops(p) PROVE Careful
  BY <1>7, PodChanged
<1>8. CASE Others
  BY <1>1, <1>2, <1>3, <1>4, <1>5, <1>6, <1>7, <1>8 DEF Others
<1>9. CASE Kubernetes
  BY <1>2, <1>3, <1>7, <1>9 DEF Kubernetes
<1> QED
  BY <1>8, <1>9

\* The controllers.
LEMMA ControllersCareful ==
    ASSUME PodsShaped, JobsNamed,
           \/ QueueHandlers \/ QueueCommands \/ QueueWorks \/ QueueBack
           \/ GroupHandlers \/ GroupWorks \/ GarbageHandlers \/ GarbageWorks
    PROVE  Careful
<1>1. CASE QueueHandlers \/ CommandEnqueue \/ CommandLater \/ QueueBack
  BY <1>1 DEF QueueHandlers, QueueBack, OnQueue, OnGroup, OnCommand, CommandEnqueue,
              CommandLater, QueueLater, Careful
<1>2. CASE handleCommand
  <2>1. Unwritten \/ \E x : Write("command", x, Gone)
    BY <1>2 DEF handleCommand
  <2> QED
    BY <2>1, OtherKinds DEF Careful
<1>3. CASE QueueWorks
  <2>1. Unwritten \/ \E x : \E obj : Write("queue", x, obj)
    BY <1>3 DEF QueueWorks, QueueWorker, processNextWorkItem, QueueUpdate, QueueGet,
                QueueUpdateStatus, Succeeded
  <2> QED
    BY <2>1, OtherKinds DEF Careful
<1>4. CASE GarbageHandlers \/ GarbageWorks
  <2>1. \/ Unwritten
        \/ \E x : \E obj : Lookup(api["job"], x) # Gone /\ Write("job", x, obj)
    BY <1>4 DEF GarbageHandlers, GarbageWorks, GcOnJob, processJob, GcGet, GcDelete, GcLater
  <2>2. ASSUME NEW x, NEW obj, Lookup(api["job"], x) # Gone, Write("job", x, obj)
        PROVE  Careful
    <3>1. x # ""
      BY <2>2 DEF Lookup, JobsNamed
    <3> QED
      BY <2>2, <3>1, NamedJob
  <2> QED
    BY <2>1, <2>2 DEF Careful
<1>5. CASE GroupHandlers \/ GroupWorks
  <2>1. CASE PgOnPod \/ processNextReq \/ PgLater
    BY <2>1 DEF PgOnPod, processNextReq, PgLater, Careful
  <2>2. ASSUME NEW p, addReplicaSet \/ createNormalPodPGIfNotExist(p) PROVE Careful
    <3>1. Unwritten \/ \E x : \E obj : Write("group", x, obj)
      BY <2>2 DEF addReplicaSet, createNormalPodPGIfNotExist
    <3> QED
      BY <3>1, OtherKinds DEF Careful
  <2>3. ASSUME NEW p, updatePodAnnotations(p) PROVE Careful
    BY <2>3, PodChanged
  <2> QED
    BY <1>5, <2>1, <2>2, <2>3 DEF GroupHandlers, GroupWorks
<1> QED
  BY <1>1, <1>2, <1>3, <1>4, <1>5 DEF QueueCommands

\* What was swept stays known.
SweptStays == \A j : <<"swept", j>> \in blind => <<"swept", j>> \in blind'

\* Only the queue controller forgets, and not this.
LEMMA SweptKept ==
    ASSUME Next PROVE SweptStays
<1>1. CASE UNCHANGED blind
  BY <1>1 DEF SweptStays
<1>2. ASSUME NEW z, blind' = blind \cup {z} PROVE SweptStays
  BY <1>2 DEF SweptStays
<1>3. ASSUME NEW q, blind' = blind \ {<<"dropped", q>>, <<"skipped", q>>} PROVE SweptStays
  <2>1. \A j : <<"swept", j>> # <<"dropped", q>> /\ <<"swept", j>> # <<"skipped", q>>
    OBVIOUS
  <2> QED
    BY <1>3, <2>1 DEF SweptStays
<1>4. CASE Others \/ Kubernetes
  <2>1. UNCHANGED blind
    BY <1>4 DEF Others, Kubernetes, CreateQueue, DeleteQueue, OperateQueue, UpdateQueueStatus,
       UpdatePodGroup, RunJob, DeleteJob, EditJob, JobGroup, JobPod, JobEnds, CreatePod,
       ScaleSet, DeletePodOf, UserDeletesPod, PodStops, GroupGoes, JobGoes, Outside
  <2> QED
    BY <1>1, <2>1
<1>5. CASE Restart \/ Informers \/ Time
  <2>1. UNCHANGED blind
    BY <1>5 DEF Restart, Informers, Deliver, Time, Tick
  <2> QED
    BY <1>1, <2>1
<1>6. CASE QueueHandlers \/ QueueCommands \/ QueueBack
  <2>1. UNCHANGED blind \/ \E z : blind' = blind \cup {z}
    BY <1>6 DEF QueueHandlers, OnQueue, OnGroup, OnCommand, QueueCommands, handleCommand,
       CommandEnqueue, CommandLater, QueueBack, QueueLater
  <2> QED
    BY <1>1, <1>2, <2>1
<1>7. CASE QueueWorks
  <2>1. \A r : Failed(r) => UNCHANGED blind \/ \E z : blind' = blind \cup {z}
    BY DEF Failed
  <2>2. \A r : Succeeded(r) =>
          \/ UNCHANGED blind
          \/ \E q : blind' = blind \ {<<"dropped", q>>, <<"skipped", q>>}
    BY DEF Succeeded
  <2>3. CASE processNextWorkItem
    <3>1. \A r, c, s : syncQueue(r, c, s) =>
            \/ UNCHANGED blind \/ \E z : blind' = blind \cup {z}
            \/ \E q : blind' = blind \ {<<"dropped", q>>, <<"skipped", q>>}
      BY <2>1 DEF syncQueue
    <3>2. \/ UNCHANGED blind \/ \E z : blind' = blind \cup {z}
          \/ \E q : blind' = blind \ {<<"dropped", q>>, <<"skipped", q>>}
      BY <3>1, <2>3 DEF processNextWorkItem, handleQueue
    <3> QED
      BY <1>1, <1>2, <1>3, <3>2
  <2>4. CASE QueueUpdate \/ QueueGet \/ QueueUpdateStatus
    <3>1. UNCHANGED blind \/ (\E r : Failed(r)) \/ (\E r : Succeeded(r))
      BY <2>4 DEF QueueUpdate, QueueGet, QueueUpdateStatus
    <3> QED
      BY <1>1, <1>2, <1>3, <2>1, <2>2, <3>1
  <2> QED
    BY <1>7, <2>3, <2>4 DEF QueueWorks, QueueWorker
<1>8. CASE GroupHandlers \/ GroupWorks
  <2>1. \A p : createNormalPodPGIfNotExist(p) =>
          UNCHANGED blind \/ \E g : blind' = blind \ {<<"stray", g>>}
    BY DEF createNormalPodPGIfNotExist
  <2>2. \/ UNCHANGED blind \/ \E z : blind' = blind \cup {z}
        \/ \E p : createNormalPodPGIfNotExist(p)
    BY <1>8 DEF GroupHandlers, GroupWorks, PgOnPod, addReplicaSet, processNextReq, PgLater,
       updatePodAnnotations
  <2>3. ASSUME NEW g, blind' = blind \ {<<"stray", g>>} PROVE SweptStays
    <3>1. \A j : <<"swept", j>> # <<"stray", g>>
      OBVIOUS
    <3> QED
      BY <2>3, <3>1 DEF SweptStays
  <2> QED
    BY <1>1, <1>2, <2>1, <2>2, <2>3
<1>9. CASE GarbageHandlers \/ GarbageWorks
  <2>1. UNCHANGED blind
    BY <1>9 DEF GarbageHandlers, GarbageWorks, GcOnJob, processJob, GcGet, GcDelete, GcLater
  <2> QED
    BY <1>1, <2>1
<1>10. CASE CacheHandlers \/ CacheWorks
  <2>1. UNCHANGED blind \/ \E z : blind' = blind \cup {z}
    BY <1>10 DEF CacheHandlers, CacheWorks, JcOnJob, JcOnPod, processCleanupJob, JcDelayOver
  <2> QED
    BY <1>1, <1>2, <2>1
<1> QED
  BY <1>4, <1>5, <1>6, <1>7, <1>8, <1>9, <1>10 DEF Next

-----------------------------------------------------------------------------
(***************************************************************************)
(* The steps.                                                              *)
(***************************************************************************)

\* The informers of the job controller.
LEMMA JobWatches ==
    /\ KindOf["jcJob"] = "job" /\ KindOf["jcPod"] = "pod" /\ "job" \in Kinds /\ "pod" \in Kinds
    /\ JobInformers = {"jcJob", "jcPod"} /\ JobInformers \subseteq Handled
    /\ \A w \in JobInformers : KindOf[w] \in {"job", "pod"}
  BY DEF KindOf, Handled, Watches, Kinds, JobInformers

\* What is written follows what there was.
LEMMA ChangeFollows ==
    ASSUME Shared, Objects', PodsShaped, NEW k \in {"job", "pod"}, NEW x, NEW obj,
           Write(k, x, obj), Keeps(k, x, obj)
    PROVE  Follows(k, Lookup(api[k], x), Written(k, x, obj))
<1> DEFINE old == Lookup(api[k], x)
           new == Written(k, x, obj)
<1>1. Versions /\ Objects /\ k \in Kinds
  BY DEF Shared, Kinds
<1>2. CASE k = "job"
  <2>1. SUFFICES ASSUME old # Gone, new # Gone PROVE ~(new.rv < old.rv)
    BY <1>2 DEF Follows
  <2>2. x \in DOMAIN api[k] /\ old = api[k][x]
    BY <2>1 DEF Lookup
  <2>3. old.rv = vers[k][x] /\ x \in DOMAIN vers[k] /\ vers[k][x] \in Nat
    BY <1>1, <2>2 DEF Objects, Versions, Copy
  <2>4. NextVersion(k, x) \in Nat /\ vers[k][x] <= NextVersion(k, x)
    BY <1>1, <2>3, NewVersion
  <2>5. /\ DOMAIN api' = Kinds /\ DOMAIN vers' = Kinds
        /\ \A g \in Kinds : g # k => api'[g] = api[g] /\ vers'[g] = vers[g]
        /\ api'[k] = Placed(api[k], x, new)
        /\ vers'[k] = Put(vers[k], x, NextVersion(k, x))
        /\ DOMAIN feed' = DOMAIN feed
        /\ \A v \in DOMAIN feed :
             feed'[v] = IF KindOf[v] = k THEN Append(feed[v], [name |-> x, obj |-> new])
                        ELSE feed[v]
    BY <1>1, WriteEffect
  <2> HIDE DEF new, old
  <2>6. x \in DOMAIN api'[k] /\ api'[k][x] = new
    BY <2>1, <2>5 DEF Placed, Put
  <2>7. new.rv = NextVersion(k, x)
    BY <1>1, <2>5, <2>6 DEF Objects, Put
  <2> QED
    BY <2>3, <2>4, <2>7
<1>3. CASE k = "pod"
  <2>1. CASE new = Gone
    BY <1>3, <2>1 DEF Follows
  <2>2. CASE new # Gone
    <3> DEFINE v == NextVersion(k, x)
               u == IF x \in DOMAIN api[k] THEN obj.uid ELSE v
    <3>1. obj # Gone /\ new = Stamped(obj, v, u)
      BY <2>2 DEF Written
    <3>2. /\ IsPod(obj)
          /\ x \in DOMAIN api[k] =>
               obj.job = api[k][x].job /\ (api[k][x].deleting => obj.deleting)
      BY <1>3, <3>1 DEF Keeps
    <3> HIDE DEF v, u
    <3>3. IsPod(new) /\ new.job = obj.job /\ new.deleting = obj.deleting
      BY <3>1, <3>2 DEF IsPod, Stamped
    <3>4. old # Gone => x \in DOMAIN api[k] /\ old = api[k][x]
      BY DEF Lookup
    <3> HIDE DEF new, old
    <3>5. Follows(k, old, new)
      BY <1>3, <3>2, <3>3, <3>4 DEF Follows
    <3> QED
      BY <3>5 DEF new, old
  <2> QED
    BY <2>1, <2>2
<1> QED
  BY <1>2, <1>3

\* A write adds to the changes that an informer has not received.
LEMMA FeedGoesOn ==
    ASSUME Shared, Objects', PodsShaped, Careful, UNCHANGED <<store, opt>>,
           NEW w \in JobInformers, w \in opt.on, FeedOK(w)
    PROVE  FeedOK(w)'
<1> DEFINE k == KindOf[w]
<1>1. /\ Versions /\ Objects /\ k \in {"job", "pod"} /\ k \in Kinds /\ w \in DOMAIN feed
      /\ feed[w] \in Seq(Range(feed[w]))
  BY JobWatches DEF Shared, Feeds
<1>2. CASE Unwritten
  BY <1>2 DEF Unwritten, FeedOK
<1>3. ASSUME NEW h \in Kinds, NEW x, NEW obj, Write(h, x, obj), Keeps(h, x, obj)
      PROVE  FeedOK(w)'
  <2> DEFINE new == Written(h, x, obj)
  <2>1. /\ \A g \in Kinds : g # h => api'[g] = api[g]
        /\ api'[h] = Placed(api[h], x, new)
        /\ feed'[w] = IF k = h THEN Append(feed[w], [name |-> x, obj |-> new]) ELSE feed[w]
    BY <1>1, <1>3, WriteEffect
  <2>2. CASE h # k
    BY <2>1, <2>2, <1>1 DEF FeedOK
  <2>3. CASE h = k
    <3>1. Follows(k, Lookup(api[k], x), new)
      BY <1>1, <1>3, <2>3, ChangeFollows
    <3> HIDE DEF new
    <3>2. FeedLinked(k, Append(feed[w], [name |-> x, obj |-> new]), store[w],
                     Placed(api[k], x, new))
      BY <3>1, <1>1, FeedAppended DEF FeedOK
    <3> QED
      BY <3>2, <2>1, <2>3 DEF FeedOK
  <2> QED
    BY <2>2, <2>3
<1> QED
  BY <1>2, <1>3 DEF Careful

\* Pods keep their fields and Jobs have names.
LEMMA ShapesKept ==
    ASSUME Shared, Objects', PodsShaped, JobsNamed, Finite, Careful
    PROVE  PodsShaped' /\ JobsNamed' /\ Finite'
<1>1. Versions /\ Objects
  BY DEF Shared
<1>2. CASE Unwritten
  BY <1>2 DEF Unwritten, PodsShaped, JobsNamed, Finite
<1>3. ASSUME NEW h \in Kinds, NEW x, NEW obj, Write(h, x, obj), Keeps(h, x, obj)
      PROVE  PodsShaped' /\ JobsNamed' /\ Finite'
  <2> DEFINE new == Written(h, x, obj)
  <2>1. /\ DOMAIN api' = Kinds /\ DOMAIN vers' = Kinds
        /\ \A g \in Kinds : g # h => api'[g] = api[g] /\ vers'[g] = vers[g]
        /\ api'[h] = Placed(api[h], x, new)
        /\ vers'[h] = Put(vers[h], x, NextVersion(h, x))
        /\ DOMAIN feed' = DOMAIN feed
        /\ \A v \in DOMAIN feed :
             feed'[v] = IF KindOf[v] = h THEN Append(feed[v], [name |-> x, obj |-> new])
                        ELSE feed[v]
    BY <1>1, <1>3, WriteEffect
  <2>2. PodsShaped'
    <3>1. CASE h # "pod"
      BY <2>1, <3>1, KindsOf DEF PodsShaped
    <3>2. CASE h = "pod"
      <4>1. Follows("pod", Lookup(api["pod"], x), new)
        BY <3>2, <1>3, ChangeFollows
      <4>2. new # Gone => IsPod(new)
        BY <4>1 DEF Follows
      <4> HIDE DEF new
      <4>3. \A p \in DOMAIN api'["pod"] :
              \/ p \in DOMAIN api["pod"] /\ api'["pod"][p] = api["pod"][p]
              \/ new # Gone /\ api'["pod"][p] = new
        BY <2>1, <3>2 DEF Placed, Put, Without, Restrict
      <4> QED
        BY <4>2, <4>3 DEF PodsShaped
    <3> QED
      BY <3>1, <3>2
  <2>3. JobsNamed'
    <3>1. CASE h # "job"
      BY <2>1, <3>1, KindsOf DEF JobsNamed
    <3>2. CASE h = "job"
      <4>1. x # ""
        BY <3>2, <1>3 DEF Keeps
      <4> HIDE DEF new
      <4>2. \A j \in DOMAIN api'["job"] : j \in DOMAIN api["job"] \/ j = x
        BY <2>1, <3>2 DEF Placed, Put, Without, Restrict
      <4> QED
        BY <4>1, <4>2 DEF JobsNamed
    <3> QED
      BY <3>1, <3>2
  <2>4. ASSUME NEW k \in Kinds, IsFiniteSet(DOMAIN api[k]) PROVE IsFiniteSet(DOMAIN api'[k])
    <3>1. \/ DOMAIN api'[k] = DOMAIN api[k]
          \/ DOMAIN api'[k] = DOMAIN api[k] \cup {x}
          \/ DOMAIN api'[k] = DOMAIN api[k] \ {x}
      <4> HIDE DEF new
      <4> QED
        BY <2>1 DEF Placed, Put, Without, Restrict
    <3> QED
      BY <2>4, <3>1, FS_AddElement, FS_RemoveElement
  <2>5. Finite'
    BY <2>4, KindsOf DEF Finite
  <2> QED
    BY <2>2, <2>3, <2>5
<1> QED
  BY <1>2, <1>3 DEF Careful

\* An informer receives a change: what has been handled is the same.
LEMMA Received ==
    ASSUME Shared, Notes, NEW w \in JobInformers, w \in opt.on, FeedOK(w), NoteOK(w),
           NEW v \in DOMAIN feed, Deliver(v)
    PROVE  /\ FeedOK(w)' /\ NoteOK(w)'
           /\ \A x : HandledOf(note'[w], store'[w], x) = HandledOf(note[w], store[w], x)
<1> DEFINE k == KindOf[w]
           s == feed[w]
           d == Head(s)
<1>1. /\ w \in DOMAIN feed /\ w \in DOMAIN store /\ w \in DOMAIN note /\ w \in Handled
      /\ s \in Seq(Range(s))
  BY JobWatches DEF Shared, Feeds, Notes
<1>2. UNCHANGED <<api, opt>>
  BY DEF Deliver
<1>3. CASE v # w
  <2>1. feed'[w] = feed[w] /\ store'[w] = store[w] /\ note'[w] = note[w]
    BY <1>3, <1>1 DEF Deliver
  <2> QED
    BY <2>1, <1>2 DEF FeedOK, NoteOK
<1>4. CASE v = w
  <2>1. /\ s # <<>> /\ feed'[w] = Tail(s) /\ store'[w] = Placed(store[w], d.name, d.obj)
        /\ note'[w] = Append(note[w], [name |-> d.name, old |-> Lookup(store[w], d.name),
                                       new |-> d.obj])
    BY <1>4, <1>1 DEF Deliver
  <2>2. d = s[1] /\ 1 \in DOMAIN s /\ \A i \in DOMAIN s : ~(i < 1)
    BY <1>1, <2>1, Shortened
  <2>3. FeedLinked(k, Tail(s), Placed(store[w], d.name, d.obj), api[k])
    BY <1>1, <2>1, <2>2, FeedTaken DEF FeedOK
  <2>4. Follows(k, Lookup(store[w], d.name), d.obj)
    BY <2>2 DEF FeedOK, FeedLinked, First
  <2> HIDE DEF s, d
  <2>5. /\ NoteLinked(k, note'[w], store'[w])
        /\ \A x : HandledOf(note'[w], store'[w], x) = HandledOf(note[w], store[w], x)
    BY <2>1, <2>4, NoteAppended DEF NoteOK
  <2> QED
    BY <1>2, <2>1, <2>3, <2>5 DEF FeedOK, NoteOK
<1> QED
  BY <1>3, <1>4

\* A handler is called: the first change that was due has been handled.
LEMMA Answered ==
    ASSUME Shared, Notes, NEW w \in JobInformers, w \in opt.on, FeedOK(w), NoteOK(w),
           NEW v, NEW n \in Due(v), Called(v), Unwritten
    PROVE  /\ FeedOK(w)' /\ NoteOK(w)'
           /\ v # w => \A x : HandledOf(note'[w], store'[w], x) = HandledOf(note[w], store[w], x)
           /\ v = w =>
                /\ Follows(KindOf[w], n.old, n.new)
                /\ HandledOf(note[w], store[w], n.name) = n.old
                /\ HandledOf(note'[w], store'[w], n.name) = n.new
                /\ \A x : x # n.name =>
                     HandledOf(note'[w], store'[w], x) = HandledOf(note[w], store[w], x)
<1>1. w \in DOMAIN note /\ store' = store /\ UNCHANGED <<api, feed>>
  BY DEF Notes, Called, Unwritten
<1>2. FeedOK(w)'
  BY <1>1 DEF FeedOK
<1>3. CASE v # w
  <2>1. note'[w] = note[w]
    BY <1>1, <1>3 DEF Called
  <2> QED
    BY <1>1, <1>2, <1>3, <2>1 DEF NoteOK
<1>4. CASE v = w
  <2> DEFINE s == note[w]
             k == KindOf[w]
             now == store[w]
  <2>1. s # <<>> /\ n = Head(s) /\ note'[w] = Tail(s)
    BY <1>1, <1>4 DEF Due, Called
  <2>2. NoteLinked(k, s, now)
    BY DEF NoteOK
  <2> HIDE DEF s, k, now
  <2>3. NoteLinked(k, Tail(s), now)
    BY <2>1, <2>2, NoteCalled
  <2>4. /\ Follows(k, n.old, n.new) /\ HandledOf(s, now, n.name) = n.old
        /\ HandledOf(Tail(s), now, n.name) = n.new
        /\ \A x : x # n.name => HandledOf(Tail(s), now, x) = HandledOf(s, now, x)
    BY <2>1, <2>2, NoteHandled
  <2> QED
    BY <1>1, <1>2, <1>4, <2>1, <2>3, <2>4 DEF NoteOK, s, k, now
<1> QED
  BY <1>3, <1>4

\* A finite set in a sequence: each member once.
LEMMA EachOnce ==
    ASSUME NEW S, IsFiniteSet(S)
    PROVE  /\ SetToSeq(S) \in Seq(S)
           /\ DOMAIN SetToSeq(S) = 1 .. Cardinality(S) /\ Cardinality(S) \in Nat
           /\ \A i, j \in DOMAIN SetToSeq(S) : SetToSeq(S)[i] = SetToSeq(S)[j] => i = j
           /\ \A x \in S : \E i \in DOMAIN SetToSeq(S) : SetToSeq(S)[i] = x
<1> DEFINE n == Cardinality(S)
           f == SetToSeq(S)
<1>1. n \in Nat /\ ExistsBijection(1 .. n, S)
  BY FS_CardinalityType
<1> HIDE DEF n
<1>2. \E g \in [1 .. n -> S] : IsInjective(g)
  BY <1>1 DEF ExistsBijection, Bijection, Injection
<1>3. f \in [1 .. n -> S] /\ IsInjective(f)
  BY <1>2 DEF SetToSeq, n
<1> HIDE DEF f
<1>4. f \in Injection(1 .. n, S)
  BY <1>3 DEF Injection
<1>5. Cardinality(1 .. n) = n
  <2>1. Cardinality(1 .. n) = IF 1 > n THEN 0 ELSE n - 1 + 1
    BY <1>1, FS_Interval
  <2> QED
    BY <2>1, <1>1
<1>6. f \in Surjection(1 .. n, S)
  BY <1>4, <1>5, FS_Injection DEF n
<1>7. \A x \in S : \E i \in 1 .. n : f[i] = x
  BY <1>6 DEF Surjection
<1>8. f \in Seq(S) /\ DOMAIN f = 1 .. n
  BY <1>1, <1>3
<1> QED
  BY <1>1, <1>3, <1>7, <1>8 DEF IsInjective, f, n

\* All objects of a kind, in a sequence of changes or of calls that make them
\* out of nothing.
Listing(s, now) ==
    /\ s \in Seq(Range(s))
    /\ \A i \in DOMAIN s : s[i].name \in DOMAIN now
    /\ \A i, j \in DOMAIN s : s[i].name = s[j].name => i = j
    /\ \A x \in DOMAIN now : \E i \in DOMAIN s : s[i].name = x

\* The objects in the order of SetToSeq.
LEMMA ListedOnce ==
    ASSUME NEW now, IsFiniteSet(DOMAIN now), NEW s, DOMAIN s = DOMAIN SetToSeq(DOMAIN now),
           s = [i \in DOMAIN s |-> s[i]],
           \A i \in DOMAIN s : s[i].name = SetToSeq(DOMAIN now)[i]
    PROVE  Listing(s, now)
<1> DEFINE names == SetToSeq(DOMAIN now)
           n == Cardinality(DOMAIN now)
<1>1. /\ names \in Seq(DOMAIN now) /\ DOMAIN names = 1 .. n /\ n \in Nat
      /\ \A i, j \in DOMAIN names : names[i] = names[j] => i = j
      /\ \A x \in DOMAIN now : \E i \in DOMAIN names : names[i] = x
  BY EachOnce
<1> HIDE DEF names, n
<1>2. DOMAIN s = DOMAIN names /\ \A i \in DOMAIN s : s[i].name = names[i]
  BY DEF names
<1>3. \A i \in DOMAIN names : names[i] \in DOMAIN now
  BY <1>1
<1>4. s \in Seq(Range(s))
  <2>1. \A i \in 1 .. n : s[i] \in Range(s)
    BY <1>1, <1>2 DEF Range
  <2>2. s \in [1 .. n -> Range(s)]
    BY <2>1, <1>1, <1>2
  <2> QED
    BY <2>2, <1>1
<1> QED
  BY <1>1, <1>2, <1>3, <1>4 DEF Listing

\* Nothing comes twice.
LEMMA ListingLinks ==
    ASSUME NEW s, NEW now, Listing(s, now)
    PROVE  /\ \A i, j \in DOMAIN s : ~Adjacent(s, i, j)
           /\ \A x \in DOMAIN now : ~Silent(s, x)
<1>1. ASSUME NEW i \in DOMAIN s, NEW j \in DOMAIN s, Adjacent(s, i, j) PROVE FALSE
  <2>1. i = j /\ i < j
    BY <1>1 DEF Adjacent, Listing
  <2>2. i \in Nat
    BY DEF Listing
  <2> QED
    BY <2>1, <2>2
<1> QED
  BY <1>1 DEF Silent, Listing

\* What comes out of nothing.
LEMMA OutOfNothing ==
    ASSUME NEW k, NEW new, k = "pod" => IsPod(new)
    PROVE  Follows(k, Gone, new)
  BY DEF Follows

\* At the start an informer has everything to receive.
LEMMA FirstFeed ==
    ASSUME NEW k, NEW s, NEW now, Listing(s, now), NEW old, DOMAIN old = {},
           \A i \in DOMAIN s : s[i].obj = now[s[i].name],
           k = "pod" => \A x \in DOMAIN now : IsPod(now[x])
    PROVE  FeedLinked(k, s, old, now)
<1>1. ASSUME NEW i \in DOMAIN s PROVE Follows(k, Lookup(old, s[i].name), s[i].obj)
  <2>1. Lookup(old, s[i].name) = Gone
    BY DEF Lookup
  <2>2. k = "pod" => IsPod(s[i].obj)
    BY DEF Listing
  <2> QED
    BY <2>1, <2>2, OutOfNothing
<1>2. \A i \in DOMAIN s : s[i].obj = Lookup(now, s[i].name)
  BY DEF Lookup, Listing
<1> QED
  BY <1>1, <1>2, ListingLinks DEF FeedLinked

\* After a restart everything is due.
LEMMA FirstCalls ==
    ASSUME NEW k, NEW s, NEW now, Listing(s, now),
           \A i \in DOMAIN s : s[i].old = Gone /\ s[i].new = now[s[i].name],
           k = "pod" => \A x \in DOMAIN now : IsPod(now[x])
    PROVE  NoteLinked(k, s, now) /\ \A x : HandledOf(s, now, x) = Gone
<1>1. s \in Seq(Range(s))
  BY DEF Listing
<1>2. ASSUME NEW i \in DOMAIN s PROVE Follows(k, s[i].old, s[i].new)
  <2>1. k = "pod" => IsPod(s[i].new)
    BY DEF Listing
  <2> QED
    BY <2>1, OutOfNothing
<1>3. \A i \in DOMAIN s : s[i].new = Lookup(now, s[i].name)
  BY DEF Lookup, Listing
<1>4. NoteLinked(k, s, now)
  BY <1>1, <1>2, <1>3, ListingLinks DEF NoteLinked
<1>5. ASSUME NEW x PROVE HandledOf(s, now, x) = Gone
  <2>1. CASE Silent(s, x)
    <3>1. x \notin DOMAIN now
      BY <2>1, ListingLinks
    <3> QED
      BY <2>1, <3>1 DEF HandledOf, Lookup
  <2>2. CASE ~Silent(s, x)
    <3>1. PICK i \in DOMAIN s : s[i].name = x /\ First(s, i)
      BY <1>1, <2>2, SomeFirst
    <3> QED
      BY <1>1, <3>1, HandledIs
  <2> QED
    BY <2>1, <2>2
<1> QED
  BY <1>4, <1>5

\* An empty feed has arrived.
LEMMA NoFeed ==
    ASSUME NEW k, NEW now PROVE FeedLinked(k, <<>>, now, now)
  BY DEF FeedLinked

\* Without calls that are due everything in the store has been handled.
LEMMA NoCalls ==
    ASSUME NEW k, NEW now
    PROVE  NoteLinked(k, <<>>, now) /\ \A x : HandledOf(<<>>, now, x) = Lookup(now, x)
<1>1. <<>> \in Seq(Range(<<>>))
  OBVIOUS
<1> QED
  BY <1>1 DEF NoteLinked, HandledOf, Silent

\* An empty cache shows nothing.
LEMMA EmptyCache == Good(InitJCC) /\ \A j : JobIn(InitJCC, j) = Gone /\ PodsIn(InitJCC, j) = {}
<1>1. InitJCC.jobs = <<>> /\ InitJCC.entries = <<>> /\ DOMAIN <<>> = {}
  BY DEF InitJCC
<1> QED
  BY <1>1, InitJcFine, FS_EmptySet DEF Good, JobIn, PodsIn, NoJob

\* The parts of the invariant after a step.
LEMMA PartsKept ==
    ASSUME CacheInv, ManagerInv, ManagerInv', Careful, UNCHANGED opt,
           "jcJob" \in opt.on =>
             (\A w \in JobInformers : FeedOK(w)' /\ NoteOK(w)') /\ Good(jcc') /\ Shown'
    PROVE  CacheInv'
<1>1. Shared /\ Objects'
  BY DEF ManagerInv, Shared
<1>2. PodsShaped' /\ JobsNamed' /\ Finite'
  BY <1>1, ShapesKept DEF CacheInv
<1> QED
  BY <1>2 DEF CacheInv

\* What the invariant says while the job controller runs.
LEMMA Running ==
    ASSUME CacheInv, "jcJob" \in opt.on
    PROVE  /\ \A w \in JobInformers : w \in opt.on /\ FeedOK(w) /\ NoteOK(w)
           /\ Good(jcc) /\ Shown
<1>1. "jcJob" \in JobInformers
  BY DEF JobInformers
<1> QED
  BY <1>1 DEF CacheInv

\* The cache shows what it showed, and nothing has been handled.
LEMMA StillShown ==
    ASSUME Shown, SweptStays,
           \A w \in JobInformers : \A x :
             HandledOf(note'[w], store'[w], x) = HandledOf(note[w], store[w], x),
           \A j : \/ <<"swept", j>> \in blind'
                  \/ JobIn(jcc', j) = JobIn(jcc, j) /\ PodsIn(jcc', j) = PodsIn(jcc, j)
    PROVE  Shown'
<1>1. \A j : HandledJob(j)' = HandledJob(j) /\ HandledPod(j)' = HandledPod(j)
  BY JobWatches DEF HandledJob, HandledPod
<1>2. ASSUME NEW j, j # "" PROVE (<<"swept", j>> \in blind')  \/ Shows(jcc, j)'
  BY <1>1, <1>2 DEF Shown, Shows, SweptStays
<1> QED
  BY <1>2 DEF Shown

\* A step that concerns the cache only by what it writes.
LEMMA WrittenElsewhere ==
    ASSUME CacheInv, ManagerInv, ManagerInv', Careful, SweptStays,
           UNCHANGED <<store, opt, jcc>>,
           \A w \in JobInformers : w \in opt.on => note'[w] = note[w]
    PROVE  CacheInv'
<1>1. ASSUME "jcJob" \in opt.on
      PROVE  (\A w \in JobInformers : FeedOK(w)' /\ NoteOK(w)') /\ Good(jcc') /\ Shown'
  <2>1. Shared /\ Objects' /\ PodsShaped
    BY DEF ManagerInv, Shared, CacheInv
  <2>2. ASSUME NEW w \in JobInformers
        PROVE  /\ w \in opt.on /\ FeedOK(w) /\ NoteOK(w)
               /\ note'[w] = note[w] /\ store' = store
    BY <1>1, Running
  <2>3. ASSUME NEW w \in JobInformers PROVE FeedOK(w)' /\ NoteOK(w)'
    BY <2>1, <2>2, FeedGoesOn DEF NoteOK
  <2>4. Good(jcc') /\ Shown
    BY <1>1, Running
  <2>5. Shown'
    BY <2>2, <2>4, StillShown
  <2> QED
    BY <2>3, <2>4, <2>5
<1>2. opt' = opt
  OBVIOUS
<1> QED
  BY <1>1, <1>2, PartsKept

\* An informer receives a change.
LEMMA ReceiveKeeps ==
    ASSUME CacheInv, ManagerInv, ManagerInv', SweptStays, NEW v \in DOMAIN feed, Deliver(v),
           UNCHANGED jcc
    PROVE  CacheInv'
<1>1. UNCHANGED <<api, opt>>
  BY DEF Deliver
<1>2. PodsShaped' /\ JobsNamed' /\ Finite'
  BY <1>1 DEF CacheInv, PodsShaped, JobsNamed, Finite
<1>3. ASSUME "jcJob" \in opt.on
      PROVE  (\A w \in JobInformers : FeedOK(w)' /\ NoteOK(w)') /\ Good(jcc') /\ Shown'
  <2>1. Shared /\ Notes
    BY DEF ManagerInv, QueueOK
  <2>2. ASSUME NEW w \in JobInformers
        PROVE  /\ FeedOK(w)' /\ NoteOK(w)'
               /\ \A x : HandledOf(note'[w], store'[w], x) = HandledOf(note[w], store[w], x)
    <3>1. w \in opt.on /\ FeedOK(w) /\ NoteOK(w)
      BY <1>3, Running
    <3> QED
      BY <2>1, <3>1, Received
  <2>3. Good(jcc') /\ Shown
    BY <1>3, Running
  <2>4. Shown'
    BY <2>2, <2>3, StillShown
  <2> QED
    BY <2>2, <2>3, <2>4
<1> QED
  BY <1>1, <1>2, <1>3 DEF CacheInv

\* The clean-up of the cache.
LEMMA CleanupKeeps ==
    ASSUME CacheInv, ManagerInv, ManagerInv', SweptStays, processCleanupJob \/ JcDelayOver
    PROVE  CacheInv'
<1>1. UNCHANGED <<api, feed, store, note, opt>>
  BY DEF processCleanupJob, JcDelayOver, Works, Unwritten
<1>2. PodsShaped' /\ JobsNamed' /\ Finite'
  BY <1>1 DEF CacheInv, PodsShaped, JobsNamed, Finite
<1>3. ASSUME "jcJob" \in opt.on
      PROVE  (\A w \in JobInformers : FeedOK(w)' /\ NoteOK(w)') /\ Good(jcc') /\ Shown'
  <2>1. /\ \A w \in JobInformers : FeedOK(w) /\ NoteOK(w)
        /\ Good(jcc) /\ Shown /\ JcFine(jcc')
    BY <1>3, Running DEF ManagerInv
  <2>2. \A w \in JobInformers : FeedOK(w)' /\ NoteOK(w)'
    BY <1>1, <2>1 DEF FeedOK, NoteOK
  <2>3. /\ Good(jcc')
        /\ \A j : \/ <<"swept", j>> \in blind'
                  \/ JobIn(jcc', j) = JobIn(jcc, j) /\ PodsIn(jcc', j) = PodsIn(jcc, j)
    BY <2>1, CleanedUp, DelayOver
  <2>4. \A w \in JobInformers : \A x :
          HandledOf(note'[w], store'[w], x) = HandledOf(note[w], store[w], x)
    BY <1>1
  <2> QED
    BY <2>1, <2>2, <2>3, <2>4, StillShown
<1> QED
  BY <1>1, <1>2, <1>3 DEF CacheInv

\* A handler of the job controller is called: what is left is the cache.
LEMMA HandlerKeeps ==
    ASSUME CacheInv, ManagerInv, NEW v \in JobInformers, NEW n \in Due(v), Called(v), Unwritten,
           "jcJob" \in opt.on => Good(jcc') /\ Shown'
    PROVE  CacheInv'
<1>1. UNCHANGED <<api, opt>>
  BY DEF Called, Unwritten
<1>2. PodsShaped' /\ JobsNamed' /\ Finite'
  BY <1>1 DEF CacheInv, PodsShaped, JobsNamed, Finite
<1>3. ASSUME "jcJob" \in opt.on, NEW w \in JobInformers
      PROVE  FeedOK(w)' /\ NoteOK(w)'
  <2>1. Shared /\ Notes
    BY DEF ManagerInv, QueueOK
  <2>2. w \in opt.on /\ FeedOK(w) /\ NoteOK(w)
    BY <1>3, Running
  <2> QED
    BY <2>1, <2>2, Answered
<1> QED
  BY <1>1, <1>2, <1>3 DEF CacheInv

\* What a Job's call does to the Job in the cache.
LEMMA JobCallShown ==
    ASSUME NEW c, NEW d, Good(c), NEW n, Follows("job", n.old, n.new),
           d = CASE n.old = Gone -> Add(c, n.name, n.new)
                 [] n.new = Gone -> Delete(c, n.name)
                 [] OTHER        -> Update(c, n.name, n.new)
    PROVE  /\ After(c, d, n.name, JobIn(d, n.name), PodsIn(c, n.name))
           /\ JobIn(c, n.name) = n.old => JobIn(d, n.name) = n.new
<1>1. \/ n.old = Gone /\ d = Add(c, n.name, n.new)
      \/ n.new = Gone /\ d = Delete(c, n.name)
      \/ n.old # Gone /\ n.new # Gone /\ d = Update(c, n.name, n.new)
  OBVIOUS
<1>2. CASE n.old = Gone /\ d = Add(c, n.name, n.new)
  BY <1>2, JobAdded DEF NoJob
<1>3. CASE n.new = Gone /\ d = Delete(c, n.name)
  <2>1. After(c, d, n.name, NoJob, PodsIn(c, n.name))
    BY <1>3, JobDeleted
  <2>2. JobIn(d, n.name) = NoJob
    BY <2>1 DEF After
  <2> QED
    BY <1>3, <2>1, <2>2 DEF NoJob
<1>4. CASE n.old # Gone /\ n.new # Gone /\ d = Update(c, n.name, n.new)
  <2>1. ~(n.new.rv < n.old.rv)
    BY <1>4 DEF Follows
  <2> QED
    BY <1>4, <2>1, JobUpdated DEF NoJob
<1> QED
  BY <1>1, <1>2, <1>3, <1>4

\* The handlers of Jobs.
LEMMA JobHandlerKeeps ==
    ASSUME CacheInv, ManagerInv, JcOnJob
    PROVE  CacheInv'
<1>1. PICK n \in Due("jcJob") :
        /\ Called("jcJob") /\ Unwritten /\ UNCHANGED blind
        /\ jcc' = CASE n.old = Gone -> Add(jcc, n.name, n.new)
                    [] n.new = Gone -> Delete(jcc, n.name)
                    [] OTHER        -> Update(jcc, n.name, n.new)
  BY DEF JcOnJob
<1>2. ASSUME "jcJob" \in opt.on PROVE Good(jcc') /\ Shown'
  <2>1. Shared /\ Notes
    BY DEF ManagerInv, QueueOK
  <2>2. /\ \A w \in JobInformers : w \in opt.on /\ FeedOK(w) /\ NoteOK(w)
        /\ Good(jcc) /\ Shown
    BY <1>2, Running
  <2>3. /\ Follows("job", n.old, n.new) /\ HandledJob(n.name) = n.old
        /\ HandledJob(n.name)' = n.new
        /\ \A x : x # n.name => HandledJob(x)' = HandledJob(x)
    BY <1>1, <2>1, <2>2, Answered, JobWatches DEF HandledJob
  <2>4. \A x : HandledPod(x)' = HandledPod(x)
    <3>1. "jcJob" # "jcPod" /\ "jcPod" \in JobInformers
      BY DEF JobInformers
    <3> QED
      BY <3>1, <1>1, <2>1, <2>2, Answered DEF HandledPod
  <2>5. /\ After(jcc, jcc', n.name, JobIn(jcc', n.name), PodsIn(jcc, n.name))
        /\ JobIn(jcc, n.name) = n.old => JobIn(jcc', n.name) = n.new
    BY <1>1, <2>2, <2>3, JobCallShown
  <2>6. ASSUME NEW j, j # "" PROVE <<"swept", j>> \in blind' \/ Shows(jcc, j)'
    <3>1. <<"swept", j>> \in blind \/ Shows(jcc, j)
      BY <2>2, <2>6 DEF Shown
    <3>2. CASE j = n.name
      BY <3>1, <3>2, <1>1, <2>3, <2>4, <2>5 DEF Shows, After
    <3>3. CASE j # n.name
      BY <3>1, <3>3, <1>1, <2>3, <2>4, <2>5 DEF Shows, After
    <3> QED
      BY <3>2, <3>3
  <2> QED
    BY <2>5, <2>6 DEF After, Shown
<1>3. "jcJob" \in JobInformers
  BY DEF JobInformers
<1> QED
  BY <1>1, <1>2, <1>3, HandlerKeeps

\* The cache c after the call n for pod.
PodCall(c, n, pod) ==
    IF pod.job = "" THEN c
    ELSE IF n.new = Gone \/ pod.deleting THEN DeletePod(c, pod.job, n.name)
    ELSE IF n.old = Gone THEN AddPod(c, pod.job, n.name)
    ELSE UpdatePod(c, pod.job)

\* What a pod's call does to the pods in the cache.
LEMMA PodCallShown ==
    ASSUME NEW c, NEW d, Good(c), NEW n, NEW pod, Follows("pod", n.old, n.new),
           pod = (IF n.new = Gone THEN n.old ELSE n.new), d = PodCall(c, n, pod)
    PROVE  /\ Good(d)
           /\ \A j : /\ JobIn(d, j) = JobIn(c, j)
                     /\ \A p : p # n.name => (p \in PodsIn(d, j) <=> p \in PodsIn(c, j))
           /\ \A j : j # "" /\ (n.name \in PodsIn(c, j) <=> LivePod(n.old, j)) =>
                       (n.name \in PodsIn(d, j) <=> LivePod(n.new, j))
<1> DEFINE key == pod.job
           x == n.name
\* Other Jobs' pods are not concerned.
<1>1. \A j : j # key => ~LivePod(n.old, j) /\ ~LivePod(n.new, j)
  BY DEF LivePod, Follows
<1>2. CASE key = ""
  <2>1. d = c
    BY <1>2 DEF PodCall
  <2> QED
    BY <1>1, <1>2, <2>1
<1>3. CASE key # "" /\ (n.new = Gone \/ pod.deleting)
  <2>1. After(c, d, key, JobIn(c, key), PodsIn(c, key) \ {x})
    <3>1. d = DeletePod(c, key, x)
      BY <1>3 DEF PodCall
    <3> HIDE DEF key, x
    <3>2. After(c, DeletePod(c, key, x), key, JobIn(c, key), PodsIn(c, key) \ {x})
      BY PodDeleted
    <3> QED
      BY <3>1, <3>2
  <2>2. ~LivePod(n.new, key)
    BY <1>3 DEF LivePod
  <2> HIDE DEF key, x
  <2>3. /\ Good(d) /\ \A j : JobIn(d, j) = JobIn(c, j)
        /\ PodsIn(d, key) = PodsIn(c, key) \ {x}
        /\ \A j : j # key => PodsIn(d, j) = PodsIn(c, j)
    BY <2>1 DEF After
  <2>4. /\ \A j : \A p : p # x => (p \in PodsIn(d, j) <=> p \in PodsIn(c, j))
        /\ \A j : (x \in PodsIn(c, j) <=> LivePod(n.old, j)) =>
                    (x \in PodsIn(d, j) <=> LivePod(n.new, j))
    BY <1>1, <2>2, <2>3
  <2> QED
    BY <2>3, <2>4 DEF x
<1>4. CASE key # "" /\ n.new # Gone /\ ~pod.deleting /\ n.old = Gone
  <2>1. After(c, d, key, JobIn(c, key), PodsIn(c, key) \cup {x})
    <3>1. d = AddPod(c, key, x)
      BY <1>4 DEF PodCall
    <3> QED
      BY <3>1, PodAdded
  <2>2. LivePod(n.new, key)
    BY <1>4 DEF LivePod
  <2> HIDE DEF key, x
  <2>3. /\ Good(d) /\ \A j : JobIn(d, j) = JobIn(c, j)
        /\ PodsIn(d, key) = PodsIn(c, key) \cup {x}
        /\ \A j : j # key => PodsIn(d, j) = PodsIn(c, j)
    BY <2>1 DEF After
  <2>4. ASSUME NEW j, NEW p
        PROVE  p \in PodsIn(d, j) <=> p \in PodsIn(c, j) \/ (p = x /\ j = key)
    <3>1. CASE j = key
      BY <3>1, <2>3
    <3>2. CASE j # key
      BY <3>2, <2>3
    <3> QED
      BY <3>1, <3>2
  <2>5. \A j : LivePod(n.new, j) <=> j = key
    BY <1>1, <2>2
  <2>6. \A j : ~LivePod(n.old, j)
    BY <1>4 DEF LivePod
  <2>7. /\ \A j : \A p : p # x => (p \in PodsIn(d, j) <=> p \in PodsIn(c, j))
        /\ \A j : (x \in PodsIn(c, j) <=> LivePod(n.old, j)) =>
                    (x \in PodsIn(d, j) <=> LivePod(n.new, j))
    BY <2>4, <2>5, <2>6
  <2> QED
    BY <2>3, <2>7 DEF x
<1>5. CASE key # "" /\ n.new # Gone /\ ~pod.deleting /\ n.old # Gone
  <2>1. After(c, d, key, JobIn(c, key), PodsIn(c, key))
    <3>1. d = UpdatePod(c, key)
      BY <1>5 DEF PodCall
    <3> QED
      BY <3>1, PodAdded
  <2>2. LivePod(n.old, key) /\ LivePod(n.new, key)
    BY <1>5 DEF LivePod, Follows
  <2> HIDE DEF key, x
  <2>3. /\ Good(d) /\ \A j : JobIn(d, j) = JobIn(c, j)
        /\ \A j : PodsIn(d, j) = PodsIn(c, j)
    BY <2>1 DEF After
  <2> QED
    BY <1>1, <2>2, <2>3 DEF x
<1> QED
  BY <1>2, <1>3, <1>4, <1>5

\* The handlers of pods.
LEMMA PodHandlerKeeps ==
    ASSUME CacheInv, ManagerInv, JcOnPod
    PROVE  CacheInv'
<1>1. PICK n \in Due("jcPod") :
        /\ Called("jcPod") /\ Unwritten /\ UNCHANGED blind
        /\ LET pod == IF n.new = Gone THEN n.old ELSE n.new
           IN jcc' = IF pod.job = "" THEN jcc
                     ELSE IF n.new = Gone \/ pod.deleting THEN DeletePod(jcc, pod.job, n.name)
                     ELSE IF n.old = Gone THEN AddPod(jcc, pod.job, n.name)
                     ELSE UpdatePod(jcc, pod.job)
  BY DEF JcOnPod
<1>2. ASSUME "jcJob" \in opt.on PROVE Good(jcc') /\ Shown'
  <2>1. Shared /\ Notes
    BY DEF ManagerInv, QueueOK
  <2>2. /\ \A w \in JobInformers : w \in opt.on /\ FeedOK(w) /\ NoteOK(w)
        /\ Good(jcc) /\ Shown
    BY <1>2, Running
  <2>3. /\ Follows("pod", n.old, n.new) /\ HandledPod(n.name) = n.old
        /\ HandledPod(n.name)' = n.new
        /\ \A x : x # n.name => HandledPod(x)' = HandledPod(x)
    BY <1>1, <2>1, <2>2, Answered, JobWatches DEF HandledPod
  <2>4. \A x : HandledJob(x)' = HandledJob(x)
    <3>1. "jcJob" # "jcPod" /\ "jcJob" \in JobInformers
      BY DEF JobInformers
    <3> QED
      BY <3>1, <1>1, <2>1, <2>2, Answered DEF HandledJob
  <2>5. /\ Good(jcc')
        /\ \A j : /\ JobIn(jcc', j) = JobIn(jcc, j)
                  /\ \A p : p # n.name => (p \in PodsIn(jcc', j) <=> p \in PodsIn(jcc, j))
        /\ \A j : j # "" /\ (n.name \in PodsIn(jcc, j) <=> LivePod(n.old, j)) =>
                    (n.name \in PodsIn(jcc', j) <=> LivePod(n.new, j))
    <3> DEFINE pod == IF n.new = Gone THEN n.old ELSE n.new
    <3>1. jcc' = PodCall(jcc, n, pod)
      BY <1>1 DEF PodCall
    <3>2. pod = IF n.new = Gone THEN n.old ELSE n.new
      OBVIOUS
    <3> HIDE DEF pod
    <3> QED
      BY <3>1, <3>2, <2>2, <2>3, PodCallShown
  <2>6. ASSUME NEW j, j # "" PROVE <<"swept", j>> \in blind' \/ Shows(jcc, j)'
    <3>1. <<"swept", j>> \in blind \/ Shows(jcc, j)
      BY <2>2, <2>6 DEF Shown
    <3>2. CASE Shows(jcc, j)
      <4>1. JobIn(jcc', j) = HandledJob(j)'
        BY <3>2, <2>4, <2>5 DEF Shows
      <4>2. ASSUME NEW p PROVE p \in PodsIn(jcc', j) <=> LivePod(HandledPod(p)', j)
        <5>1. p \in PodsIn(jcc, j) <=> LivePod(HandledPod(p), j)
          BY <3>2 DEF Shows
        <5>2. CASE p = n.name
          BY <5>1, <5>2, <2>3, <2>5, <2>6
        <5>3. CASE p # n.name
          BY <5>1, <5>3, <2>3, <2>5
        <5> QED
          BY <5>2, <5>3
      <4> QED
        BY <4>1, <4>2 DEF Shows, LivePod
    <3> QED
      BY <3>1, <3>2, <1>1
  <2> QED
    BY <2>5, <2>6 DEF Shown
<1>3. "jcPod" \in JobInformers
  BY DEF JobInformers
<1> QED
  BY <1>1, <1>2, <1>3, HandlerKeeps

\* The controller manager starts again.
LEMMA RestartKeeps ==
    ASSUME CacheInv, ManagerInv, Restart
    PROVE  CacheInv'
<1>1. UNCHANGED <<api, opt>> /\ jcc' = InitJCC /\ Listed
  BY DEF Restart
<1>2. PodsShaped' /\ JobsNamed' /\ Finite'
  BY <1>1 DEF CacheInv, PodsShaped, JobsNamed, Finite
<1>3. Shared /\ Notes
  BY DEF ManagerInv, QueueOK
<1>4. ASSUME "jcJob" \in opt.on, NEW w \in JobInformers
      PROVE  /\ FeedOK(w)' /\ NoteOK(w)'
             /\ \A x : HandledOf(note'[w], store'[w], x) = Gone
  <2> DEFINE k == KindOf[w]
             now == api[k]
             names == SetToSeq(DOMAIN now)
             s == note'[w]
  <2>1. w \in opt.on /\ w \in Handled /\ k \in {"job", "pod"}
    BY <1>4, Running, JobWatches
  <2>2. /\ store'[w] = now /\ feed'[w] = <<>>
        /\ s = [i \in DOMAIN names |-> [name |-> names[i], old |-> Gone, new |-> now[names[i]]]]
    BY <1>1, <1>3, <2>1 DEF Listed, Shared, Feeds, Notes
  <2>3. /\ IsFiniteSet(DOMAIN now)
        /\ k = "pod" => \A x \in DOMAIN now : IsPod(now[x])
    BY <2>1 DEF CacheInv, Finite, PodsShaped
  <2> HIDE DEF s, now
  <2>4. /\ DOMAIN s = DOMAIN names /\ s = [i \in DOMAIN s |-> s[i]]
        /\ \A i \in DOMAIN s : /\ s[i].name = names[i] /\ s[i].old = Gone
                               /\ s[i].new = now[names[i]]
    BY <2>2
  <2>5. Listing(s, now)
    BY <2>3, <2>4, ListedOnce
  <2>6. \A i \in DOMAIN s : s[i].old = Gone /\ s[i].new = now[s[i].name]
    BY <2>4
  <2>7. NoteLinked(k, s, now) /\ \A x : HandledOf(s, now, x) = Gone
    BY <2>3, <2>5, <2>6, FirstCalls
  <2>8. FeedLinked(k, <<>>, now, now)
    BY NoFeed
  <2> QED
    BY <1>1, <2>2, <2>7, <2>8 DEF FeedOK, NoteOK, s, now
<1>5. ASSUME "jcJob" \in opt.on PROVE Good(jcc') /\ Shown'
  <2>1. \A j : HandledJob(j)' = Gone /\ HandledPod(j)' = Gone
    BY <1>4, <1>5, JobWatches DEF HandledJob, HandledPod
  <2>2. Good(jcc') /\ \A j : JobIn(jcc', j) = Gone /\ PodsIn(jcc', j) = {}
    BY <1>1, EmptyCache
  <2> QED
    BY <2>1, <2>2 DEF Shown, Shows, LivePod
<1> QED
  BY <1>1, <1>2, <1>4, <1>5 DEF CacheInv

\* The job controller has not seen anything yet.
LEMMA InitCache ==
    ASSUME Init PROVE CacheInv
<1>1. PICK sc \in Scenarios :
        /\ opt = sc.opt /\ api = sc.api /\ jcc = InitJCC
        /\ store = [w \in sc.opt.on |-> <<>>]
        /\ note = [w \in sc.opt.on |-> <<>>]
        /\ feed = [w \in sc.opt.on |->
                     LET kind == sc.api[KindOf[w]]
                         names == SetToSeq(DOMAIN kind)
                     IN [i \in DOMAIN names |-> [name |-> names[i], obj |-> kind[names[i]]]]]
  BY DEF Init
<1>2. PodsShaped /\ JobsNamed /\ (opt.on \cap JobInformers # {} => JobInformers \subseteq opt.on)
  BY <1>1, ManagerAssumption DEF PodsShaped, JobsNamed
<1>3. Finite
  BY <1>1, ManagerAssumption, KindsOf DEF Finite
<1>4. ASSUME "jcJob" \in opt.on, NEW w \in JobInformers
      PROVE  /\ FeedOK(w) /\ NoteOK(w)
             /\ \A x : HandledOf(note[w], store[w], x) = Gone
  <2> DEFINE k == KindOf[w]
             now == api[k]
             names == SetToSeq(DOMAIN now)
             s == feed[w]
  <2>1. w \in opt.on /\ k \in {"job", "pod"}
    BY <1>2, <1>4, JobWatches
  <2>2. /\ store[w] = <<>> /\ note[w] = <<>> /\ DOMAIN <<>> = {}
        /\ s = [i \in DOMAIN names |-> [name |-> names[i], obj |-> now[names[i]]]]
    BY <1>1, <2>1
  <2>3. /\ IsFiniteSet(DOMAIN now)
        /\ k = "pod" => \A x \in DOMAIN now : IsPod(now[x])
    BY <1>2, <1>3, <2>1 DEF Finite, PodsShaped
  <2> HIDE DEF s, now
  <2>4. /\ DOMAIN s = DOMAIN names /\ s = [i \in DOMAIN s |-> s[i]]
        /\ \A i \in DOMAIN s : s[i].name = names[i] /\ s[i].obj = now[names[i]]
    BY <2>2
  <2>5. Listing(s, now)
    BY <2>3, <2>4, ListedOnce
  <2>6. \A i \in DOMAIN s : s[i].obj = now[s[i].name]
    BY <2>4
  <2>7. FeedLinked(k, s, store[w], now)
    BY <2>2, <2>3, <2>5, <2>6, FirstFeed
  <2>8. NoteLinked(k, note[w], store[w])
    BY <2>2, NoCalls
  <2>9. ASSUME NEW x PROVE HandledOf(note[w], store[w], x) = Gone
    BY <2>2, NoCalls DEF Lookup
  <2> QED
    BY <2>7, <2>8, <2>9 DEF FeedOK, NoteOK, s, now
<1>5. ASSUME "jcJob" \in opt.on PROVE Good(jcc) /\ Shown
  <2>1. \A j : HandledJob(j) = Gone /\ HandledPod(j) = Gone
    BY <1>4, <1>5, JobWatches DEF HandledJob, HandledPod
  <2>2. Good(jcc) /\ \A j : JobIn(jcc, j) = Gone /\ PodsIn(jcc, j) = {}
    BY <1>1, EmptyCache
  <2> QED
    BY <2>1, <2>2 DEF Shown, Shows, LivePod
<1> QED
  BY <1>2, <1>3, <1>4, <1>5 DEF CacheInv

\* The other controllers take no call of the job controller's handlers.
LEMMA OthersCalls ==
    ASSUME Notes,
           \/ QueueHandlers \/ QueueCommands \/ QueueWorks \/ QueueBack
           \/ GroupHandlers \/ GroupWorks \/ GarbageHandlers \/ GarbageWorks
    PROVE  /\ UNCHANGED <<store, opt, jcc>>
           /\ \A w \in JobInformers : w \in opt.on => note'[w] = note[w]
<1> DEFINE Mine == {"qcQueue", "qcGroup", "qcCommand", "pgPod", "pgSet", "gcJob"}
<1>1. UNCHANGED jcc
  BY DEF QueueHandlers, QueueCommands, QueueWorks, QueueBack, GroupHandlers, GroupWorks,
         GarbageHandlers, GarbageWorks
<1>2. Works \/ \E v \in Mine : Called(v)
  <2>1. CASE QueueHandlers \/ GroupHandlers \/ GarbageHandlers
    BY <2>1 DEF QueueHandlers, OnQueue, OnGroup, OnCommand, GroupHandlers, PgOnPod, addReplicaSet,
                GarbageHandlers, GcOnJob
  <2>2. CASE QueueCommands \/ QueueBack
    BY <2>2 DEF QueueCommands, QueueBack, handleCommand, CommandEnqueue, CommandLater, QueueLater
  <2>3. CASE QueueWorks
    BY <2>3 DEF QueueWorks, QueueWorker, processNextWorkItem, QueueUpdate, QueueGet,
                QueueUpdateStatus
  <2>4. CASE GroupWorks
    BY <2>4 DEF GroupWorks, processNextReq, PgLater, createNormalPodPGIfNotExist,
                updatePodAnnotations
  <2>5. CASE GarbageWorks
    BY <2>5 DEF GarbageWorks, processJob, GcGet, GcDelete, GcLater
  <2> QED
    BY <2>1, <2>2, <2>3, <2>4, <2>5
<1>3. \A v \in Mine : v \notin JobInformers
  BY DEF JobInformers
<1>4. CASE Works
  BY <1>1, <1>4 DEF Works
<1>5. ASSUME NEW v \in Mine, Called(v)
      PROVE  /\ UNCHANGED <<store, opt>>
             /\ \A w \in JobInformers : w \in opt.on => note'[w] = note[w]
  BY <1>3, <1>5 DEF Called, Notes
<1> QED
  BY <1>1, <1>2, <1>4, <1>5

\* Every step.
LEMMA NextCache ==
    ASSUME ManagerInv, ManagerInv', CacheInv, Next
    PROVE  CacheInv'
<1>1. SweptStays /\ Notes /\ PodsShaped /\ JobsNamed
  BY SweptKept DEF ManagerInv, QueueOK, CacheInv
<1>2. CASE Others \/ Kubernetes
  <2>1. Careful
    BY <1>1, <1>2, OthersCareful
  <2>2. UNCHANGED <<store, note, opt, jcc>>
    <3>1. Shared /\ Commands /\ AdmittedJobsRun /\ clock \in Int
      BY DEF ManagerInv, Judgement
    <3> QED
      BY <3>1, <1>2, OthersSteps DEF Outside
  <2> QED
    BY <1>1, <2>1, <2>2, WrittenElsewhere
<1>3. CASE \/ QueueHandlers \/ QueueCommands \/ QueueWorks \/ QueueBack
           \/ GroupHandlers \/ GroupWorks \/ GarbageHandlers \/ GarbageWorks
  <2>1. Careful
    BY <1>1, <1>3, ControllersCareful
  <2>2. /\ UNCHANGED <<store, opt, jcc>>
        /\ \A w \in JobInformers : w \in opt.on => note'[w] = note[w]
    BY <1>1, <1>3, OthersCalls
  <2> QED
    BY <1>1, <2>1, <2>2, WrittenElsewhere
<1>4. CASE Time
  <2>1. Careful /\ UNCHANGED <<store, note, opt, jcc>>
    BY <1>4 DEF Time, Tick, Careful, Unwritten
  <2> QED
    BY <1>1, <2>1, WrittenElsewhere
<1>5. CASE Restart
  BY <1>5, RestartKeeps
<1>6. CASE Informers
  BY <1>1, <1>6, ReceiveKeeps DEF Informers
<1>7. CASE CacheHandlers
  BY <1>7, JobHandlerKeeps, PodHandlerKeeps DEF CacheHandlers
<1>8. CASE CacheWorks
  BY <1>1, <1>8, CleanupKeeps DEF CacheWorks
<1> QED
  BY <1>2, <1>3, <1>4, <1>5, <1>6, <1>7, <1>8 DEF Next

\* Nothing happens.
LEMMA StutterCache ==
    ASSUME ManagerInv, ManagerInv', CacheInv, UNCHANGED vars
    PROVE  CacheInv'
<1>1. UNCHANGED <<api, vers, feed, store, note, opt, blind, jcc>>
  BY DEF vars, apiVars
<1>2. Careful /\ SweptStays
  BY <1>1 DEF Careful, Unwritten, SweptStays
<1> QED
  BY <1>1, <1>2, WrittenElsewhere

\* Along every behaviour.
LEMMA CacheInvariant == Spec => []CacheInv
<1>1. Init => CacheInv
  BY InitCache
<1>2. ManagerInv /\ ManagerInv' /\ CacheInv /\ [Next]_vars => CacheInv'
  BY NextCache, StutterCache
<1> QED
  BY <1>1, <1>2, Invariant, PTL DEF Spec

\* When everything has been received and handled the cache is right.
LEMMA QuietCache ==
    ASSUME ManagerInv, CacheInv PROVE JobsCached
<1>1. SUFFICES ASSUME Quiet, "jcJob" \in opt.on, NEW j \in DOMAIN api["job"],
                      <<"swept", j>> \notin blind
               PROVE  Cached(j)
  BY DEF JobsCached
<1>2. Shared /\ DOMAIN feed = opt.on
  BY DEF ManagerInv, Shared, Feeds
<1>3. /\ \A w \in JobInformers : w \in opt.on /\ FeedOK(w) /\ NoteOK(w)
      /\ Good(jcc) /\ Shown
  BY <1>1, Running
<1>4. ASSUME NEW w \in JobInformers
      PROVE  \A x : HandledOf(note[w], store[w], x) = Lookup(api[KindOf[w]], x)
  <2>1. feed[w] = <<>> /\ note[w] = <<>>
    BY <1>1, <1>2, <1>3 DEF Quiet
  <2>2. ASSUME NEW x PROVE Lookup(store[w], x) = Lookup(api[KindOf[w]], x)
    <3>1. FeedLinked(KindOf[w], <<>>, store[w], api[KindOf[w]])
      BY <1>3, <2>1 DEF FeedOK
    <3>2. Silent(<<>>, x)
      BY DEF Silent
    <3> QED
      BY <3>1, <3>2 DEF FeedLinked, Lookup
  <2>3. \A x : HandledOf(<<>>, store[w], x) = Lookup(store[w], x)
    BY NoCalls
  <2> QED
    BY <2>1, <2>2, <2>3
<1>5. /\ \A x : HandledJob(x) = Lookup(api["job"], x)
      /\ \A x : HandledPod(x) = Lookup(api["pod"], x)
  BY <1>4, JobWatches DEF HandledJob, HandledPod
<1>6. j # "" /\ api["job"][j] # Gone
  BY <1>1, <1>2, Stored, KindsOf DEF CacheInv, JobsNamed
<1>7. Shows(jcc, j)
  BY <1>1, <1>3, <1>6 DEF Shown
<1>8. JobIn(jcc, j) = api["job"][j]
  BY <1>1, <1>5, <1>7 DEF Shows, Lookup
<1>9. j \in DOMAIN jcc.jobs /\ Entry(jcc, j).job = api["job"][j]
  BY <1>6, <1>8 DEF JobIn, NoJob
<1>10. ASSUME NEW p
       PROVE  p \in Entry(jcc, j).pods <=>
                /\ p \in DOMAIN api["pod"]
                /\ api["pod"][p].job = j /\ ~api["pod"][p].deleting
  <2>1. p \in Entry(jcc, j).pods <=> LivePod(Lookup(api["pod"], p), j)
    BY <1>5, <1>7, <1>9 DEF Shows, PodsIn
  <2>2. p \in DOMAIN api["pod"] => api["pod"][p] # Gone
    BY <1>2, Stored, KindsOf
  <2> QED
    BY <2>1, <2>2 DEF LivePod, Lookup
<1>11. Entry(jcc, j).pods = {p \in DOMAIN api["pod"] :
                                api["pod"][p].job = j /\ ~api["pod"][p].deleting}
  BY <1>10
<1> QED
  BY <1>9, <1>11 DEF Cached

\* When every event has been handled the job controller finds each Job, in its
\* last version, with exactly its pods (jobCache.Get), whatever was deleted,
\* made again or restarted meanwhile; unless processCleanupJob swept the entry
\* away for an earlier one of that name.
THEOREM JobsFound == Spec => []JobsCached
<1>1. ManagerInv /\ CacheInv => JobsCached
  BY QuietCache
<1> QED
  BY <1>1, Invariant, CacheInvariant, PTL

=============================================================================
