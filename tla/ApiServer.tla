------------------------------ MODULE ApiServer ------------------------------
(***************************************************************************)
(* What the controllers of vc-controller-manager share: the objects in the *)
(* API server, and for every informer the changes it has not received yet  *)
(* (feed), its store, which the listers read (store), and the calls of its *)
(* event handlers that are still due (note).  The store changes before the *)
(* handler is called.                                                      *)
(***************************************************************************)
EXTENDS Naturals, Integers, Sequences, FiniteSets, Functions, SequencesExt, TLC

CONSTANTS
    Behind,     \* bound: changes an informer may not have received
    Lag,        \* bound: handler calls an informer may be behind
    MaxClock    \* bound on the time

VARIABLES
    api,    \* kind -> name -> object
    vers,   \* kind -> name -> the last version any object of this name had
    feed, store, note,
    clock,
    left,   \* how often each disturbance may still happen (bounds)
    opt,    \* how this instance is set up; never changes
    blind   \* what the controllers are known to have lost sight of (history)

apiVars == <<api, vers, feed, store, note, clock, left, opt, blind>>

Kinds == {"queue", "group", "command", "pod", "rs", "job"}

KindOf == [qcQueue |-> "queue", qcGroup |-> "group", qcCommand |-> "command",
           pgPod |-> "pod", pgGroup |-> "group", pgSet |-> "rs",
           gcJob |-> "job", jcJob |-> "job", jcPod |-> "pod"]

Watches == DOMAIN KindOf

\* There is no such object.
Gone == [gone |-> TRUE]

Lookup(f, x) == IF x \in DOMAIN f THEN f[x] ELSE Gone
Without(f, x) == Restrict(f, DOMAIN f \ {x})
Put(f, x, v) == [y \in DOMAIN f \cup {x} |-> IF y = x THEN v ELSE f[y]]
Placed(f, x, obj) == IF obj = Gone THEN Without(f, x) ELSE Put(f, x, obj)

\* Nobody compares the versions of PodGroups: they are all 1.
NextVersion(kind, name) ==
    IF kind = "group" THEN 1
    ELSE 1 + (IF name \in DOMAIN vers[kind] THEN vers[kind][name] ELSE 0)

\* A write that the API server accepts: the object gets a new version and
\* every informer of its kind hears of it.  A new object's uid is its first
\* version.
Write(kind, name, obj) ==
    LET v == NextVersion(kind, name)
        new == IF obj = Gone THEN Gone
               ELSE [obj EXCEPT !.rv = v, !.uid = IF name \in DOMAIN api[kind] THEN @ ELSE v]
    IN /\ \A w \in DOMAIN feed : KindOf[w] = kind => Len(feed[w]) < Behind
       /\ api' = [api EXCEPT ![kind] = Placed(@, name, new)]
       /\ vers' = [vers EXCEPT ![kind] = Put(@, name, v)]
       /\ feed' = [w \in DOMAIN feed |->
                     IF KindOf[w] = kind THEN Append(feed[w], [name |-> name, obj |-> new])
                     ELSE feed[w]]

Unwritten == UNCHANGED <<api, vers, feed>>

\* An update is refused when it was made from an older version.
Current(kind, name, copy) ==
    name \in DOMAIN api[kind] /\ api[kind][name].rv = copy.rv

Disturb(d) == left[d] > 0 /\ left' = [left EXCEPT ![d] = @ - 1]

\* A call fails and changes nothing, or is executed.
CallFails == Disturb("err")
CallWorks == UNCHANGED left

Handled == Watches \ {"pgGroup"}

Deliver(w) ==
    /\ feed[w] # <<>> /\ Len(note[w]) < Lag
    /\ LET d == Head(feed[w])
       IN /\ store' = [store EXCEPT ![w] = Placed(@, d.name, d.obj)]
          /\ note' = [note EXCEPT ![w] =
                        IF w \in Handled
                        THEN Append(@, [name |-> d.name, old |-> Lookup(store[w], d.name),
                                        new |-> d.obj])
                        ELSE @]
    /\ feed' = [feed EXCEPT ![w] = Tail(@)]
    /\ UNCHANGED <<api, vers, clock, left, opt, blind>>

\* The call of w's handler that is next, if there is one.
Due(w) == IF w \in DOMAIN note /\ note[w] # <<>> THEN {Head(note[w])} ELSE {}

Called(w) == /\ note' = [note EXCEPT ![w] = Tail(@)]
             /\ UNCHANGED <<store, clock, opt>>

\* A worker reads and may write; stores and handler calls are as they were.
Works == UNCHANGED <<store, note, clock, opt>>

\* The controller manager starts again: its informers list what there is.
Listed ==
    /\ store' = [w \in DOMAIN store |-> api[KindOf[w]]]
    /\ feed' = [w \in DOMAIN feed |-> <<>>]
    /\ note' = [w \in DOMAIN note |->
                  IF w \notin Handled THEN <<>>
                  ELSE [i \in DOMAIN SetToSeq(DOMAIN api[KindOf[w]]) |->
                          LET x == SetToSeq(DOMAIN api[KindOf[w]])[i]
                          IN [name |-> x, old |-> Gone, new |-> api[KindOf[w]][x]]]]

\* Only the garbage collector looks at the time.
Tick == /\ "gcJob" \in opt.on /\ clock < MaxClock /\ clock' = clock + 1
        /\ UNCHANGED <<api, vers, feed, store, note, left, opt, blind>>

\* Every change has been received and handled.
Quiet == \A w \in DOMAIN feed : feed[w] = <<>> /\ note[w] = <<>>

=============================================================================
