--------------------------- MODULE QueueController ---------------------------
(***************************************************************************)
(* The queue controller (pkg/controllers/queue): the state of a queue      *)
(* follows the Open and Close commands, its counters the PodGroups in it.  *)
(* One worker handles requests, another one commands.                      *)
(*                                                                         *)
(* A queue's state and counters are in its status, a subresource: an       *)
(* Update of the queue changes nothing of them, and the webhook that       *)
(* validates it is shown the status there already is.                      *)
(***************************************************************************)
EXTENDS ApiServer, Webhooks

VARIABLE qc  \* podGroups, work queues and the state of the two workers

Counted == {"Pending", "Running", "Unknown", "Inqueue"}
NoneCounted == [p \in Counted |-> 0]

Idle == [step |-> "idle"]

InitQC == [podGroups |-> <<>>, queue |-> <<>>, later |-> <<>>, worker |-> Idle,
           commands |-> <<>>, commandsLater |-> <<>>, commander |-> Idle]

Status(q) == [state |-> q.state, count |-> q.count, allocated |-> q.allocated]

\* A request is a pointer: two of the same kind are both kept.
Request(q, action) == [queue |-> q, action |-> action, requeues |-> 0]
enqueue(c, req) == [c EXCEPT !.queue = Append(@, req)]

(***************************************************************************)
(* What a queue in a given state does with an action: the operation, and   *)
(* the state to write.                                                     *)
(***************************************************************************)
Do(op, state) == [op |-> op, state |-> state]
ClosedIf(empty) == IF empty THEN "Closed" ELSE "Closing"

openState(action, empty) ==
    CASE action = "CloseQueue" -> Do("close", ClosedIf(empty))
      [] OTHER                 -> Do("sync", "Open")

closedState(action, empty) ==
    CASE action = "OpenQueue" -> Do("open", "Open")
      [] OTHER                -> Do("sync", "Closed")

\* Mutant: a closing queue never closes.
MutclosingState(action, empty) ==
    CASE action = "OpenQueue" -> Do("open", "Open")
      [] OTHER                -> Do("sync", "Closing")

closingState(action, empty) ==
    CASE action = "OpenQueue" -> Do("open", "Open")
      [] OTHER                -> Do("sync", ClosedIf(empty))

unknownState(action, empty) ==
    CASE action = "OpenQueue"  -> Do("open", "Open")
      [] action = "CloseQueue" -> Do("close", ClosedIf(empty))
      [] OTHER                 -> Do("sync", "Unknown")

Execute(state, action, empty) ==
    CASE state \in {"", "Open"} -> openState(action, empty)
      [] state = "Closed"       -> closedState(action, empty)
      [] state = "Closing"      -> closingState(action, empty)
      [] state = "Unknown"      -> unknownState(action, empty)

getPodGroups(q) == IF q \in DOMAIN qc.podGroups THEN qc.podGroups[q] ELSE {}

(***************************************************************************)
(* Event handlers.                                                         *)
(***************************************************************************)
addPodGroup(c, name, group) ==
    enqueue([c EXCEPT !.podGroups =
               Put(@, group.queue, {name} \cup (IF group.queue \in DOMAIN @ THEN @[group.queue]
                                                ELSE {}))],
            Request(group.queue, "SyncQueue"))

\* The group is the object itself: this informer misses no deletion.
deletePodGroup(c, name, group) ==
    enqueue([c EXCEPT !.podGroups = IF group.queue \in DOMAIN c.podGroups
                                    THEN [c.podGroups EXCEPT ![group.queue] = @ \ {name}]
                                    ELSE c.podGroups],
            Request(group.queue, "SyncQueue"))

\* Updates of queues are ignored.  A deleted queue's groups are forgotten.
OnQueue ==
    \E n \in Due("qcQueue") :
      /\ Called("qcQueue") /\ CallWorks /\ Unwritten
      /\ qc' = CASE n.old = Gone -> enqueue(qc, Request(n.name, "SyncQueue"))
                 [] n.new = Gone -> [qc EXCEPT !.podGroups = Without(@, n.name)]
                 [] OTHER        -> qc
      /\ blind' = IF n.new = Gone /\ getPodGroups(n.name) # {}
                  THEN blind \cup {<<"forgot", n.name>>} ELSE blind

OnGroup ==
    \E n \in Due("qcGroup") :
      /\ Called("qcGroup") /\ CallWorks /\ Unwritten /\ UNCHANGED blind
      /\ qc' = CASE n.new = Gone -> deletePodGroup(qc, n.name, n.old)
                 [] n.old = Gone \/ (n.new # Gone /\ n.old.phase # n.new.phase) ->
                      addPodGroup(qc, n.name, n.new)
                 [] OTHER -> qc

\* Only new commands, and only those that target a queue (IsQueueReference).
OnCommand ==
    \E n \in Due("qcCommand") :
      /\ Called("qcCommand") /\ CallWorks /\ Unwritten /\ UNCHANGED blind
      /\ qc' = IF n.old = Gone /\ n.new.kind = "Queue"
               THEN [qc EXCEPT !.commands = Append(@, [name |-> n.name, obj |-> n.new,
                                                       requeues |-> 0])]
               ELSE qc

(***************************************************************************)
(* The command worker deletes the command and then queues its action.  The *)
(* answer to the deletion may be lost: the command is then not found when  *)
(* it is tried again, and its action is never queued.                      *)
(***************************************************************************)
MayRequeue(n) == opt.maxRequeueNum = -1 \/ n < opt.maxRequeueNum

\* The requeues of an item count only where there is a limit.
Again(item) == IF opt.maxRequeueNum = -1 THEN item ELSE [item EXCEPT !.requeues = @ + 1]

handleCommand ==
    /\ qc.commander = Idle /\ qc.commands # <<>>
    /\ Works /\ UNCHANGED blind
    /\ LET cmd == Head(qc.commands)
           taken == [qc EXCEPT !.commands = Tail(@)]
       IN \/ /\ CallFails
             /\ Unwritten \/ (cmd.name \in DOMAIN api["command"] /\ Write("command", cmd.name, Gone))
             /\ qc' = IF MayRequeue(cmd.requeues)
                      THEN [taken EXCEPT !.commandsLater = Append(@, Again(cmd))]
                      ELSE taken
          \/ /\ CallWorks /\ cmd.name \notin DOMAIN api["command"]
             /\ Unwritten /\ qc' = taken
          \/ /\ CallWorks /\ cmd.name \in DOMAIN api["command"]
             /\ Write("command", cmd.name, Gone)
             /\ qc' = [taken EXCEPT !.commander = [step |-> "enqueue", cmd |-> cmd.obj]]

CommandEnqueue ==
    /\ qc.commander # Idle
    /\ Works /\ CallWorks /\ Unwritten /\ UNCHANGED blind
    /\ qc' = enqueue([qc EXCEPT !.commander = Idle],
                     Request(qc.commander.cmd.target, qc.commander.cmd.action))

\* AddRateLimited: an item comes back after a while, whichever is first; the
\* one that has waited longest comes back in the end.
Back(i) == qc' = [qc EXCEPT !.queue = Append(@, qc.later[i]), !.later = RemoveAt(@, i)]

QueueLater ==
    /\ Works /\ CallWorks /\ Unwritten /\ UNCHANGED blind
    /\ \E i \in DOMAIN qc.later : Back(i)

QueueLaterOldest ==
    /\ Works /\ CallWorks /\ Unwritten /\ UNCHANGED blind
    /\ qc.later # <<>> /\ Back(1)

CommandLater ==
    /\ qc.commandsLater # <<>>
    /\ Works /\ CallWorks /\ Unwritten /\ UNCHANGED blind
    /\ qc' = [qc EXCEPT !.commands = Append(@, Head(qc.commandsLater)),
                        !.commandsLater = Tail(@)]

(***************************************************************************)
(* The request worker.                                                     *)
(***************************************************************************)

\* The request that is handled is the head of the queue until it is done.
Finished == [qc EXCEPT !.worker = Idle, !.queue = Tail(@)]

\* handleQueueErr.
Failed(req) ==
    IF MayRequeue(req.requeues)
    THEN /\ qc' = [Finished EXCEPT !.later = Append(@, Again(req))]
         /\ UNCHANGED blind
    ELSE /\ qc' = Finished
         /\ blind' = blind \cup {<<"dropped", req.queue>>}

Succeeded(req) ==
    /\ qc' = Finished
    /\ blind' = IF qc.worker.op = "sync"
                THEN blind \ {<<"dropped", req.queue>>, <<"skipped", req.queue>>}
                ELSE blind

\* syncQueue up to its write: the groups of the controller's map are looked
\* up in the lister; nothing is written if the lister's copy of the queue
\* already has the status.
syncQueue(req, copy, state) ==
    LET groups == getPodGroups(req.queue)
        known  == store["qcGroup"]
        status == [state |-> state, allocated |-> copy.allocated,
                   count |-> [p \in Counted |->
                                Cardinality({g \in groups : known[g].phase = p})]]
    IN IF ~(groups \subseteq DOMAIN known) THEN Failed(req)
       ELSE IF status = Status(copy)
       THEN /\ qc' = Finished
            /\ blind' = IF Current("queue", req.queue, copy)
                        THEN blind \ {<<"dropped", req.queue>>, <<"skipped", req.queue>>}
                        ELSE blind \cup {<<"skipped", req.queue>>}
       ELSE /\ qc' = [qc EXCEPT !.worker = [step |-> "status", op |-> "sync", req |-> req,
                                            copy |-> copy, status |-> status]]
            /\ UNCHANGED blind

handleQueue(req) ==
    LET copy == Lookup(store["qcQueue"], req.queue)
    IN IF copy = Gone
       THEN qc' = Finished /\ UNCHANGED blind
       ELSE LET todo == Execute(copy.state, req.action, getPodGroups(req.queue) = {})
            IN IF todo.op = "sync" THEN syncQueue(req, copy, todo.state)
               ELSE /\ qc' = [qc EXCEPT !.worker = [step |-> "update", op |-> todo.op,
                                                    req |-> req, copy |-> copy]]
                    /\ UNCHANGED blind

processNextWorkItem ==
    /\ qc.worker = Idle /\ qc.queue # <<>>
    /\ Works /\ CallWorks /\ Unwritten
    /\ handleQueue(Head(qc.queue))

\* openQueue and closeQueue: an Update, which only the version and the webhook
\* can refuse, then a look at the queue as it is, then its status.
QueueUpdate ==
    /\ qc.worker.step = "update"
    /\ Works /\ Unwritten
    /\ LET w == qc.worker
           stored == Lookup(api["queue"], w.req.queue)
       IN \/ CallFails /\ Failed(w.req)
          \/ /\ CallWorks
             /\ IF /\ Current("queue", w.req.queue, w.copy)
                   /\ validateQueue(w.req.queue, stored, api["queue"])
                THEN /\ qc' = [qc EXCEPT !.worker.step = "get"]
                     /\ UNCHANGED blind
                ELSE Failed(w.req)

QueueGet ==
    /\ qc.worker.step = "get"
    /\ Works /\ Unwritten
    /\ LET w == qc.worker
           stored == Lookup(api["queue"], w.req.queue)
           new == Execute(w.copy.state, w.req.action,
                          getPodGroups(w.req.queue) = {}).state
       IN \/ CallFails /\ Failed(w.req)
          \/ /\ CallWorks
             /\ IF stored = Gone THEN Failed(w.req)
                ELSE /\ qc' = [qc EXCEPT !.worker =
                                 [step |-> "status", op |-> w.op, req |-> w.req, copy |-> stored,
                                  status |-> [Status(stored) EXCEPT !.state = new]]]
                     /\ UNCHANGED blind

QueueUpdateStatus ==
    /\ qc.worker.step = "status"
    /\ Works
    /\ LET w == qc.worker
       IN \/ CallFails /\ Unwritten /\ Failed(w.req)
          \/ /\ CallWorks
             /\ IF Current("queue", w.req.queue, w.copy)
                THEN /\ Write("queue", w.req.queue,
                           [w.copy EXCEPT !.state = w.status.state, !.count = w.status.count,
                                          !.allocated = w.status.allocated])
                     /\ Succeeded(w.req)
                ELSE Unwritten /\ Failed(w.req)

QueueWorker == processNextWorkItem \/ QueueUpdate \/ QueueGet \/ QueueUpdateStatus

\* The status says what there is.
StatusRight(q) ==
    LET groups == {g \in DOMAIN api["group"] : api["group"][g].queue = q}
        queue  == api["queue"][q]
    IN /\ queue.count = [p \in Counted |->
                           Cardinality({g \in groups : api["group"][g].phase = p})]
       /\ queue.state = "Closing" => groups # {}
       /\ queue.state # ""

=============================================================================
