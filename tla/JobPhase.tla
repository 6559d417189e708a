------------------------------ MODULE JobPhase ------------------------------
(***************************************************************************)
(* What the status of a Volcano Job promises to those who watch it: the    *)
(* life cycle its phase runs through, the number of restarts it records    *)
(* and the generation ("version") of pods that is current.  Nothing here   *)
(* says how the controller gets from one status to the next; JobController *)
(* implements this specification in spite of caches, retries and crashes.  *)
(***************************************************************************)
EXTENDS Integers

CONSTANT MaxRetry        \* job.Spec.MaxRetry

VARIABLES phase, retry, version

phaseVars == <<phase, retry, version>>

(***************************************************************************)
(* "New" stands for the empty phase of a Job nobody has looked at yet.     *)
(***************************************************************************)
Phases == {"New", "Pending", "Running", "Restarting", "Aborting", "Aborted",
           "Completing", "Completed", "Terminating", "Terminated", "Failed"}

\* The phases NewState hands to finishedState.
Finished == {"Completed", "Terminated", "Failed"}

\* The phases in which the pods of the Job are created and watched.
Live == {"New", "Pending", "Running"}

(***************************************************************************)
(* A synchronisation keeps the generation: it starts the Job, and ends it  *)
(* when enough of its pods have finished.                                  *)
(***************************************************************************)
SyncMoves == {<<"New", "Pending">>, <<"Pending", "Running">>,
              <<"Running", "Completed">>, <<"Running", "Failed">>}

(***************************************************************************)
(* A kill starts a new generation.  A restart (and a resume, which is one) *)
(* uses up one retry; the other kills and the end of a kill do not.        *)
(***************************************************************************)
RestartMoves == (Live \cup {"Aborting", "Aborted"}) \X {"Restarting"}

StopMoves == Live \X {"Aborting", "Completing", "Terminating"}

EndMoves == {<<"Restarting", "Pending">>, <<"Restarting", "Failed">>,
             <<"Aborting", "Aborted">>, <<"Completing", "Completed">>,
             <<"Terminating", "Terminated">>}

KillAgain == {<<p, p>> : p \in Phases \ Live}

SyncStep(p, r, v, q, s, u) ==
    /\ <<p, q>> \in SyncMoves
    /\ s = r /\ u = v

KillStep(p, r, v, q, s, u) ==
    /\ u = v + 1
    /\ \/ /\ <<p, q>> \in RestartMoves
          /\ s = r + 1
       \/ /\ <<p, q>> \in StopMoves \cup EndMoves \cup KillAgain
          /\ s = r
          /\ p = "Restarting" => (q = "Failed" <=> r >= MaxRetry)

Init == phase = "New" /\ retry = 0 /\ version = 0

Next == \/ SyncStep(phase, retry, version, phase', retry', version')
        \/ KillStep(phase, retry, version, phase', retry', version')

Spec == Init /\ [][Next]_phaseVars
=============================================================================
