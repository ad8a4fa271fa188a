---------------------------- MODULE JobLifecycle ----------------------------
(***************************************************************************)
(* What the Jobs module promises of a job, whoever runs it: the state      *)
(* machine jobTransitions of backend/jobs/domain/job.go.  Everything else  *)
(* (leases, attempts, workers, the quota) is left to JobQueue, which is    *)
(* shown to implement this specification.                                  *)
(***************************************************************************)
CONSTANTS Jobs

VARIABLES status

Terminal == {"succeeded", "failed", "canceled"}

Init == status = [j \in Jobs |-> "none"]

Move(j, from, to) ==
    /\ status[j] = from
    /\ status' = [status EXCEPT ![j] = to]

Enqueue(j) == Move(j, "none", "queued")

\* A poll claims a batch of queued jobs at once.
Claim(S) ==
    /\ \A j \in S : status[j] = "queued"
    /\ status' = [j \in Jobs |-> IF j \in S THEN "running" ELSE status[j]]

Complete(j) == Move(j, "running", "succeeded")
Fail(j) == Move(j, "running", "failed")
Retry(j) == Move(j, "running", "queued")
Cancel(j) == Move(j, "queued", "canceled") \/ Move(j, "running", "canceled")

Next ==
    \/ \E j \in Jobs : Enqueue(j) \/ Complete(j) \/ Fail(j) \/ Retry(j) \/ Cancel(j)
    \/ \E S \in SUBSET Jobs : Claim(S)

Spec == Init /\ [][Next]_status
=============================================================================
