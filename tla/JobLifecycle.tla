---------------------------- MODULE JobLifecycle ----------------------------
(***************************************************************************)
(* What the verify-service promises a client that polls a job: the job     *)
(* starts running, may be asked to stop, ends once, and then never changes *)
(* its status again.                                                       *)
(***************************************************************************)
EXTENDS Naturals, Sequences

VARIABLE view   \* the status of every job, oldest first, as GET /jobs shows it

Ended == {"succeeded", "failed", "stopped"}

Init == view = << >>

Accept == view' = Append(view, "running")

RequestStop(j) ==
    /\ view[j] = "running"
    /\ view' = [view EXCEPT ![j] = "stopping"]

End(j, s) ==
    /\ view[j] \in {"running", "stopping"}
    /\ view' = [view EXCEPT ![j] = s]

Next ==
    \/ Accept
    \/ \E j \in DOMAIN view : RequestStop(j)
    \/ \E j \in DOMAIN view : \E s \in Ended : End(j, s)

Spec == Init /\ [][Next]_view
============================================================================
