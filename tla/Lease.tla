------------------------------- MODULE Lease -------------------------------
(***************************************************************************)
(* What the garbage collector promises, stated without its channels, its   *)
(* select! or its API calls: a lease on one pod.  The lease is idle until  *)
(* the pod runs, then active with a deadline; a renewal moves the deadline *)
(* to a fresh one and grants exactly that deadline to the renewer; the     *)
(* lease ends either by expiry, which takes the pod down with it, or by    *)
(* release, which leaves the pod alone and which an active lease on a      *)
(* live pod allows only after its holder revoked it.  Anyone may delete   *)
(* the pod at any time.  An active lease does not last forever.            *)
(***************************************************************************)
EXTENDS Naturals

VARIABLES
    lease,     \* "idle", "active", "ended"
    deadline,  \* number of the deadline in force (0: none yet)
    granted,   \* the deadline most recently granted to a renewer
    alive,     \* the pod exists
    revoked    \* the holder has asked for the lease to end

leaseVars == <<lease, deadline, granted, alive, revoked>>

Init ==
    /\ lease = "idle"
    /\ deadline = 0
    /\ granted = 0
    /\ alive = TRUE
    /\ revoked = FALSE

Activate ==
    /\ lease = "idle"
    /\ lease' = "active"
    /\ deadline' = deadline + 1
    /\ UNCHANGED <<granted, alive, revoked>>

Renew ==
    /\ lease = "active"
    /\ deadline' = deadline + 1
    /\ granted' = deadline'
    /\ UNCHANGED <<lease, alive, revoked>>

Expire ==
    /\ lease = "active"
    /\ lease' = "ended"
    /\ alive' = FALSE
    /\ UNCHANGED <<deadline, granted, revoked>>

Revoke ==
    /\ ~revoked
    /\ revoked' = TRUE
    /\ UNCHANGED <<lease, deadline, granted, alive>>

Release ==
    /\ lease \in {"idle", "active"}
    /\ lease = "active" => revoked \/ ~alive
    /\ lease' = "ended"
    /\ UNCHANGED <<deadline, granted, alive, revoked>>

PodDeleted ==
    /\ alive
    /\ alive' = FALSE
    /\ UNCHANGED <<lease, deadline, granted, revoked>>

Next == Activate \/ Renew \/ Expire \/ Revoke \/ Release \/ PodDeleted

Spec == Init /\ [][Next]_leaseVars /\ WF_leaseVars(Expire)

=============================================================================
