----------------------------- MODULE BuildLease -----------------------------
(***************************************************************************)
(* The lease on a build's resource manifest (orchestrator/build_resources  *)
(* .py: build_lease, ResourceTracker.guard; repository.py: claim, renew    *)
(* and release).  Every operation that works on a build - queueing, start, *)
(* poll, recheck, cleanup - runs inside `with build_lease(...)`.           *)
(*                                                                         *)
(* A session stands for one `with` block and for the uuid4 it uses as the  *)
(* owner: a session runs one block at a time, so two live blocks never     *)
(* share a name.  lease_expires_at is abstracted to whether it lies in the *)
(* future.  A daemon thread renews the lease every 40 of its 120 seconds   *)
(* and silently stops at the first refused or failed renewal.              *)
(***************************************************************************)

CONSTANTS
    Session,        \* the owners a lease can have
    NoSession,      \* lease_owner = None
    LeaseMayLapse   \* may a lease run out while its block still runs?

ASSUME SessionAssumption == NoSession \notin Session
ASSUME LapseAssumption == LeaseMayLapse \in BOOLEAN

VARIABLES
    lease,      \* manifest.lease_owner and "lease_expires_at > now"
    holding,    \* sessions inside their `with build_lease` block
    renewing    \* sessions whose renewal thread is running

leaseVars == <<lease, holding, renewing>>

Free == [owner |-> NoSession, live |-> FALSE]

LeaseTypeOK ==
    /\ lease \in [owner : Session \cup {NoSession}, live : BOOLEAN]
    /\ holding \subseteq Session
    /\ renewing \subseteq holding

LeaseInit ==
    /\ lease = Free
    /\ holding = {}
    /\ renewing = {}

(***************************************************************************)
(* The conditions the repository evaluates.                                *)
(***************************************************************************)

\* mutation: the claim has no filter
AlwaysClaimable == TRUE

\* _lease_expired(lease_expires_at, now), or no owner at all
Claimable == lease.owner = NoSession \/ ~lease.live

\* ResourceTracker.guard does not raise; also the filter of every write whose
\* expected values name the lease_owner, and of put_build_resource
guard(s) == lease.owner = s /\ lease.live

\* another process sees a running operation: lease_owner set and unexpired
LeaseBusy == lease.owner # NoSession /\ lease.live

-----------------------------------------------------------------------------
(***************************************************************************)
(* The steps.  Each is one document update of the manifest.                *)
(***************************************************************************)

claim_build_lease(s) ==
    /\ s \notin holding
    /\ Claimable
    /\ lease' = [owner |-> s, live |-> TRUE]
    /\ holding' = holding \cup {s}
    /\ renewing' = renewing \cup {s}

\* mutation: the renewal is filtered by the owner only
RenewRevives(s) ==
    /\ s \in renewing
    /\ renewing' = IF lease.owner = s THEN renewing ELSE renewing \ {s}
    /\ lease' = IF lease.owner = s THEN [lease EXCEPT !.live = TRUE] ELSE lease
    /\ UNCHANGED holding

\* update_build_resources({lease_expires_at}, {lease_owner: s}): extends an
\* unexpired lease of s, and otherwise ends the thread
renew_build_lease(s) ==
    /\ s \in renewing
    /\ renewing' = IF guard(s) THEN renewing ELSE renewing \ {s}
    /\ lease' = IF guard(s) THEN [lease EXCEPT !.live = TRUE] ELSE lease
    /\ UNCHANGED holding

\* `except Exception: return` in the thread
RenewalStops(s) ==
    /\ LeaseMayLapse
    /\ s \in renewing
    /\ renewing' = renewing \ {s}
    /\ UNCHANGED <<lease, holding>>

\* 120 seconds pass since the last renewal: the thread is gone, or the whole
\* process stalled and the thread will be late
Expire ==
    /\ lease.live
    /\ lease.owner \in renewing => LeaseMayLapse
    /\ lease' = [lease EXCEPT !.live = FALSE]
    /\ UNCHANGED <<holding, renewing>>

\* mutation: the renewal thread is not stopped
ReleaseLeaksThread(s) ==
    /\ s \in holding
    /\ lease' = IF lease.owner = s THEN Free ELSE lease
    /\ holding' = holding \ {s}
    /\ UNCHANGED renewing

\* leaving the block: the thread is stopped, the lease cleared if still owned
release_build_lease(s) ==
    /\ s \in holding
    /\ lease' = IF lease.owner = s THEN Free ELSE lease
    /\ holding' = holding \ {s}
    /\ renewing' = renewing \ {s}

\* the process dies inside the block; its lease stays in the database
HolderDies(s) ==
    /\ s \in holding
    /\ holding' = holding \ {s}
    /\ renewing' = renewing \ {s}
    /\ UNCHANGED lease

LeaseNext ==
    \/ Expire
    \/ \E s \in Session :
          \/ claim_build_lease(s)
          \/ renew_build_lease(s)
          \/ RenewalStops(s)
          \/ release_build_lease(s)
          \/ HolderDies(s)

LeaseSpec == LeaseInit /\ [][LeaseNext]_leaseVars

-----------------------------------------------------------------------------
(***************************************************************************)
(* Properties                                                              *)
(***************************************************************************)

\* If no lease runs out under a live holder, operations on one build exclude
\* each other across claims, expiries of dead holders and takeovers.
Exclusive ==
    ~LeaseMayLapse => \A s, t \in holding : s = t

\* A block whose guard once failed never passes it again: an expired lease
\* cannot be revived by a late renewal, nor come back after another session
\* took it over and released it (what makes "guard failed, so return" sound).
LostLeaseStaysLost ==
    [][\A s \in holding \cap holding' : ~guard(s) => ~guard(s)']_leaseVars

\* A lease whose holder died does not block its build for ever
DeadHolderIsFreed ==
    (lease.owner \notin holding) ~> Claimable

=============================================================================
