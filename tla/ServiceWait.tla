----------------------------- MODULE ServiceWait -----------------------------
(***************************************************************************)
(* The wait for a service (ServiceReadiness) under the names by which the  *)
(* compositions refer to it, and what it promises to a deployment.         *)
(***************************************************************************)
CONSTANTS Replicas, PublishedPorts, WaitTimeout, Interval, MayUpdate, MaxFailures, MaxDelays

VARIABLES serviceTasks, restarts, open, updated, waitPc, target, since, wake, seen, readAt, clock, failures, delays

Ready == INSTANCE ServiceReadiness WITH
    Timeout <- WaitTimeout, Updates <- MayUpdate, tasks <- serviceTasks, pc <- waitPc

waitVars == <<serviceTasks, restarts, open, updated, waitPc, target, since, wake, seen, readAt, clock, failures, delays>>

\* The count of tasks stands for the slots: what was seen before a service
\* counted as up has a task that runs, and is to run, in every slot.
EverySlotRuns == Ready!EverySlotRuns

\* One task that fails is forgiven: only a second failure ends a wait before its
\* deadline.  A wait lasts no longer than its timeout and what the calls themselves
\* took, and looks a last time at the deadline (_wait_for_service_ready).
WaitIsExact == Ready!OneFailureIsForgiven /\ Ready!EndsInTime /\ Ready!LastLookAtDeadline
=============================================================================
