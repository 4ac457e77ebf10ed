------------------------ MODULE BuildCleanup_proofs ------------------------
(***************************************************************************)
(* Three results that no lapse of a lease can break: a terminal status is  *)
(* only ever left by a recheck, a cleanup removes the resources of         *)
(* terminal builds only, and a failed delivery stays marked for teardown   *)
(* until a cleanup has succeeded.                                          *)
(*                                                                         *)
(* The first rests on the two guarded writers of BuildService, fail and    *)
(* transition, and on every other writer leaving the status alone.         *)
(*                                                                         *)
(* The other two are not inductive.  CleanupInv adds what the writes of    *)
(* the manifest are filtered by: a session that still passes the guard     *)
(* knows the cleanup status of its block (StatusKnown), so that submit     *)
(* cannot reopen a build whose cleanup runs; and what is true of a cleanup *)
(* and of a teardown that lost its lease, or never had one (RunSound,      *)
(* TeardownSound).  A step of s can spoil what another session knows only  *)
(* by moving the cleanup status, and only the guarded s does that: so each *)
(* operation is proved to move the rows in the ways of RowsMove, and one   *)
(* lemma (StepSound) carries the other sessions over all of them.          *)
(***************************************************************************)
EXTENDS BuildDelivery_proofs

(***************************************************************************)
(* Terminal statuses                                                       *)
(***************************************************************************)
Terminal == build.status \in TERMINAL_BUILD_STATUSES
StatusKept == Terminal => build'.status = build.status

\* What one step may do to a terminal status.
Final ==
    Terminal /\ build'.status # build.status =>
        /\ build.status = "succeeded"
        /\ build'.status = "deploying"
        /\ build'.dynamic_run_id > build.dynamic_run_id

\* BuildService.fail leaves terminal builds alone.
LEMMA FailKeepsStatus ==
    ASSUME Terminal
    PROVE  FailedBuild(build) = build
  BY DEF FailedBuild, Terminal

\* The transition table has no way out of a terminal status.
LEMMA TransitionKeepsStatus ==
    ASSUME TypeOK, NEW s \in Session, NEW from, NEW next, NEW target,
           Transition(s, from, target, next)
    PROVE  StatusKept
<1> SUFFICES ASSUME Terminal
             PROVE  build'.status = build.status
  BY DEF StatusKept
<1>1. ALLOWED_BUILD_TRANSITIONS[build.status] = {}
  BY DEF Terminal, TERMINAL_BUILD_STATUSES, ALLOWED_BUILD_TRANSITIONS
<1>2. CanTransition(target) => target = build.status
  BY <1>1 DEF CanTransition
<1>3. build' = IF CanTransition(target)
               THEN [build EXCEPT !.status = target] ELSE build
  BY DEF Transition
<1> QED
  BY <1>2, <1>3 DEF TypeOK, BuildJob

\* queue_build, _start_build and _poll_build.
LEMMA DeliveryKeepsStatus ==
    ASSUME TypeOK, NEW s \in Session, QueueStep(s) \/ StartStep(s) \/ PollStep(s)
    PROVE  StatusKept
<1> USE DEF TypeOK, BuildJob, StatusKept, rowVars
<1>1. CASE QueueStep(s)
  BY <1>1, FailKeepsStatus
     DEF QueueStep, QueueClaim, QueueRefused, TrackWorkspace, Snapshot,
         QueueFail, InputsReady, QueueRelease, Dispatch, DispatchFails, Abort
<1>2. CASE StartStep(s)
  BY <1>2, TransitionKeepsStatus
     DEF StartStep, StartBuild, ToValidating, Validate, ToTriggering,
         TriggerCheck, Gate, MarkPending, TriggerBuild, NotStarted, Triggered,
         StoreQueueUrl, ClearPending, ToBuilding, ScheduleFirst
<1>3. CASE PollStep(s)
  BY <1>3, TransitionKeepsStatus
     DEF PollStep, PollBuild, JenkinsCallFails, GetQueueItem, GetBuild,
         ScheduleNext, Artifact, ToDeploying, TrackService, CreateService,
         SaveServices, ResumeDeployment
<1> QED
  BY <1>1, <1>2, <1>3

\* dynamic_route_check, _fail, cleanup, teardown and the recovery ticks.
LEMMA OtherKeepStatus ==
    ASSUME TypeOK, NEW s \in Session,
           \/ DynamicStep(s) \/ EndStep(s) \/ RequestStep(s)
           \/ RunStep(s) \/ RecoverStep(s)
    PROVE  StatusKept
<1> USE DEF TypeOK, BuildJob, StatusKept, rowVars
<1>1. CASE DynamicStep(s)
  BY <1>1, TransitionKeepsStatus, FailKeepsStatus
     DEF DynamicStep, DynamicRouteCheck, DynamicExecute, DynamicVerdict,
         DynamicFail, DynamicDone, ToSucceeded
<1>2. CASE EndStep(s)
  BY <1>2, FailKeepsStatus
     DEF EndStep, Fail, FailDeploying, FailBuild, Done, After
<1>3. CASE RequestStep(s)
  BY <1>3
     DEF RequestStep, Teardown, TeardownFails, RequestClaim, RequestRefused,
         RequestQueue, RequestRelease, RequestDispatch, RequestDispatchFails,
         Requested, RequestRaises
<1>4. CASE RunStep(s)
  BY <1>4
     DEF RunStep, RunClaim, RunRefused, RunMark, Quiesce, Remove, RemoveFails,
         Verdict, RunRelease, Sync, SyncWrite
<1>5. CASE RecoverStep(s)
  BY <1>5, FailKeepsStatus
     DEF RecoverStep, RecoverInputsFail, RecoverClaim, RecoverRefused,
         RecoverFail, RecoverRelease
<1> QED
  BY <1>1, <1>2, <1>3, <1>4, <1>5

\* Only submit's compare-and-set reopens a build, and only a succeeded one.
LEMMA RecheckFinal ==
    ASSUME TypeOK, NEW s \in Session, RecheckStep(s)
    PROVE  Final
<1>1. build.dynamic_run_id \in Nat
  BY DEF TypeOK, BuildJob
<1>2. CASE Recheck(s)
  <2>1. CASE CanRecheck(s)
    <3>1. /\ build'.status = "deploying"
          /\ build'.dynamic_run_id = build.dynamic_run_id + 1
      <4>1. build' = [build EXCEPT !.status = "deploying",
                                   !.dynamic_status = "queued",
                                   !.dynamic_run_id = build.dynamic_run_id + 1]
        BY <1>2, <2>1 DEF Recheck
      <4> QED
        BY <4>1 DEF TypeOK, BuildJob
    <3>2. Terminal => build.status = "succeeded"
      BY <2>1 DEF CanRecheck, Terminal, TERMINAL_BUILD_STATUSES
    <3>3. build'.dynamic_run_id > build.dynamic_run_id
      BY <1>1, <3>1
    <3> QED
      BY <3>1, <3>2, <3>3 DEF Final
  <2>2. CASE ~CanRecheck(s)
    BY <1>2, <2>2 DEF Recheck, Final
  <2> QED
    BY <2>1, <2>2
<1>3. CASE RecheckClaim(s) \/ RecheckRefused(s) \/ RecheckRelease(s)
              \/ RecheckDispatch(s)
  BY <1>3
     DEF RecheckClaim, RecheckRefused, RecheckRelease, RecheckDispatch, Final,
         rowVars
<1> QED
  BY <1>2, <1>3 DEF RecheckStep

\* Terminal statuses are final, except that a recheck reopens a succeeded
\* build for a new dynamic run: BuildService.fail, transition and submit, in
\* every interleaving of workers, requests, crashes and lease lapses.
THEOREM TerminalFinality == Spec => TerminalIsFinal
<1>1. ASSUME TypeOK, [Next]_vars
      PROVE  Final
  <2>1. ASSUME NEW s \in Session, Step(s)
        PROVE  Final
    <3>1. CASE RecheckStep(s)
      BY <1>1, <3>1, RecheckFinal
    <3>2. CASE ~RecheckStep(s)
      BY <1>1, <2>1, <3>2, DeliveryKeepsStatus, OtherKeepStatus
         DEF Step, StatusKept, Final
    <3> QED
      BY <3>1, <3>2
  <2>2. ASSUME NEW w \in Worker,
               Deliver(w) \/ RecoverBuilds(w) \/ RecoverCleanup(w)
                  \/ RecoverRouteChecks(w)
        PROVE  Final
    BY <2>2 DEF Final, Deliver, DeliverOperation, DeliverRefused,
       DeliverCleanup, RecoverBuilds, RecoverStart, RecoverPoll,
       RecoverInputs, RecoverCleanup, RecoverRouteChecks, RecoverDynamic,
       RecoverTeardown, rowVars
  <2>3. CASE PollAges
    BY <1>1, <2>3 DEF PollAges, Terminal, TERMINAL_BUILD_STATUSES, Final
  <2>4. ASSUME NEW s \in Session,
               \/ CleanupRequested(s) \/ RecheckRequested(s)
               \/ Crash(s) \/ Redeliver(s)
        PROVE  Final
    BY <2>4 DEF CleanupRequested, RecheckRequested, Crash, Redeliver, Final,
       rowVars
  <2>5. CASE JenkinsStep \/ LeaseExpires \/ UNCHANGED vars
    BY <2>5 DEF JenkinsStep, LeaseExpires, Final, rowVars, vars
  <2> QED
    BY <1>1, <2>1, <2>2, <2>3, <2>4, <2>5, ProcessAssumption DEF Next
<1>2. TypeOK /\ [Next]_vars => [Final]_vars
  BY <1>1
<1> QED
  BY <1>2, TypeCorrect, PTL DEF Spec, TerminalIsFinal, Final, Terminal

-----------------------------------------------------------------------------
(***************************************************************************)
(* Where a session stands                                                  *)
(***************************************************************************)
\* where a session is outside every `with build_lease` block
Outside ==
    {"idle", "queue_claim", "dispatch", "after", "recheck_claim",
     "recheck_dispatch", "teardown", "request_claim", "request_dispatch",
     "requested", "request_raises", "run", "sync", "sync_pending",
     "sync_running", "sync_succeeded", "sync_partial_failed",
     "recover_claim"}

InBlock(s) == pc[s] \notin Outside

\* the blocks of request_cleanup, of the runner and of the teardown recovery,
\* and the exception that ends any block
CleaningUp ==
    {"request_queue", "request_release", "request_abort", "run_mark",
     "quiesce", "remove_service", "remove_workspace", "remove_image",
     "verdict", "run_release", "run_raises", "recover_fail",
     "recover_release", "abort"}

\* ... and the other blocks, which a cleanup that was accepted keeps shut
Delivering(s) == InBlock(s) /\ pc[s] \notin CleaningUp

\* request_cleanup, for a request or a teardown; BuildCleanupRunner.run
RequestLabel == {"request_claim", "request_queue", "request_release",
                 "request_abort", "requested", "request_raises"}
RunLabel == {"run", "run_mark", "quiesce", "remove_service",
             "remove_workspace", "remove_image", "verdict", "run_release",
             "run_raises"}

\* sync_teardown between its read and its write
Syncing == {"sync_pending", "sync_running", "sync_succeeded",
            "sync_partial_failed"}

\* The mark of a failed delivery: to be torn down, or torn down already
Marked == build.teardown_required \/ manifest.cleanup_status = "succeeded"

\* A session inside a block is known to the lease.
BlockHeld(s) == InBlock(s) => s \in holding

\* What a session that still passes the guard knows of the cleanup.
StatusKnown(s) ==
    guard(s) =>
        /\ Delivering(s) => manifest.cleanup_status = "not_started"
        /\ At(s, "request_queue") =>
              manifest.cleanup_status \in {"not_started", "partial_failed"}
        /\ At(s, "run_mark") => manifest.cleanup_status # "succeeded"
        /\ At(s, "quiesce") \/ Removing(s) => manifest.cleanup_status = "running"

\* What holds where a cleanup runs, whether or not its lease was lost.
RunSound(s) ==
    /\ At(s, "run_mark") \/ At(s, "quiesce") \/ Removing(s) =>
          manifest.cleanup_status # "not_started"
    /\ Removing(s) => build.status \in TERMINAL_BUILD_STATUSES

\* A teardown under way, or about to write what it read, keeps the mark.
TeardownSound(s) ==
    /\ job[s] = CleanupTask => pc[s] \in RunLabel \cup Syncing \cup {"sync"}
    /\ pc[s] \in RunLabel \cup RequestLabel =>
          job[s] \in {CleanupTask, CleanupRequest} \/ Marked
    /\ pc[s] \in Syncing => Marked
    /\ At(s, "sync_succeeded") => manifest.cleanup_status = "succeeded"

\* What holds of each session, whatever the others do
Sound(s) ==
    BlockHeld(s) /\ StatusKnown(s) /\ RunSound(s) /\ TeardownSound(s)

\* A build that failed, or was ever to be torn down, is marked.
MarkKept ==
    /\ build.dynamic_status = "failed" => Marked
    /\ build.teardown_status # "none" => Marked

CleanupInv == MarkKept /\ \A s \in Session : Sound(s)

-----------------------------------------------------------------------------
(***************************************************************************)
(* What a step of one session may do to the others                         *)
(***************************************************************************)
\* The cleanup status moves only under the guard, or back from QUEUED when the
\* broker refuses the message; it never returns to NOT_STARTED and never leaves
\* SUCCEEDED.  A mark stays, and a terminal build is reopened only before any
\* cleanup.
RowsMove(s) ==
    /\ \/ manifest'.cleanup_status = manifest.cleanup_status
       \/ guard(s)
       \/ /\ manifest.cleanup_status = "queued"
          /\ manifest'.cleanup_status = "partial_failed"
    /\ manifest.cleanup_status # "not_started" =>
          manifest'.cleanup_status # "not_started"
    /\ manifest.cleanup_status = "succeeded" =>
          manifest'.cleanup_status = "succeeded"
    /\ Marked => Marked'
    /\ build.status \in TERMINAL_BUILD_STATUSES =>
          \/ build'.status \in TERMINAL_BUILD_STATUSES
          \/ manifest.cleanup_status = "not_started"

\* The other sessions stay where they are, and are handed no lease.
OthersStay(s) ==
    \A t \in Session \ {s} :
        /\ pc'[t] = pc[t] /\ job'[t] = job[t]
        /\ t \in holding => t \in holding'
        /\ guard(t)' => guard(t)

\* Such a step spoils nothing that another session knows: two sessions never
\* pass the guard together.
LEMMA StepSound ==
    ASSUME CleanupInv, NEW s \in Session, RowsMove(s), OthersStay(s),
           Sound(s)', MarkKept'
    PROVE  CleanupInv'
<1> SUFFICES ASSUME NEW t \in Session \ {s}
             PROVE  Sound(t)'
  BY DEF CleanupInv
<1>1. guard(t) => ~guard(s)
  BY DEF guard
<1>2. Sound(t)
  BY DEF CleanupInv
<1>3. /\ pc'[t] = pc[t] /\ job'[t] = job[t]
      /\ t \in holding => t \in holding'
      /\ guard(t)' => guard(t)
  BY DEF OthersStay
<1>4. BlockHeld(t)'
  BY <1>2, <1>3 DEF Sound, BlockHeld, InBlock
<1>5. StatusKnown(t)'
  BY <1>1, <1>2, <1>3
     DEF Sound, StatusKnown, Delivering, InBlock, Outside, CleaningUp, At,
         Removing, RowsMove
<1>6. RunSound(t)'
  BY <1>2, <1>3 DEF Sound, RunSound, At, Removing, RowsMove
<1>7. TeardownSound(t)'
  BY <1>2, <1>3 DEF Sound, TeardownSound, At, RowsMove
<1> QED
  BY <1>4, <1>5, <1>6, <1>7 DEF Sound

\* A step of s that moves the rows so and leaves s and the mark sound
Preserves(s) == RowsMove(s) /\ OthersStay(s) /\ Sound(s)' /\ MarkKept'

\* What the proofs below expand: the invariant, and the steps all operations
\* are made of.
USE DEF Preserves, RowsMove, OthersStay, Sound, BlockHeld, StatusKnown,
        RunSound, TeardownSound, MarkKept, CleanupInv, Marked, InBlock,
        Delivering, Outside, CleaningUp, RunLabel, RequestLabel, Syncing,
        Removing, At, Goto, guard, EndJob, EndJobSending, claim_build_lease,
        release_build_lease, Free, leaseVars, rowVars, queueVars, TypeOK,
        BuildJob, BuildResources, TERMINAL_BUILD_STATUSES, CleanupTask

\* queue_build works before the start message is sent, on a build that has
\* neither failed nor been cleaned up while its lease is good.
LEMMA QueuePreserves ==
    ASSUME TypeOK, CleanupInv, NEW s \in Session, QueueStep(s)
    PROVE  Preserves(s)
<1>1. CASE QueueClaim(s)
  BY <1>1 DEF QueueClaim
<1>2. CASE QueueRefused(s)
  BY <1>2 DEF QueueRefused, NoJob
<1>3. CASE TrackWorkspace(s)
  BY <1>3 DEF TrackWorkspace, Track
<1>4. CASE Snapshot(s)
  BY <1>4 DEF Snapshot
<1>5. CASE QueueFail(s)
  BY <1>5 DEF QueueFail, FailedBuild
<1>6. CASE InputsReady(s)
  BY <1>6 DEF InputsReady
<1>7. CASE QueueRelease(s)
  BY <1>7 DEF QueueRelease
<1>8. CASE Dispatch(s)
  BY <1>8 DEF Dispatch, NoJob
<1>9. CASE DispatchFails(s)
  BY <1>9 DEF DispatchFails, FailedBuild, NoJob
<1>10. CASE Abort(s)
  BY <1>10 DEF Abort, NoJob
<1> HIDE DEF Preserves, TypeOK, CleanupInv
<1> QED
  BY <1>1, <1>2, <1>3, <1>4, <1>5, <1>6, <1>7, <1>8, <1>9, <1>10
     DEF QueueStep

\* _start_build moves a build that is not terminal.
LEMMA StartPreserves ==
    ASSUME TypeOK, CleanupInv, NEW s \in Session, StartStep(s)
    PROVE  Preserves(s)
<1>1. CASE StartBuild(s)
  BY <1>1 DEF StartBuild, TriggerOrBuild
<1>2. CASE ToValidating(s)
  BY <1>2 DEF ToValidating, Transition, CanTransition,
         ALLOWED_BUILD_TRANSITIONS
<1>3. CASE Validate(s)
  BY <1>3 DEF Validate
<1>4. CASE ToTriggering(s)
  BY <1>4 DEF ToTriggering, Transition, TriggerOrBuild, CanTransition,
         ALLOWED_BUILD_TRANSITIONS
<1>5. CASE TriggerCheck(s)
  BY <1>5 DEF TriggerCheck, Track
<1>6. CASE Gate(s)
  BY <1>6 DEF Gate
<1>7. CASE MarkPending(s)
  BY <1>7 DEF MarkPending
<1>8. CASE TriggerBuild(s)
  BY <1>8 DEF TriggerBuild, TriggerAccepted
<1>9. CASE NotStarted(s)
  BY <1>9 DEF NotStarted
<1>10. CASE Triggered(s)
  BY <1>10 DEF Triggered
<1>11. CASE StoreQueueUrl(s)
  BY <1>11 DEF StoreQueueUrl
<1>12. CASE ClearPending(s)
  BY <1>12 DEF ClearPending
<1>13. CASE ToBuilding(s)
  BY <1>13 DEF ToBuilding, Transition, CanTransition,
         ALLOWED_BUILD_TRANSITIONS
<1>14. CASE ScheduleFirst(s)
  BY <1>14 DEF ScheduleFirst, SchedulePoll
<1> HIDE DEF Preserves, TypeOK, CleanupInv
<1> QED
  BY <1>1, <1>2, <1>3, <1>4, <1>5, <1>6, <1>7, <1>8, <1>9, <1>10, <1>11,
     <1>12, <1>13, <1>14
     DEF StartStep

\* _poll_build and the deployment: the same.
LEMMA PollPreserves ==
    ASSUME TypeOK, CleanupInv, NEW s \in Session, PollStep(s)
    PROVE  Preserves(s)
<1>1. CASE PollBuild(s)
  BY <1>1 DEF PollBuild
<1>2. CASE JenkinsCallFails(s)
  BY <1>2 DEF JenkinsCallFails
<1>3. CASE GetQueueItem(s)
  <2>1. /\ build'.status = build.status
        /\ build'.dynamic_status = build.dynamic_status
        /\ build'.teardown_required = build.teardown_required
        /\ build'.teardown_status = build.teardown_status
    BY ZenonT(60), <1>3 DEF GetQueueItem
  <2>2. pc'[s] \in {"fail", "schedule_next", "get_build"}
    BY <1>3 DEF GetQueueItem
  <2>3. OthersStay(s)
    BY <1>3 DEF GetQueueItem
  <2> QED
    BY <1>3, <2>1, <2>2, <2>3 DEF GetQueueItem
<1>4. CASE GetBuild(s)
  BY <1>4 DEF GetBuild
<1>5. CASE ScheduleNext(s)
  BY <1>5 DEF ScheduleNext, SchedulePoll
<1>6. CASE Artifact(s)
  BY <1>6 DEF Artifact, Track
<1>7. CASE ToDeploying(s)
  BY <1>7 DEF ToDeploying, Transition, CanTransition,
         ALLOWED_BUILD_TRANSITIONS
<1>8. CASE TrackService(s)
  BY <1>8 DEF TrackService, Track
<1>9. CASE CreateService(s)
  BY <1>9 DEF CreateService
<1>10. CASE SaveServices(s)
  BY <1>10 DEF SaveServices
<1>11. CASE ResumeDeployment(s)
  BY <1>11 DEF ResumeDeployment
<1> HIDE DEF Preserves, TypeOK, CleanupInv
<1> QED
  BY <1>1, <1>2, <1>3, <1>4, <1>5, <1>6, <1>7, <1>8, <1>9, <1>10, <1>11
     DEF PollStep

\* A failed route check sets the mark in the write that makes it failed.
LEMMA DynamicPreserves ==
    ASSUME TypeOK, CleanupInv, NEW s \in Session, DynamicStep(s)
    PROVE  Preserves(s)
<1>1. CASE DynamicRouteCheck(s)
  BY <1>1 DEF DynamicRouteCheck
<1>2. CASE DynamicExecute(s)
  BY <1>2 DEF DynamicExecute
<1>3. CASE DynamicVerdict(s)
  <2>1. RowsMove(s) /\ OthersStay(s)
    BY ZenonT(60), <1>3 DEF DynamicVerdict
  <2>2. Sound(s)'
    BY <1>3 DEF DynamicVerdict
  <2>3. MarkKept'
    BY <1>3 DEF DynamicVerdict
  <2> QED
    BY <2>1, <2>2, <2>3
<1>4. CASE DynamicFail(s)
  BY <1>4 DEF DynamicFail, FailedBuild
<1>5. CASE DynamicDone(s)
  BY <1>5 DEF DynamicDone
<1>6. CASE ToSucceeded(s)
  BY <1>6 DEF ToSucceeded, Transition, CanTransition,
         ALLOWED_BUILD_TRANSITIONS
<1> HIDE DEF Preserves, TypeOK, CleanupInv
<1> QED
  BY <1>1, <1>2, <1>3, <1>4, <1>5, <1>6
     DEF DynamicStep

\* ... and so does _fail.
LEMMA EndPreserves ==
    ASSUME TypeOK, CleanupInv, NEW s \in Session, EndStep(s)
    PROVE  Preserves(s)
<1>1. CASE Fail(s)
  BY <1>1 DEF Fail
<1>2. CASE FailDeploying(s)
  BY <1>2 DEF FailDeploying
<1>3. CASE FailBuild(s)
  BY <1>3 DEF FailBuild, FailedBuild
<1>4. CASE Done(s)
  BY <1>4 DEF Done
<1>5. CASE After(s)
  BY <1>5 DEF After, TeardownDue, NoJob
<1> HIDE DEF Preserves, TypeOK, CleanupInv
<1> QED
  BY <1>1, <1>2, <1>3, <1>4, <1>5
     DEF EndStep

\* submit reopens a build only under the lease, before any cleanup.
LEMMA RecheckPreserves ==
    ASSUME TypeOK, CleanupInv, NEW s \in Session, RecheckStep(s)
    PROVE  Preserves(s)
<1>1. CASE RecheckClaim(s)
  BY <1>1 DEF RecheckClaim
<1>2. CASE RecheckRefused(s)
  BY <1>2 DEF RecheckRefused, NoJob
<1>3. CASE Recheck(s)
  <2>1. RowsMove(s) /\ OthersStay(s)
    BY <1>3 DEF Recheck, CanRecheck
  <2>2. Sound(s)'
    BY <1>3 DEF Recheck, CanRecheck
  <2>3. MarkKept'
    BY <1>3 DEF Recheck, CanRecheck
  <2> QED
    BY <2>1, <2>2, <2>3
<1>4. CASE RecheckRelease(s)
  BY <1>4 DEF RecheckRelease
<1>5. CASE RecheckDispatch(s)
  BY <1>5 DEF RecheckDispatch, NoJob
<1> HIDE DEF Preserves, TypeOK, CleanupInv
<1> QED
  BY <1>1, <1>2, <1>3, <1>4, <1>5
     DEF RecheckStep

\* request_cleanup and teardown move the cleanup status from not_started and
\* partial_failed only, and a teardown writes the build only when marked.
LEMMA RequestPreserves ==
    ASSUME TypeOK, CleanupInv, NEW s \in Session, RequestStep(s)
    PROVE  Preserves(s)
<1>1. CASE Teardown(s)
  <2>1. ~build.teardown_required => pc'[s] = "sync"
    BY <1>1 DEF Teardown
  <2>3. build.teardown_required =>
           pc'[s] \in {"requested", "request_claim", "request_raises"}
    <3>1. CASE build.teardown_required /\ Answered
      BY <1>1, <3>1 DEF Teardown
    <3>2. CASE build.teardown_required /\ ~Answered /\ assert_quiescent
      BY <1>1, <3>2 DEF Teardown
    <3>3. CASE build.teardown_required /\ ~Answered /\ ~assert_quiescent
      BY <1>1, <3>3 DEF Teardown
    <3> QED
      BY <3>1, <3>2, <3>3
  <2>2. OthersStay(s) /\ job'[s] = job[s] /\ job[s] # CleanupTask
    BY <1>1 DEF Teardown
  <2> QED
    BY <1>1, <2>1, <2>2, <2>3 DEF Teardown
<1>2. CASE TeardownFails(s)
  BY <1>2 DEF TeardownFails, Answered
<1>3. CASE RequestClaim(s)
  BY <1>3 DEF RequestClaim
<1>4. CASE RequestRefused(s)
  BY <1>4 DEF RequestRefused, Answered
<1>5. CASE RequestQueue(s)
  BY <1>5 DEF RequestQueue
<1>6. CASE RequestRelease(s)
  BY <1>6 DEF RequestRelease, TearingDown, CleanupRequest
<1>7. CASE RequestDispatch(s)
  BY <1>7 DEF RequestDispatch, NoJob
<1>8. CASE RequestDispatchFails(s)
  BY <1>8 DEF RequestDispatchFails, NoJob
<1>9. CASE Requested(s)
  BY <1>9 DEF Requested, TearingDown, CleanupRequest, NoJob
<1>10. CASE RequestRaises(s)
  BY <1>10 DEF RequestRaises, TearingDown, CleanupRequest, NoJob
<1> HIDE DEF Preserves, TypeOK, CleanupInv
<1> QED
  BY <1>1, <1>2, <1>3, <1>4, <1>5, <1>6, <1>7, <1>8, <1>9, <1>10
     DEF RequestStep

\* BuildCleanupRunner.run removes under RUNNING, and sync_teardown takes the
\* mark back only after it read SUCCEEDED.
LEMMA RunPreserves ==
    ASSUME TypeOK, CleanupInv, NEW s \in Session, RunStep(s)
    PROVE  Preserves(s)
<1>1. CASE RunClaim(s)
  BY <1>1 DEF RunClaim
<1>2. CASE RunRefused(s)
  BY <1>2 DEF RunRefused
<1>3. CASE RunMark(s)
  BY <1>3 DEF RunMark
<1>4. CASE Quiesce(s)
  BY <1>4 DEF Quiesce, assert_quiescent
<1>5. CASE \E kind \in Kind : Remove(s, kind) \/ RemoveFails(s, kind)
  BY <1>5 DEF Remove, RemoveFails, RemoveLabel, AfterRemoval, Kind, NoJob
<1>6. CASE Verdict(s)
  BY <1>6 DEF Verdict, Kind
<1>7. CASE RunRelease(s)
  BY <1>7 DEF RunRelease, CleanupRequest
<1>8. CASE Sync(s)
  <2>1. /\ SyncLabel[manifest.cleanup_status] \in Syncing
        /\ SyncLabel[manifest.cleanup_status] = "sync_succeeded" =>
              manifest.cleanup_status = "succeeded"
    BY DEF CleanupStatus, SyncLabel
  <2>2. CASE ~build.teardown_required /\ build.teardown_status = "none"
    BY <1>8, <2>2 DEF Sync, NoJob
  <2>3. CASE build.teardown_required \/ build.teardown_status # "none"
    BY <1>8, <2>1, <2>3 DEF Sync
  <2> QED
    BY <2>2, <2>3
<1>9. CASE SyncWrite(s)
  BY <1>9 DEF SyncWrite, SyncStatus, NoJob
<1> HIDE DEF Preserves, TypeOK, CleanupInv
<1> QED
  BY <1>1, <1>2, <1>3, <1>4, <1>5, <1>6, <1>7, <1>8, <1>9
     DEF RunStep

\* The recovery ticks' leased parts only fail builds.
LEMMA RecoverPreserves ==
    ASSUME TypeOK, CleanupInv, NEW s \in Session, RecoverStep(s)
    PROVE  Preserves(s)
<1>1. CASE RecoverInputsFail(s)
  BY <1>1 DEF RecoverInputsFail, FailedBuild
<1>2. CASE RecoverClaim(s)
  BY <1>2 DEF RecoverClaim
<1>3. CASE RecoverRefused(s)
  BY <1>3 DEF RecoverRefused, NoJob
<1>4. CASE RecoverFail(s)
  BY <1>4 DEF RecoverFail, FailedBuild
<1>5. CASE RecoverRelease(s)
  BY <1>5 DEF RecoverRelease
<1> HIDE DEF Preserves, TypeOK, CleanupInv
<1> QED
  BY <1>1, <1>2, <1>3, <1>4, <1>5
     DEF RecoverStep

\* A worker takes a message or a beat tick up only in a state that lets it.
LEMMA WorkerPreserves ==
    ASSUME TypeOK, CleanupInv, NEW w \in Session,
           Deliver(w) \/ RecoverBuilds(w) \/ RecoverCleanup(w)
              \/ RecoverRouteChecks(w)
    PROVE  Preserves(w)
<1>1. ASSUME NEW m \in tasks, DeliverOperation(w, m)
      PROVE  Preserves(w)
  BY <1>1 DEF DeliverOperation, Operation, Refused
<1>2. ASSUME NEW m \in tasks, DeliverRefused(w, m)
      PROVE  Preserves(w)
  BY <1>2 DEF DeliverRefused, Operation
<1>3. CASE DeliverCleanup(w)
  BY <1>3 DEF DeliverCleanup
<1>4. CASE RecoverStart(w) \/ RecoverPoll(w) \/ RecoverDynamic(w)
              \/ RecoverCleanup(w)
  BY <1>4 DEF RecoverStart, RecoverPoll, RecoverDynamic, RecoverCleanup
<1>5. CASE RecoverInputs(w)
  BY <1>5 DEF RecoverInputs, Tick
<1>6. CASE RecoverTeardown(w)
  BY <1>6 DEF RecoverTeardown, Tick
<1> HIDE DEF Preserves, TypeOK, CleanupInv
<1> QED
  BY <1>1, <1>2, <1>3, <1>4, <1>5, <1>6
     DEF Deliver, RecoverBuilds, RecoverRouteChecks

\* Requests, crashes and redeliveries start or end one session.
LEMMA RequestedPreserves ==
    ASSUME TypeOK, CleanupInv, NEW s \in Session,
           \/ CleanupRequested(s) \/ RecheckRequested(s)
           \/ Crash(s) \/ Redeliver(s)
    PROVE  Preserves(s)
<1>1. CASE CleanupRequested(s)
  BY <1>1 DEF CleanupRequested, CleanupRequest
<1>2. CASE RecheckRequested(s)
  BY <1>2 DEF RecheckRequested, RecheckRequest
<1>3. CASE Crash(s)
  BY <1>3 DEF Crash, HolderDies, NoJob
<1>4. CASE Redeliver(s)
  BY <1>4 DEF Redeliver
<1> HIDE DEF Preserves, TypeOK, CleanupInv
<1> QED
  BY <1>1, <1>2, <1>3, <1>4

HIDE DEF Preserves, RowsMove, OthersStay, Sound, BlockHeld, StatusKnown,
         RunSound, TeardownSound, MarkKept, CleanupInv, Marked, InBlock,
         Delivering, Outside, CleaningUp, RunLabel, RequestLabel, Syncing,
         Removing, At, Goto, guard, EndJob, EndJobSending, claim_build_lease,
         release_build_lease, Free, leaseVars, rowVars, queueVars, TypeOK,
         BuildJob, BuildResources, TERMINAL_BUILD_STATUSES, CleanupTask

-----------------------------------------------------------------------------
\* Every step of a running handler.
LEMMA StepPreserves ==
    ASSUME TypeOK, CleanupInv, NEW s \in Session, Step(s)
    PROVE  Preserves(s)
  BY QueuePreserves, StartPreserves, PollPreserves, DynamicPreserves,
     EndPreserves, RecheckPreserves, RequestPreserves, RunPreserves,
     RecoverPreserves
     DEF Step

\* Jenkins, the clock and an expiring lease move no session, and give the
\* guard to none.
LEMMA EnvironmentSound ==
    ASSUME TypeOK, CleanupInv,
           JenkinsStep \/ PollAges \/ LeaseExpires \/ UNCHANGED vars
    PROVE  CleanupInv'
<1>1. /\ pc' = pc /\ job' = job /\ holding' = holding /\ manifest' = manifest
      /\ \A s \in Session : guard(s)' => guard(s)
  <2>1. CASE JenkinsStep \/ PollAges \/ UNCHANGED vars
    BY <2>1 DEF JenkinsStep, PollAges, vars, leaseVars, rowVars, queueVars,
       guard
  <2>2. CASE LeaseExpires
    BY <2>2 DEF LeaseExpires, Expire, rowVars, queueVars, TypeOK, LeaseTypeOK,
       guard
  <2> QED
    BY <2>1, <2>2
<1>2. /\ build'.status = build.status
      /\ build'.dynamic_status = build.dynamic_status
      /\ build'.teardown_required = build.teardown_required
      /\ build'.teardown_status = build.teardown_status
  BY DEF TypeOK, BuildJob, JenkinsStep, PollAges, LeaseExpires, vars, rowVars
<1> QED
  BY <1>1, <1>2
     DEF CleanupInv, MarkKept, Marked, Sound, BlockHeld, StatusKnown, RunSound,
         TeardownSound, Delivering, InBlock, At, Removing

\* The invariant holds in every execution, lapses of the lease included.
LEMMA CleanupInvariant == Spec => []CleanupInv
<1>1. Init => CleanupInv
  BY DEF Init, CleanupInv, MarkKept, Sound, BlockHeld, StatusKnown, RunSound,
         TeardownSound, Delivering, InBlock, Outside, RunLabel, RequestLabel,
         Syncing, At, Removing, guard, LeaseInit, Free, CleanupTask, NoJob,
         QueueRequest
<1>2. TypeOK /\ CleanupInv /\ [Next]_vars => CleanupInv'
  <2> SUFFICES ASSUME TypeOK, CleanupInv, [Next]_vars
               PROVE  CleanupInv'
    OBVIOUS
  <2>1. ASSUME NEW s \in Session, Preserves(s)
        PROVE  CleanupInv'
    BY <2>1, StepSound DEF Preserves
  <2> QED
    BY <2>1, StepPreserves, WorkerPreserves, RequestedPreserves, EnvironmentSound,
       ProcessAssumption
       DEF Next
<1> QED
  BY <1>1, <1>2, TypeCorrect, PTL DEF Spec

\* A cleanup removes resources of terminal builds only: assert_quiescent under
\* the lease, and submit's refusal of a build whose cleanup was accepted.  No
\* lapse of a lease breaks this.
THEOREM RemovalTerminal == Spec => []RemovalOnlyOfTerminal
<1>1. CleanupInv => RemovalOnlyOfTerminal
  BY DEF CleanupInv, Sound, RunSound, RemovalOnlyOfTerminal
<1> QED
  BY <1>1, CleanupInvariant, PTL

\* A failed delivery stays marked for teardown until a cleanup has succeeded,
\* whatever crashes, lapses, rechecks and requests do between the two writes of
\* _fail and _finish, and between sync_teardown's read and its write.
THEOREM TeardownKept == Spec => []TeardownNotForgotten
<1>1. CleanupInv => TeardownNotForgotten
  BY DEF CleanupInv, MarkKept, Marked, TeardownNotForgotten
<1> QED
  BY <1>1, CleanupInvariant, PTL

=============================================================================
