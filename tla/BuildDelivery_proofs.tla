------------------------ MODULE BuildDelivery_proofs ------------------------
(***************************************************************************)
(* The lease, and three results on the delivery of a build: it only uses   *)
(* the lease as BuildLease says (a refinement, so the lease's theorems     *)
(* carry over), its types are right, and its operations exclude each other.*)
(*                                                                         *)
(* The type proof goes operation by operation.  RestOK is TypeOK without   *)
(* the lease's part, which follows from the refinement.                    *)
(***************************************************************************)
EXTENDS BuildDelivery, TLAPS

-----------------------------------------------------------------------------
(***************************************************************************)
(* The lease protocol for any set of sessions: its types, mutual exclusion *)
(* of the blocks while no lease lapses under a live holder, and that a     *)
(* lost lease stays lost whatever happens.                                 *)
(***************************************************************************)
\* While no lease lapses, every session inside its block still owns the live
\* lease and still has its renewal thread (what the claim's filter and the
\* renewals of build_lease maintain together).
HoldersGuarded ==
    ~LeaseMayLapse => \A s \in holding : guard(s) /\ s \in renewing

LeaseInv == LeaseTypeOK /\ HoldersGuarded

\* The types of lease, holding and renewing hold initially and are kept by
\* every step of the protocol (claim, renew, release in repository.py).
LEMMA LeaseTypeStep ==
    ASSUME LeaseTypeOK, [LeaseNext]_leaseVars
    PROVE  LeaseTypeOK'
<1> USE DEF LeaseTypeOK
<1>1. CASE Expire
  BY <1>1 DEF Expire
<1>2. ASSUME NEW s \in Session, claim_build_lease(s)
      PROVE  LeaseTypeOK'
  BY <1>2 DEF claim_build_lease
<1>3. ASSUME NEW s \in Session, renew_build_lease(s)
      PROVE  LeaseTypeOK'
  BY <1>3 DEF renew_build_lease
<1>4. ASSUME NEW s \in Session, RenewalStops(s)
      PROVE  LeaseTypeOK'
  BY <1>4 DEF RenewalStops
<1>5. ASSUME NEW s \in Session, release_build_lease(s)
      PROVE  LeaseTypeOK'
  BY <1>5 DEF release_build_lease, Free
<1>6. ASSUME NEW s \in Session, HolderDies(s)
      PROVE  LeaseTypeOK'
  BY <1>6 DEF HolderDies
<1>7. CASE UNCHANGED leaseVars
  BY <1>7 DEF leaseVars
<1> QED
  BY <1>1, <1>2, <1>3, <1>4, <1>5, <1>6, <1>7 DEF LeaseNext

\* A claim succeeds only when nobody is inside (_lease_expired, no owner).
LEMMA ClaimFindsNobody ==
    ASSUME LeaseInv, ~LeaseMayLapse, Claimable
    PROVE  holding = {}
  BY SessionAssumption
     DEF LeaseInv, LeaseTypeOK, HoldersGuarded, Claimable, guard

\* Every step keeps the holders guarded: claims find nobody, renewals of a
\* holder succeed, and only the lease of a dead holder runs out.
LEMMA HoldersGuardedStep ==
    ASSUME LeaseInv, [LeaseNext]_leaseVars
    PROVE  HoldersGuarded'
<1> SUFFICES ASSUME ~LeaseMayLapse
             PROVE  \A t \in holding' : guard(t)' /\ t \in renewing'
  BY DEF HoldersGuarded
<1>0. \A t \in holding : lease.owner = t /\ lease.live /\ t \in renewing
  BY DEF LeaseInv, HoldersGuarded, guard
<1>1. CASE Expire
  BY <1>0, <1>1 DEF Expire, guard
<1>2. ASSUME NEW s \in Session, claim_build_lease(s)
      PROVE  \A t \in holding' : guard(t)' /\ t \in renewing'
  BY <1>2, ClaimFindsNobody DEF claim_build_lease, guard
<1>3. ASSUME NEW s \in Session, renew_build_lease(s)
      PROVE  \A t \in holding' : guard(t)' /\ t \in renewing'
  <2>1. CASE guard(s)
    BY <1>0, <1>3, <2>1 DEF renew_build_lease, guard, LeaseInv, LeaseTypeOK
  <2>2. CASE ~guard(s)
    BY <1>0, <1>3, <2>2 DEF renew_build_lease, guard
  <2> QED
    BY <2>1, <2>2
<1>4. ASSUME NEW s \in Session, RenewalStops(s)
      PROVE  FALSE
  BY <1>4 DEF RenewalStops
<1>5. ASSUME NEW s \in Session, release_build_lease(s)
      PROVE  \A t \in holding' : guard(t)' /\ t \in renewing'
  BY <1>0, <1>5 DEF release_build_lease, guard
<1>6. ASSUME NEW s \in Session, HolderDies(s)
      PROVE  \A t \in holding' : guard(t)' /\ t \in renewing'
  BY <1>0, <1>6 DEF HolderDies, guard
<1>7. CASE UNCHANGED leaseVars
  BY <1>0, <1>7 DEF leaseVars, guard
<1> QED
  BY <1>1, <1>2, <1>3, <1>4, <1>5, <1>6, <1>7 DEF LeaseNext

\* The inductive invariant of the protocol.
THEOREM LeaseInvariant == LeaseSpec => []LeaseInv
<1>1. LeaseInit => LeaseInv
  BY DEF LeaseInit, LeaseInv, LeaseTypeOK, HoldersGuarded, Free
<1>2. LeaseInv /\ [LeaseNext]_leaseVars => LeaseInv'
  BY LeaseTypeStep, HoldersGuardedStep DEF LeaseInv
<1> QED
  BY <1>1, <1>2, PTL DEF LeaseSpec

\* The lease row, the open blocks and the renewal threads keep their types.
THEOREM LeaseTypeCorrect == LeaseSpec => []LeaseTypeOK
<1>1. LeaseInv => LeaseTypeOK
  BY DEF LeaseInv
<1> QED
  BY <1>1, LeaseInvariant, PTL

\* Two operations on one build never overlap while no lease lapses under a
\* live holder (build_lease), for any number of sessions.
THEOREM LeaseExclusive == LeaseSpec => []Exclusive
<1>1. LeaseInv => Exclusive
  BY DEF LeaseInv, HoldersGuarded, Exclusive, guard
<1> QED
  BY <1>1, LeaseInvariant, PTL

\* A block whose guard failed once never passes it again, lapses included
\* (the expiry filter of renew_build_lease and the fresh owner of a claim).
THEOREM LostLeaseTheorem == LeaseSpec => LostLeaseStaysLost
<1> DEFINE Lost == \A s \in holding \cap holding' : ~guard(s) => ~guard(s)'
<1>1. ASSUME LeaseTypeOK, [LeaseNext]_leaseVars
      PROVE  [Lost]_leaseVars
  <2>1. CASE Expire
    BY <2>1 DEF Expire, guard
  <2>2. ASSUME NEW t \in Session, claim_build_lease(t)
        PROVE  Lost
    BY <2>2 DEF claim_build_lease, guard
  <2>3. ASSUME NEW t \in Session, renew_build_lease(t)
        PROVE  Lost
    <3>1. CASE guard(t)
      BY <2>3, <3>1, <1>1 DEF renew_build_lease, guard, LeaseTypeOK
    <3>2. CASE ~guard(t)
      BY <2>3, <3>2 DEF renew_build_lease, guard
    <3> QED
      BY <3>1, <3>2
  <2>4. ASSUME NEW t \in Session, RenewalStops(t)
        PROVE  Lost
    BY <2>4 DEF RenewalStops, guard
  <2>5. ASSUME NEW t \in Session, release_build_lease(t)
        PROVE  Lost
    BY <2>5, <1>1 DEF release_build_lease, guard, Free, LeaseTypeOK
  <2>6. ASSUME NEW t \in Session, HolderDies(t)
        PROVE  Lost
    BY <2>6 DEF HolderDies, guard
  <2> QED
    BY <1>1, <2>1, <2>2, <2>3, <2>4, <2>5, <2>6 DEF LeaseNext
<1>2. LeaseSpec => []LeaseTypeOK
  BY LeaseTypeCorrect
<1> QED
  BY <1>1, <1>2, PTL DEF LeaseSpec, LostLeaseStaysLost

-----------------------------------------------------------------------------
(***************************************************************************)
(* Every step of the delivery is a step of the lease protocol or leaves    *)
(* the lease alone.                                                        *)
(***************************************************************************)
LEMMA SessionLeaseStep ==
    ASSUME NEW s \in Session, Step(s) \/ Crash(s) \/ Redeliver(s)
    PROVE  [LeaseNext]_leaseVars
<1> USE DEF LeaseNext
<1>1. CASE QueueStep(s)
  BY <1>1 DEF QueueStep, QueueClaim, QueueRefused, TrackWorkspace, Snapshot,
     QueueFail, InputsReady, QueueRelease, Dispatch, DispatchFails, Abort
<1>2. CASE StartStep(s)
  BY <1>2 DEF StartStep, StartBuild, ToValidating, Validate, ToTriggering,
     TriggerCheck, Gate, MarkPending, TriggerBuild, NotStarted, Triggered,
     StoreQueueUrl, ClearPending, ToBuilding, ScheduleFirst, Transition
<1>3. CASE PollStep(s)
  BY <1>3 DEF PollStep, PollBuild, JenkinsCallFails, GetQueueItem, GetBuild,
     ScheduleNext, Artifact, ToDeploying, TrackService, CreateService,
     SaveServices, ResumeDeployment, Transition
<1>4. CASE DynamicStep(s)
  BY <1>4 DEF DynamicStep, DynamicRouteCheck, DynamicExecute, DynamicVerdict,
     DynamicFail, DynamicDone, ToSucceeded, Transition
<1>5. CASE EndStep(s)
  BY <1>5 DEF EndStep, Fail, FailDeploying, FailBuild, Done, After
<1>6. CASE RecheckStep(s)
  BY <1>6 DEF RecheckStep, RecheckClaim, RecheckRefused, Recheck,
     RecheckRelease, RecheckDispatch
<1>7. CASE RequestStep(s)
  BY <1>7 DEF RequestStep, Teardown, TeardownFails, RequestClaim,
     RequestRefused, RequestQueue, RequestRelease, RequestDispatch,
     RequestDispatchFails, Requested, RequestRaises
<1>8. CASE RunStep(s)
  BY <1>8 DEF RunStep, RunClaim, RunRefused, RunMark, Quiesce, Remove,
     RemoveFails, Verdict, RunRelease, Sync, SyncWrite
<1>9. CASE RecoverStep(s)
  BY <1>9 DEF RecoverStep, RecoverInputsFail, RecoverClaim, RecoverRefused,
     RecoverFail, RecoverRelease
<1>10. CASE Crash(s)
  BY <1>10 DEF Crash
<1>11. CASE Redeliver(s)
  BY <1>11 DEF Redeliver
<1> QED
  BY <1>1, <1>2, <1>3, <1>4, <1>5, <1>6, <1>7, <1>8, <1>9, <1>10, <1>11
     DEF Step

\* Workers taking messages, API requests, Jenkins and the clock: the same.
LEMMA LeaseStep == [Next]_vars => [LeaseNext]_leaseVars
<1> SUFFICES ASSUME [Next]_vars
             PROVE  [LeaseNext]_leaseVars
  OBVIOUS
<1>1. ASSUME NEW s \in Session, Step(s) \/ Crash(s) \/ Redeliver(s)
      PROVE  [LeaseNext]_leaseVars
  BY <1>1, SessionLeaseStep
<1>2. ASSUME NEW w \in Worker,
             Deliver(w) \/ RecoverBuilds(w) \/ RecoverCleanup(w)
                \/ RecoverRouteChecks(w)
      PROVE  [LeaseNext]_leaseVars
  BY <1>2, ProcessAssumption
     DEF LeaseNext, Deliver, DeliverOperation, DeliverRefused, DeliverCleanup,
         RecoverBuilds, RecoverStart, RecoverPoll, RecoverInputs,
         RecoverCleanup, RecoverRouteChecks, RecoverDynamic, RecoverTeardown
<1>3. ASSUME NEW a \in Api, CleanupRequested(a) \/ RecheckRequested(a)
      PROVE  [LeaseNext]_leaseVars
  BY <1>3 DEF CleanupRequested, RecheckRequested
<1>4. CASE JenkinsStep \/ PollAges
  BY <1>4 DEF JenkinsStep, PollAges
<1>5. CASE LeaseExpires
  BY <1>5 DEF LeaseExpires, LeaseNext
<1>6. CASE UNCHANGED vars
  BY <1>6 DEF vars
<1> QED
  BY <1>1, <1>2, <1>3, <1>4, <1>5, <1>6 DEF Next

\* Every execution of the delivery obeys the lease protocol of
\* build_resources.build_lease: what is proved of the lease alone holds here.
THEOREM DeliveryUsesLease == Spec => LeaseSpec
<1>1. Init => LeaseInit
  BY DEF Init
<1> QED
  BY <1>1, LeaseStep, PTL DEF Spec, LeaseSpec
-----------------------------------------------------------------------------
\* A session that goes on to a label keeps pc well-typed.
LEMMA GotoType ==
    ASSUME TypeOK, NEW s \in Session, NEW l \in Label, Goto(s, l)
    PROVE  pc' \in [Session -> Label]
  BY DEF TypeOK, Goto

\* A handler that ends, sending messages, keeps pc, job, tasks and ticket
\* well-typed.
LEMMA EndJobTypes ==
    ASSUME TypeOK, NEW s \in Session, NEW messages \in SUBSET Task,
           EndJobSending(s, messages)
    PROVE  /\ pc' \in [Session -> Label]
           /\ job' \in [Session -> Job]
           /\ tasks' \subseteq Task
           /\ ticket' \subseteq Session
<1>1. "idle" \in Label
  BY DEF Label
<1>2. NoJob \in Job
  BY DEF NoJob, Job
<1> QED
  BY <1>1, <1>2, GotoType DEF TypeOK, EndJobSending

\* BuildService.fail yields a build row.
LEMMA FailedBuildType ==
    ASSUME NEW b \in BuildJob
    PROVE  FailedBuild(b) \in BuildJob
  BY DEF FailedBuild, BuildJob, BuildStatus

\* Every way an operation rewrites the build row gives a build row.
LEMMA BuildWriteTypes ==
    ASSUME NEW b \in BuildJob
    PROVE  /\ [b EXCEPT !.inputs_ready = TRUE] \in BuildJob
           /\ \A st \in BuildStatus : [b EXCEPT !.status = st] \in BuildJob
           /\ [b EXCEPT !.jenkins_queue_url = TRUE] \in BuildJob
           /\ [b EXCEPT !.last_polled_at = "fresh"] \in BuildJob
           /\ [b EXCEPT !.last_polled_at = "stale"] \in BuildJob
           /\ [b EXCEPT !.jenkins_build_number = TRUE,
                        !.last_polled_at = "fresh"] \in BuildJob
           /\ [b EXCEPT !.service_ids = TRUE] \in BuildJob
           /\ [b EXCEPT !.dynamic_status = "succeeded"] \in BuildJob
           /\ [b EXCEPT !.dynamic_status = "failed",
                        !.teardown_required = TRUE,
                        !.teardown_status = "pending"] \in BuildJob
           /\ b.dynamic_run_id \in Nat
           /\ \A n \in Nat :
                [b EXCEPT !.dynamic_status = "running",
                          !.dynamic_run_id = n] \in BuildJob
           /\ \A n \in Nat :
                [b EXCEPT !.status = "deploying",
                          !.dynamic_status = "queued",
                          !.dynamic_run_id = n] \in BuildJob
           /\ [b EXCEPT !.teardown_status = "running"] \in BuildJob
           /\ \A st \in TeardownStatus, r \in BOOLEAN :
                [b EXCEPT !.teardown_required = r,
                          !.teardown_status = st] \in BuildJob
           /\ \A st \in TeardownStatus, r \in BOOLEAN :
                [b EXCEPT !.teardown_status = st,
                          !.teardown_required = r] \in BuildJob
<1>1. [b EXCEPT !.inputs_ready = TRUE] \in BuildJob
  BY DEF BuildJob, BuildStatus, DynamicStatus, TeardownStatus
<1>2. \A st \in BuildStatus : [b EXCEPT !.status = st] \in BuildJob
  BY DEF BuildJob, BuildStatus, DynamicStatus, TeardownStatus
<1>3. [b EXCEPT !.jenkins_queue_url = TRUE] \in BuildJob
  BY DEF BuildJob, BuildStatus, DynamicStatus, TeardownStatus
<1>4. [b EXCEPT !.last_polled_at = "fresh"] \in BuildJob
  BY DEF BuildJob, BuildStatus, DynamicStatus, TeardownStatus
<1>5. [b EXCEPT !.last_polled_at = "stale"] \in BuildJob
  BY DEF BuildJob, BuildStatus, DynamicStatus, TeardownStatus
<1>6. [b EXCEPT !.jenkins_build_number = TRUE,
        !.last_polled_at = "fresh"] \in BuildJob
  BY DEF BuildJob, BuildStatus, DynamicStatus, TeardownStatus
<1>7. [b EXCEPT !.service_ids = TRUE] \in BuildJob
  BY DEF BuildJob, BuildStatus, DynamicStatus, TeardownStatus
<1>8. [b EXCEPT !.dynamic_status = "succeeded"] \in BuildJob
  BY DEF BuildJob, BuildStatus, DynamicStatus, TeardownStatus
<1>9. [b EXCEPT !.dynamic_status = "failed",
        !.teardown_required = TRUE,
        !.teardown_status = "pending"] \in BuildJob
  BY DEF BuildJob, BuildStatus, DynamicStatus, TeardownStatus
<1>10. b.dynamic_run_id \in Nat
  BY DEF BuildJob, BuildStatus, DynamicStatus, TeardownStatus
<1>11. \A n \in Nat :
        [b EXCEPT !.dynamic_status = "running",
        !.dynamic_run_id = n] \in BuildJob
  BY DEF BuildJob, BuildStatus, DynamicStatus, TeardownStatus
<1>12. \A n \in Nat :
        [b EXCEPT !.status = "deploying",
        !.dynamic_status = "queued",
        !.dynamic_run_id = n] \in BuildJob
  BY DEF BuildJob, BuildStatus, DynamicStatus, TeardownStatus
<1>13. [b EXCEPT !.teardown_status = "running"] \in BuildJob
  BY DEF BuildJob, BuildStatus, DynamicStatus, TeardownStatus
<1>14. \A st \in TeardownStatus, r \in BOOLEAN :
        [b EXCEPT !.teardown_required = r,
        !.teardown_status = st] \in BuildJob
  BY DEF BuildJob, BuildStatus, DynamicStatus, TeardownStatus
<1>15. \A st \in TeardownStatus, r \in BOOLEAN :
        [b EXCEPT !.teardown_status = st,
        !.teardown_required = r] \in BuildJob
  BY DEF BuildJob, BuildStatus, DynamicStatus, TeardownStatus
<1> QED
  BY <1>1, <1>2, <1>3, <1>4, <1>5, <1>6, <1>7, <1>8, <1>9, <1>10, <1>11, <1>12, <1>13, <1>14, <1>15

\* ResourceTracker.record yields a manifest.
LEMMA TrackType ==
    ASSUME TypeOK, NEW kind \in Kind
    PROVE  Track(kind) \in BuildResources
  BY DEF TypeOK, Track, BuildResources, ResourceState

\* Setting cleanup_status yields a manifest.
LEMMA CleanupType ==
    ASSUME TypeOK, NEW st \in CleanupStatus
    PROVE  [manifest EXCEPT !.cleanup_status = st] \in BuildResources
  BY DEF TypeOK, BuildResources

\* Setting jenkins_trigger_pending yields a manifest.
LEMMA PendingType ==
    ASSUME TypeOK, NEW b \in BOOLEAN
    PROVE  [manifest EXCEPT !.jenkins_trigger_pending = b] \in BuildResources
  BY DEF TypeOK, BuildResources

\* The fault budget is never exceeded.
LEMMA FaultType ==
    ASSUME TypeOK, Fault \/ UNCHANGED bounds
    PROVE  faults' \in 0..MaxFaults /\ requests' \in 0..MaxRequests
  BY BoundAssumption DEF TypeOK, Fault, bounds

\* The second component of a job (poll attempt, dynamic run) is a number.
LEMMA JobNumber ==
    ASSUME NEW j \in Job
    PROVE  j[2] \in Nat
  BY DEF Job, Task

\* What the program sends to Celery are messages.
LEMMA TaskTypes ==
    /\ StartTask \in Task /\ CleanupTask \in Task
    /\ \A n \in Nat : PollTask(n) \in Task /\ DynamicTask(n) \in Task
  BY DEF Task, StartTask, CleanupTask, PollTask, DynamicTask

\* TypeOK without the lease
RestOK ==
    /\ build \in BuildJob
    /\ manifest \in BuildResources
    /\ tasks \subseteq Task
    /\ jenkins \in Jenkins
    /\ live \subseteq Kind
    /\ pc \in [Session -> Label]
    /\ job \in [Session -> Job]
    /\ ticket \subseteq Session
    /\ faults \in 0..MaxFaults
    /\ requests \in 0..MaxRequests

\* BuildService.transition keeps the types, legal move or not.
LEMMA TransitionTypes ==
    ASSUME TypeOK, NEW s \in Session, NEW from, NEW next \in Label,
           NEW target \in BuildStatus, Transition(s, from, target, next)
    PROVE  RestOK'
<1>1. build' \in BuildJob
  BY BuildWriteTypes DEF TypeOK, Transition
<1>2. "fail" \in Label
  BY DEF Label
<1>3. pc' \in [Session -> Label]
  BY <1>2, GotoType DEF Transition
<1> QED
  BY <1>1, <1>3
     DEF TypeOK, RestOK, Transition, outsideVars, queueVars, bounds

\* _schedule_poll keeps the types, whether the broker takes the message or not.
LEMMA SchedulePollTypes ==
    ASSUME TypeOK, NEW s \in Session, NEW n \in Nat, SchedulePoll(s, n)
    PROVE  /\ pc' \in [Session -> Label]
           /\ tasks' \subseteq Task
           /\ faults' \in 0..MaxFaults /\ requests' \in 0..MaxRequests
<1>1. "done" \in Label /\ "fail" \in Label
  BY DEF Label
<1>2. tasks' \subseteq Task
  BY TaskTypes DEF TypeOK, SchedulePoll
<1>3. Fault \/ UNCHANGED bounds
  BY DEF SchedulePoll
<1> QED
  BY <1>1, <1>2, <1>3, GotoType, FaultType DEF SchedulePoll

\* queue_build keeps the types.
LEMMA QueueStepTypes ==
    ASSUME TypeOK, NEW s \in Session, QueueStep(s)
    PROVE  RestOK'
<1> USE DEF RestOK, rowVars, outsideVars, queueVars, bounds
<1>1. CASE QueueClaim(s)
  BY <1>1, GotoType
     DEF TypeOK, QueueClaim, Label
<1>2. CASE QueueRefused(s)
  BY <1>2, EndJobTypes
     DEF TypeOK, QueueRefused, EndJob
<1>3. CASE TrackWorkspace(s)
  BY <1>3, GotoType, TrackType
     DEF TypeOK, TrackWorkspace, Label, Kind
<1>4. CASE Snapshot(s)
  BY ZenonT(60), <1>4, GotoType
     DEF TypeOK, Snapshot, Label, Kind
<1>5. CASE QueueFail(s)
  BY SMTT(60), <1>5, GotoType, FailedBuildType
     DEF TypeOK, QueueFail, Label
<1>6. CASE InputsReady(s)
  BY ZenonT(60), <1>6, GotoType, BuildWriteTypes
     DEF TypeOK, InputsReady, Label
<1>7. CASE QueueRelease(s)
  BY SMTT(60), <1>7, GotoType
     DEF TypeOK, QueueRelease, Label
<1>8. CASE Dispatch(s)
  BY <1>8, EndJobTypes, TaskTypes
     DEF TypeOK, Dispatch, EndJob
<1>9. CASE DispatchFails(s)
  BY <1>9, EndJobTypes, TaskTypes, FailedBuildType, FaultType
     DEF TypeOK, DispatchFails, EndJob
<1>10. CASE Abort(s)
  BY <1>10, EndJobTypes
     DEF TypeOK, Abort, EndJob
<1> QED
  BY <1>1, <1>2, <1>3, <1>4, <1>5, <1>6, <1>7, <1>8, <1>9, <1>10
     DEF QueueStep

\* _start_build keeps the types.
LEMMA StartStepTypes ==
    ASSUME TypeOK, NEW s \in Session, StartStep(s)
    PROVE  RestOK'
<1> USE DEF RestOK, rowVars, outsideVars, queueVars, bounds
<1>1. CASE StartBuild(s)
  BY SMTT(60), <1>1, GotoType
     DEF TypeOK, StartBuild, Label, TriggerOrBuild
<1>2. CASE ToValidating(s)
  <2>1. "validating" \in BuildStatus /\ "validate" \in Label
    BY DEF BuildStatus, Label
  <2> QED
    BY <1>2, <2>1, TransitionTypes DEF ToValidating
<1>3. CASE Validate(s)
  BY <1>3, GotoType
     DEF TypeOK, Validate, Label
<1>4. CASE ToTriggering(s)
  <2>1. TriggerOrBuild \in Label
    BY DEF TriggerOrBuild, Label
  <2>2. "triggering" \in BuildStatus
    BY DEF BuildStatus
  <2> QED
    BY <1>4, <2>1, <2>2, TransitionTypes DEF ToTriggering
<1>5. CASE TriggerCheck(s)
  BY <1>5, GotoType, TrackType
     DEF TypeOK, TriggerCheck, Label, Kind
<1>6. CASE Gate(s)
  BY <1>6, GotoType
     DEF TypeOK, Gate, Label
<1>7. CASE MarkPending(s)
  BY ZenonT(60), <1>7, GotoType, PendingType
     DEF TypeOK, MarkPending, Label
<1>8. CASE TriggerBuild(s)
  BY SMTT(60), <1>8, GotoType, FaultType
     DEF TypeOK, TriggerBuild, Label, TriggerAccepted, Jenkins
<1>9. CASE NotStarted(s)
  BY ZenonT(60), <1>9, GotoType, PendingType
     DEF TypeOK, NotStarted, Label
<1>10. CASE Triggered(s)
  BY <1>10, GotoType
     DEF TypeOK, Triggered, Label
<1>11. CASE StoreQueueUrl(s)
  BY ZenonT(60), <1>11, GotoType, BuildWriteTypes
     DEF TypeOK, StoreQueueUrl, Label
<1>12. CASE ClearPending(s)
  BY ZenonT(60), <1>12, GotoType, PendingType
     DEF TypeOK, ClearPending, Label
<1>13. CASE ToBuilding(s)
  <2>1. "building" \in BuildStatus /\ "schedule_first" \in Label
    BY DEF BuildStatus, Label
  <2> QED
    BY <1>13, <2>1, TransitionTypes DEF ToBuilding
<1>14. CASE ScheduleFirst(s)
  BY <1>14, SchedulePollTypes
     DEF TypeOK, ScheduleFirst
<1> QED
  BY <1>1, <1>2, <1>3, <1>4, <1>5, <1>6, <1>7, <1>8, <1>9, <1>10, <1>11,
     <1>12, <1>13, <1>14
     DEF StartStep

\* _poll_build and the deployment it ends in keep the types.
LEMMA PollStepTypes ==
    ASSUME TypeOK, NEW s \in Session, PollStep(s)
    PROVE  RestOK'
<1> USE DEF RestOK, rowVars, outsideVars, queueVars, bounds
<1>1. CASE PollBuild(s)
  BY SMTT(60), <1>1, GotoType
     DEF TypeOK, PollBuild, Label
<1>2. CASE JenkinsCallFails(s)
  BY SMTT(60), <1>2, GotoType, FaultType
     DEF TypeOK, JenkinsCallFails, Label
<1>3. CASE GetQueueItem(s)
  <2>1. build' \in BuildJob
    BY <1>3, BuildWriteTypes DEF TypeOK, GetQueueItem
  <2>2. pc' \in [Session -> Label]
    BY <1>3, GotoType DEF GetQueueItem, Label
  <2> QED
    BY <1>3, <2>1, <2>2 DEF TypeOK, GetQueueItem
<1>4. CASE GetBuild(s)
  BY ZenonT(60), <1>4, GotoType, BuildWriteTypes
     DEF TypeOK, GetBuild, Label
<1>5. CASE ScheduleNext(s)
  BY <1>5, SchedulePollTypes, JobNumber
     DEF TypeOK, ScheduleNext
<1>6. CASE Artifact(s)
  BY SMTT(60), <1>6, GotoType, TrackType
     DEF TypeOK, Artifact, Label, Kind
<1>7. CASE ToDeploying(s)
  <2>1. "deploying" \in BuildStatus /\ "track_service" \in Label
    BY DEF BuildStatus, Label
  <2> QED
    BY <1>7, <2>1, TransitionTypes DEF ToDeploying
<1>8. CASE TrackService(s)
  BY SMTT(60), <1>8, GotoType, TrackType
     DEF TypeOK, TrackService, Label, Kind
<1>9. CASE CreateService(s)
  BY ZenonT(60), <1>9, GotoType
     DEF TypeOK, CreateService, Label, Kind
<1>10. CASE SaveServices(s)
  BY ZenonT(60), <1>10, GotoType, BuildWriteTypes
     DEF TypeOK, SaveServices, Label
<1>11. CASE ResumeDeployment(s)
  BY SMTT(60), <1>11, GotoType
     DEF TypeOK, ResumeDeployment, Label
<1> QED
  BY <1>1, <1>2, <1>3, <1>4, <1>5, <1>6, <1>7, <1>8, <1>9, <1>10, <1>11
     DEF PollStep

\* dynamic_route_check keeps the types.
LEMMA DynamicStepTypes ==
    ASSUME TypeOK, NEW s \in Session, DynamicStep(s)
    PROVE  RestOK'
<1> USE DEF RestOK, rowVars, outsideVars, queueVars, bounds
<1>1. CASE DynamicRouteCheck(s)
  BY SMTT(60), <1>1, GotoType
     DEF TypeOK, DynamicRouteCheck, Label
<1>2. CASE DynamicExecute(s)
  <2>1. (IF build.dynamic_run_id = 0 THEN 1 ELSE build.dynamic_run_id) \in Nat
    BY BuildWriteTypes DEF TypeOK
  <2>2. build' \in BuildJob
    BY <1>2, <2>1, BuildWriteTypes DEF TypeOK, DynamicExecute
  <2>3. pc' \in [Session -> Label]
    BY SMTT(60), <1>2, GotoType DEF DynamicExecute, Label
  <2> QED
    BY <1>2, <2>2, <2>3 DEF TypeOK, DynamicExecute
<1>3. CASE DynamicVerdict(s)
  BY ZenonT(60), <1>3, GotoType, BuildWriteTypes
     DEF TypeOK, DynamicVerdict, Label
<1>4. CASE DynamicFail(s)
  BY SMTT(60), <1>4, GotoType, FailedBuildType
     DEF TypeOK, DynamicFail, Label
<1>5. CASE DynamicDone(s)
  BY SMTT(60), <1>5, GotoType
     DEF TypeOK, DynamicDone, Label
<1>6. CASE ToSucceeded(s)
  <2>1. "succeeded" \in BuildStatus /\ "done" \in Label
    BY DEF BuildStatus, Label
  <2> QED
    BY <1>6, <2>1, TransitionTypes DEF ToSucceeded
<1> QED
  BY <1>1, <1>2, <1>3, <1>4, <1>5, <1>6
     DEF DynamicStep

\* _fail and leaving the lease block keep the types.
LEMMA EndStepTypes ==
    ASSUME TypeOK, NEW s \in Session, EndStep(s)
    PROVE  RestOK'
<1> USE DEF RestOK, rowVars, outsideVars, queueVars, bounds
<1>1. CASE Fail(s)
  BY SMTT(60), <1>1, GotoType
     DEF TypeOK, Fail, Label
<1>2. CASE FailDeploying(s)
  BY ZenonT(60), <1>2, GotoType, BuildWriteTypes
     DEF TypeOK, FailDeploying, Label
<1>3. CASE FailBuild(s)
  BY SMTT(60), <1>3, GotoType, FailedBuildType
     DEF TypeOK, FailBuild, Label
<1>4. CASE Done(s)
  BY SMTT(60), <1>4, GotoType
     DEF TypeOK, Done, Label
<1>5. CASE After(s)
  BY SMTT(60), <1>5, GotoType, EndJobTypes
     DEF TypeOK, After, Label, EndJob
<1> QED
  BY <1>1, <1>2, <1>3, <1>4, <1>5
     DEF EndStep

\* DynamicCheckService.submit keeps the types.
LEMMA RecheckStepTypes ==
    ASSUME TypeOK, NEW s \in Session, RecheckStep(s)
    PROVE  RestOK'
<1> USE DEF RestOK, rowVars, outsideVars, queueVars, bounds
<1>1. CASE RecheckClaim(s)
  BY SMTT(60), <1>1, GotoType
     DEF TypeOK, RecheckClaim, Label
<1>2. CASE RecheckRefused(s)
  BY <1>2, EndJobTypes
     DEF TypeOK, RecheckRefused, EndJob
<1>3. CASE Recheck(s)
  <2>1. build.dynamic_run_id + 1 \in Nat
    <3>1. build.dynamic_run_id \in Nat
      BY DEF TypeOK, BuildJob
    <3> QED
      BY <3>1
  <2>2. build' \in BuildJob
    BY ZenonT(60), <1>3, <2>1, BuildWriteTypes DEF TypeOK, Recheck
  <2>3. pc' \in [Session -> Label]
    BY SMTT(60), <1>3, GotoType DEF Recheck, Label
  <2> QED
    BY <1>3, <2>2, <2>3 DEF TypeOK, Recheck
<1>4. CASE RecheckRelease(s)
  BY SMTT(60), <1>4, GotoType
     DEF TypeOK, RecheckRelease, Label
<1>5. CASE RecheckDispatch(s)
  BY <1>5, EndJobTypes, TaskTypes, BuildWriteTypes, FaultType
     DEF TypeOK, RecheckDispatch, EndJob
<1> QED
  BY <1>1, <1>2, <1>3, <1>4, <1>5
     DEF RecheckStep

\* request_cleanup and teardown keep the types.
LEMMA RequestStepTypes ==
    ASSUME TypeOK, NEW s \in Session, RequestStep(s)
    PROVE  RestOK'
<1> USE DEF RestOK, rowVars, outsideVars, queueVars, bounds
<1>1. CASE Teardown(s)
  BY SMTT(60), <1>1, GotoType
     DEF TypeOK, Teardown, Label
<1>2. CASE TeardownFails(s)
  BY SMTT(60), <1>2, GotoType, FaultType
     DEF TypeOK, TeardownFails, Label
<1>3. CASE RequestClaim(s)
  BY SMTT(60), <1>3, GotoType
     DEF TypeOK, RequestClaim, Label
<1>4. CASE RequestRefused(s)
  BY SMTT(60), <1>4, GotoType
     DEF TypeOK, RequestRefused, Label
<1>5. CASE RequestQueue(s)
  BY SMTT(60), <1>5, GotoType, CleanupType
     DEF TypeOK, RequestQueue, Label, CleanupStatus
<1>6. CASE RequestRelease(s)
  BY SMTT(60), <1>6, GotoType
     DEF TypeOK, RequestRelease, Label
<1>7. CASE RequestDispatch(s)
  BY <1>7, EndJobTypes, TaskTypes
     DEF TypeOK, RequestDispatch, EndJob
<1>8. CASE RequestDispatchFails(s)
  BY <1>8, EndJobTypes, TaskTypes, CleanupType, FaultType
     DEF TypeOK, RequestDispatchFails, EndJob, CleanupStatus
<1>9. CASE Requested(s)
  BY ZenonT(60), <1>9, GotoType, EndJobTypes, BuildWriteTypes
     DEF TypeOK, Requested, Label, EndJob
<1>10. CASE RequestRaises(s)
  BY <1>10, EndJobTypes, BuildWriteTypes
     DEF TypeOK, RequestRaises, EndJob, TeardownStatus
<1> QED
  BY <1>1, <1>2, <1>3, <1>4, <1>5, <1>6, <1>7, <1>8, <1>9, <1>10
     DEF RequestStep

\* BuildCleanupRunner.run and sync_teardown keep the types.
LEMMA RunStepTypes ==
    ASSUME TypeOK, NEW s \in Session, RunStep(s)
    PROVE  RestOK'
<1> USE DEF RestOK, rowVars, outsideVars, queueVars, bounds
<1>1. CASE RunClaim(s)
  BY SMTT(60), <1>1, GotoType
     DEF TypeOK, RunClaim, Label
<1>2. CASE RunRefused(s)
  BY SMTT(60), <1>2, GotoType
     DEF TypeOK, RunRefused, Label
<1>3. CASE RunMark(s)
  BY SMTT(60), <1>3, GotoType, CleanupType
     DEF TypeOK, RunMark, Label, CleanupStatus
<1>4. CASE Quiesce(s)
  BY SMTT(60), <1>4, GotoType, CleanupType, FaultType
     DEF TypeOK, Quiesce, Label, CleanupStatus
<1>5. CASE \E kind \in Kind : Remove(s, kind) \/ RemoveFails(s, kind)
  <2> PICK kind \in Kind : Remove(s, kind) \/ RemoveFails(s, kind)
    BY <1>5
  <2>1. AfterRemoval[kind] \in Label /\ "run_raises" \in Label
    BY DEF AfterRemoval, Kind, Label
  <2>2. [manifest EXCEPT !.resources[kind] = "removed"] \in BuildResources
    BY DEF TypeOK, BuildResources, ResourceState
  <2>3. CASE Remove(s, kind)
    BY <2>1, <2>2, <2>3, GotoType DEF TypeOK, Remove
  <2>4. CASE RemoveFails(s, kind)
    BY <2>1, <2>4, GotoType, FaultType DEF TypeOK, RemoveFails
  <2> QED
    BY <2>3, <2>4
<1>6. CASE Verdict(s)
  BY SMTT(60), <1>6, GotoType, CleanupType, FaultType
     DEF TypeOK, Verdict, Label, CleanupStatus
<1>7. CASE RunRelease(s)
  BY SMTT(60), <1>7, GotoType
     DEF TypeOK, RunRelease, Label
<1>8. CASE Sync(s)
  <2>1. SyncLabel[manifest.cleanup_status] \in Label
    BY DEF TypeOK, BuildResources, CleanupStatus, SyncLabel, Label
  <2> QED
    BY <1>8, <2>1, GotoType, EndJobTypes DEF TypeOK, Sync, EndJob
<1>9. CASE SyncWrite(s)
  <2>1. SyncStatus[pc[s]] \in TeardownStatus
    BY <1>9 DEF SyncWrite, SyncStatus, TeardownStatus
  <2>2. At(s, "sync_succeeded") \in BOOLEAN
    BY DEF At
  <2>3. build' \in BuildJob
    BY <1>9, <2>1, <2>2, BuildWriteTypes DEF TypeOK, SyncWrite
  <2> QED
    BY <1>9, <2>3, EndJobTypes DEF TypeOK, SyncWrite, EndJob
<1> QED
  BY <1>1, <1>2, <1>3, <1>4, <1>5, <1>6, <1>7, <1>8, <1>9
     DEF RunStep

\* The leased parts of the recovery ticks keep the types.
LEMMA RecoverStepTypes ==
    ASSUME TypeOK, NEW s \in Session, RecoverStep(s)
    PROVE  RestOK'
<1> USE DEF RestOK, rowVars, outsideVars, queueVars, bounds
<1>1. CASE RecoverInputsFail(s)
  BY <1>1, GotoType, FailedBuildType
     DEF TypeOK, RecoverInputsFail, Label
<1>2. CASE RecoverClaim(s)
  BY SMTT(60), <1>2, GotoType
     DEF TypeOK, RecoverClaim, Label
<1>3. CASE RecoverRefused(s)
  BY <1>3, EndJobTypes
     DEF TypeOK, RecoverRefused, EndJob
<1>4. CASE RecoverFail(s)
  BY SMTT(60), <1>4, GotoType, FailedBuildType
     DEF TypeOK, RecoverFail, Label
<1>5. CASE RecoverRelease(s)
  BY SMTT(60), <1>5, GotoType
     DEF TypeOK, RecoverRelease, Label
<1> QED
  BY <1>1, <1>2, <1>3, <1>4, <1>5
     DEF RecoverStep

\* Every step of a running handler keeps the types.
LEMMA StepTypes ==
    ASSUME TypeOK, NEW s \in Session, Step(s)
    PROVE  RestOK'
  BY QueueStepTypes, StartStepTypes, PollStepTypes, DynamicStepTypes,
     EndStepTypes, RecheckStepTypes, RequestStepTypes, RunStepTypes,
     RecoverStepTypes
     DEF Step

\* What a session can be given to do is a job.
LEMMA JobTypes ==
    /\ Task \subseteq Job
    /\ Tick \in Job /\ NoJob \in Job
    /\ CleanupRequest \in Job /\ RecheckRequest \in Job
  BY DEF Job, Tick, NoJob, CleanupRequest, RecheckRequest

\* Receiving a message and the beat ticks keep the types.
LEMMA WorkerTypes ==
    ASSUME TypeOK, NEW w \in Session,
           Deliver(w) \/ RecoverBuilds(w) \/ RecoverCleanup(w)
              \/ RecoverRouteChecks(w)
    PROVE  RestOK'
<1> USE DEF RestOK, rowVars, outsideVars, bounds
<1>1. ASSUME NEW m \in tasks, DeliverOperation(w, m)
      PROVE  RestOK'
  <2>1. m \in Task /\ m[1] \in Label
    BY <1>1 DEF TypeOK, DeliverOperation, Operation, Label
  <2> QED
    BY <1>1, <2>1, GotoType, JobTypes DEF TypeOK, DeliverOperation
<1>2. ASSUME NEW m \in tasks, DeliverRefused(w, m)
      PROVE  RestOK'
  <2>1. m \in Task /\ "teardown" \in Label
    BY DEF TypeOK, Label
  <2> QED
    BY <1>2, <2>1, GotoType, JobTypes DEF TypeOK, DeliverRefused
<1>3. CASE DeliverCleanup(w)
  BY SMTT(60), <1>3, GotoType, JobTypes, TaskTypes DEF TypeOK, DeliverCleanup, Label
<1>4. CASE RecoverStart(w)
  BY <1>4, TaskTypes DEF TypeOK, RecoverStart
<1>5. CASE RecoverPoll(w)
  BY <1>5, TaskTypes DEF TypeOK, RecoverPoll
<1>6. CASE RecoverInputs(w)
  BY SMTT(60), <1>6, GotoType, JobTypes DEF TypeOK, RecoverInputs, Label
<1>7. CASE RecoverCleanup(w)
  BY <1>7, TaskTypes DEF TypeOK, RecoverCleanup
<1>8. CASE RecoverDynamic(w)
  BY <1>8, BuildWriteTypes, TaskTypes DEF TypeOK, RecoverDynamic
<1>9. CASE RecoverTeardown(w)
  BY SMTT(60), <1>9, GotoType, JobTypes DEF TypeOK, RecoverTeardown, Label
<1> QED
  BY <1>1, <1>2, <1>3, <1>4, <1>5, <1>6, <1>7, <1>8, <1>9
     DEF Deliver, RecoverBuilds, RecoverRouteChecks

\* DELETE and recheck requests keep the types.
LEMMA ApiTypes ==
    ASSUME TypeOK, NEW a \in Session, CleanupRequested(a) \/ RecheckRequested(a)
    PROVE  RestOK'
<1> USE DEF RestOK, rowVars, outsideVars
<1>1. requests' \in 0..MaxRequests /\ faults' \in 0..MaxFaults
  BY BoundAssumption DEF TypeOK, Ask, CleanupRequested, RecheckRequested
<1>2. CASE CleanupRequested(a)
  BY SMTT(60), <1>1, <1>2, GotoType, JobTypes DEF TypeOK, CleanupRequested, Label
<1>3. CASE RecheckRequested(a)
  BY SMTT(60), <1>1, <1>3, GotoType, JobTypes DEF TypeOK, RecheckRequested, Label
<1> QED
  BY <1>2, <1>3

\* Crashes, redelivery, Jenkins and the clock keep the types.
LEMMA EnvironmentTypes ==
    ASSUME TypeOK,
           \/ \E s \in Session : Crash(s) \/ Redeliver(s)
           \/ JenkinsStep \/ PollAges \/ LeaseExpires
    PROVE  RestOK'
<1> USE DEF RestOK, rowVars, outsideVars, queueVars
<1>1. ASSUME NEW s \in Session, Crash(s)
      PROVE  RestOK'
  BY SMTT(60), <1>1, GotoType, JobTypes, FaultType DEF TypeOK, Crash, Label
<1>2. ASSUME NEW s \in Session, Redeliver(s)
      PROVE  RestOK'
  BY <1>2, FaultType DEF TypeOK, Redeliver
<1>3. CASE JenkinsStep
  <2>1. jenkins' \in Jenkins /\ live' \subseteq Kind
    BY <1>3 DEF TypeOK, JenkinsStep, Jenkins, Kind
  <2> QED
    BY <1>3, <2>1 DEF TypeOK, JenkinsStep, bounds
<1>4. CASE PollAges
  BY <1>4, BuildWriteTypes DEF TypeOK, PollAges, bounds
<1>5. CASE LeaseExpires
  BY <1>5, FaultType DEF TypeOK, LeaseExpires
<1> QED
  BY <1>1, <1>2, <1>3, <1>4, <1>5

\* A build that queue_build has just created is well-typed.
LEMMA InitTypes == Init => TypeOK
<1> SUFFICES ASSUME Init PROVE TypeOK
  OBVIOUS
<1>1. LeaseTypeOK
  BY DEF Init, LeaseInit, LeaseTypeOK, Free
<1>2. build \in BuildJob /\ manifest \in BuildResources /\ jenkins \in Jenkins
  BY DEF Init, BuildJob, BuildStatus, DynamicStatus, TeardownStatus,
         BuildResources, CleanupStatus, ResourceState, Jenkins
<1>3. pc \in [Session -> Label] /\ job \in [Session -> Job]
  BY DEF Init, Label, Job, QueueRequest, NoJob
<1> QED
  BY <1>1, <1>2, <1>3, BoundAssumption DEF Init, TypeOK

\* The rows, the broker, Jenkins and every session's place keep their types
\* in every execution of start_build, poll_build, cleanup and recovery.
THEOREM TypeCorrect == Spec => []TypeOK
<1>1. TypeOK /\ [Next]_vars => TypeOK'
  <2> SUFFICES ASSUME TypeOK, [Next]_vars
               PROVE  TypeOK'
    OBVIOUS
  <2>1. LeaseTypeOK'
    BY LeaseStep, LeaseTypeStep DEF TypeOK
  <2>2. RestOK'
    <3>1. CASE UNCHANGED vars
      BY <3>1 DEF TypeOK, RestOK, vars, rowVars, outsideVars, queueVars, bounds
    <3> QED
      BY <3>1, StepTypes, WorkerTypes, ApiTypes, EnvironmentTypes,
         ProcessAssumption
         DEF Next
  <2> QED
    BY <2>1, <2>2 DEF TypeOK, RestOK
<1> QED
  BY <1>1, InitTypes, PTL DEF Spec

\* As long as no lease runs out under a live holder, no two operations on the
\* build are inside their `with build_lease` blocks together.
THEOREM OperationsExclude == Spec => []Exclusive
  BY DeliveryUsesLease, LeaseExclusive, PTL

=============================================================================
