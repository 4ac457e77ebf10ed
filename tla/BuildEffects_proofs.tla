------------------------ MODULE BuildEffects_proofs ------------------------
(***************************************************************************)
(* What holds as long as no lease runs out while its holder is alive: the  *)
(* effects of a delivery outside the database.  Jenkins is triggered at    *)
(* most once; whatever exists is on record; nothing is removed while a     *)
(* Jenkins run could push more of it; a cleanup that reports success has   *)
(* left nothing; and a build reported as succeeded runs and has passed its *)
(* check.  The runs double_trigger and late_create show what lapses do.    *)
(*                                                                         *)
(* None of these is inductive.  Each of the three sections strengthens its *)
(* properties (TriggerInv, EffectsInv, SuccessInv) by what a session knows *)
(* where it stands.  Without lapses a session inside a lease block is the  *)
(* only one there (AloneInBlock), so what it knows can be spoilt only by   *)
(* sessions outside every block, which write next to nothing.              *)
(***************************************************************************)
EXTENDS BuildCleanup_proofs

\* Without lapses the session inside a lease block passes the guard, and is
\* the only one inside.
LEMMA SoleHolder ==
    ASSUME LeaseInv, ~LeaseMayLapse, NEW s \in holding
    PROVE  guard(s) /\ holding = {s}
  BY DEF LeaseInv, HoldersGuarded, guard

\* The same, told from where a session stands.
LEMMA AloneInBlock ==
    ASSUME LeaseInv, ~LeaseMayLapse, CleanupInv,
           NEW s \in Session, InBlock(s)
    PROVE  guard(s) /\ \A t \in Session \ {s} : ~InBlock(t)
  BY SoleHolder DEF CleanupInv, Sound, BlockHeld

\* What CleanupInv comes to for one session
Placed(s) ==
    /\ InBlock(s) => guard(s)
    /\ Delivering(s) => manifest.cleanup_status = "not_started"
    /\ Removing(s) => manifest.cleanup_status = "running"
    /\ pc[s] \in RequestLabel =>
          job[s] \in {CleanupTask, CleanupRequest} \/ Marked
    /\ pc[s] \in Syncing => Marked
    /\ job[s] = CleanupTask => pc[s] \in RunLabel \cup Syncing \cup {"sync"}

\* ... when no lease lapses
LEMMA InPlace ==
    ASSUME LeaseInv, ~LeaseMayLapse, CleanupInv, NEW s \in Session
    PROVE  Placed(s)
<1>1. InBlock(s) => guard(s)
  BY AloneInBlock
<1>2. Sound(s)
  BY DEF CleanupInv
<1> QED
  BY <1>1, <1>2
     DEF Placed, Sound, StatusKnown, TeardownSound, Delivering, Removing,
         InBlock, Outside

-----------------------------------------------------------------------------
(***************************************************************************)
(* At most one trigger.  TriggerInv ties the count to the two durable      *)
(* marks, jenkins_trigger_pending and jenkins_queue_url, and to where a    *)
(* session stands between reading them and triggering.                     *)
(***************************************************************************)
\* where poll_build and start_build begin and everything of _start_build
Starting ==
    {"start", "poll", "to_validating", "validate", "to_triggering",
     "trigger_check", "gate", "mark_pending", "trigger", "not_started",
     "triggered", "store_queue_url", "clear_pending", "to_building",
     "schedule_first"}

\* between the test of the marks and the trigger's answer
Committed == {"gate", "mark_pending", "trigger", "not_started"}

\* what a session knows of the marks where it stands
Knows(s) ==
    /\ pc[s] \in Starting => s \in holding
    /\ pc[s] = "trigger_check" => ~build.jenkins_queue_url
    /\ pc[s] \in Committed => jenkins.triggers = 0
    /\ pc[s] = "trigger" => manifest.jenkins_trigger_pending
    /\ pc[s] = "clear_pending" => build.jenkins_queue_url

\* Whoever triggered left a mark; it was one trigger.
TriggerInv ==
    /\ jenkins.triggers > 0 =>
          manifest.jenkins_trigger_pending \/ build.jenkins_queue_url
    /\ jenkins.triggers <= 1
    /\ \A s \in Session : Knows(s)

-----------------------------------------------------------------------------
\* A step of s that leaves the trigger count and both marks alone ...
SameMarks ==
    /\ jenkins'.triggers = jenkins.triggers
    /\ manifest'.jenkins_trigger_pending = manifest.jenkins_trigger_pending
    /\ build'.jenkins_queue_url = build.jenkins_queue_url

\* ... and no other session's place or lease block
OnlySession(s) ==
    \A t \in Session \ {s} : pc'[t] = pc[t] /\ (t \in holding => t \in holding')

\* ... keeps the invariant if s does not enter the start operation by it.
LEMMA MarksKept ==
    ASSUME TriggerInv, NEW s \in Session, SameMarks, OnlySession(s), Knows(s)'
    PROVE  TriggerInv'
  BY DEF TriggerInv, SameMarks, OnlySession, Knows

\* The operations other than start and poll neither touch the marks nor
\* enter the start operation.
Elsewhere(s) ==
    /\ SameMarks
    /\ OnlySession(s)
    /\ pc'[s] \notin Starting

\* What the helpers that rewrite the two rows leave alone of them.
LEMMA HelpersKeepMarks ==
    ASSUME TypeOK
    PROVE  /\ FailedBuild(build).jenkins_queue_url = build.jenkins_queue_url
           /\ \A kind \in Kind :
                 Track(kind).jenkins_trigger_pending
                    = manifest.jenkins_trigger_pending
  BY DEF TypeOK, BuildJob, BuildResources, FailedBuild, Track

\* queue_build works on a build that has not been started.
LEMMA QueueElsewhere ==
    ASSUME TypeOK, NEW s \in Session, QueueStep(s)
    PROVE  Elsewhere(s)
  BY HelpersKeepMarks
     DEF TypeOK, BuildJob, Kind, Elsewhere, SameMarks, OnlySession, Starting,
         Goto, EndJob, EndJobSending, leaseVars, rowVars, outsideVars,
         claim_build_lease, release_build_lease,
         QueueStep, QueueClaim, QueueRefused, TrackWorkspace, Snapshot,
         QueueFail, InputsReady, QueueRelease, Dispatch, DispatchFails, Abort

\* The dynamic check and a failing or finished operation go on behind the
\* trigger.
LEMMA DynamicElsewhere ==
    ASSUME TypeOK, NEW s \in Session, DynamicStep(s) \/ EndStep(s)
    PROVE  Elsewhere(s)
  BY ZenonT(60), HelpersKeepMarks
     DEF TypeOK, BuildJob, Elsewhere, SameMarks, OnlySession, Starting,
         Goto, EndJob, EndJobSending, Transition, leaseVars, rowVars,
         outsideVars, queueVars, claim_build_lease, release_build_lease,
         DynamicStep, DynamicRouteCheck, DynamicExecute, DynamicVerdict,
         DynamicFail, DynamicDone, ToSucceeded,
         EndStep, Fail, FailDeploying, FailBuild, Done, After

\* A recheck reopens a build for its dynamic check only.
LEMMA RecheckElsewhere ==
    ASSUME TypeOK, NEW s \in Session, RecheckStep(s) \/ RecoverStep(s)
    PROVE  Elsewhere(s)
  BY ZenonT(60), HelpersKeepMarks
     DEF TypeOK, BuildJob, Elsewhere, SameMarks, OnlySession, Starting,
         Goto, EndJob, EndJobSending, leaseVars, rowVars,
         outsideVars, queueVars, claim_build_lease, release_build_lease,
         RecheckStep, RecheckClaim, RecheckRefused, Recheck, RecheckRelease,
         RecheckDispatch, RecoverStep, RecoverInputsFail, RecoverClaim,
         RecoverRefused, RecoverFail, RecoverRelease

\* Requesting a cleanup writes the cleanup and teardown fields only.
LEMMA RequestElsewhere ==
    ASSUME TypeOK, NEW s \in Session, RequestStep(s)
    PROVE  Elsewhere(s)
<1> USE DEF TypeOK, BuildJob, BuildResources, Elsewhere, SameMarks,
            OnlySession, Starting, Goto, EndJob, EndJobSending, leaseVars,
            rowVars, outsideVars, queueVars, claim_build_lease,
            release_build_lease
<1>1. CASE RequestQueue(s)
  BY <1>1 DEF RequestQueue
<1>2. CASE RequestDispatchFails(s)
  BY <1>2 DEF RequestDispatchFails
<1>3. CASE Requested(s) \/ RequestRaises(s)
  BY ZenonT(60), <1>3 DEF Requested, RequestRaises
<1>4. CASE Teardown(s) \/ TeardownFails(s) \/ RequestClaim(s) \/ RequestRefused(s)
  BY <1>4 DEF Teardown, TeardownFails, RequestClaim, RequestRefused
<1>5. CASE RequestRelease(s) \/ RequestDispatch(s)
  BY <1>5 DEF RequestRelease, RequestDispatch
<1> QED
  BY <1>1, <1>2, <1>3, <1>4, <1>5 DEF RequestStep

\* Running a cleanup writes the cleanup status and the resources only.
LEMMA RunElsewhere ==
    ASSUME TypeOK, NEW s \in Session, RunStep(s)
    PROVE  Elsewhere(s)
<1> USE DEF TypeOK, BuildJob, BuildResources, Elsewhere, SameMarks,
            OnlySession, Starting, Goto, EndJob, EndJobSending, leaseVars,
            rowVars, outsideVars, queueVars, claim_build_lease,
            release_build_lease
<1>1. ASSUME NEW kind \in Kind, Remove(s, kind) \/ RemoveFails(s, kind)
      PROVE  Elsewhere(s)
  BY <1>1 DEF Remove, RemoveFails, AfterRemoval, Kind
<1>2. CASE Sync(s)
  BY <1>2 DEF Sync, SyncLabel, CleanupStatus
<1>3. CASE SyncWrite(s)
  BY <1>3 DEF SyncWrite
<1> QED
  BY <1>1, <1>2, <1>3
     DEF RunStep, RunClaim, RunRefused, RunMark, Quiesce, Verdict, RunRelease

-----------------------------------------------------------------------------
\* poll_build hands a build that was not triggered yet to the start
\* operation, inside the same lease block.
LEMMA PollKeeps ==
    ASSUME TypeOK, TriggerInv, NEW s \in Session, PollStep(s)
    PROVE  TriggerInv'
<1> USE DEF TypeOK, BuildJob, SameMarks, OnlySession, Knows, Starting,
            Committed, Goto, leaseVars, rowVars, outsideVars, queueVars
<1>1. CASE PollBuild(s)
  <2>1. s \in holding'
    BY <1>1 DEF PollBuild, TriggerInv, At
  <2> QED
    BY <1>1, <2>1, MarksKept DEF PollBuild
<1>2. CASE GetQueueItem(s)
  BY ZenonT(60), <1>2, MarksKept DEF GetQueueItem
<1>7. CASE GetBuild(s)
  BY <1>7, MarksKept DEF GetBuild
<1>8. CASE SaveServices(s)
  BY <1>8, MarksKept DEF SaveServices
<1>3. CASE Artifact(s) \/ TrackService(s)
  BY <1>3, MarksKept, HelpersKeepMarks DEF Artifact, TrackService, Kind
<1>4. CASE ToDeploying(s)
  BY <1>4, MarksKept DEF ToDeploying, Transition
<1>5. CASE JenkinsCallFails(s) \/ CreateService(s) \/ ResumeDeployment(s)
  BY <1>5, MarksKept DEF JenkinsCallFails, CreateService, ResumeDeployment
<1>6. CASE ScheduleNext(s)
  BY <1>6, MarksKept DEF ScheduleNext, SchedulePoll
<1> QED
  BY <1>1, <1>2, <1>3, <1>4, <1>5, <1>6, <1>7, <1>8 DEF PollStep

\* _start_build: every step under the lease, which no other session is in.
LEMMA StartKeeps ==
    ASSUME TypeOK, LeaseInv, ~LeaseMayLapse, TriggerInv,
           NEW s \in Session, StartStep(s)
    PROVE  TriggerInv'
<1>1. s \in holding /\ guard(s) /\ \A t \in holding : t = s
  <2>1. pc[s] \in Starting
    BY DEF StartStep, StartBuild, ToValidating, Validate, ToTriggering,
       TriggerCheck, Gate, MarkPending, TriggerBuild, NotStarted, Triggered,
       StoreQueueUrl, ClearPending, ToBuilding, ScheduleFirst, Transition,
       At, Starting
  <2> QED
    BY <2>1, SoleHolder DEF TriggerInv, Knows
<1>2. OnlySession(s)
  BY DEF TypeOK, OnlySession, StartStep, StartBuild, ToValidating, Validate,
     ToTriggering, TriggerCheck, Gate, MarkPending, TriggerBuild, NotStarted,
     Triggered, StoreQueueUrl, ClearPending, ToBuilding, ScheduleFirst,
     SchedulePoll, Transition, Goto, leaseVars
<1>3. holding' = holding
  BY DEF StartStep, StartBuild, ToValidating, Validate,
     ToTriggering, TriggerCheck, Gate, MarkPending, TriggerBuild, NotStarted,
     Triggered, StoreQueueUrl, ClearPending, ToBuilding, ScheduleFirst,
     Transition, leaseVars
\* the other sessions are outside the start operation
<1>4. \A t \in Session \ {s} : pc'[t] = pc[t] /\ pc[t] \notin Starting
  BY <1>1, <1>2 DEF OnlySession, TriggerInv, Knows
<1>5. ASSUME Knows(s)',
             jenkins'.triggers > 0 => manifest'.jenkins_trigger_pending
                                         \/ build'.jenkins_queue_url,
             jenkins'.triggers <= 1
      PROVE  TriggerInv'
  BY <1>4, <1>5 DEF TriggerInv, Knows, Starting, Committed
<1> USE <1>1, <1>3 DEF TypeOK, BuildJob, BuildResources, Knows, Starting,
            Committed, TriggerInv, Goto, At, rowVars, outsideVars, queueVars
<1>6. CASE StartBuild(s) \/ Validate(s) \/ Gate(s) \/ Triggered(s)
  BY <1>5, <1>6 DEF StartBuild, Validate, Gate, Triggered, TriggerOrBuild
<1>7. CASE ToValidating(s) \/ ToTriggering(s) \/ ToBuilding(s)
  BY <1>5, <1>7
     DEF ToValidating, ToTriggering, ToBuilding, Transition, TriggerOrBuild
\* no mark: nothing was triggered
<1>8. CASE TriggerCheck(s)
  BY <1>5, <1>8, HelpersKeepMarks DEF TriggerCheck, Kind, Jenkins
<1>9. CASE MarkPending(s)
  BY <1>5, <1>9 DEF MarkPending
\* the first trigger, under the pending mark
<1>10. CASE TriggerBuild(s)
  BY <1>5, <1>10 DEF TriggerBuild, TriggerAccepted, Jenkins
\* the marks change hands
<1>11. CASE NotStarted(s)
  BY <1>5, <1>11 DEF NotStarted
<1>12. CASE StoreQueueUrl(s)
  BY <1>5, <1>12 DEF StoreQueueUrl
<1>13. CASE ClearPending(s)
  BY <1>5, <1>13 DEF ClearPending
<1>14. CASE ScheduleFirst(s)
  BY <1>5, <1>14 DEF ScheduleFirst, SchedulePoll
<1> QED
  BY <1>6, <1>7, <1>8, <1>9, <1>10, <1>11, <1>12, <1>13, <1>14 DEF StartStep

\* A worker that takes a message enters the start operation with the lease
\* just claimed; the beat ticks only send messages or work elsewhere.
LEMMA WorkerKeeps ==
    ASSUME TypeOK, TriggerInv, NEW w \in Session,
           Deliver(w) \/ RecoverBuilds(w) \/ RecoverCleanup(w)
              \/ RecoverRouteChecks(w)
    PROVE  TriggerInv'
<1> USE DEF TypeOK, SameMarks, OnlySession, Knows, Starting, Committed, Goto,
            leaseVars, rowVars, outsideVars
<1>1. ASSUME NEW m \in tasks, DeliverOperation(w, m)
      PROVE  TriggerInv'
  BY <1>1, MarksKept DEF DeliverOperation, Operation, claim_build_lease
<1>2. ASSUME NEW m \in tasks, DeliverRefused(w, m)
      PROVE  TriggerInv'
  BY <1>2, MarksKept DEF DeliverRefused, At
<1>3. CASE DeliverCleanup(w)
  BY <1>3, MarksKept DEF DeliverCleanup
<1>4. CASE RecoverInputs(w)
  BY <1>4, MarksKept DEF RecoverInputs, claim_build_lease
<1>5. CASE RecoverTeardown(w)
  BY <1>5, MarksKept DEF RecoverTeardown
<1>6. CASE RecoverStart(w) \/ RecoverPoll(w) \/ RecoverDynamic(w)
              \/ RecoverCleanup(w)
  BY <1>6, MarksKept
     DEF RecoverStart, RecoverPoll, RecoverDynamic, RecoverCleanup, At
<1> QED
  BY <1>1, <1>2, <1>3, <1>4, <1>5, <1>6
     DEF Deliver, RecoverBuilds, RecoverRouteChecks

\* Requests, crashes, redeliveries, the clock and Jenkins itself.
LEMMA EnvironmentKeeps ==
    ASSUME TypeOK, TriggerInv, NEW s \in Session,
           \/ CleanupRequested(s) \/ RecheckRequested(s)
           \/ Crash(s) \/ Redeliver(s)
           \/ JenkinsStep \/ PollAges \/ LeaseExpires
    PROVE  TriggerInv'
<1> USE DEF TypeOK, SameMarks, OnlySession, Knows, Starting, Committed, Goto,
            leaseVars, rowVars, outsideVars
<1>1. CASE CleanupRequested(s) \/ RecheckRequested(s)
  BY <1>1, MarksKept DEF CleanupRequested, RecheckRequested
<1>2. CASE Crash(s)
  BY <1>2, MarksKept DEF Crash, HolderDies
<1>3. CASE Redeliver(s)
  BY <1>3, MarksKept DEF Redeliver, TriggerInv
<1>4. CASE JenkinsStep
  BY <1>4, MarksKept DEF JenkinsStep, Jenkins, TriggerInv
<1>5. CASE PollAges
  BY <1>5, MarksKept DEF PollAges, BuildJob, TriggerInv
<1>6. CASE LeaseExpires
  BY <1>6, MarksKept DEF LeaseExpires, Expire, TriggerInv
<1> QED
  BY <1>1, <1>2, <1>3, <1>4, <1>5, <1>6

\* No step of the program or its environment breaks the invariant.
LEMMA TriggerInvStep ==
    ASSUME TypeOK, LeaseInv, ~LeaseMayLapse, TriggerInv, [Next]_vars
    PROVE  TriggerInv'
<1>1. ASSUME NEW s \in Session, Elsewhere(s)
      PROVE  TriggerInv'
  <2>1. Knows(s)'
    BY <1>1 DEF Elsewhere, Knows, Starting, Committed
  <2> QED
    BY <1>1, <2>1, MarksKept DEF Elsewhere
<1>2. ASSUME NEW s \in Session, Step(s)
      PROVE  TriggerInv'
  BY <1>1, <1>2, QueueElsewhere, DynamicElsewhere, RecheckElsewhere,
     RequestElsewhere, RunElsewhere, PollKeeps, StartKeeps
     DEF Step
<1>3. CASE UNCHANGED vars
  BY <1>3 DEF vars, leaseVars, rowVars, outsideVars, TriggerInv, Knows
<1>4. CASE JenkinsStep \/ PollAges \/ LeaseExpires
  <2>1. CASE Session = {}
    BY <1>4, <2>1 DEF TypeOK, TriggerInv, Knows, JenkinsStep, Jenkins,
       PollAges, BuildJob, LeaseExpires, rowVars, outsideVars
  <2> QED
    BY <1>4, <2>1, EnvironmentKeeps
<1> QED
  BY <1>2, <1>3, <1>4, WorkerKeeps, EnvironmentKeeps, ProcessAssumption
     DEF Next

\* The marks hold the trigger count down in every execution without lapses.
LEMMA TriggerInvariant == ASSUME ~LeaseMayLapse PROVE Spec => []TriggerInv
<1>1. Init => TriggerInv
  BY DEF Init, TriggerInv, Knows, Starting, Committed
<1>2. TypeOK /\ LeaseInv /\ TriggerInv /\ [Next]_vars => TriggerInv'
  BY TriggerInvStep
<1>3. Spec => []LeaseInv
  BY DeliveryUsesLease, LeaseInvariant, PTL
<1> QED
  BY <1>1, <1>2, <1>3, TypeCorrect, PTL DEF Spec

\* Crashes, redelivered messages and recovery ticks never make _start_build
\* trigger Jenkins a second time, as long as no lease runs out under a live
\* holder (with lapses it can: run double_trigger).
THEOREM TriggersOnce == ASSUME ~LeaseMayLapse PROVE Spec => []AtMostOneTrigger
<1>1. TriggerInv => AtMostOneTrigger
  BY DEF TriggerInv, AtMostOneTrigger
<1> QED
  BY <1>1, TriggerInvariant, PTL

-----------------------------------------------------------------------------
(***************************************************************************)
(* What exists is on record.  EffectsInv adds where a record must already  *)
(* stand (Recorded: before snapshot, create_service and trigger_build) and *)
(* that a running Jenkins job has its images on record.                    *)
(***************************************************************************)
\* What a session knows of the resources where it creates or removes them
Recorded(s) ==
    /\ At(s, "snapshot") => Tracked("workspace")
    /\ At(s, "create_service") => Tracked("service")
    /\ pc[s] \in {"gate", "mark_pending", "trigger"} => Tracked("image")
    /\ Removing(s) => ~JenkinsActive

\* What stands behind a running Jenkins job
JenkinsKnown ==
    JenkinsActive => Tracked("image") /\ jenkins.triggers > 0

\* Two of the properties, and what they need of Jenkins
World == JenkinsKnown /\ NothingUntracked /\ CleanupLeavesNothing

EffectsInv == World /\ \A s \in Session : Recorded(s)

\* A step of s that touches neither the records nor the outside world, and
\* reports no cleanup as succeeded
Quiet ==
    /\ manifest'.resources = manifest.resources
    /\ live' = live /\ jenkins' = jenkins
    /\ manifest'.cleanup_status = "succeeded" =>
          manifest.cleanup_status = "succeeded"

\* A step of s that stays outside the blocks only to be quiet
Effects(s) == (InBlock(s) \/ Quiet) /\ Recorded(s)' /\ World'

\* Such a step spoils nothing that another session knows.
LEMMA EffectsStep ==
    ASSUME LeaseInv, ~LeaseMayLapse, CleanupInv, EffectsInv,
           NEW s \in Session, OthersStay(s), Effects(s)
    PROVE  EffectsInv'
<1> SUFFICES ASSUME NEW t \in Session \ {s}
             PROVE  Recorded(t)'
  BY DEF EffectsInv, Effects
<1>1. pc'[t] = pc[t] /\ Recorded(t)
  BY DEF OthersStay, EffectsInv
<1>2. CASE InBlock(s)
  <2>1. ~InBlock(t)
    BY <1>2, AloneInBlock
  <2> QED
    BY <1>1, <2>1 DEF Recorded, InBlock, Outside, At, Removing
<1>3. CASE Quiet
  BY <1>1, <1>3
     DEF Recorded, Quiet, At, Removing, Tracked, JenkinsActive
<1> QED
  BY <1>2, <1>3 DEF Effects

\* What the proofs of this section expand
USE DEF Effects, Quiet, Recorded, World, JenkinsKnown, NothingUntracked,
        CleanupLeavesNothing, EffectsInv, Placed, Tracked, JenkinsActive,
        InBlock, Outside, Delivering, CleaningUp, Removing, At, Goto, EndJob,
        EndJobSending, leaseVars, rowVars, outsideVars, queueVars, TypeOK,
        BuildResources

\* queue_build records the workspace before it copies it.
LEMMA QueueEffects ==
    ASSUME TypeOK, EffectsInv, NEW s \in Session, Placed(s), QueueStep(s)
    PROVE  Effects(s)
<1>1. CASE QueueClaim(s)
  BY <1>1 DEF QueueClaim
<1>2. CASE QueueRefused(s)
  BY <1>2 DEF QueueRefused
<1>3. CASE TrackWorkspace(s)
  BY <1>3 DEF TrackWorkspace, Track, Kind
<1>4. CASE Snapshot(s)
  BY <1>4 DEF Snapshot
<1>5. CASE QueueFail(s)
  BY <1>5 DEF QueueFail
<1>6. CASE InputsReady(s)
  BY <1>6 DEF InputsReady
<1>7. CASE QueueRelease(s)
  BY <1>7 DEF QueueRelease
<1>8. CASE Dispatch(s)
  BY <1>8 DEF Dispatch
<1>9. CASE DispatchFails(s)
  BY <1>9 DEF DispatchFails
<1>10. CASE Abort(s)
  BY <1>10 DEF Abort
<1> HIDE DEF Effects, TypeOK, EffectsInv
<1> QED
  BY <1>1, <1>2, <1>3, <1>4, <1>5, <1>6, <1>7, <1>8, <1>9, <1>10
     DEF QueueStep

\* _start_build records the images before it marks and triggers.
LEMMA StartEffects ==
    ASSUME TypeOK, EffectsInv, NEW s \in Session, Placed(s), StartStep(s)
    PROVE  Effects(s)
<1>1. CASE StartBuild(s)
  BY <1>1 DEF StartBuild, TriggerOrBuild
<1>2. CASE ToValidating(s)
  BY <1>2 DEF ToValidating, Transition
<1>3. CASE Validate(s)
  BY <1>3 DEF Validate
<1>4. CASE ToTriggering(s)
  BY <1>4 DEF ToTriggering, Transition, TriggerOrBuild
<1>5. CASE TriggerCheck(s)
  BY <1>5 DEF TriggerCheck, Track, Kind
<1>6. CASE Gate(s)
  BY <1>6 DEF Gate
<1>7. CASE MarkPending(s)
  BY <1>7 DEF MarkPending
<1>8. CASE TriggerBuild(s)
  BY <1>8 DEF TriggerBuild, TriggerAccepted, Jenkins
<1>9. CASE NotStarted(s)
  BY <1>9 DEF NotStarted
<1>10. CASE Triggered(s)
  BY <1>10 DEF Triggered
<1>11. CASE StoreQueueUrl(s)
  BY <1>11 DEF StoreQueueUrl
<1>12. CASE ClearPending(s)
  BY <1>12 DEF ClearPending
<1>13. CASE ToBuilding(s)
  BY <1>13 DEF ToBuilding, Transition
<1>14. CASE ScheduleFirst(s)
  BY <1>14 DEF ScheduleFirst, SchedulePoll
<1> HIDE DEF Effects, TypeOK, EffectsInv
<1> QED
  BY <1>1, <1>2, <1>3, <1>4, <1>5, <1>6, <1>7, <1>8, <1>9, <1>10, <1>11,
     <1>12, <1>13, <1>14
     DEF StartStep

\* deploy_build records every Docker object before it creates it.
LEMMA PollEffects ==
    ASSUME TypeOK, EffectsInv, NEW s \in Session, Placed(s), PollStep(s)
    PROVE  Effects(s)
<1>1. CASE PollBuild(s)
  BY <1>1 DEF PollBuild
<1>2. CASE JenkinsCallFails(s)
  BY <1>2 DEF JenkinsCallFails
<1>3. CASE GetQueueItem(s)
  BY <1>3 DEF GetQueueItem
<1>4. CASE GetBuild(s)
  BY <1>4 DEF GetBuild
<1>5. CASE ScheduleNext(s)
  BY <1>5 DEF ScheduleNext, SchedulePoll
<1>6. CASE Artifact(s)
  BY <1>6 DEF Artifact, Track, Kind
<1>7. CASE ToDeploying(s)
  BY <1>7 DEF ToDeploying, Transition
<1>8. CASE TrackService(s)
  BY <1>8 DEF TrackService, Track, Kind
<1>9. CASE CreateService(s)
  BY <1>9 DEF CreateService
<1>10. CASE SaveServices(s)
  BY <1>10 DEF SaveServices
<1>11. CASE ResumeDeployment(s)
  BY <1>11 DEF ResumeDeployment
<1> HIDE DEF Effects, TypeOK, EffectsInv
<1> QED
  BY <1>1, <1>2, <1>3, <1>4, <1>5, <1>6, <1>7, <1>8, <1>9, <1>10, <1>11
     DEF PollStep

\* The dynamic check neither creates nor removes anything of the build.
LEMMA DynamicEffects ==
    ASSUME TypeOK, EffectsInv, NEW s \in Session, Placed(s), DynamicStep(s)
    PROVE  Effects(s)
<1>1. CASE DynamicRouteCheck(s)
  BY <1>1 DEF DynamicRouteCheck
<1>2. CASE DynamicExecute(s)
  BY <1>2 DEF DynamicExecute
<1>3. CASE DynamicVerdict(s)
  BY <1>3 DEF DynamicVerdict
<1>4. CASE DynamicFail(s)
  BY <1>4 DEF DynamicFail
<1>5. CASE DynamicDone(s)
  BY <1>5 DEF DynamicDone
<1>6. CASE ToSucceeded(s)
  BY <1>6 DEF ToSucceeded, Transition
<1> HIDE DEF Effects, TypeOK, EffectsInv
<1> QED
  BY <1>1, <1>2, <1>3, <1>4, <1>5, <1>6
     DEF DynamicStep

\* _fail leaves the resources to the cleanup.
LEMMA EndEffects ==
    ASSUME TypeOK, EffectsInv, NEW s \in Session, Placed(s), EndStep(s)
    PROVE  Effects(s)
<1>1. CASE Fail(s)
  BY <1>1 DEF Fail
<1>2. CASE FailDeploying(s)
  BY <1>2 DEF FailDeploying
<1>3. CASE FailBuild(s)
  BY <1>3 DEF FailBuild
<1>4. CASE Done(s)
  BY <1>4 DEF Done
<1>5. CASE After(s)
  BY <1>5 DEF After
<1> HIDE DEF Effects, TypeOK, EffectsInv
<1> QED
  BY <1>1, <1>2, <1>3, <1>4, <1>5
     DEF EndStep

\* A recheck creates nothing.
LEMMA RecheckEffects ==
    ASSUME TypeOK, EffectsInv, NEW s \in Session, Placed(s), RecheckStep(s)
    PROVE  Effects(s)
<1>1. CASE RecheckClaim(s)
  BY <1>1 DEF RecheckClaim
<1>2. CASE RecheckRefused(s)
  BY <1>2 DEF RecheckRefused
<1>3. CASE Recheck(s)
  BY <1>3 DEF Recheck
<1>4. CASE RecheckRelease(s)
  BY <1>4 DEF RecheckRelease
<1>5. CASE RecheckDispatch(s)
  BY <1>5 DEF RecheckDispatch
<1> HIDE DEF Effects, TypeOK, EffectsInv
<1> QED
  BY <1>1, <1>2, <1>3, <1>4, <1>5
     DEF RecheckStep

\* request_cleanup only queues.
LEMMA RequestEffects ==
    ASSUME TypeOK, EffectsInv, NEW s \in Session, Placed(s), RequestStep(s)
    PROVE  Effects(s)
<1>1. CASE Teardown(s)
  BY <1>1 DEF Teardown, assert_quiescent
<1>2. CASE TeardownFails(s)
  BY <1>2 DEF TeardownFails
<1>3. CASE RequestClaim(s)
  BY <1>3 DEF RequestClaim
<1>4. CASE RequestRefused(s)
  BY <1>4 DEF RequestRefused
<1>5. CASE RequestQueue(s)
  BY <1>5 DEF RequestQueue
<1>6. CASE RequestRelease(s)
  BY <1>6 DEF RequestRelease, CleanupRequest
<1>7. CASE RequestDispatch(s)
  BY <1>7 DEF RequestDispatch, CleanupTask
<1>8. CASE RequestDispatchFails(s)
  BY <1>8 DEF RequestDispatchFails, CleanupTask
<1>9. CASE Requested(s)
  BY <1>9 DEF Requested, CleanupRequest
<1>10. CASE RequestRaises(s)
  BY <1>10 DEF RequestRaises, CleanupRequest
<1> HIDE DEF Effects, TypeOK, EffectsInv
<1> QED
  BY <1>1, <1>2, <1>3, <1>4, <1>5, <1>6, <1>7, <1>8, <1>9, <1>10
     DEF RequestStep

\* The runner removes after assert_quiescent, and reports success only when
\* nothing is left; under the lease nothing comes after it.
LEMMA RunEffects ==
    ASSUME TypeOK, TriggerInv, EffectsInv, NEW s \in Session, Placed(s), RunStep(s)
    PROVE  Effects(s)
<1>1. CASE RunClaim(s)
  BY <1>1 DEF RunClaim
<1>2. CASE RunRefused(s)
  BY <1>2 DEF RunRefused
<1>3. CASE RunMark(s)
  BY <1>3 DEF RunMark
<1>4. CASE Quiesce(s)
  BY <1>4 DEF Quiesce, assert_quiescent, TriggerInv
<1>5. CASE \E kind \in Kind : Remove(s, kind) \/ RemoveFails(s, kind)
  BY <1>5 DEF Remove, RemoveFails, RemoveLabel, AfterRemoval, Kind
<1>6. CASE Verdict(s)
  BY <1>6 DEF Verdict, NothingLeft, Kind
<1>7. CASE RunRelease(s)
  BY <1>7 DEF RunRelease, CleanupTask
<1>8. CASE Sync(s)
  BY <1>8 DEF Sync, SyncLabel, CleanupStatus
<1>9. CASE SyncWrite(s)
  BY <1>9 DEF SyncWrite
<1> HIDE DEF Effects, TypeOK, EffectsInv
<1> QED
  BY <1>1, <1>2, <1>3, <1>4, <1>5, <1>6, <1>7, <1>8, <1>9
     DEF RunStep

\* The recovery ticks' leased parts only fail builds.
LEMMA RecoverEffects ==
    ASSUME TypeOK, EffectsInv, NEW s \in Session, Placed(s), RecoverStep(s)
    PROVE  Effects(s)
<1>1. CASE RecoverInputsFail(s)
  BY <1>1 DEF RecoverInputsFail
<1>2. CASE RecoverClaim(s)
  BY <1>2 DEF RecoverClaim
<1>3. CASE RecoverRefused(s)
  BY <1>3 DEF RecoverRefused
<1>4. CASE RecoverFail(s)
  BY <1>4 DEF RecoverFail
<1>5. CASE RecoverRelease(s)
  BY <1>5 DEF RecoverRelease
<1> HIDE DEF Effects, TypeOK, EffectsInv
<1> QED
  BY <1>1, <1>2, <1>3, <1>4, <1>5
     DEF RecoverStep

\* A message or a tick that a worker takes up changes nothing outside and
\* starts no session behind a record.
LEMMA WorkerEffects ==
    ASSUME TypeOK, EffectsInv, NEW w \in Session,
           Deliver(w) \/ RecoverBuilds(w) \/ RecoverCleanup(w)
              \/ RecoverRouteChecks(w)
    PROVE  Effects(w)
<1>1. ASSUME NEW m \in tasks, DeliverOperation(w, m)
      PROVE  Effects(w)
  BY <1>1 DEF DeliverOperation, Operation
<1>2. ASSUME NEW m \in tasks, DeliverRefused(w, m)
      PROVE  Effects(w)
  BY <1>2 DEF DeliverRefused
<1>3. CASE DeliverCleanup(w)
  BY <1>3 DEF DeliverCleanup
<1>4. CASE RecoverStart(w) \/ RecoverPoll(w) \/ RecoverDynamic(w)
              \/ RecoverCleanup(w)
  BY <1>4 DEF RecoverStart, RecoverPoll, RecoverDynamic, RecoverCleanup
<1>5. CASE RecoverInputs(w)
  BY <1>5 DEF RecoverInputs
<1>6. CASE RecoverTeardown(w)
  BY <1>6 DEF RecoverTeardown
<1> HIDE DEF Effects, TypeOK, EffectsInv
<1> QED
  BY <1>1, <1>2, <1>3, <1>4, <1>5, <1>6
     DEF Deliver, RecoverBuilds, RecoverRouteChecks

\* A request has no effect yet; a crash leaves rows and resources as they are.
LEMMA RequestedEffects ==
    ASSUME TypeOK, EffectsInv, NEW s \in Session,
           \/ CleanupRequested(s) \/ RecheckRequested(s)
           \/ Crash(s) \/ Redeliver(s)
    PROVE  Effects(s)
<1>1. CASE CleanupRequested(s)
  BY <1>1 DEF CleanupRequested
<1>2. CASE RecheckRequested(s)
  BY <1>2 DEF RecheckRequested
<1>3. CASE Crash(s)
  BY <1>3 DEF Crash
<1>4. CASE Redeliver(s)
  BY <1>4 DEF Redeliver
<1> HIDE DEF Effects, TypeOK, EffectsInv
<1> QED
  BY <1>1, <1>2, <1>3, <1>4

HIDE DEF Effects, Quiet, Recorded, World, JenkinsKnown, NothingUntracked,
         CleanupLeavesNothing, EffectsInv, Placed, Tracked, JenkinsActive,
         InBlock, Outside, Delivering, CleaningUp, Removing, At, Goto, EndJob,
         EndJobSending, leaseVars, rowVars, outsideVars, queueVars, TypeOK,
         BuildResources

\* Every step of a running handler.
LEMMA StepEffects ==
    ASSUME TypeOK, LeaseInv, ~LeaseMayLapse, CleanupInv, TriggerInv, EffectsInv,
           NEW s \in Session, Step(s)
    PROVE  Effects(s)
  BY InPlace, QueueEffects, StartEffects, PollEffects, DynamicEffects,
     EndEffects, RecheckEffects, RequestEffects, RunEffects, RecoverEffects
     DEF Step

\* A Jenkins run that ends has pushed at most images that are on record.
LEMMA EnvironmentEffects ==
    ASSUME TypeOK, EffectsInv,
           JenkinsStep \/ PollAges \/ LeaseExpires \/ UNCHANGED vars
    PROVE  EffectsInv'
<1> USE DEF EffectsInv, World, Recorded, JenkinsKnown, NothingUntracked,
            CleanupLeavesNothing, Removing, At, Tracked, JenkinsActive,
            leaseVars, rowVars, outsideVars, queueVars
<1>1. CASE JenkinsStep
  BY <1>1 DEF JenkinsStep, TypeOK, Jenkins
<1>2. CASE PollAges \/ LeaseExpires \/ UNCHANGED vars
  BY <1>2 DEF PollAges, LeaseExpires, vars
<1> QED
  BY <1>1, <1>2

\* Without lapses, every effect is recorded and no cleanup meets another one.
LEMMA EffectsInvariant == ASSUME ~LeaseMayLapse PROVE Spec => []EffectsInv
<1>1. Init => EffectsInv
  BY DEF Init, EffectsInv, World, Recorded, JenkinsKnown, NothingUntracked,
         CleanupLeavesNothing, Removing, At, JenkinsActive
<1>2. TypeOK /\ LeaseInv /\ CleanupInv /\ TriggerInv /\ EffectsInv /\ [Next]_vars
         => EffectsInv'
  <2> SUFFICES ASSUME TypeOK, LeaseInv, CleanupInv, TriggerInv, EffectsInv,
                      [Next]_vars
               PROVE  EffectsInv'
    OBVIOUS
  <2>1. ASSUME NEW s \in Session, Preserves(s), Effects(s)
        PROVE  EffectsInv'
    BY <2>1, EffectsStep DEF Preserves
  <2>2. ASSUME NEW s \in Session, Step(s)
        PROVE  Preserves(s) /\ Effects(s)
    BY <2>2, StepPreserves, StepEffects
  <2> QED
    BY <2>1, <2>2, WorkerPreserves, RequestedPreserves, WorkerEffects,
       RequestedEffects, EnvironmentEffects, ProcessAssumption
       DEF Next
<1> QED
  BY <1>1, <1>2, TypeCorrect, DeliveryUsesLease, LeaseInvariant,
     CleanupInvariant, TriggerInvariant, PTL
     DEF Spec

\* Everything that exists outside the database is in the manifest, so that a
\* cleanup finds it whenever the process dies: tracker.record comes before
\* every effect, and no record is dropped while its effect can still come.
THEOREM EverythingTracked == ASSUME ~LeaseMayLapse PROVE Spec => []NothingUntracked
<1>1. EffectsInv => NothingUntracked
  BY DEF EffectsInv, World
<1> QED
  BY <1>1, EffectsInvariant, PTL

\* No Jenkins run can push images while a cleanup removes resources:
\* assert_quiescent under the lease and the two trigger marks.
THEOREM RemovalQuiescent ==
    ASSUME ~LeaseMayLapse PROVE Spec => []NoRemovalWhileJenkinsRuns
<1>1. EffectsInv => NoRemovalWhileJenkinsRuns
  BY DEF EffectsInv, Recorded, NoRemovalWhileJenkinsRuns
<1> QED
  BY <1>1, EffectsInvariant, PTL

\* A cleanup that reports success has left nothing, and nothing of the build
\* comes into being after it (with lapses it can: run late_create).
THEOREM CleanupComplete ==
    ASSUME ~LeaseMayLapse PROVE Spec => []CleanupLeavesNothing
<1>1. EffectsInv => CleanupLeavesNothing
  BY DEF EffectsInv, World
<1> QED
  BY <1>1, EffectsInvariant, PTL

-----------------------------------------------------------------------------
(***************************************************************************)
(* What succeeded is running.  SuccessInv adds that a check that was asked *)
(* for has a number, which tells its messages from those of a build that   *)
(* was never checked; that saved service_ids and a check under way mean the *)
(* services exist; and what the sessions around the verdict know.          *)
(***************************************************************************)
\* A route check that was asked for and has not failed
Checked == build.dynamic_status \in {"queued", "running", "succeeded"}

\* The number of the run a dynamic_route_check message names
Numbered(m) == m[1] = "dynamic" => m[2] > 0

\* A check that was asked for has a number; what was deployed is there.
Deployment ==
    /\ Checked => build.dynamic_run_id > 0
    /\ build.dynamic_run_id > 0 => build.dynamic_status # "pending"
    /\ manifest.cleanup_status = "not_started" /\ (build.service_ids \/ Checked)
          => "service" \in live
    /\ \A m \in tasks : Numbered(m)
    /\ SucceededIsRunning

\* What a session knows of the deployment where it stands
Deployed(s) ==
    /\ Numbered(job[s])
    /\ At(s, "dynamic") => job[s][2] > 0
    /\ pc[s] \in {"recheck_claim", "recheck"} => build.service_ids
    /\ pc[s] \in {"recheck_release", "recheck_dispatch", "dynamic_verdict"} =>
          build.dynamic_run_id > 0
    /\ pc[s] \in {"save_services", "dynamic_verdict", "to_succeeded"} =>
          "service" \in live
    /\ At(s, "dynamic_execute") =>
          "service" \in live \/ build.dynamic_status = "failed"
    /\ pc[s] \in {"dynamic_verdict", "dynamic_fail", "fail_deploying"} =>
          build.status # "succeeded"
    /\ At(s, "to_succeeded") =>
          build.dynamic_status = "succeeded" /\ ~build.teardown_required

SuccessInv == Deployment /\ \A s \in Session : Deployed(s)

\* No step takes back that services were saved or a run was numbered ...
DeploymentGrows ==
    /\ build.service_ids => build'.service_ids
    /\ build.dynamic_run_id > 0 => build'.dynamic_run_id > 0

\* ... and a step outside every lease block at most fails the build, and
\* marks it for teardown only when it was marked.
Aside ==
    /\ live' = live
    /\ build'.dynamic_status = build.dynamic_status
    /\ build'.status \in {build.status, "failed"}
    /\ build'.teardown_required => Marked

\* A step of s that stays outside the blocks only to stand aside
Advances(s) ==
    (InBlock(s) \/ Aside) /\ DeploymentGrows /\ Deployed(s)' /\ Deployment'

\* Such a step spoils nothing that another session knows.
LEMMA SuccessStep ==
    ASSUME LeaseInv, ~LeaseMayLapse, CleanupInv, SuccessInv,
           NEW s \in Session, OthersStay(s), Advances(s)
    PROVE  SuccessInv'
<1> SUFFICES ASSUME NEW t \in Session \ {s}
             PROVE  Deployed(t)'
  BY DEF SuccessInv, Advances
<1>1. pc'[t] = pc[t] /\ job'[t] = job[t] /\ Deployed(t) /\ DeploymentGrows
  BY DEF OthersStay, SuccessInv, Advances
<1>2. CASE InBlock(s)
  <2>1. ~InBlock(t)
    BY <1>2, AloneInBlock
  <2> QED
    BY <1>1, <2>1 DEF Deployed, DeploymentGrows, InBlock, Outside, At
<1>3. CASE Aside
  \* the build is not marked when t is about to report its success
  <2>1. At(t, "to_succeeded") => ~Marked
    <3>1. At(t, "to_succeeded") => Delivering(t) /\ guard(t)
      BY AloneInBlock DEF At, Delivering, InBlock, Outside, CleaningUp
    <3> QED
      BY <1>1, <3>1
         DEF CleanupInv, Sound, StatusKnown, Marked, Deployed
  <2> QED
    BY <1>1, <1>3, <2>1 DEF Deployed, DeploymentGrows, Aside, At
<1> QED
  BY <1>2, <1>3 DEF Advances

\* What the proofs of this section expand
USE DEF Advances, Aside, DeploymentGrows, Deployed, Deployment, Checked,
        Numbered, SucceededIsRunning, SuccessInv, Placed, Marked, InBlock,
        Outside, Delivering, CleaningUp, Removing, RequestLabel, RunLabel,
        Syncing, At, Goto, EndJob, EndJobSending, leaseVars, rowVars,
        outsideVars, queueVars, TypeOK, BuildJob, BuildResources

\* The services of a build that is being queued do not exist yet.
LEMMA QueueAdvances ==
    ASSUME TypeOK, SuccessInv, NEW s \in Session, Placed(s), QueueStep(s)
    PROVE  Advances(s)
<1>1. CASE QueueClaim(s)
  BY <1>1 DEF QueueClaim
<1>2. CASE QueueRefused(s)
  BY <1>2 DEF QueueRefused, NoJob
<1>3. CASE TrackWorkspace(s)
  BY <1>3 DEF TrackWorkspace, Track
<1>4. CASE Snapshot(s)
  BY <1>4 DEF Snapshot
<1>5. CASE QueueFail(s)
  BY <1>5 DEF QueueFail, FailedBuild
<1>6. CASE InputsReady(s)
  BY <1>6 DEF InputsReady
<1>7. CASE QueueRelease(s)
  BY <1>7 DEF QueueRelease
<1>8. CASE Dispatch(s)
  BY <1>8 DEF Dispatch, NoJob, StartTask
<1>9. CASE DispatchFails(s)
  BY <1>9 DEF DispatchFails, FailedBuild, NoJob, StartTask
<1>10. CASE Abort(s)
  BY <1>10 DEF Abort, NoJob
<1> HIDE DEF Advances, TypeOK, SuccessInv
<1> QED
  BY <1>1, <1>2, <1>3, <1>4, <1>5, <1>6, <1>7, <1>8, <1>9, <1>10
     DEF QueueStep

\* _start_build leaves the check and the services alone.
LEMMA StartAdvances ==
    ASSUME TypeOK, SuccessInv, NEW s \in Session, Placed(s), StartStep(s)
    PROVE  Advances(s)
<1>1. CASE StartBuild(s)
  BY <1>1 DEF StartBuild, TriggerOrBuild
<1>2. CASE ToValidating(s)
  BY <1>2 DEF ToValidating, Transition
<1>3. CASE Validate(s)
  BY <1>3 DEF Validate
<1>4. CASE ToTriggering(s)
  BY <1>4 DEF ToTriggering, Transition, TriggerOrBuild
<1>5. CASE TriggerCheck(s)
  BY <1>5 DEF TriggerCheck, Track
<1>6. CASE Gate(s)
  BY <1>6 DEF Gate
<1>7. CASE MarkPending(s)
  BY <1>7 DEF MarkPending
<1>8. CASE TriggerBuild(s)
  BY <1>8 DEF TriggerBuild
<1>9. CASE NotStarted(s)
  BY <1>9 DEF NotStarted
<1>10. CASE Triggered(s)
  BY <1>10 DEF Triggered
<1>11. CASE StoreQueueUrl(s)
  BY <1>11 DEF StoreQueueUrl
<1>12. CASE ClearPending(s)
  BY <1>12 DEF ClearPending
<1>13. CASE ToBuilding(s)
  BY <1>13 DEF ToBuilding, Transition
<1>14. CASE ScheduleFirst(s)
  BY <1>14 DEF ScheduleFirst, SchedulePoll, PollTask
<1> HIDE DEF Advances, TypeOK, SuccessInv
<1> QED
  BY <1>1, <1>2, <1>3, <1>4, <1>5, <1>6, <1>7, <1>8, <1>9, <1>10, <1>11,
     <1>12, <1>13, <1>14
     DEF StartStep

\* A deployment saves service_ids only after it created the services.
LEMMA PollAdvances ==
    ASSUME TypeOK, SuccessInv, NEW s \in Session, Placed(s), PollStep(s)
    PROVE  Advances(s)
<1>1. CASE PollBuild(s)
  BY <1>1 DEF PollBuild
<1>2. CASE JenkinsCallFails(s)
  BY <1>2 DEF JenkinsCallFails
<1>3. CASE GetQueueItem(s)
  <2>1. /\ build'.status = build.status
        /\ build'.dynamic_status = build.dynamic_status
        /\ build'.dynamic_run_id = build.dynamic_run_id
        /\ build'.service_ids = build.service_ids
        /\ build'.teardown_required = build.teardown_required
    BY <1>3 DEF GetQueueItem
  <2>2. pc'[s] \in {"fail", "schedule_next", "get_build"}
    BY <1>3 DEF GetQueueItem
  <2>3. UNCHANGED <<manifest, live, job, tasks>>
    BY <1>3 DEF GetQueueItem
  <2> QED
    BY <1>3, <2>1, <2>2, <2>3 DEF GetQueueItem
<1>4. CASE GetBuild(s)
  BY <1>4 DEF GetBuild
<1>5. CASE ScheduleNext(s)
  BY <1>5 DEF ScheduleNext, SchedulePoll, PollTask
<1>6. CASE Artifact(s)
  BY <1>6 DEF Artifact, Track
<1>7. CASE ToDeploying(s)
  BY <1>7 DEF ToDeploying, Transition
<1>8. CASE TrackService(s)
  BY <1>8 DEF TrackService, Track
<1>9. CASE CreateService(s)
  BY <1>9 DEF CreateService
<1>10. CASE SaveServices(s)
  BY <1>10 DEF SaveServices
<1>11. CASE ResumeDeployment(s)
  BY <1>11 DEF ResumeDeployment, DynamicStatus
<1> HIDE DEF Advances, TypeOK, SuccessInv
<1> QED
  BY <1>1, <1>2, <1>3, <1>4, <1>5, <1>6, <1>7, <1>8, <1>9, <1>10, <1>11
     DEF PollStep

\* A build succeeds only on the verdict of its own check, taken while its
\* services run.
LEMMA DynamicAdvances ==
    ASSUME TypeOK, SuccessInv, NEW s \in Session, Placed(s), DynamicStep(s)
    PROVE  Advances(s)
<1>1. CASE DynamicRouteCheck(s)
  BY <1>1 DEF DynamicRouteCheck, DynamicStatus
<1>2. CASE DynamicExecute(s)
  <2>1. build.dynamic_run_id \in Nat /\ build.dynamic_status \in DynamicStatus
    BY DEF TypeOK
  <2> DEFINE start == /\ guard(s) /\ build.status = "deploying"
                      /\ build.dynamic_status \notin {"succeeded", "failed"}
  <2>2. CASE start
    <3>1. /\ build'.status = "deploying"
          /\ build'.dynamic_status = "running"
          /\ build'.service_ids = build.service_ids
          /\ build'.teardown_required = build.teardown_required
      BY <1>2, <2>2 DEF DynamicExecute
    <3>2. build'.dynamic_run_id = IF build.dynamic_run_id = 0 THEN 1
                                  ELSE build.dynamic_run_id
      BY <1>2, <2>2 DEF DynamicExecute
    <3>3. build'.dynamic_run_id > 0
      BY <2>1, <3>2
    <3>4. pc'[s] = "dynamic_verdict" /\ UNCHANGED <<manifest, live, job, tasks>>
      BY <1>2, <2>2 DEF DynamicExecute
    <3> QED
      BY <1>2, <2>2, <3>1, <3>3, <3>4 DEF DynamicExecute
  <2>3. CASE ~start
    <3>1. build' = build /\ UNCHANGED <<manifest, live, job, tasks>>
      BY <1>2, <2>3 DEF DynamicExecute
    <3>2. \/ pc'[s] \in {"fail", "dynamic_done"}
          \/ pc'[s] = "dynamic_fail" /\ build.status = "deploying"
      BY <1>2, <2>3 DEF DynamicExecute
    <3> QED
      BY <1>2, <3>1, <3>2 DEF DynamicExecute
  <2> HIDE DEF start, Advances
  <2> QED
    BY <2>2, <2>3
<1>3. CASE DynamicVerdict(s)
  <2>1. /\ build'.status = build.status
        /\ build'.dynamic_run_id = build.dynamic_run_id
        /\ build'.service_ids = build.service_ids
    BY <1>3 DEF DynamicVerdict
  <2>2. \/ /\ pc'[s] = "dynamic_done"
           /\ build'.dynamic_status = "succeeded"
           /\ build'.teardown_required = build.teardown_required
        \/ /\ pc'[s] = "dynamic_fail"
           /\ build'.dynamic_status = "failed"
        \/ /\ pc'[s] = "fail"
           /\ build' = build
    BY <1>3 DEF DynamicVerdict
  <2>3. UNCHANGED <<manifest, live, job, tasks>>
    BY <1>3 DEF DynamicVerdict
  <2>4. build.dynamic_run_id > 0
    BY <1>3 DEF DynamicVerdict
  <2> QED
    BY <1>3, <2>1, <2>2, <2>3, <2>4 DEF DynamicVerdict
<1>4. CASE DynamicFail(s)
  BY <1>4 DEF DynamicFail, FailedBuild
<1>5. CASE DynamicDone(s)
  BY <1>5 DEF DynamicDone
<1>6. CASE ToSucceeded(s)
  BY <1>6 DEF ToSucceeded, Transition, CanTransition
<1> HIDE DEF Advances, TypeOK, SuccessInv
<1> QED
  BY <1>1, <1>2, <1>3, <1>4, <1>5, <1>6
     DEF DynamicStep

\* _fail marks only builds that have not succeeded.
LEMMA EndAdvances ==
    ASSUME TypeOK, SuccessInv, NEW s \in Session, Placed(s), EndStep(s)
    PROVE  Advances(s)
<1>1. CASE Fail(s)
  BY <1>1 DEF Fail
<1>2. CASE FailDeploying(s)
  BY <1>2 DEF FailDeploying
<1>3. CASE FailBuild(s)
  BY <1>3 DEF FailBuild, FailedBuild
<1>4. CASE Done(s)
  BY <1>4 DEF Done
<1>5. CASE After(s)
  BY <1>5 DEF After, NoJob
<1> HIDE DEF Advances, TypeOK, SuccessInv
<1> QED
  BY <1>1, <1>2, <1>3, <1>4, <1>5
     DEF EndStep

\* submit numbers the new run, and works on saved services only.
LEMMA RecheckAdvances ==
    ASSUME TypeOK, SuccessInv, NEW s \in Session, Placed(s), RecheckStep(s)
    PROVE  Advances(s)
<1>1. CASE RecheckClaim(s)
  BY <1>1 DEF RecheckClaim
<1>2. CASE RecheckRefused(s)
  BY <1>2 DEF RecheckRefused, NoJob
<1>3. CASE Recheck(s)
  <2>1. build.dynamic_run_id \in Nat
    BY DEF TypeOK
  <2>2. CASE CanRecheck(s)
    <3>1. /\ build'.status = "deploying"
          /\ build'.dynamic_status = "queued"
          /\ build'.service_ids = build.service_ids
          /\ build'.teardown_required = build.teardown_required
      BY <1>3, <2>2 DEF Recheck
    <3>2. build'.dynamic_run_id = build.dynamic_run_id + 1
      BY <1>3, <2>2 DEF Recheck
    <3>3. build'.dynamic_run_id > 0
      BY <2>1, <3>2
    <3>4. /\ pc'[s] \in {"recheck_release", "abort"}
          /\ UNCHANGED <<manifest, live, job, tasks>>
      BY <1>3, <2>2 DEF Recheck
    <3> QED
      BY <1>3, <2>2, <3>1, <3>3, <3>4 DEF Recheck
  <2>3. CASE ~CanRecheck(s)
    BY <1>3, <2>3 DEF Recheck
  <2> QED
    BY <2>2, <2>3
<1>4. CASE RecheckRelease(s)
  BY <1>4 DEF RecheckRelease
<1>5. CASE RecheckDispatch(s)
  BY <1>5 DEF RecheckDispatch, NoJob, DynamicTask
<1> HIDE DEF Advances, TypeOK, SuccessInv
<1> QED
  BY <1>1, <1>2, <1>3, <1>4, <1>5
     DEF RecheckStep

\* A teardown marks only builds that were marked.
LEMMA RequestAdvances ==
    ASSUME TypeOK, SuccessInv, NEW s \in Session, Placed(s), RequestStep(s)
    PROVE  Advances(s)
<1>1. CASE Teardown(s)
  BY <1>1 DEF Teardown, assert_quiescent
<1>2. CASE TeardownFails(s)
  BY <1>2 DEF TeardownFails
<1>3. CASE RequestClaim(s)
  BY <1>3 DEF RequestClaim
<1>4. CASE RequestRefused(s)
  BY <1>4 DEF RequestRefused
<1>5. CASE RequestQueue(s)
  BY <1>5 DEF RequestQueue
<1>6. CASE RequestRelease(s)
  BY <1>6 DEF RequestRelease, CleanupRequest
<1>7. CASE RequestDispatch(s)
  BY <1>7 DEF RequestDispatch, CleanupTask, NoJob
<1>8. CASE RequestDispatchFails(s)
  BY <1>8 DEF RequestDispatchFails, CleanupTask, NoJob
<1>9. CASE Requested(s)
  BY <1>9 DEF Requested, CleanupRequest, NoJob, TearingDown
<1>10. CASE RequestRaises(s)
  BY <1>10 DEF RequestRaises, CleanupRequest, NoJob, TearingDown
<1> HIDE DEF Advances, TypeOK, SuccessInv
<1> QED
  BY <1>1, <1>2, <1>3, <1>4, <1>5, <1>6, <1>7, <1>8, <1>9, <1>10
     DEF RequestStep

\* What a cleanup removes belongs to no build that still counts as delivered.
LEMMA RunAdvances ==
    ASSUME TypeOK, SuccessInv, NEW s \in Session, Placed(s), RunStep(s)
    PROVE  Advances(s)
<1>1. CASE RunClaim(s)
  BY <1>1 DEF RunClaim
<1>2. CASE RunRefused(s)
  BY <1>2 DEF RunRefused
<1>3. CASE RunMark(s)
  BY <1>3 DEF RunMark
<1>4. CASE Quiesce(s)
  BY <1>4 DEF Quiesce, assert_quiescent
<1>5. CASE \E kind \in Kind : Remove(s, kind) \/ RemoveFails(s, kind)
  BY <1>5 DEF Remove, RemoveFails, RemoveLabel, AfterRemoval, Kind
<1>6. CASE Verdict(s)
  BY <1>6 DEF Verdict, NothingLeft, Kind
<1>7. CASE RunRelease(s)
  BY <1>7 DEF RunRelease, CleanupTask
<1>8. CASE Sync(s)
  BY <1>8 DEF Sync, NoJob, SyncLabel, CleanupStatus
<1>9. CASE SyncWrite(s)
  BY <1>9 DEF SyncWrite, NoJob, SyncStatus
<1> HIDE DEF Advances, TypeOK, SuccessInv
<1> QED
  BY <1>1, <1>2, <1>3, <1>4, <1>5, <1>6, <1>7, <1>8, <1>9
     DEF RunStep

\* The recovery ticks' leased parts only fail builds.
LEMMA RecoverAdvances ==
    ASSUME TypeOK, SuccessInv, NEW s \in Session, Placed(s), RecoverStep(s)
    PROVE  Advances(s)
<1>1. CASE RecoverInputsFail(s)
  BY <1>1 DEF RecoverInputsFail, FailedBuild
<1>2. CASE RecoverClaim(s)
  BY <1>2 DEF RecoverClaim
<1>3. CASE RecoverRefused(s)
  BY <1>3 DEF RecoverRefused, NoJob
<1>4. CASE RecoverFail(s)
  BY <1>4 DEF RecoverFail, FailedBuild
<1>5. CASE RecoverRelease(s)
  BY <1>5 DEF RecoverRelease
<1> HIDE DEF Advances, TypeOK, SuccessInv
<1> QED
  BY <1>1, <1>2, <1>3, <1>4, <1>5
     DEF RecoverStep

\* A message or a tick that a worker takes up starts no session behind what
\* it knows, and names a numbered run.
LEMMA WorkerAdvances ==
    ASSUME TypeOK, SuccessInv, NEW w \in Session,
           Deliver(w) \/ RecoverBuilds(w) \/ RecoverCleanup(w)
              \/ RecoverRouteChecks(w)
    PROVE  Advances(w)
<1>1. ASSUME NEW m \in tasks, DeliverOperation(w, m)
      PROVE  Advances(w)
  BY <1>1 DEF DeliverOperation, Operation
<1>2. ASSUME NEW m \in tasks, DeliverRefused(w, m)
      PROVE  Advances(w)
  BY <1>2 DEF DeliverRefused
<1>3. CASE DeliverCleanup(w)
  BY <1>3 DEF DeliverCleanup, CleanupTask
<1>4. CASE RecoverStart(w) \/ RecoverPoll(w) \/ RecoverDynamic(w)
              \/ RecoverCleanup(w)
  BY <1>4 DEF RecoverStart, RecoverPoll, RecoverDynamic, RecoverCleanup,
     StartTask, PollTask, DynamicTask, CleanupTask
<1>5. CASE RecoverInputs(w)
  BY <1>5 DEF RecoverInputs, Tick
<1>6. CASE RecoverTeardown(w)
  BY <1>6 DEF RecoverTeardown, Tick
<1> HIDE DEF Advances, TypeOK, SuccessInv
<1> QED
  BY <1>1, <1>2, <1>3, <1>4, <1>5, <1>6
     DEF Deliver, RecoverBuilds, RecoverRouteChecks

\* A recheck is asked for on saved services; a message that comes back names
\* the run it named.
LEMMA RequestedAdvances ==
    ASSUME TypeOK, SuccessInv, NEW s \in Session,
           \/ CleanupRequested(s) \/ RecheckRequested(s)
           \/ Crash(s) \/ Redeliver(s)
    PROVE  Advances(s)
<1>1. CASE CleanupRequested(s)
  BY <1>1 DEF CleanupRequested, CleanupRequest
<1>2. CASE RecheckRequested(s)
  BY <1>2 DEF RecheckRequested, RecheckRequest
<1>3. CASE Crash(s)
  BY <1>3 DEF Crash, NoJob
<1>4. CASE Redeliver(s)
  BY <1>4 DEF Redeliver
<1> HIDE DEF Advances, TypeOK, SuccessInv
<1> QED
  BY <1>1, <1>2, <1>3, <1>4

HIDE DEF Advances, Aside, DeploymentGrows, Deployed, Deployment, Checked,
         Numbered, SucceededIsRunning, SuccessInv, Placed, Marked, InBlock,
         Outside, Delivering, CleaningUp, Removing, RequestLabel, RunLabel,
         Syncing, At, Goto, EndJob, EndJobSending, leaseVars, rowVars,
         outsideVars, queueVars, TypeOK, BuildJob, BuildResources

\* Every step of a running handler.
LEMMA StepAdvances ==
    ASSUME TypeOK, LeaseInv, ~LeaseMayLapse, CleanupInv, SuccessInv,
           NEW s \in Session, Step(s)
    PROVE  Advances(s)
  BY InPlace, QueueAdvances, StartAdvances, PollAdvances, DynamicAdvances,
     EndAdvances, RecheckAdvances, RequestAdvances, RunAdvances,
     RecoverAdvances
     DEF Step

\* Jenkins, the clock and an expiring lease take no service away.
LEMMA EnvironmentAdvances ==
    ASSUME TypeOK, SuccessInv,
           JenkinsStep \/ PollAges \/ LeaseExpires \/ UNCHANGED vars
    PROVE  SuccessInv'
<1> USE DEF SuccessInv, Deployment, Deployed, Checked, Numbered,
            SucceededIsRunning, At, leaseVars, rowVars, outsideVars, queueVars
<1>1. CASE JenkinsStep
  BY <1>1 DEF JenkinsStep
<1>2. CASE PollAges
  BY <1>2 DEF PollAges, TypeOK, BuildJob
<1>3. CASE LeaseExpires \/ UNCHANGED vars
  BY <1>3 DEF LeaseExpires, vars
<1> QED
  BY <1>1, <1>2, <1>3

\* Without lapses, a build that counts as delivered is deployed and checked.
LEMMA SuccessInvariant == ASSUME ~LeaseMayLapse PROVE Spec => []SuccessInv
<1>1. Init => SuccessInv
  BY DEF Init, SuccessInv, Deployment, Deployed, Checked, Numbered,
         SucceededIsRunning, At, NoJob, QueueRequest
<1>2. TypeOK /\ LeaseInv /\ CleanupInv /\ SuccessInv /\ [Next]_vars
         => SuccessInv'
  <2> SUFFICES ASSUME TypeOK, LeaseInv, CleanupInv, SuccessInv, [Next]_vars
               PROVE  SuccessInv'
    OBVIOUS
  <2>1. ASSUME NEW s \in Session, Preserves(s), Advances(s)
        PROVE  SuccessInv'
    BY <2>1, SuccessStep DEF Preserves
  <2>2. ASSUME NEW s \in Session, Step(s)
        PROVE  Preserves(s) /\ Advances(s)
    BY <2>2, StepPreserves, StepAdvances
  <2> QED
    BY <2>1, <2>2, WorkerPreserves, RequestedPreserves, WorkerAdvances,
       RequestedAdvances, EnvironmentAdvances, ProcessAssumption
       DEF Next
<1> QED
  BY <1>1, <1>2, TypeCorrect, DeliveryUsesLease, LeaseInvariant,
     CleanupInvariant, PTL
     DEF Spec

\* A build reported as succeeded has its services running and has passed its
\* latest route check, until a cleanup is accepted: the order of the writes of
\* deploy_build, execute, _finish and submit under the lease, whatever
\* crashes, is redelivered or is asked for again.
THEOREM SuccessHonest == ASSUME ~LeaseMayLapse PROVE Spec => []SucceededIsRunning
<1>1. SuccessInv => SucceededIsRunning
  BY DEF SuccessInv, Deployment
<1> QED
  BY <1>1, SuccessInvariant, PTL

=============================================================================
