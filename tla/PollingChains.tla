--------------------------- MODULE PollingChains ---------------------------
(***************************************************************************)
(* The chain of messages that polls one build (worker_runtime.py): each    *)
(* poll sends the next one with a countdown, and every recovery interval a *)
(* tick sends a first one for a build whose last poll is too long ago.     *)
(*                                                                         *)
(* Time passes in steps.  `pending` is a bag: two chains may send the same *)
(* message.  One operation runs at a time, under the lease of BuildLease:  *)
(* the lease left by a worker that died is busy until it expires.          *)
(***************************************************************************)
EXTENDS Integers, Bags

CONSTANTS
    PollInterval, RecoveryInterval, LeaseTime,
    MaxAttempts,   \* celery_max_poll_attempts
    Late,          \* how long a message that is due, or the request of an operation, may take
    ReadinessTimeout,
    DeployTime,    \* the longest deployment, with its dynamic check
    MaxCrashes

\* Chains that recovery has started are polled before its next tick, whatever
\* crashes: the countdown, a late delivery, a request; then, for each crash,
\* a late redelivery and a request.
ChainsAssumption ==
    /\ {PollInterval, RecoveryInterval, LeaseTime, MaxAttempts, Late, ReadinessTimeout, DeployTime} \subseteq Nat \ {0}
    /\ MaxCrashes \in Nat
    /\ RecoveryInterval > PollInterval + 2 * Late * (1 + MaxCrashes)

VARIABLES
    status,    \* of the build; "ended" is any terminal one
    polled,    \* time since last_polled_at, or Never
    pending,   \* bag of messages
    at,        \* where the running operation is
    task,      \* its message
    elapsed,   \* its time
    lease,     \* time the lease stays busy
    timer,     \* time to the recovery tick
    crashes

vars == <<status, polled, pending, at, task, elapsed, lease, timer, crashes>>

Never == -1
Max(a, b) == IF a < b THEN b ELSE a
StaleAfter == Max(2 * RecoveryInterval, ReadinessTimeout + 2 * PollInterval)

Message == [kind : {"start", "poll"}, attempt : 0..MaxAttempts, wait : -Late..PollInterval]
StartMessage == [kind |-> "start", attempt |-> 0, wait |-> 0]
PollMessage(attempt) == [kind |-> "poll", attempt |-> attempt, wait |-> PollInterval]
Send(m) == pending' = pending (+) SetToBag({m})

\* queue_build has dispatched the start message
Init ==
    /\ status = "queued" /\ polled = Never /\ pending = SetToBag({StartMessage})
    /\ at = "idle" /\ task = StartMessage /\ elapsed = 0 /\ lease = 0
    /\ timer \in 1..RecoveryInterval /\ crashes = 0

-----------------------------------------------------------------------------
(***************************************************************************)
(* The broker, and the recovery tick                                       *)
(***************************************************************************)
\* _run_build_operation under the lease; a poll of a queued build starts it
Deliver(m) ==
    /\ at = "idle" /\ m.wait <= 0 /\ status # "ended" /\ lease = 0
    /\ at' = IF m.kind = "start" \/ status = "queued" THEN "start" ELSE "poll"
    /\ task' = m /\ elapsed' = 0 /\ lease' = LeaseTime
    /\ pending' = pending (-) SetToBag({m})
    /\ UNCHANGED <<status, polled, timer, crashes>>

\* a terminal build, or a busy lease: the message is gone
Drop(m) ==
    /\ m.wait <= 0 /\ (status = "ended" \/ lease > 0)
    /\ pending' = pending (-) SetToBag({m})
    /\ UNCHANGED <<status, polled, at, task, elapsed, lease, timer, crashes>>

\* mutation: every tick sends a first poll
RecoverAlways ==
    /\ timer = 0 /\ timer' = RecoveryInterval
    /\ CASE status = "queued" -> Send(StartMessage)
         [] status \in {"building", "deploying"} -> Send(PollMessage(0))
         [] OTHER -> UNCHANGED pending
    /\ UNCHANGED <<status, polled, at, task, elapsed, lease, crashes>>

\* recover_builds, for this build
Recover ==
    /\ timer = 0 /\ timer' = RecoveryInterval
    /\ CASE status = "queued" -> Send(StartMessage)
         [] status \in {"building", "deploying"} /\ (polled = Never \/ polled >= StaleAfter) ->
              Send(PollMessage(0))
         [] OTHER -> UNCHANGED pending
    /\ UNCHANGED <<status, polled, at, task, elapsed, lease, crashes>>

-----------------------------------------------------------------------------
(***************************************************************************)
(* The operations                                                          *)
(***************************************************************************)
Fail ==
    /\ at \in {"start", "poll", "deploy"} /\ at' = "done" /\ status' = "ended"
    /\ UNCHANGED <<polled, pending, task, elapsed, lease, timer, crashes>>

\* _start_build: a build that is started already is given another first poll
Start ==
    /\ at = "start" /\ at' = "done"
    /\ status' = IF status = "queued" THEN "building" ELSE status
    /\ Send(PollMessage(0))
    /\ UNCHANGED <<polled, task, elapsed, lease, timer, crashes>>

\* mutation: the last attempt is followed by another
LimitedLate == status # "deploying" /\ task.attempt > MaxAttempts

\* _poll_build: the limit of a build that Jenkins has not finished
Limited == status # "deploying" /\ task.attempt >= MaxAttempts

Poll ==
    /\ at = "poll" /\ status = "building" /\ ~Limited
    /\ at' = "done" /\ polled' = 0 /\ Send(PollMessage(task.attempt + 1))
    /\ UNCHANGED <<status, task, elapsed, lease, timer, crashes>>

\* Jenkins has succeeded, or a deployment is resumed
PollSucceeds ==
    /\ at = "poll" /\ ~Limited
    /\ at' = "deploy" /\ elapsed' = 0 /\ status' = "deploying"
    /\ polled' = IF status = "building" THEN 0 ELSE polled
    /\ UNCHANGED <<pending, task, lease, timer, crashes>>

Deploy ==
    /\ at = "deploy" /\ at' = "done" /\ status' = "ended"
    /\ UNCHANGED <<polled, pending, task, elapsed, lease, timer, crashes>>

\* release and acknowledgement
Return ==
    /\ at = "done" /\ at' = "idle" /\ lease' = 0
    /\ UNCHANGED <<status, polled, pending, task, elapsed, timer, crashes>>

\* the worker dies: its message is delivered again, its lease stays
Crash ==
    /\ at # "idle" /\ crashes < MaxCrashes
    /\ at' = "idle" /\ crashes' = crashes + 1 /\ Send([task EXCEPT !.wait = 0])
    /\ UNCHANGED <<status, polled, task, elapsed, lease, timer>>

-----------------------------------------------------------------------------
Sooner(m) == [m EXCEPT !.wait = @ - 1]
Limit == IF at = "deploy" THEN DeployTime ELSE Late
Age(n) == IF n = Never \/ n = StaleAfter THEN n ELSE n + 1

\* Time does not pass a due tick, a message or an operation that is too late.
\* A running operation renews its lease, and releases it well before the
\* message it has sent is due.
Pass ==
    /\ timer > 0 /\ timer' = timer - 1
    /\ \A m \in BagToSet(pending) : m.wait > -Late
    /\ at # "done" /\ (at # "idle" => elapsed < Limit)
    /\ elapsed' = IF at = "idle" THEN elapsed ELSE elapsed + 1
    /\ lease' = IF at = "idle" THEN Max(lease - 1, 0) ELSE lease
    /\ pending' = [m \in {Sooner(n) : n \in BagToSet(pending)} |-> pending[[m EXCEPT !.wait = @ + 1]]]
    /\ polled' = Age(polled)
    /\ UNCHANGED <<status, at, task, crashes>>

Consume == \E m \in BagToSet(pending) : Deliver(m) \/ Drop(m)
Operate == Fail \/ Start \/ Poll \/ PollSucceeds \/ Deploy \/ Return

Next ==
    \/ \E m \in BagToSet(pending) : Deliver(m) \/ Drop(m)
    \/ Recover
    \/ Fail \/ Start \/ Poll \/ PollSucceeds \/ Deploy \/ Return
    \/ Crash \/ Pass

\* Beat ticks, the broker delivers, a worker that lives goes on.
Spec == Init /\ [][Next]_vars /\ WF_vars(Pass) /\ WF_vars(Recover) /\ WF_vars(Consume) /\ WF_vars(Operate)

-----------------------------------------------------------------------------
(***************************************************************************)
(* Properties.                                                             *)
(***************************************************************************)

\* Attempts stay within the limit, and an operation has its message's lease.
TypeOK ==
    /\ status \in {"queued", "building", "deploying", "ended"}
    /\ polled \in -1..StaleAfter
    /\ BagToSet(pending) \subseteq Message /\ task \in Message
    /\ at \in {"idle", "start", "poll", "deploy", "done"} /\ elapsed \in 0..Max(Late, DeployTime)
    /\ at # "idle" => lease = LeaseTime
    /\ lease \in 0..LeaseTime /\ timer \in 0..RecoveryInterval /\ crashes \in 0..MaxCrashes

Active == at \in {"poll", "deploy"} \/ \E m \in BagToSet(pending) : m.kind = "poll"
Adds == timer = 0 /\ timer' = RecoveryInterval /\ status \in {"building", "deploying"} /\ pending' # pending

\* While Jenkins builds, a tick leaves alone a build that was ever polled and
\* whose chain is active, across crashes and lost chains.  A deployment may
\* outlast the window: agents have their own time limit.
TickSparesChain == [][Adds => polled = Never \/ status = "deploying" \/ ~Active]_vars

\* "A recovery tick must not add a second polling chain while the normal
\* chain is still active."  The code
\* does not keep this: README, section 4.
NoSecondChain == [][Adds => ~Active]_vars

\* However often its chain is cut by a crash, and whether or not Jenkins ever
\* finishes, the build ends.
BuildEnds == <>(status = "ended")
=============================================================================
