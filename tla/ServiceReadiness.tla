-------------------------- MODULE ServiceReadiness --------------------------
(***************************************************************************)
(* When a deployed service counts as up: the adapter waits for its tasks   *)
(* (_wait_for_service_ready, docker_services.py), the worker then for its  *)
(* published TCP ports (_probe_public_ports, worker_runtime.py), each wait *)
(* with a deadline of its own.  Swarm meanwhile starts, restarts and, in   *)
(* an update, replaces the tasks.                                          *)
(*                                                                         *)
(* Swarm is external: a slot's task is replaced when the tasks it has      *)
(* replaced before run (one at a time, its default), and a task that has   *)
(* failed is restarted unless the policy is "none".  What it does once the *)
(* wait has ended is left out.                                             *)
(***************************************************************************)
EXTENDS Naturals, Sequences, FiniteSets

CONSTANTS
    Replicas,       \* desired tasks
    PublishedPorts,          \* 1..PublishedPorts are the published TCP ports
    Timeout, Interval,
    Updates,        \* whether the service may have been there before
    MaxFailures,    \* tasks that fail, in all
    MaxDelays       \* ticks a call may take, in all

ReadinessAssumption ==
    /\ Replicas \in Nat /\ PublishedPorts \in Nat /\ Timeout \in Nat /\ Interval \in Nat \ {0}
    /\ Updates \in BOOLEAN /\ MaxFailures \in Nat /\ MaxDelays \in Nat

Slot == 1..Replicas

VARIABLES
    tasks,      \* every task of the service, oldest first
    restarts,   \* the restart policy
    open,       \* ports that accept connections
    updated,    \* the service was there before
    pc,
    target,     \* 0 while the tasks are waited for, then the port
    since,      \* when this wait began
    wake,       \* when the sleep ends
    seen,       \* the tasks by which the service counts as up
    readAt,     \* when the last reading was
    clock, failures, delays

swarm == <<tasks, restarts, open, updated>>
counters == <<failures, delays>>
vars == <<swarm, pc, target, since, wake, seen, readAt, clock, counters>>

Task(slot, revision) == [slot |-> slot, revision |-> revision, wanted |-> TRUE, state |-> "new"]

Init ==
    /\ updated \in (IF Updates THEN BOOLEAN ELSE {FALSE}) /\ restarts \in BOOLEAN /\ open = {}
    /\ tasks = IF updated THEN [s \in Slot |-> [Task(s, 1) EXCEPT !.state = "running"]]
               ELSE [s \in Slot |-> Task(s, 2)]
    /\ pc = (IF Replicas = 0 THEN "next" ELSE "read") /\ target = 0 /\ since = 0 /\ wake = 0
    /\ seen = {} /\ readAt = 0 /\ clock = 0 /\ failures = 0 /\ delays = 0

Ended == {"up", "failed", "timed_out", "error"}
Tasks == {tasks[i] : i \in DOMAIN tasks}
Wanted(revision) == {t \in Tasks : t.wanted /\ t.revision = revision}

-----------------------------------------------------------------------------
(***************************************************************************)
(* Swarm (external)                                                        *)
(***************************************************************************)
SwarmStep == pc \notin Ended /\ UNCHANGED <<restarts, updated, pc, target, since, wake, seen, readAt, clock, delays>>

Roll(i) ==
    /\ tasks[i].wanted /\ tasks[i].revision = 1
    /\ \A t \in Wanted(2) : t.state = "running"
    /\ tasks' = Append([tasks EXCEPT ![i].wanted = FALSE], Task(tasks[i].slot, 2))
    /\ SwarmStep /\ UNCHANGED <<open, failures>>

Starts(i) ==
    /\ tasks[i].state = "new" /\ tasks' = [tasks EXCEPT ![i].state = "running"]
    /\ SwarmStep /\ UNCHANGED <<open, failures>>

Stops(i) ==
    /\ ~tasks[i].wanted /\ tasks[i].state = "running"
    /\ tasks' = [tasks EXCEPT ![i].state = "shutdown"]
    /\ SwarmStep /\ UNCHANGED <<open, failures>>

Fails(i) ==
    /\ tasks[i].wanted /\ tasks[i].state \in {"new", "running"} /\ failures < MaxFailures
    /\ tasks' = [tasks EXCEPT ![i].state = "failed"] /\ failures' = failures + 1
    /\ SwarmStep /\ UNCHANGED open

Restarts(i) ==
    /\ restarts /\ tasks[i].wanted /\ tasks[i].state = "failed"
    /\ tasks' = Append([tasks EXCEPT ![i].wanted = FALSE], Task(tasks[i].slot, tasks[i].revision))
    /\ SwarmStep /\ UNCHANGED <<open, failures>>

\* a port is open only while a task runs
Listens(p) ==
    /\ \/ p \notin open /\ (\E t \in Tasks : t.state = "running") /\ open' = open \cup {p}
       \/ p \in open /\ open' = open \ {p}
    /\ SwarmStep /\ UNCHANGED <<tasks, failures>>

-----------------------------------------------------------------------------
(***************************************************************************)
(* The wait                                                                *)
(***************************************************************************)
\* mutation: every running task counts
RunningAny(ts) == {t \in ts : t.state = "running"}

\* an old task may run on while Swarm wants it stopped
Running(ts) == {t \in ts : t.wanted /\ t.state = "running"}

Failed == {i \in DOMAIN tasks : tasks[i].state = "failed"}
InProgress(ts) == {t \in ts : t.wanted /\ t.state = "new"}

Tolerated == IF Replicas > 2 THEN Replicas ELSE 2

\* the interval, or what is left until the deadline
Nap ==
    LET left == since + Timeout - clock
    IN IF Interval < left THEN Interval ELSE IF left > 1 THEN left ELSE 1

Verdict ==
    IF Cardinality(Running(Tasks)) >= Replicas THEN "next"
    ELSE IF Cardinality(Failed) >= Tolerated /\ InProgress(Tasks) = {} THEN "failed"
    ELSE "late"

ReadTasks ==
    /\ pc = "read" /\ target = 0
    /\ pc' = Verdict /\ readAt' = clock
    /\ seen' = IF Verdict = "next" THEN Tasks ELSE {}
    /\ UNCHANGED <<swarm, target, since, wake, clock, counters>>

\* the service is gone, Docker does not answer, or the lease is lost
ReadFails ==
    /\ pc = "read" /\ target = 0 /\ pc' = "error"
    /\ UNCHANGED <<swarm, target, since, wake, seen, readAt, clock, counters>>

Connect ==
    /\ pc = "read" /\ target \in 1..PublishedPorts
    /\ readAt' = clock /\ pc' = IF target \in open THEN "next" ELSE "late"
    /\ UNCHANGED <<swarm, target, since, wake, seen, clock, counters>>

\* mutation: the deadline is looked at one tick too soon
LateBefore ==
    /\ pc = "late"
    /\ IF clock + 1 >= since + Timeout THEN pc' = "timed_out" /\ UNCHANGED wake
       ELSE pc' = "sleep" /\ wake' = clock + Nap
    /\ UNCHANGED <<swarm, target, since, seen, readAt, clock, counters>>

\* neither up nor failed: the deadline, or another reading later
Late ==
    /\ pc = "late"
    /\ IF clock >= since + Timeout THEN pc' = "timed_out" /\ UNCHANGED wake
       ELSE pc' = "sleep" /\ wake' = clock + Nap
    /\ UNCHANGED <<swarm, target, since, seen, readAt, clock, counters>>

Wake ==
    /\ pc = "sleep" /\ clock = wake /\ pc' = "read"
    /\ UNCHANGED <<swarm, target, since, wake, seen, readAt, clock, counters>>

\* the next port, with a deadline of its own
NextTarget ==
    /\ pc = "next"
    /\ IF target = PublishedPorts THEN pc' = "up" /\ UNCHANGED <<target, since>>
       ELSE pc' = "read" /\ target' = target + 1 /\ since' = clock
    /\ UNCHANGED <<swarm, wake, seen, readAt, clock, counters>>

Tick ==
    /\ \/ pc = "sleep" /\ clock < wake /\ UNCHANGED delays
       \/ pc = "late" /\ delays < MaxDelays /\ delays' = delays + 1
    /\ clock' = clock + 1
    /\ UNCHANGED <<swarm, pc, target, since, wake, seen, readAt, failures>>

Done == pc \in Ended /\ UNCHANGED vars

Wait == ReadTasks \/ ReadFails \/ Connect \/ Late \/ Wake \/ NextTarget

Next ==
    \/ \E i \in DOMAIN tasks : Roll(i) \/ Starts(i) \/ Stops(i) \/ Fails(i) \/ Restarts(i)
    \/ \E p \in 1..PublishedPorts : Listens(p)
    \/ ReadTasks \/ ReadFails \/ Connect \/ Late \/ Wake \/ NextTarget \/ Tick \/ Done

Spec == Init /\ [][Next]_vars

\* The worker runs and time passes; Swarm need do nothing.
FairSpec == Spec /\ WF_vars(Wait) /\ WF_vars(Tick)

-----------------------------------------------------------------------------
(***************************************************************************)
(* Properties.                                                             *)
(***************************************************************************)

TypeOK ==
    /\ pc \in Ended \cup {"read", "late", "sleep", "next"} /\ target \in 0..PublishedPorts
    /\ \A i, j \in DOMAIN tasks : tasks[i].wanted /\ tasks[j].wanted /\ tasks[i].slot = tasks[j].slot => i = j
    /\ pc = "sleep" => clock <= wake

\* The count of tasks stands for the slots: what was seen before the service
\* counted as up has a task that runs, and is to run, in every slot.
EverySlotRuns ==
    target > 0 \/ pc = "up" =>
      \A s \in Slot : \E t \in seen : t.slot = s /\ t.wanted /\ t.state = "running"

\* One task that fails is forgiven: only a second failure, of the same or of
\* another slot, ends the wait before its deadline.
OneFailureIsForgiven == pc = "failed" => failures >= 2

\* A wait lasts no longer than its timeout, and what the calls themselves took.
EndsInTime == pc \notin Ended => clock <= since + Timeout + delays

\* It does not end before either: the last reading is at the deadline.
LastLookAtDeadline == pc = "timed_out" => readAt + delays >= since + Timeout

\* Every wait ends.
WaitEnds == <>(pc \in Ended)

\* "It must not satisfy the readiness check for the new revision": when an
\* updated service counts as up, the new revision runs.  The code
\* does not keep this: README, section 4.
NewRevisionRuns == target > 0 \/ pc = "up" => \A s \in Slot : \E t \in seen : t.slot = s /\ t.revision = 2
=============================================================================
