----------------------------- MODULE RouteCheck -----------------------------
(***************************************************************************)
(* Static route checks (orchestrator/route_checks.py).  One row exists per *)
(* application, commit, route and version of the static agent role.  API   *)
(* threads create it, force it into a new generation or delete it; workers *)
(* run the agent under a lease and write the verdict; a beat tick sends    *)
(* again what is pending; a build reads the verdict when it is queued and  *)
(* once more before it triggers Jenkins.                                   *)
(*                                                                         *)
(* A step is the code between two accesses to the row.  A worker's name is *)
(* its block's run token.  static_lease_expires_at is whether it lies in   *)
(* the future.  static_task_id and dispatch_error are only displayed and   *)
(* left out.  Counters: MaxIncarnations rows, MaxGenerations each,         *)
(* MaxStaticFaults crashes, stalls, refused messages and failed renewals.        *)
(***************************************************************************)
EXTENDS Naturals

CONSTANTS Worker, Requester, Nobody, NoVerdict,
          MaxIncarnations, MaxGenerations, MaxStaticFaults

VerdictAssumption == NoVerdict \notin BOOLEAN
WorkerAssumption == Nobody \notin Worker
RowBoundsAssumption ==
    /\ MaxIncarnations \in Nat \ {0} /\ MaxGenerations \in Nat \ {0} /\ MaxStaticFaults \in Nat

VARIABLES
    present, incarnation,   \* does the row exist, and which row (check_id) is it
    check,                  \* the row
    tasks,                  \* static check messages no worker has
    run,                    \* a worker's position, message, and what it loaded
    request,                \* an API thread's position and what it loaded
    gated,                  \* the check a build was queued with
    started, verdicts,      \* history: runs claimed, verdicts written
    staticFaults

workerVars == <<tasks, run>>
historyVars == <<started, verdicts>>
rowVars == <<present, incarnation, check>>
staticVars == <<present, incarnation, check, tasks, run, request, gated, started, verdicts, staticFaults>>

Key == [id : 1..MaxIncarnations, generation : 1..MaxGenerations]
Row == [generation : 1..MaxGenerations,
        static_status : {"queued", "running", "succeeded", "failed"},
        static_check_passed : BOOLEAN \cup {NoVerdict},
        token : Worker \cup {Nobody},
        live : BOOLEAN]

Queued(g) == [generation |-> g, static_status |-> "queued",
              static_check_passed |-> NoVerdict, token |-> Nobody, live |-> FALSE]
NoKey == [id |-> 1, generation |-> 1]
NoRun == [pc |-> "idle", key |-> NoKey, row |-> Queued(1), lost |-> FALSE,
         passed |-> NoVerdict]
Ready == [pc |-> "idle", key |-> NoKey]

CurrentKey == [id |-> incarnation, generation |-> check.generation]

\* the row a process loaded still is the current one, in that generation
Is(key) == present /\ key = CurrentKey

Pending == check.static_status \in {"queued", "running"}

\* "running" under an unexpired lease
Busy == check.static_status = "running" /\ check.live

\* Row, messages, positions and histories keep their types, a row shows a verdict
\* exactly when it is decided, and runs only while somebody claimed that run
\* (RouteCheckResult; the writes of force, _lease and execute_static together).
StaticTypeOK ==
    /\ present \in BOOLEAN
    /\ incarnation \in 0..MaxIncarnations
    /\ check \in Row
    /\ tasks \subseteq Key
    /\ run \in [Worker -> [pc : {"idle", "claim", "checkout", "agent", "save"},
                           key : Key, row : Row, lost : BOOLEAN,
                           passed : BOOLEAN \cup {NoVerdict}]]
    /\ request \in [Requester -> [pc : {"idle", "force", "dispatch"}, key : Key]]
    /\ gated \in [pc : {"idle", "queued", "verified", "triggered"}, key : Key]
    /\ started \subseteq Key
    /\ verdicts \subseteq [key : Key, passed : BOOLEAN]
    /\ staticFaults \in 0..MaxStaticFaults
    /\ Pending = (check.static_check_passed = NoVerdict)
    /\ check.static_status = "running" => CurrentKey \in started

StaticInit ==
    /\ present = FALSE /\ incarnation = 0 /\ check = Queued(1)
    /\ tasks = {} /\ started = {} /\ verdicts = {} /\ staticFaults = 0
    /\ run = [w \in Worker |-> NoRun]
    /\ request = [r \in Requester |-> Ready]
    /\ gated = Ready

StaticFault == staticFaults < MaxStaticFaults /\ staticFaults' = staticFaults + 1

-----------------------------------------------------------------------------
(***************************************************************************)
(* API threads: create_or_reuse and delete_latest.                         *)
(***************************************************************************)

\* ensure_route_check inserts the row if its key has none
Create(r) ==
    /\ request[r].pc = "idle" /\ ~present /\ incarnation < MaxIncarnations
    /\ present' = TRUE
    /\ incarnation' = incarnation + 1
    /\ check' = Queued(1)
    /\ request' = [request EXCEPT ![r] =
            [pc |-> "dispatch", key |-> [id |-> incarnation + 1, generation |-> 1]]]
    /\ UNCHANGED <<workerVars, gated, historyVars, staticFaults>>

\* the row exists: without force the caller only gets the saved result
Reuse(r) ==
    /\ request[r].pc = "idle" /\ present /\ check.generation < MaxGenerations
    /\ request' = [request EXCEPT ![r] = [pc |-> "force", key |-> CurrentKey]]
    /\ UNCHANGED <<rowVars, workerVars, gated, historyVars, staticFaults>>

\* the reset, filtered by the generation that was read
ForceStatic(r) ==
    /\ request[r].pc = "force" /\ Is(request[r].key)
    /\ check.generation < MaxGenerations
    /\ check' = Queued(check.generation + 1)
    /\ request' = [request EXCEPT ![r] =
            [pc |-> "dispatch", key |-> [CurrentKey EXCEPT !.generation = @ + 1]]]
    /\ UNCHANGED <<present, incarnation, workerVars, gated, historyVars, staticFaults>>

\* refused: read again (at most ten times), or give up; a deleted row is a KeyError
ForceRefused(r) ==
    /\ request[r].pc = "force" /\ ~Is(request[r].key)
    /\ \/ /\ present /\ incarnation = request[r].key.id
          /\ check.generation < MaxGenerations
          /\ request' = [request EXCEPT ![r].key = CurrentKey]
       \/ request' = [request EXCEPT ![r] = Ready]
    /\ UNCHANGED <<rowVars, workerVars, gated, historyVars, staticFaults>>

\* dispatch_static_check, then the task id is stored
Dispatch(r) ==
    /\ request[r].pc = "dispatch"
    /\ tasks' = tasks \cup {request[r].key}
    /\ request' = [request EXCEPT ![r] = Ready]
    /\ UNCHANGED <<rowVars, run, gated, historyVars, staticFaults>>

\* the broker refuses, or the API thread dies: the saved row stays queued
DispatchFails(r) ==
    /\ request[r].pc = "dispatch"
    /\ StaticFault
    /\ request' = [request EXCEPT ![r] = Ready]
    /\ UNCHANGED <<rowVars, workerVars, gated, historyVars>>

delete_latest ==
    /\ present
    /\ present' = FALSE
    /\ check' = Queued(1)
    /\ UNCHANGED <<incarnation, workerVars, request, gated, historyVars, staticFaults>>

-----------------------------------------------------------------------------
(***************************************************************************)
(* Workers: execute_static inside _lease.                                  *)
(***************************************************************************)

\* the block ends and the message is acknowledged
Leave(w) == run' = [run EXCEPT ![w] = NoRun]

InBlock(w) == run[w].pc \in {"checkout", "agent", "save"}

\* execute_static loads the row; deleted, superseded, decided or busy: nothing to do
execute_static(w, key) ==
    /\ run[w].pc = "idle" /\ key \in tasks
    /\ tasks' = tasks \ {key}
    /\ IF Is(key) /\ Pending /\ ~Busy
       THEN run' = [run EXCEPT ![w] =
                [NoRun EXCEPT !.pc = "claim", !.key = key, !.row = check]]
       ELSE UNCHANGED run
    /\ UNCHANGED <<rowVars, request, gated, historyVars, staticFaults>>

\* mutation: the claim's filter names the generation only
ClaimsAnyRun(w) == Is(run[w].key)

\* generation, status, token and expiry are still what was loaded
Claims(w) == Is(run[w].key) /\ check = run[w].row

ClaimStatic(w) ==
    /\ run[w].pc = "claim" /\ Claims(w)
    /\ check' = [check EXCEPT !.static_status = "running", !.token = w, !.live = TRUE]
    /\ run' = [run EXCEPT ![w].pc = "checkout", ![w].row = Queued(1)]
    /\ started' = started \cup {run[w].key}
    /\ UNCHANGED <<present, incarnation, tasks, request, gated, verdicts, staticFaults>>

ClaimStaticRefused(w) ==
    /\ run[w].pc = "claim" /\ ~Claims(w)
    /\ Leave(w)
    /\ UNCHANGED <<rowVars, tasks, request, gated, historyVars, staticFaults>>

\* the checkout succeeded and guard() accepted: the agent may start
StartAgent(w) ==
    /\ run[w].pc = "checkout" /\ ~run[w].lost
    /\ Is(run[w].key) /\ check.token = w
    /\ run' = [run EXCEPT ![w].pc = "agent"]
    /\ UNCHANGED <<rowVars, tasks, request, gated, historyVars, staticFaults>>

\* the agent answered and guard() accepted: route found, or a patch is needed
EndAgent(w) ==
    /\ run[w].pc = "agent" /\ ~run[w].lost
    /\ Is(run[w].key) /\ check.token = w
    /\ \E passed \in BOOLEAN :
          run' = [run EXCEPT ![w].pc = "save", ![w].passed = passed]
    /\ UNCHANGED <<rowVars, tasks, request, gated, historyVars, staticFaults>>

\* guard() raises
Superseded(w) ==
    /\ run[w].pc \in {"checkout", "agent"}
    /\ run[w].lost \/ ~Is(run[w].key) \/ check.token # w
    /\ Leave(w)
    /\ UNCHANGED <<rowVars, tasks, request, gated, historyVars, staticFaults>>

\* GitLab, git, the agent or its output fails: a failed check, no guard on the way
RunFails(w) ==
    /\ run[w].pc \in {"checkout", "agent"}
    /\ run' = [run EXCEPT ![w].pc = "save", ![w].passed = FALSE]
    /\ UNCHANGED <<rowVars, tasks, request, gated, historyVars, staticFaults>>

\* mutation: the verdict is saved by check_id alone
SavesAlways(w) == present /\ run[w].key.id = incarnation

\* mutation: it is saved to whatever row the key has now
SavesToRow(w) == present /\ run[w].key.generation = check.generation

\* the filter of the final write
Saves(w) == Is(run[w].key) /\ check.token = w /\ check.static_status = "running"

SaveStaticVerdict(w) ==
    /\ run[w].pc = "save" /\ Saves(w)
    /\ check' = [check EXCEPT
            !.static_status = IF run[w].passed THEN "succeeded" ELSE "failed",
            !.static_check_passed = run[w].passed,
            !.token = Nobody, !.live = FALSE]
    /\ verdicts' = verdicts \cup {[key |-> CurrentKey, passed |-> run[w].passed]}
    /\ Leave(w)
    /\ UNCHANGED <<present, incarnation, tasks, request, gated, started, staticFaults>>

SaveRefused(w) ==
    /\ run[w].pc = "save" /\ ~Saves(w)
    /\ Leave(w)
    /\ UNCHANGED <<rowVars, tasks, request, gated, historyVars, staticFaults>>

\* the thread extends the lease of its own run, expired or not, else gives up
Renew(w) ==
    /\ InBlock(w) /\ ~run[w].lost
    /\ IF Saves(w) THEN /\ check' = [check EXCEPT !.live = TRUE]
                        /\ UNCHANGED run
                   ELSE /\ run' = [run EXCEPT ![w].lost = TRUE]
                        /\ UNCHANGED check
    /\ UNCHANGED <<present, incarnation, tasks, request, gated, historyVars, staticFaults>>

RenewFails(w) ==
    /\ InBlock(w) /\ ~run[w].lost
    /\ StaticFault
    /\ run' = [run EXCEPT ![w].lost = TRUE]
    /\ UNCHANGED <<rowVars, tasks, request, gated, historyVars>>

\* the lease runs out: its holder is gone or its renewal ended, or it stalls
Expire ==
    /\ present /\ check.live
    /\ check' = [check EXCEPT !.live = FALSE]
    /\ IF \E w \in Worker : check.token = w /\ InBlock(w) /\ ~run[w].lost
       THEN StaticFault ELSE UNCHANGED staticFaults
    /\ UNCHANGED <<present, incarnation, workerVars, request, gated, historyVars>>

\* a dead worker's message comes back; its lease stays in the row
Crash(w) ==
    /\ run[w].pc # "idle"
    /\ StaticFault
    /\ tasks' = tasks \cup {run[w].key}
    /\ Leave(w)
    /\ UNCHANGED <<rowVars, request, gated, historyVars>>

\* mutation: the tick skips every running check
RecoverQueued ==
    /\ present /\ check.static_status = "queued"
    /\ tasks' = tasks \cup {CurrentKey}
    /\ UNCHANGED <<rowVars, run, request, gated, historyVars, staticFaults>>

recover ==
    /\ present /\ Pending /\ ~Busy
    /\ tasks' = tasks \cup {CurrentKey}
    /\ UNCHANGED <<rowVars, run, request, gated, historyVars, staticFaults>>

-----------------------------------------------------------------------------
(***************************************************************************)
(* A build: require_static_pass when queued, verify_build_gate when run.   *)
(***************************************************************************)

PassedStatic == check.static_check_passed = TRUE /\ check.static_status = "succeeded"

require_static_pass ==
    /\ gated.pc = "idle" /\ present /\ PassedStatic
    /\ gated' = [pc |-> "queued", key |-> CurrentKey]
    /\ UNCHANGED <<rowVars, workerVars, request, historyVars, staticFaults>>

verify_build_gate ==
    /\ gated.pc = "queued"
    /\ gated' = IF Is(gated.key) /\ PassedStatic THEN [gated EXCEPT !.pc = "verified"] ELSE Ready
    /\ UNCHANGED <<rowVars, workerVars, request, historyVars, staticFaults>>

TriggerJenkins ==
    /\ gated.pc = "verified"
    /\ gated' = [gated EXCEPT !.pc = "triggered"]
    /\ UNCHANGED <<rowVars, workerVars, request, historyVars, staticFaults>>

-----------------------------------------------------------------------------
RequestStep == \E r \in Requester :
    \/ Create(r) \/ Reuse(r) \/ ForceStatic(r) \/ ForceRefused(r)
    \/ Dispatch(r) \/ DispatchFails(r)

WorkerStep(w) ==
    \/ ClaimStatic(w) \/ ClaimStaticRefused(w)
    \/ StartAgent(w) \/ EndAgent(w) \/ Superseded(w) \/ RunFails(w)
    \/ SaveStaticVerdict(w) \/ SaveRefused(w)

Receive == \E w \in Worker, key \in tasks : execute_static(w, key)

LeaseStep == Expire \/ \E w \in Worker : Renew(w) \/ RenewFails(w) \/ Crash(w)

BuildStep == require_static_pass \/ verify_build_gate \/ TriggerJenkins

StaticNext ==
    \/ RequestStep \/ delete_latest
    \/ Receive \/ (\E w \in Worker : WorkerStep(w)) \/ LeaseStep
    \/ recover \/ BuildStep

StaticSpec == StaticInit /\ [][StaticNext]_staticVars

\* A worker goes on with its block, some worker takes a message, beat ticks, and
\* leases nobody renews run out.  Nobody need ask for anything.
FairStaticSpec ==
    /\ StaticSpec
    /\ \A w \in Worker : WF_staticVars(WorkerStep(w))
    /\ SF_staticVars(Receive) /\ SF_staticVars(recover) /\ WF_staticVars(Expire)

-----------------------------------------------------------------------------
(***************************************************************************)
(* Properties.                                                             *)
(***************************************************************************)

\* The checks of a key implement their abstract specification: a late run of
\* an old generation, of a deleted row, or of a lost lease never decides.
Abstract == INSTANCE CheckVerdict WITH
    generation <- check.generation, verdict <- check.static_check_passed,
    started <- {<<k.id, k.generation>> : k \in started}
ImplementsVerdict == Abstract!Spec

\* Two runs never give one generation two different answers, and Jenkins is
\* only triggered with a generation that passed, even if a forced re-run or a
\* deletion came between the gate and the trigger.
GateStands ==
    /\ \A u, v \in verdicts : u.key = v.key => u = v
    /\ gated.pc = "triggered" => [key |-> gated.key, passed |-> TRUE] \in verdicts

\* As long as nothing stalls or dies, the agent of one generation never works
\* twice at once, although its message is dispatched, redelivered and recovered
\* (the expected values of _lease's update).
AgentAlone ==
    staticFaults = 0 => \A u, w \in Worker :
        /\ run[u].pc = "agent" /\ run[w].pc = "agent"
        /\ Is(run[u].key) /\ Is(run[w].key)
        => u = w

\* A pending check is decided, superseded or deleted, whatever dies on the way
\* (execute_static's message, or recover).
CheckSettles ==
    \A g \in 1..MaxGenerations, i \in 1..MaxIncarnations :
        (Is([id |-> i, generation |-> g]) /\ Pending)
            ~> ~(Is([id |-> i, generation |-> g]) /\ Pending)
=============================================================================
