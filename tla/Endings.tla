------------------------------- MODULE Endings -------------------------------
(***************************************************************************)
(* What comes to an end by itself, once started: the wait for a service, a *)
(* run of the agent CLI and the polling of one build.                      *)
(***************************************************************************)
EXTENDS ServiceWait

CONSTANTS
    Helper, MaxWrites,
    PollInterval, RecoveryInterval, LeaseTime, MaxAttempts, Lateness, ReadinessTimeout, DeployTime, MaxCrashes

VARIABLES
    agentPc, alive, code, file, directory, opened, result, writes, crashed,
    status, polled, pending, at, task, elapsed, pollLease, timer, crashes

Agent == INSTANCE AgentRun WITH pc <- agentPc
Chains == INSTANCE PollingChains WITH Late <- Lateness, lease <- pollLease

agentVars == <<agentPc, alive, code, file, directory, opened, result, writes, crashed>>
chainVars == <<status, polled, pending, at, task, elapsed, pollLease, timer, crashes>>

\* Waits, agent runs and polling chains keep their types, and each relates its
\* position to what it has in hand.
EndingsTypeOK == Ready!TypeOK /\ Agent!TypeOK /\ Chains!TypeOK

\* What was examined of the agent's answer is what was read, and when a run has
\* ended, and its worker has not died, nothing of it is left (_read_output,
\* _kill_process_group).
RunIsContained == Agent!AnswerIsExamined /\ Agent!NothingLeft

\* While Jenkins builds, a recovery tick leaves alone a build that was ever
\* polled and whose chain is active (recover_builds).
TickSparesChain == Chains!TickSparesChain
=============================================================================
