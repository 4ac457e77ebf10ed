------------------------------ MODULE AgentRun ------------------------------
(***************************************************************************)
(* One run of the agent CLI (agent_executor.py): a process group of its    *)
(* own, given a prompt and a time limit, that leaves its answer in a file; *)
(* the executor ends the group and reads the file.                         *)
(*                                                                         *)
(* What the CLI, and helpers it leaves behind, do is external: they write  *)
(* the answer when they like, replace it, or never end.                    *)
(***************************************************************************)
EXTENDS Naturals, FiniteSets

CONSTANTS Helper, MaxWrites

RunAssumption == "cli" \notin Helper /\ MaxWrites \in Nat

\* What can be found under the answer's path.  Besides what is no regular
\* file of its own (a link, a pipe): too many bytes, no JSON object with a
\* JSON object in it, another form than the role's schema, or an answer.
Absent == [kind |-> "absent", text |-> "none"]
Text == {"oversized", "malformed", "other_form", "answer"}
File == {Absent} \cup [kind : {"regular", "special"}, text : Text]

VARIABLES
    pc,
    alive,      \* processes of the group
    code,       \* the CLI's exit code, or "running"
    file,       \* what is under the answer's path
    directory,  \* the private directory exists
    opened,     \* what the executor has open
    result,     \* the answer returned
    writes, crashed

vars == <<pc, alive, code, file, directory, opened, result, writes, crashed>>
group == <<alive, code>>

Init ==
    /\ pc = "prepare" /\ alive = {} /\ code = "running" /\ file = Absent /\ directory = FALSE
    /\ opened = Absent /\ result = Absent /\ writes = 0 /\ crashed = FALSE

Ended == {"answered", "refused", "dead"}
Goto(from, to) == pc = from /\ pc' = to

-----------------------------------------------------------------------------
(***************************************************************************)
(* The group (external)                                                    *)
(***************************************************************************)
Write(f) ==
    /\ alive # {} /\ directory /\ writes < MaxWrites
    /\ file' = f /\ writes' = writes + 1
    /\ UNCHANGED <<pc, group, directory, opened, result, crashed>>

Spawn(h) ==
    /\ "cli" \in alive /\ h \notin alive /\ alive' = alive \cup {h}
    /\ UNCHANGED <<pc, code, file, directory, opened, result, writes, crashed>>

Exit(p, c) ==
    /\ p \in alive /\ alive' = alive \ {p}
    /\ code' = IF p = "cli" THEN c ELSE code
    /\ UNCHANGED <<pc, file, directory, opened, result, writes, crashed>>

-----------------------------------------------------------------------------
(***************************************************************************)
(* run_json                                                                *)
(***************************************************************************)
\* the provider's environment and the role's schema; nothing has been made
\* when one of them is refused
Prepare ==
    /\ pc = "prepare" /\ pc' \in {"check", "refused"}
    /\ UNCHANGED <<group, file, directory, opened, result, writes, crashed>>

\* schema, executable, working directory and prompt
Check ==
    /\ pc = "check" /\ pc' \in {"create", "refused"}
    /\ UNCHANGED <<group, file, directory, opened, result, writes, crashed>>

Create ==
    /\ pc = "create"
    /\ \/ pc' = "start" /\ directory' = TRUE
       \/ pc' = "refused" /\ UNCHANGED directory
    /\ UNCHANGED <<group, file, opened, result, writes, crashed>>

Start ==
    /\ pc = "start"
    /\ \/ pc' = "communicate" /\ alive' = {"cli"}
       \/ pc' = "remove" /\ UNCHANGED alive
    /\ UNCHANGED <<code, file, directory, opened, result, writes, crashed>>

Communicate ==
    /\ Goto("communicate", "kill") /\ "cli" \notin alive
    /\ UNCHANGED <<group, file, directory, opened, result, writes, crashed>>

Timeout ==
    /\ Goto("communicate", "kill") /\ code = "running" /\ code' = "timeout"
    /\ UNCHANGED <<alive, file, directory, opened, result, writes, crashed>>

\* mutation: only a process that has not ended is stopped
KillTheProcess ==
    /\ Goto("kill", "judge") /\ alive' = alive \ {"cli"}
    /\ UNCHANGED <<code, file, directory, opened, result, writes, crashed>>

\* _kill_process_group, and process.wait
Kill ==
    /\ Goto("kill", "judge") /\ alive' = {}
    /\ UNCHANGED <<code, file, directory, opened, result, writes, crashed>>

Judge ==
    /\ pc = "judge" /\ pc' = (IF code = "zero" THEN "open" ELSE "remove")
    /\ UNCHANGED <<group, file, directory, opened, result, writes, crashed>>

\* a regular file with no other name, within the limit
Open ==
    /\ pc = "open" /\ opened' = file
    /\ pc' = IF file.kind = "regular" /\ file.text # "oversized" THEN "read" ELSE "remove"
    /\ UNCHANGED <<group, file, directory, result, writes, crashed>>

\* the transport form, the JSON object in it, the role's schema
Valid(text) == text = "answer"

\* the file that was opened, with what is in it by now
Read ==
    /\ Goto("read", "remove")
    /\ result' = IF Valid(file.text) THEN file ELSE Absent
    /\ UNCHANGED <<group, file, directory, opened, writes, crashed>>

Remove ==
    /\ pc = "remove" /\ pc' = (IF result = Absent THEN "refused" ELSE "answered")
    /\ directory' = FALSE /\ file' = Absent
    /\ UNCHANGED <<group, opened, result, writes, crashed>>

\* the worker dies; its agent does not, and the directory stays
Crash ==
    /\ pc \notin Ended /\ pc' = "dead" /\ crashed' = TRUE
    /\ UNCHANGED <<group, file, directory, opened, result, writes>>

Run == Prepare \/ Check \/ Create \/ Start \/ Communicate \/ Timeout \/ Kill \/ Judge \/ Open \/ Read \/ Remove
Done == pc \in Ended /\ UNCHANGED vars

Next ==
    \/ \E f \in File : Write(f)
    \/ \E h \in Helper : Spawn(h)
    \/ \E p \in Helper \cup {"cli"}, c \in {"zero", "nonzero"} : Exit(p, c)
    \/ Prepare \/ Check \/ Create \/ Start \/ Communicate \/ Timeout \/ Kill \/ Judge \/ Open \/ Read \/ Remove
    \/ Crash \/ Done

\* The executor goes on, and its time limit comes; the agent need not end.
Spec == Init /\ [][Next]_vars /\ WF_vars(Run)

-----------------------------------------------------------------------------
(***************************************************************************)
(* Properties.                                                             *)
(***************************************************************************)

\* Nothing is read of a CLI that has failed or run out of time.
TypeOK ==
    /\ pc \in Ended \cup {"prepare", "check", "create", "start", "communicate", "kill", "judge", "open", "read", "remove"}
    /\ {file, opened, result} \subseteq File
    /\ file # Absent => directory
    /\ opened # Absent => code = "zero"

\* An answer is a regular file's, within the limit, of the role's form: what
\* was examined is what was read, whatever helpers the CLI has left behind.
AnswerIsExamined ==
    result # Absent => result = opened /\ result = [kind |-> "regular", text |-> "answer"]

\* "Stop descendants too, including ones left behind by an exited CLI": when
\* a run has ended, and its worker has not died, nothing of it is left.
NothingLeft == pc \in {"answered", "refused"} => alive = {} /\ ~directory

\* Every run ends, whatever the agent does.
RunEnds == <>(pc \in Ended)
=============================================================================
