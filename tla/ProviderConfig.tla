--------------------------- MODULE ProviderConfig ---------------------------
(***************************************************************************)
(* The agents' provider configuration (codex_config.py): one document that *)
(* a starting process initializes from its environment, that requests      *)
(* complete and replace, and that every process reads when it needs it.    *)
(***************************************************************************)
EXTENDS Naturals

CONSTANTS
    Process,
    HasEnvironment,  \* processes with a valid configuration in their environment
    Request,
    MaxEdits         \* bounds the edits

EnvironmentAssumption == HasEnvironment \subseteq Process /\ MaxEdits \in Nat

Setting == {"endpoint", "key"}
\* A field's value is the edit that set it; 0 is what the environment has.
Config == [Setting -> 0..MaxEdits]
Environment == [f \in Setting |-> 0]
\* No document, or one that is incomplete or was encrypted with another key.
Unreadable == [f \in {} |-> 0]

VARIABLES
    stored,   \* the document
    up,       \* each process: "down", "found" a configuration to save, "up"
    req,      \* the update each slot works on: the fields it names, what it read
    edits,    \* edits so far
    wrote     \* what the accepted updates have set each field to

vars == <<stored, up, req, edits, wrote>>

Idle == [pc |-> "idle", names |-> {}, seen |-> Environment, value |-> 0, process |-> CHOOSE p \in Process : TRUE]

Init ==
    /\ stored \in {Unreadable, Environment}
    /\ up = [p \in Process |-> "down"] /\ req = [r \in Request |-> Idle]
    /\ edits = 0 /\ wrote = Environment

\* resolve: the document if it is valid, else the environment
Resolvable(p) == stored # Unreadable \/ p \in HasEnvironment
Resolved == IF stored # Unreadable THEN stored ELSE Environment

-----------------------------------------------------------------------------
\* validate_startup of a production process; without any it does not start
Start(p) ==
    /\ up[p] = "down" /\ Resolvable(p)
    /\ up' = [up EXCEPT ![p] = IF stored # Unreadable THEN "up" ELSE "found"]
    /\ UNCHANGED <<stored, req, edits, wrote>>

SaveEnvironment(p) ==
    /\ up[p] = "found"
    /\ stored' = Environment /\ up' = [up EXCEPT ![p] = "up"]
    /\ UNCHANGED <<req, edits, wrote>>

Stop(p) ==
    /\ up[p] # "down"
    /\ up' = [up EXCEPT ![p] = "down"]
    /\ req' = [r \in Request |-> IF req[r].process = p THEN Idle ELSE req[r]]
    /\ UNCHANGED <<stored, edits, wrote>>

\* update reads what it completes
Read(r, p, names) ==
    /\ req[r].pc = "idle" /\ up[p] = "up" /\ edits < MaxEdits /\ edits' = edits + 1
    /\ req' = [req EXCEPT ![r] = [pc |-> "save", names |-> names, seen |-> Resolved, value |-> edits', process |-> p]]
    /\ UNCHANGED <<stored, up, wrote>>

\* mutation: an empty key replaces the key
MergeKey(r) == [f \in Setting |-> IF f \in req[r].names \cup {"key"} THEN req[r].value ELSE req[r].seen[f]]

Merge(r) == [f \in Setting |-> IF f \in req[r].names THEN req[r].value ELSE req[r].seen[f]]

Save(r) ==
    /\ req[r].pc = "save" /\ stored' = Merge(r)
    /\ wrote' = [f \in Setting |-> IF f \in req[r].names THEN req[r].value ELSE wrote[f]]
    /\ req' = [req EXCEPT ![r] = Idle]
    /\ UNCHANGED <<up, edits>>

Next ==
    \/ \E p \in Process : Start(p) \/ SaveEnvironment(p) \/ Stop(p)
    \/ \E r \in Request : Save(r) \/ \E p \in Process, names \in (SUBSET Setting) \ {{}} : Read(r, p, names)

Spec == Init /\ [][Next]_vars

-----------------------------------------------------------------------------
(***************************************************************************)
(* Properties.                                                             *)
(***************************************************************************)

\* A document is a whole configuration or none; requests run in processes
\* that are up.
TypeOK ==
    /\ stored \in Config \cup {Unreadable}
    /\ \A r \in Request : req[r].pc = "save" => up[req[r].process] = "up"
    /\ \A f \in Setting : wrote[f] <= edits

\* What one process has started with, every other can read
\* (validate_startup, docs/remote-deployment.md:36: the worker takes the
\* configuration from the database).
StartedIsConfigured == (\E p \in Process : up[p] = "up") => stored # Unreadable

\* A field is what the last update that named it has set: an update keeps
\* what it does not name, the key above all (docs/remote-deployment.md:37),
\* and a start keeps what is stored (docs/remote-deployment.md:36).
LastWriteStands == stored # Unreadable => stored = wrote
=============================================================================
