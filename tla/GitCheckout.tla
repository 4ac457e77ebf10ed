---------------------------- MODULE GitCheckout -----------------------------
(***************************************************************************)
(* How the GitLab adapter (gitlab.py) reads a branch: the API resolves it  *)
(* to a commit, git clones the repository, checks out that commit, and one *)
(* Compose file is chosen in the checkout.  Meanwhile the branch moves,    *)
(* is force-pushed, and the server drops what no branch reaches.           *)
(***************************************************************************)
EXTENDS Naturals, FiniteSets

CONSTANTS
    Commit,
    History,        \* a commit and its ancestors
    Names,          \* 1..Names: the conventional file names, by precedence
    Nested,         \* places below the root a Compose file can be in
    Root, Below     \* the conventional files at the root, and below it

CommitAssumption ==
    /\ History \in [Commit -> SUBSET Commit] /\ \A c \in Commit : c \in History[c]
    /\ \A c \in Commit : \A d \in History[c] : History[d] \subseteq History[c]
    /\ Names \in Nat /\ Root \in [Commit -> SUBSET (1..Names)] /\ Below \in [Commit -> SUBSET Nested]

VARIABLES
    branch,     \* the commit the branch is at
    held,       \* commits the server holds
    pc,         \* the next step
    ref,        \* the resolved commit
    local,      \* commits in the clone
    partial,    \* the clone is shallow or lacks objects
    tree,       \* what is checked out
    path,       \* the file chosen
    faults      \* something other than the repository has failed

vars == <<branch, held, pc, ref, local, partial, tree, path, faults>>
server == <<branch, held>>

Init ==
    /\ branch \in Commit /\ held = Commit /\ pc = "resolve" /\ ref = branch
    /\ local = {} /\ partial = FALSE /\ tree = branch /\ path = <<"none", 0>> /\ faults = FALSE

Ended == {"read", "notfound", "missing", "ambiguous", "clone_failed"}

-----------------------------------------------------------------------------
(***************************************************************************)
(* The repository (external)                                               *)
(***************************************************************************)
Push(c) ==
    /\ c \in held /\ branch' = c
    /\ UNCHANGED <<held, pc, ref, local, partial, tree, path, faults>>

Collect ==
    /\ held' = History[branch]
    /\ UNCHANGED <<branch, pc, ref, local, partial, tree, path, faults>>

-----------------------------------------------------------------------------
(***************************************************************************)
(* The adapter                                                             *)
(***************************************************************************)
Step(from, to) == pc = from /\ pc' = to /\ UNCHANGED server

Resolve ==
    /\ Step("resolve", "clone") /\ ref' = branch
    /\ UNCHANGED <<local, partial, tree, path, faults>>

\* unknown project or branch, another answer, or no full commit id
Unresolved ==
    /\ Step("resolve", "notfound") /\ faults' = TRUE
    /\ UNCHANGED <<ref, local, partial, tree, path>>

\* _run_git: no git, a timeout, a transport error
GitFails ==
    /\ pc \in {"clone", "verify", "fetch", "checkout", "compare"} /\ pc' = "clone_failed" /\ faults' = TRUE
    /\ UNCHANGED <<server, ref, local, partial, tree, path>>

\* a proxy or configuration may still give an incomplete clone
Clone(cut) ==
    /\ Step("clone", "verify") /\ partial' = cut
    /\ local' = IF cut THEN {branch} ELSE History[branch]
    /\ UNCHANGED <<ref, tree, path, faults>>

\* mutation: a commit that was fetched is not verified again
VerifyOnce ==
    /\ pc = "verify"
    /\ pc' = IF ref \in local /\ ref # branch THEN "checkout"
             ELSE IF partial THEN "clone_failed" ELSE IF ref \in local THEN "checkout" ELSE "fetch"
    /\ faults' = (faults \/ partial)
    /\ UNCHANGED <<server, ref, local, partial, tree, path>>

Verify ==
    /\ pc = "verify"
    /\ pc' = IF partial THEN "clone_failed" ELSE IF ref \in local THEN "checkout" ELSE "fetch"
    /\ faults' = (faults \/ partial)
    /\ UNCHANGED <<server, ref, local, partial, tree, path>>

\* the branch was replaced since: the commit itself is asked for
Fetch(cut) ==
    /\ pc = "fetch"
    /\ IF ref \in held
       THEN pc' = "verify" /\ partial' = cut /\ local' = local \cup (IF cut THEN {ref} ELSE History[ref])
       ELSE pc' = "clone_failed" /\ UNCHANGED <<partial, local>>
    /\ UNCHANGED <<server, ref, tree, path, faults>>

\* a name in the clone may shadow the commit
Checkout(c) ==
    /\ Step("checkout", "compare") /\ c \in local /\ tree' = c
    /\ UNCHANGED <<ref, local, partial, path, faults>>

Compare ==
    /\ pc = "compare" /\ pc' = (IF tree = ref THEN "find" ELSE "clone_failed")
    /\ faults' = (faults \/ tree # ref)
    /\ UNCHANGED <<server, ref, local, partial, tree, path>>

\* A root file by precedence, else the only file there is.
Chosen(root, below) ==
    IF root # {} THEN {<<"root", CHOOSE n \in root : \A o \in root : n <= o>>}
    ELSE {<<"below", n>> : n \in {p \in below : below = {p}}}

Find ==
    /\ pc = "find"
    /\ LET found == Chosen(Root[tree], Below[tree])
       IN \/ found = {} /\ pc' = (IF Below[tree] = {} THEN "missing" ELSE "ambiguous") /\ UNCHANGED path
          \/ pc' = "read" /\ path' \in found
    /\ UNCHANGED <<server, ref, local, partial, tree, faults>>

Done == pc \in Ended /\ UNCHANGED vars

Next ==
    \/ \E c \in Commit : Push(c) \/ Checkout(c)
    \/ \E cut \in BOOLEAN : Clone(cut) \/ Fetch(cut)
    \/ Collect \/ Resolve \/ Unresolved \/ GitFails \/ Verify \/ Compare \/ Find \/ Done

Spec == Init /\ [][Next]_vars

-----------------------------------------------------------------------------
(***************************************************************************)
(* Properties.                                                             *)
(***************************************************************************)

\* The server keeps what its branch reaches; a checkout is of the clone.
TypeOK ==
    /\ History[branch] \subseteq held /\ held \subseteq Commit
    /\ pc \in Ended \cup {"resolve", "clone", "verify", "fetch", "checkout", "compare", "find"}
    /\ pc \in {"compare", "find", "read"} => tree \in local

\* "Git then performs a complete clone, and the local checkout is pinned to
\* that SHA before any Compose search is performed" (discover_compose).
ReadsWhatWasResolved == pc \in {"find", "read"} => tree = ref /\ ~partial /\ History[ref] \subseteq local

\* One commit gives one document: whoever reads it, whatever the branch does
\* meanwhile (_find_compose_path).
OneDocument ==
    pc = "read" =>
      \/ Root[ref] # {} /\ path = <<"root", CHOOSE n \in Root[ref] : \A o \in Root[ref] : n <= o>>
      \/ Root[ref] = {} /\ Below[ref] = {path[2]}

\* A push while the repository is read does not fail the reader: short of a
\* fault, only a commit the server has dropped does.
FailureIsEarned == pc = "clone_failed" /\ ~faults => ref \notin held
=============================================================================
