----------------------------- MODULE Workspaces -----------------------------
(***************************************************************************)
(* The uploaded files of one application and the snapshots its builds take *)
(* of them (workspaces.py).  Requests of the API and operations of the     *)
(* workers run as processes that share a directory and a lock file; some   *)
(* of them may be cut short by a storage error or a crash, which releases  *)
(* the lock.  Operations of one build exclude each other (BuildLease).     *)
(*                                                                         *)
(* A file's content is the number of the upload that brought it, 0 if      *)
(* there is no file.                                                       *)
(***************************************************************************)
EXTENDS Naturals, FiniteSets

CONSTANTS
    Process, Build, Nobody,
    Name, Parents,     \* paths, and the paths each of them is below
    Sizes,             \* how large the files of an upload may be
    MaxUploadBytes, MaxBytes, MaxFiles,
    MaxOperations, MaxFaults

NameAssumption == IsFiniteSet(Name) /\ Parents \in [Name -> SUBSET Name]
BoundAssumption ==
    /\ MaxOperations \in Nat \ {0} /\ MaxFaults \in Nat /\ Nobody \notin Process
    /\ Sizes \subseteq Nat /\ MaxBytes \in Nat /\ MaxFiles \in Nat

Tree == [Name -> 0..MaxOperations]
Empty == [n \in Name |-> 0]
Gone == <<>>

VARIABLES
    files, dirs,      \* the files, and which paths are directories
    size,             \* how large the files of each upload are
    lock,             \* who holds .lock
    pc, op,           \* each process, and what it was asked
    listed, done,     \* the files it has found, and which it has handled
    staged,           \* its temporary directory, or what it was served
    content, archive, \* each build's snapshot: its files, and workspace.tar
    build, inputs,    \* each build's stage, and the snapshot of its record
    litter,           \* builds whose temporary directory was left behind
    operations, faults

fileVars == <<files, dirs, size>>
snapshotVars == <<content, archive>>
recordVars == <<build, inputs>>
ownVars == <<listed, done, staged>>
counters == <<operations, faults>>
vars == <<fileVars, lock, pc, op, ownVars, snapshotVars, recordVars, litter, counters>>

NoOp == [kind |-> "none", names |-> {}, build |-> "none", id |-> 0]

\* what an earlier upload has left, if there was one
Init ==
    /\ \E names \in SUBSET Name, bytes \in Sizes :
         /\ \A n \in names : Parents[n] \cap names = {}
         /\ bytes * Cardinality(names) <= MaxBytes /\ Cardinality(names) <= MaxFiles
         /\ files = [n \in Name |-> IF n \in names THEN 1 ELSE 0]
         /\ dirs = UNION {Parents[n] : n \in names}
         /\ size = [i \in 1..MaxOperations |-> IF i = 1 THEN bytes ELSE 0]
    /\ lock = Nobody /\ pc = [p \in Process |-> "idle"] /\ op = [p \in Process |-> NoOp]
    /\ listed = [p \in Process |-> Empty] /\ staged = listed /\ done = [p \in Process |-> {}]
    /\ content = [b \in Build |-> Gone] /\ archive = content /\ inputs = content
    /\ build = [b \in Build |-> "none"] /\ litter = {}
    /\ operations = 1 /\ faults = 0

Present(tree) == {n \in Name : tree[n] # 0}
\* what the files hold, byte by byte
Bytes(tree) == Cardinality(UNION {{n} \X (1..size[tree[n]]) : n \in Present(tree)})
WithinLimits(tree) == Bytes(tree) <= MaxBytes /\ Cardinality(Present(tree)) <= MaxFiles

\* The build's snapshot or record is in the hands of one operation: BuildLease.
Busy(b) == \E p \in Process : op[p].build = b /\ op[p].kind # "download"

Goto(p, label) == pc' = [pc EXCEPT ![p] = label]

Begin(p, label, kind, names, b) ==
    /\ pc[p] = "idle" /\ operations < MaxOperations
    /\ operations' = operations + 1
    /\ op' = [op EXCEPT ![p] = [kind |-> kind, names |-> names, build |-> b, id |-> operations']]
    /\ Goto(p, label)
    /\ UNCHANGED <<files, dirs, lock, ownVars, snapshotVars, litter, faults>>

\* the operation returns or fails, and forgets what it had in hand
Leave(p) ==
    /\ Goto(p, "idle") /\ op' = [op EXCEPT ![p] = NoOp]
    /\ listed' = [listed EXCEPT ![p] = Empty] /\ staged' = [staged EXCEPT ![p] = Empty]
    /\ done' = [done EXCEPT ![p] = {}]
    /\ lock' = IF lock = p THEN Nobody ELSE lock
    /\ UNCHANGED operations

-----------------------------------------------------------------------------
\* paths that are no paths, or overlap, are refused before anything else
Upload(p, names, bytes) ==
    /\ \A n \in names : Parents[n] \cap names = {}
    /\ Begin(p, "acquire", "upload", names, "none")
    /\ size' = [size EXCEPT ![operations'] = bytes]
    /\ UNCHANGED recordVars

Delete(p, n) == Begin(p, "acquire", "delete", {n}, "none") /\ UNCHANGED <<size, recordVars>>

\* queue_build registers the snapshot's path before it takes the snapshot
QueueBuild(p, b) ==
    /\ build[b] = "none" /\ build' = [build EXCEPT ![b] = "preparing"]
    /\ Begin(p, "acquire", "snapshot", {}, b)
    /\ UNCHANGED <<size, inputs>>

Clean(p, b) ==
    /\ build[b] \in {"preparing", "ready", "cleaning"} /\ ~Busy(b)
    /\ build' = [build EXCEPT ![b] = "cleaning"]
    /\ Begin(p, "acquire", "clean", {}, b)
    /\ UNCHANGED <<size, inputs>>

\* mutation: the lock is shared
AcquireShared(p) ==
    /\ pc[p] = "acquire"
    /\ lock' = p
    /\ listed' = [listed EXCEPT ![p] = files]
    /\ Goto(p, op[p].kind)
    /\ UNCHANGED <<fileVars, op, done, staged, snapshotVars, recordVars, litter, counters>>

\* _lock, _files
Acquire(p) ==
    /\ pc[p] = "acquire" /\ lock = Nobody
    /\ lock' = p
    /\ listed' = [listed EXCEPT ![p] = files]
    /\ Goto(p, op[p].kind)
    /\ UNCHANGED <<fileVars, op, done, staged, snapshotVars, recordVars, litter, counters>>

-----------------------------------------------------------------------------
(***************************************************************************)
(* upload                                                                  *)
(***************************************************************************)
After(p) == [n \in Name |-> IF n \in op[p].names THEN op[p].id ELSE listed[p][n]]

Conflict(p) == \E n \in op[p].names : n \in dirs \/ \E d \in Parents[n] : files[d] # 0

Acceptable(p) ==
    /\ ~Conflict(p)
    /\ size[op[p].id] * Cardinality(op[p].names) <= MaxUploadBytes
    /\ WithinLimits(After(p))

Stage(p) ==
    /\ pc[p] = "upload"
    /\ IF Acceptable(p) THEN Goto(p, "replace") /\ staged' = [staged EXCEPT ![p] = After(p)]
       ELSE Goto(p, "refused") /\ UNCHANGED staged
    /\ UNCHANGED <<fileVars, lock, op, listed, done, snapshotVars, recordVars, litter, counters>>

Replace(p, n) ==
    /\ pc[p] = "replace" /\ n \in op[p].names \ done[p]
    /\ files' = [files EXCEPT ![n] = op[p].id] /\ dirs' = dirs \cup Parents[n]
    /\ done' = [done EXCEPT ![p] = @ \cup {n}]
    /\ UNCHANGED <<size, lock, pc, op, listed, staged, snapshotVars, recordVars, litter, counters>>

Uploaded(p) ==
    /\ pc[p] = "replace" /\ done[p] = op[p].names /\ Leave(p)
    /\ UNCHANGED <<fileVars, snapshotVars, recordVars, litter, faults>>

(***************************************************************************)
(* delete_file: no file, a directory, or the file and then the directories *)
(* above it that have nothing left                                         *)
(***************************************************************************)
Unlink(p, n) ==
    /\ pc[p] = "delete" /\ n \in op[p].names
    /\ IF files[n] = 0 THEN Goto(p, "refused") /\ UNCHANGED files
       ELSE Goto(p, "prune") /\ files' = [files EXCEPT ![n] = 0]
    /\ UNCHANGED <<dirs, size, lock, op, ownVars, snapshotVars, recordVars, litter, counters>>

Vacant(n) == {d \in Parents[n] : \A x \in Name : files[x] # 0 => d \notin Parents[x]}

Prune(p, n) ==
    /\ pc[p] = "prune" /\ n \in op[p].names
    /\ dirs' = dirs \ Vacant(n) /\ Leave(p)
    /\ UNCHANGED <<files, size, snapshotVars, recordVars, litter, faults>>

-----------------------------------------------------------------------------
(***************************************************************************)
(* snapshot: the files are copied and packed aside, then renamed           *)
(***************************************************************************)
Copy(p, n) ==
    /\ pc[p] = "snapshot" /\ n \in Present(listed[p]) \ done[p]
    /\ staged' = [staged EXCEPT ![p][n] = files[n]] /\ done' = [done EXCEPT ![p] = @ \cup {n}]
    /\ UNCHANGED <<fileVars, lock, pc, op, listed, snapshotVars, recordVars, litter, counters>>


Pack(p) == staged[p]

Publish(p) ==
    /\ pc[p] = "snapshot" /\ done[p] = Present(listed[p])
    /\ content' = [content EXCEPT ![op[p].build] = staged[p]]
    /\ archive' = [archive EXCEPT ![op[p].build] = Pack(p)]
    /\ lock' = IF lock = p THEN Nobody ELSE lock
    /\ Goto(p, "describe")
    /\ UNCHANGED <<fileVars, op, ownVars, recordVars, litter, counters>>

\* the digest in the build's record, and inputs_ready
Describe(p) ==
    /\ pc[p] = "describe"
    /\ inputs' = [inputs EXCEPT ![op[p].build] = staged[p]]
    /\ build' = [build EXCEPT ![op[p].build] = "ready"]
    /\ Leave(p)
    /\ UNCHANGED <<fileVars, snapshotVars, litter, faults>>

-----------------------------------------------------------------------------
(***************************************************************************)
(* What reads a snapshot                                                   *)
(***************************************************************************)
\* download_workspace_snapshot: Jenkins has the build's token
Download(p, b) ==
    /\ build[b] \in {"ready", "cleaning"} /\ inputs[b] # Gone
    /\ Begin(p, IF archive[b] # Gone THEN "serve" ELSE "refused", "download", {}, b)
    /\ UNCHANGED <<size, recordVars>>

\* the response opens the archive again
Serve(p) ==
    /\ pc[p] = "serve"
    /\ IF archive[op[p].build] # Gone
       THEN Goto(p, "received") /\ staged' = [staged EXCEPT ![p] = archive[op[p].build]]
       ELSE Goto(p, "refused") /\ UNCHANGED staged
    /\ UNCHANGED <<fileVars, lock, op, listed, done, snapshotVars, recordVars, litter, counters>>

\* _resolve_source: a mount's source is a file or has files
Found(b, n) == {x \in Present(content[b]) : x = n \/ n \in Parents[x]}

Mount(p, b, n) ==
    /\ build[b] = "ready" /\ ~Busy(b)
    /\ Begin(p, IF Found(b, n) # {} THEN "mounted" ELSE "refused", "mount", {n}, b)
    /\ UNCHANGED <<size, recordVars>>

Return(p) ==
    /\ pc[p] \in {"refused", "received", "mounted"} /\ Leave(p)
    /\ UNCHANGED <<fileVars, snapshotVars, recordVars, litter, faults>>

(***************************************************************************)
(* delete_build_snapshot                                                   *)
(***************************************************************************)
Removed(b) == content[b] = Gone /\ archive[b] = Gone

Remove(p, b) ==
    /\ pc[p] = "clean" /\ op[p].build = b /\ ~Removed(b)
    /\ \/ archive[b] # Gone /\ archive' = [archive EXCEPT ![b] = Gone] /\ UNCHANGED content
       \/ /\ content[b] # Gone /\ UNCHANGED archive
          /\ IF content[b] = Empty THEN content' = [content EXCEPT ![b] = Gone]
             ELSE \E n \in Present(content[b]) : content' = [content EXCEPT ![b][n] = 0]
    /\ UNCHANGED <<fileVars, lock, pc, op, ownVars, recordVars, litter, counters>>

Cleaned(p, b) ==
    /\ pc[p] = "clean" /\ op[p].build = b /\ Removed(b)
    /\ build' = [build EXCEPT ![b] = "cleaned"] /\ Leave(p)
    /\ UNCHANGED <<fileVars, snapshotVars, inputs, litter, faults>>

-----------------------------------------------------------------------------
\* A storage error or the end of the process, which leaves its temporary
\* directory behind.  In an upload a directory may have been made already.
Cut(p, crash) ==
    /\ pc[p] \notin {"idle", "refused", "received", "mounted"} /\ faults < MaxFaults
    /\ faults' = faults + 1
    /\ IF pc[p] = "replace" /\ op[p].names # done[p]
       THEN \E n \in op[p].names \ done[p] : dirs' \in {dirs, dirs \cup Parents[n]} ELSE UNCHANGED dirs
    /\ litter' = IF crash /\ pc[p] = "snapshot" THEN litter \cup {op[p].build} ELSE litter
    /\ Leave(p)
    /\ UNCHANGED <<files, size, snapshotVars, recordVars>>

Quiet == operations = MaxOperations /\ (\A p \in Process : pc[p] = "idle") /\ UNCHANGED vars

Next ==
    \/ \E p \in Process, names \in (SUBSET Name) \ {{}}, bytes \in Sizes : Upload(p, names, bytes)
    \/ \E p \in Process :
         \/ Acquire(p) \/ Stage(p) \/ Uploaded(p) \/ Publish(p) \/ Describe(p) \/ Serve(p) \/ Return(p)
         \/ \E n \in Name : Delete(p, n) \/ Replace(p, n) \/ Unlink(p, n) \/ Prune(p, n) \/ Copy(p, n)
         \/ \E b \in Build : \/ QueueBuild(p, b) \/ Clean(p, b) \/ Download(p, b) \/ Remove(p, b) \/ Cleaned(p, b)
                             \/ \E n \in Name : Mount(p, b, n)
         \/ \E crash \in BOOLEAN : Cut(p, crash)
    \/ Quiet

Spec == Init /\ [][Next]_vars

-----------------------------------------------------------------------------
(***************************************************************************)
(* Properties.                                                             *)
(***************************************************************************)

\* The directory is one a file system can hold: no file is a directory, and
\* what is above a file is one (the conflicts upload refuses).
TypeOK ==
    /\ files \in Tree /\ dirs \subseteq Name /\ Present(files) \cap dirs = {}
    /\ \A n \in Present(files) : Parents[n] \subseteq dirs
    /\ \A b \in Build : {content[b], archive[b], inputs[b]} \subseteq Tree \cup {Gone}

\* "Batch does not partially write": an upload or a deletion that is refused
\* has changed nothing, nor has anybody else before the answer (upload).
RefusedChangesNothing ==
    \A p \in Process : pc[p] = "refused" /\ op[p].kind \in {"upload", "delete"} => files = listed[p]

\* Whatever uploads overlap, the application stays within its quota (upload).
WithinQuota == lock = Nobody /\ faults = 0 => WithinLimits(files)

\* A deletion gives back the paths above the file: no directory is left that
\* keeps an upload of that name out (delete_file).
PathsAreFreed == lock = Nobody /\ faults = 0 => \A d \in dirs : \E n \in Present(files) : d \in Parents[n]

\* A snapshot appears whole, as the workspace is at that moment, and changes
\* only by removal once its build is being cleaned (snapshot, and the API's
\* "later uploads do not affect a build").
SnapshotsAreMoments ==
    [][\A b \in Build : content'[b] # content[b] =>
         IF content[b] = Gone THEN content'[b] = files /\ archive'[b] = files ELSE build[b] = "cleaning"]_vars

\* Jenkins receives, and containers mount, what the build's record describes
\* (workspace_archive_sha256), also while uploads go on and cleanup starts.
BuildReadsItsInputs ==
    \A p \in Process : LET b == op[p].build IN
      /\ pc[p] = "received" => staged[p] = inputs[b]
      /\ pc[p] = "mounted" => /\ content[b] = inputs[b]
                              /\ \E n \in Present(inputs[b]), d \in op[p].names : n = d \/ d \in Parents[n]

\* A snapshot whose cleanup has succeeded, perhaps after one that was cut
\* short, is gone with its archive (delete_build_snapshot).
CleanedIsRemoved == \A b \in Build : build[b] = "cleaned" => content[b] = Gone /\ archive[b] = Gone

\* Cleanup of a build removes every copy of its inputs, also one that was not
\* finished.  The code does not keep this: README, section 4.
NoCopyLeft == \A b \in Build : build[b] = "cleaned" => b \notin litter
=============================================================================
