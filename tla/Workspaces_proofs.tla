-------------------------- MODULE Workspaces_proofs --------------------------
(***************************************************************************)
(* Uploads, deletions and snapshots of one application's workspace, however *)
(* many processes share it and whichever of them are cut short: the files   *)
(* remain a directory, a refusal has changed nothing, a deletion gives its  *)
(* paths back, a snapshot is the workspace at one moment and is what its    *)
(* build reads, and a cleanup that succeeds leaves neither it nor its       *)
(* archive; and the application stays within its quota.                     *)
(*                                                                          *)
(* The files are guarded by the lock: FilesSound says what its holder       *)
(* knows of them where it stands.  The snapshot of a build is guarded by    *)
(* nothing but the order of the build's operations: SnapshotSound says what *)
(* each stage of a build, and each operation on it, implies.                *)
(***************************************************************************)
EXTENDS Services, FiniteSetTheorems, TLAPS

\* Where the lock is held; a refused upload or deletion holds it to its end.
Locked == {"upload", "replace", "delete", "prune", "snapshot", "clean"}
OnFiles == {"upload", "delete"}
Inside(p) == wsPc[p] \in Locked \/ (wsPc[p] = "refused" /\ wsOp[p].kind \in OnFiles)

\* Operations on a build that exclude each other.
OnBuild == {"snapshot", "clean", "mount"}

Label == Locked \cup {"idle", "acquire", "refused", "describe", "serve", "received", "mounted"}
Kind == OnFiles \cup OnBuild \cup {"none", "download"}
Operation == [kind : Kind, names : SUBSET Name, build : Snap \cup {"none"}, id : 0..MaxOperations]

Typed ==
    /\ files \in Files!Tree /\ dirs \in SUBSET Name
    /\ wsPc \in [Thread -> Label] /\ wsOp \in [Thread -> Operation]
    /\ listed \in [Thread -> Files!Tree] /\ staged \in [Thread -> Files!Tree] /\ done \in [Thread -> SUBSET Name]
    /\ content \in [Snap -> Files!Tree \cup {Files!Gone}] /\ archive \in [Snap -> Files!Tree \cup {Files!Gone}]
    /\ inputs \in [Snap -> Files!Tree \cup {Files!Gone}]
    /\ build \in [Snap -> {"none", "preparing", "ready", "cleaning", "cleaned"}]
    /\ operations \in 1..MaxOperations /\ wsFaults \in Nat

\* What a process was asked, and where that leads it.
Asked(p) ==
    /\ wsOp[p].kind = "none" <=> wsPc[p] = "idle"
    /\ wsPc[p] = "acquire" => wsOp[p].kind \in OnFiles \cup {"snapshot", "clean"}
    /\ wsPc[p] \in {"upload", "replace"} => wsOp[p].kind = "upload"
    /\ wsPc[p] \in {"delete", "prune"} => wsOp[p].kind = "delete"
    /\ wsPc[p] \in {"snapshot", "describe"} => wsOp[p].kind = "snapshot"
    /\ wsPc[p] = "clean" => wsOp[p].kind = "clean"
    /\ wsPc[p] \in {"serve", "received"} => wsOp[p].kind = "download"
    /\ wsPc[p] = "mounted" => wsOp[p].kind = "mount"
    /\ wsOp[p].kind = "upload" => wsOp[p].id # 0 /\ \A n \in wsOp[p].names : Parents[n] \cap wsOp[p].names = {}
    /\ wsOp[p].kind = "delete" => \E n \in Name : wsOp[p].names = {n}
    /\ wsOp[p].kind \in OnBuild \cup {"download"} => wsOp[p].build \in Snap

-----------------------------------------------------------------------------
(***************************************************************************)
(* The files.                                                              *)
(***************************************************************************)
\* No file is a directory, and what is above a file is one.
Directory ==
    /\ \A n \in Name : files[n] # 0 => n \notin dirs
    /\ \A n \in Name : files[n] # 0 => Parents[n] \subseteq dirs

\* Only a deletion that has yet to look above its file leaves a path in vain,
\* if nothing is cut short.
InUse(d) == \E n \in Name : files[n] # 0 /\ d \in Parents[n]
Freed ==
    wsFaults = 0 => \A d \in dirs : InUse(d) \/ \E p \in Thread : wsPc[p] = "prune" /\ \E n \in wsOp[p].names : d \in Parents[n]

\* What the holder of the lock knows.
Holds(p) ==
    /\ Inside(p) => lock = p
    /\ wsPc[p] \in {"upload", "delete", "snapshot", "refused"} /\ Inside(p) => listed[p] = files
    /\ wsPc[p] = "replace" =>
          \A n \in wsOp[p].names : n \notin dirs /\ \A d \in Parents[n] : files[d] = 0
    /\ wsPc[p] \in {"idle", "acquire"} => done[p] = {} /\ staged[p] = Files!Empty
    /\ wsPc[p] = "snapshot" => \A n \in Name : staged[p][n] = IF n \in done[p] THEN files[n] ELSE 0

FilesSound == Directory /\ Freed /\ \A p \in Thread : Holds(p)

-----------------------------------------------------------------------------
(***************************************************************************)
(* The snapshots.                                                          *)
(***************************************************************************)
\* What the stage of a build says of its snapshot.
Staged(b) ==
    /\ build[b] = "none" => content[b] = Files!Gone /\ archive[b] = Files!Gone
    /\ build[b] \in {"none", "preparing"} => inputs[b] = Files!Gone
    /\ build[b] = "ready" => content[b] = inputs[b] /\ archive[b] = inputs[b]
    /\ build[b] = "cleaning" => inputs[b] = Files!Gone \/ archive[b] \in {Files!Gone, inputs[b]}
    /\ build[b] = "cleaned" => content[b] = Files!Gone /\ archive[b] = Files!Gone

\* What an operation relies on.
Relies(p) == LET b == wsOp[p].build IN
    /\ wsOp[p].kind = "snapshot" => build[b] = "preparing"
    /\ wsOp[p].kind = "snapshot" /\ wsPc[p] # "describe" => content[b] = Files!Gone /\ archive[b] = Files!Gone
    /\ wsPc[p] = "describe" => content[b] = staged[p] /\ archive[b] = staged[p]
    /\ wsOp[p].kind = "clean" => build[b] = "cleaning"
    /\ wsOp[p].kind = "mount" => build[b] = "ready"
    /\ wsPc[p] = "mounted" => \E n \in wsOp[p].names : Files!Found(b, n) # {}
    /\ wsOp[p].kind = "download" => build[b] \in {"ready", "cleaning", "cleaned"} /\ inputs[b] # Files!Gone
    /\ wsPc[p] = "received" => staged[p] = inputs[b]

\* Operations on one build exclude each other.
Excluded ==
    \A p, q \in Thread :
       wsOp[p].kind \in OnBuild /\ wsOp[q].kind \in OnBuild /\ wsOp[p].build = wsOp[q].build => p = q

SnapshotSound == (\A b \in Snap : Staged(b)) /\ (\A p \in Thread : Relies(p)) /\ Excluded

IInv == Typed /\ (\A p \in Thread : Asked(p)) /\ FilesSound /\ SnapshotSound

-----------------------------------------------------------------------------
(***************************************************************************)
(* What a step of one process leaves to the others.                        *)
(***************************************************************************)
Own(p) == <<wsPc[p], wsOp[p], listed[p], staged[p], done[p]>>
Others(p) ==
    \A q \in Thread \ {p} :
       /\ wsPc'[q] = wsPc[q] /\ wsOp'[q] = wsOp[q]
       /\ listed'[q] = listed[q] /\ staged'[q] = staged[q] /\ done'[q] = done[q]

\* The lock is taken when nobody has it, and released by its holder; the files
\* change only inside.
Guarded(p) ==
    /\ lock' = lock \/ lock \in {p, Nobody}
    /\ UNCHANGED <<files, dirs>> \/ Inside(p)

LEMMA OthersHold ==
    ASSUME Files!BoundAssumption, NEW p \in Thread, Others(p), Guarded(p), NEW q \in Thread \ {p}, Holds(p), Holds(q)
    PROVE  Holds(q)'
<1>1. Inside(q)' <=> Inside(q)
  BY DEF Others, Inside
<1>2. Inside(q) => lock' = lock /\ UNCHANGED <<files, dirs>>
  BY DEF Holds, Guarded, Files!BoundAssumption
<1>3. wsPc[q] \in {"upload", "delete", "snapshot", "replace"} => Inside(q)
  BY DEF Inside, Locked
<1>4. Inside(q)' => lock' = q
  BY <1>1, <1>2 DEF Holds
<1>5. wsPc'[q] \in {"upload", "delete", "snapshot", "refused"} /\ Inside(q)' => listed'[q] = files'
  BY <1>1, <1>2 DEF Holds, Others
<1>6. wsPc'[q] = "replace" => \A n \in wsOp'[q].names : n \notin dirs' /\ \A d \in Parents[n] : files'[d] = 0
  BY <1>2, <1>3 DEF Holds, Others
<1>7. wsPc'[q] \in {"idle", "acquire"} => done'[q] = {} /\ staged'[q] = Files!Empty
  BY DEF Holds, Others
<1>8. wsPc'[q] = "snapshot" => \A n \in Name : staged'[q][n] = IF n \in done'[q] THEN files'[n] ELSE 0
  BY <1>2, <1>3 DEF Holds, Others
<1> QED
  BY <1>4, <1>5, <1>6, <1>7, <1>8 DEF Holds

\* A snapshot and its record change only in the hands of the operation the build
\* is in, and not under those who download it.
SameBuild(b) == content'[b] = content[b] /\ archive'[b] = archive[b] /\ inputs'[b] = inputs[b] /\ build'[b] = build[b]
Unshared(p, b) == \A q \in Thread \ {p} : wsOp[q].build = b => wsOp[q].kind \notin OnBuild
Served == {"ready", "cleaning", "cleaned"}
Mine(p) ==
    \A b \in Snap :
       \/ SameBuild(b)
       \/ /\ Unshared(p, b)
          /\ build[b] \in Served => build'[b] \in Served /\ inputs'[b] = inputs[b]

LEMMA OthersRely ==
    ASSUME NEW p \in Thread, Others(p), Mine(p), NEW q \in Thread \ {p}, Asked(q), Relies(q)
    PROVE  Relies(q)'
<1> DEFINE b == wsOp[q].build
<1>1. wsOp'[q] = wsOp[q] /\ wsPc'[q] = wsPc[q] /\ staged'[q] = staged[q]
  BY DEF Others
<1>2. CASE wsOp[q].kind \notin OnBuild \cup {"download"}
  BY <1>1, <1>2 DEF Relies, Asked, OnBuild, OnFiles
<1>3. CASE wsOp[q].kind \in OnBuild \cup {"download"} /\ SameBuild(b)
  BY <1>1, <1>3 DEF Relies, SameBuild, Files!Found, Files!Present
<1>4. CASE wsOp[q].kind \in OnBuild \cup {"download"} /\ ~SameBuild(b)
  <2>1. /\ b \in Snap /\ wsOp[q].kind = "download"
        /\ build[b] \in Served => build'[b] \in Served /\ inputs'[b] = inputs[b]
    BY <1>4 DEF Mine, Asked, Unshared
  <2>2. build[b] \in Served
    BY <2>1 DEF Relies, Served
  <2>3. wsPc[q] # "describe" /\ wsPc[q] # "mounted"
    BY <2>1 DEF Asked
  <2> QED
    BY <1>1, <2>1, <2>2, <2>3 DEF Relies, Served
<1> QED
  BY <1>2, <1>3, <1>4

\* Together.
LEMMA Together ==
    ASSUME Files!BoundAssumption, NEW p \in Thread, IInv, Others(p), Guarded(p), Mine(p),
           wsOp'[p] = wsOp[p] \/ wsOp'[p].kind \notin OnBuild \/ Unshared(p, wsOp'[p].build),
           Typed', Asked(p)', Directory', Freed', Holds(p)', \A b \in Snap : Staged(b)', Relies(p)'
    PROVE  IInv'
<1>1. \A q \in Thread : Asked(q)'
  BY DEF IInv, Others, Asked
<1>2. \A q \in Thread : Holds(q)'
  BY OthersHold DEF IInv, FilesSound
<1>3. \A q \in Thread : Relies(q)'
  BY OthersRely DEF IInv, SnapshotSound
<1>4. Excluded'
  <2>1. SUFFICES ASSUME NEW q \in Thread \ {p}, wsOp'[p].kind \in OnBuild, wsOp'[q].kind \in OnBuild,
                        wsOp'[p].build = wsOp'[q].build
                 PROVE  FALSE
    BY DEF Excluded, Others, IInv, SnapshotSound
  <2> QED
    BY <2>1 DEF Excluded, Others, IInv, SnapshotSound, Unshared
<1> QED
  BY <1>1, <1>2, <1>3, <1>4 DEF IInv, FilesSound, SnapshotSound

\* A step that leaves the files alone; one that leaves snapshots and records alone.
LEMMA FilesStill ==
    ASSUME IInv, NEW p \in Thread, Others(p), UNCHANGED <<files, dirs>>, wsPc[p] # "prune" \/ (wsPc'[p] = "prune" /\ wsOp' = wsOp),
           wsFaults' = 0 => wsFaults = 0
    PROVE  Directory' /\ Freed'
<1>1. Directory'
  BY DEF IInv, FilesSound, Directory
<1>2. ASSUME wsFaults' = 0, NEW d \in dirs', NEW q \in Thread, wsPc[q] = "prune", NEW n \in wsOp[q].names, d \in Parents[n]
      PROVE  wsPc'[q] = "prune" /\ n \in wsOp'[q].names
  BY <1>2 DEF Others
<1>3. \A d : InUse(d)' <=> InUse(d)
  BY DEF InUse
<1> QED
  BY <1>1, <1>2, <1>3 DEF IInv, FilesSound, Freed

LEMMA SnapshotsStill ==
    ASSUME IInv, UNCHANGED <<content, archive, inputs, build>>, NEW p \in Thread
    PROVE  Mine(p) /\ \A b \in Snap : Staged(b)'
<1>1. \A b \in Snap : SameBuild(b)
  BY DEF SameBuild
<1>2. \A b \in Snap : Staged(b)'
  BY DEF IInv, SnapshotSound, Staged
<1> QED
  BY <1>1, <1>2 DEF Mine

-----------------------------------------------------------------------------
(***************************************************************************)
(* An operation begins.                                                    *)
(***************************************************************************)
\* What Begin sets.
LEMMA Beginning ==
    ASSUME Typed, Files!BoundAssumption, NEW p \in Thread, NEW label \in Label, NEW kind \in Kind,
           NEW names \in SUBSET Name, NEW b \in Snap \cup {"none"}, Files!Begin(p, label, kind, names, b)
    PROVE  /\ wsPc[p] = "idle" /\ wsPc'[p] = label /\ wsOp'[p].kind = kind /\ wsOp'[p].names = names /\ wsOp'[p].build = b
           /\ wsOp'[p].id # 0
           /\ wsPc' \in [Thread -> Label] /\ wsOp' \in [Thread -> Operation] /\ operations' \in 1..MaxOperations
           /\ Others(p)
           /\ UNCHANGED <<files, dirs, lock, listed, done, staged, content, archive, wsFaults>>
<1>1. /\ operations' = operations + 1 /\ operations < MaxOperations
      /\ wsOp' = [wsOp EXCEPT ![p] = [kind |-> kind, names |-> names, build |-> b, id |-> operations']]
      /\ wsPc' = [wsPc EXCEPT ![p] = label] /\ wsPc[p] = "idle"
      /\ UNCHANGED <<files, dirs, lock, listed, done, staged, content, archive, wsFaults>>
  BY DEF Files!Begin, Files!Goto, Files!ownVars, Files!snapshotVars
<1>2. operations' \in 1..MaxOperations /\ operations' \in 0..MaxOperations /\ operations' # 0
  BY <1>1 DEF Typed, Files!BoundAssumption
<1>3. [kind |-> kind, names |-> names, build |-> b, id |-> operations'] \in Operation
  BY <1>2 DEF Operation
<1> QED
  BY <1>1, <1>2, <1>3 DEF Typed, Others

LEMMA BeginSteps ==
    ASSUME Files!NameAssumption, Files!BoundAssumption, IInv, NEW p \in Thread,
           \/ \E names \in (SUBSET Name) \ {{}}, bytes \in Sizes : Files!Upload(p, names, bytes)
           \/ \E n \in Name : Files!Delete(p, n)
           \/ \E b \in Snap : Files!QueueBuild(p, b) \/ Files!Clean(p, b) \/ Files!Download(p, b) \/ \E n \in Name : Files!Mount(p, b, n)
    PROVE  IInv'
<1> USE DEF Label, Kind, Locked, OnFiles, OnBuild
<1>0. Typed /\ Asked(p) /\ Holds(p) /\ Relies(p)
  BY DEF IInv, FilesSound, SnapshotSound
\* all of them leave the files and snapshots alone
<1>1. ASSUME NEW label \in Label, NEW kind \in Kind \ {"none"}, NEW names \in SUBSET Name,
             NEW b \in Snap \cup {"none"}, Files!Begin(p, label, kind, names, b),
             build' \in [Snap -> {"none", "preparing", "ready", "cleaning", "cleaned"}], UNCHANGED inputs,
             Mine(p), kind \in OnBuild => Unshared(p, b), Asked(p)', \A c \in Snap : Staged(c)', Relies(p)',
             label \notin Locked, label = "refused" => kind \notin OnFiles
      PROVE  IInv'
  <2>1. /\ wsPc[p] = "idle" /\ wsPc'[p] = label /\ wsOp'[p].kind = kind /\ wsOp'[p].build = b
        /\ wsPc' \in [Thread -> Label] /\ wsOp' \in [Thread -> Operation] /\ operations' \in 1..MaxOperations
        /\ Others(p)
        /\ UNCHANGED <<files, dirs, lock, listed, done, staged, content, archive, wsFaults>>
    BY <1>0, <1>1, Beginning
  <2>2. Typed'
    BY <1>0, <1>1, <2>1 DEF Typed
  <2>3. Directory' /\ Freed'
    BY <2>1, FilesStill
  <2>4. Holds(p)'
    BY <1>0, <1>1, <2>1 DEF Holds, Inside
  <2> QED
    BY <1>1, <2>1, <2>2, <2>3, <2>4, Together DEF Guarded
<1>2. ASSUME NEW names \in (SUBSET Name) \ {{}}, NEW bytes \in Sizes, Files!Upload(p, names, bytes)
      PROVE  IInv'
  <2>1. /\ Files!Begin(p, "acquire", "upload", names, "none") /\ UNCHANGED <<build, inputs>>
        /\ \A n \in names : Parents[n] \cap names = {}
    BY <1>2 DEF Files!Upload, Files!recordVars
  <2>2. /\ wsPc'[p] = "acquire" /\ wsOp'[p].kind = "upload" /\ wsOp'[p].names = names /\ wsOp'[p].id # 0
        /\ UNCHANGED <<content, archive>>
    BY <1>0, <2>1, Beginning
  <2>3. Asked(p)' /\ Relies(p)'
    BY <2>1, <2>2 DEF Asked, Relies
  <2> QED
    BY <1>0, <1>1, <2>1, <2>2, <2>3, SnapshotsStill DEF Typed
<1>3. ASSUME NEW n \in Name, Files!Delete(p, n)
      PROVE  IInv'
  <2>1. Files!Begin(p, "acquire", "delete", {n}, "none") /\ UNCHANGED <<build, inputs>>
    BY <1>3 DEF Files!Delete, Files!recordVars
  <2>2. wsPc'[p] = "acquire" /\ wsOp'[p].kind = "delete" /\ wsOp'[p].names = {n} /\ UNCHANGED <<content, archive>>
    BY <1>0, <2>1, Beginning
  <2>3. Asked(p)' /\ Relies(p)'
    BY <2>1, <2>2 DEF Asked, Relies
  <2> QED
    BY <1>0, <1>1, <2>1, <2>2, <2>3, SnapshotsStill DEF Typed
<1>4. ASSUME NEW b \in Snap, Files!QueueBuild(p, b)
      PROVE  IInv'
  <2>0. {} \in SUBSET Name /\ b \in Snap \cup {"none"}
    OBVIOUS
  <2>1. /\ Files!Begin(p, "acquire", "snapshot", {}, b) /\ UNCHANGED inputs
        /\ build[b] = "none" /\ build' = [build EXCEPT ![b] = "preparing"]
    BY <1>4 DEF Files!QueueBuild
  <2>2. /\ wsPc'[p] = "acquire" /\ wsOp'[p].kind = "snapshot" /\ wsOp'[p].build = b /\ UNCHANGED <<content, archive>>
    <3>1. Files!Begin(p, "acquire", "snapshot", {}, b) /\ "acquire" \in Label /\ "snapshot" \in Kind
      BY <2>1
    <3> HIDE DEF Label, Kind
    <3> QED
      BY <1>0, <2>0, <3>1, Beginning
  <2>3. /\ build' \in [Snap -> {"none", "preparing", "ready", "cleaning", "cleaned"}]
        /\ build'[b] = "preparing" /\ \A c \in Snap \ {b} : build'[c] = build[c]
    BY <1>0, <2>1 DEF Typed
  <2>4. content[b] = Files!Gone /\ archive[b] = Files!Gone /\ inputs[b] = Files!Gone
    BY <2>1 DEF IInv, SnapshotSound, Staged
  <2>5. Unshared(p, b)
    BY <2>1 DEF Unshared, IInv, SnapshotSound, Relies
  <2>6. Mine(p)
    BY <2>1, <2>2, <2>3, <2>5 DEF Mine, SameBuild, Served
  <2>7. \A c \in Snap : Staged(c)'
    BY <2>1, <2>2, <2>3, <2>4 DEF IInv, SnapshotSound, Staged
  <2>8. Asked(p)' /\ Relies(p)'
    BY <2>2, <2>3, <2>4 DEF Asked, Relies
  <2> QED
    BY <1>1, <2>1, <2>3, <2>5, <2>6, <2>7, <2>8
<1>5. ASSUME NEW b \in Snap, Files!Clean(p, b)
      PROVE  IInv'
  <2>0. {} \in SUBSET Name /\ b \in Snap \cup {"none"}
    OBVIOUS
  <2>1. /\ Files!Begin(p, "acquire", "clean", {}, b) /\ UNCHANGED inputs /\ ~Files!Busy(b)
        /\ build[b] \in {"preparing", "ready", "cleaning"} /\ build' = [build EXCEPT ![b] = "cleaning"]
    BY <1>5 DEF Files!Clean
  <2>2. /\ wsPc'[p] = "acquire" /\ wsOp'[p].kind = "clean" /\ wsOp'[p].build = b /\ UNCHANGED <<content, archive>>
    <3>1. Files!Begin(p, "acquire", "clean", {}, b) /\ "acquire" \in Label /\ "clean" \in Kind
      BY <2>1
    <3> HIDE DEF Label, Kind
    <3> QED
      BY <1>0, <2>0, <3>1, Beginning
  <2>3. /\ build' \in [Snap -> {"none", "preparing", "ready", "cleaning", "cleaned"}]
        /\ build'[b] = "cleaning" /\ \A c \in Snap \ {b} : build'[c] = build[c]
    BY <1>0, <2>1 DEF Typed
  <2>4. inputs[b] = Files!Gone \/ archive[b] \in {Files!Gone, inputs[b]}
    BY <2>1 DEF IInv, SnapshotSound, Staged
  <2>5. Unshared(p, b)
    BY <2>1 DEF Unshared, Files!Busy
  <2>6. Mine(p)
    BY <2>1, <2>2, <2>3, <2>5 DEF Mine, SameBuild, Served
  <2>7. \A c \in Snap : Staged(c)'
    BY <2>1, <2>2, <2>3, <2>4 DEF IInv, SnapshotSound, Staged
  <2>8. Asked(p)' /\ Relies(p)'
    BY <2>2, <2>3 DEF Asked, Relies
  <2> QED
    BY <1>1, <2>1, <2>3, <2>5, <2>6, <2>7, <2>8
<1>6. ASSUME NEW b \in Snap, Files!Download(p, b)
      PROVE  IInv'
  <2>0. {} \in SUBSET Name /\ b \in Snap \cup {"none"}
    OBVIOUS
  <2>1. /\ \/ Files!Begin(p, "serve", "download", {}, b)
           \/ Files!Begin(p, "refused", "download", {}, b)
        /\ UNCHANGED <<build, inputs>> /\ build[b] \in {"ready", "cleaning"} /\ inputs[b] # Files!Gone
    BY <1>6 DEF Files!Download, Files!recordVars
  <2>2. /\ wsPc'[p] \in {"serve", "refused"} /\ wsOp'[p].kind = "download" /\ wsOp'[p].build = b
        /\ UNCHANGED <<content, archive>>
    <3>1. ASSUME NEW label \in {"serve", "refused"}, Files!Begin(p, label, "download", {}, b)
          PROVE  /\ wsPc'[p] = label /\ wsOp'[p].kind = "download" /\ wsOp'[p].build = b
                 /\ UNCHANGED <<content, archive>>
      BY <1>0, <2>0, <3>1, Beginning
    <3> QED
      BY <2>1, <3>1
  <2>3. Asked(p)' /\ Relies(p)'
    BY <2>1, <2>2 DEF Asked, Relies
  <2> QED
    BY <1>0, <1>1, <2>1, <2>2, <2>3, SnapshotsStill DEF Typed
<1>7. ASSUME NEW b \in Snap, NEW n \in Name, Files!Mount(p, b, n)
      PROVE  IInv'
  <2>0. {n} \in SUBSET Name /\ b \in Snap \cup {"none"}
    OBVIOUS
  <2>1. /\ \/ Files!Begin(p, "mounted", "mount", {n}, b) /\ Files!Found(b, n) # {}
           \/ Files!Begin(p, "refused", "mount", {n}, b)
        /\ UNCHANGED <<build, inputs>> /\ build[b] = "ready" /\ ~Files!Busy(b)
    BY <1>7 DEF Files!Mount, Files!recordVars
  <2>2. /\ wsPc'[p] \in {"mounted", "refused"} /\ wsOp'[p].kind = "mount" /\ wsOp'[p].build = b /\ wsOp'[p].names = {n}
        /\ UNCHANGED <<content, archive>> /\ (wsPc'[p] = "mounted" => Files!Found(b, n) # {})
    <3>1. ASSUME NEW label \in {"mounted", "refused"}, Files!Begin(p, label, "mount", {n}, b)
          PROVE  /\ wsPc'[p] = label /\ wsOp'[p].kind = "mount" /\ wsOp'[p].build = b /\ wsOp'[p].names = {n}
                 /\ UNCHANGED <<content, archive>>
      BY <1>0, <2>0, <3>1, Beginning
    <3> QED
      BY <2>1, <3>1
  <2>3. Files!Found(b, n)' = Files!Found(b, n)
    BY <2>2 DEF Files!Found, Files!Present
  <2>4. Asked(p)' /\ Relies(p)'
    BY <2>1, <2>2, <2>3 DEF Asked, Relies
  <2>5. Unshared(p, b)
    BY <2>1 DEF Unshared, Files!Busy
  <2> QED
    BY <1>0, <1>1, <2>1, <2>2, <2>4, <2>5, SnapshotsStill DEF Typed
<1> QED
  BY <1>2, <1>3, <1>4, <1>5, <1>6, <1>7

-----------------------------------------------------------------------------
(***************************************************************************)
(* An operation ends.                                                      *)
(***************************************************************************)
LEMMA Leaving ==
    ASSUME Typed, Files!BoundAssumption, NEW p \in Thread, Files!Leave(p)
    PROVE  /\ wsPc'[p] = "idle" /\ wsOp'[p].kind = "none" /\ staged'[p] = Files!Empty /\ done'[p] = {}
           /\ wsPc' \in [Thread -> Label] /\ wsOp' \in [Thread -> Operation]
           /\ listed' \in [Thread -> Files!Tree] /\ staged' \in [Thread -> Files!Tree] /\ done' \in [Thread -> SUBSET Name]
           /\ Others(p) /\ (lock' = lock \/ lock = p) /\ UNCHANGED operations
           /\ Asked(p)' /\ Holds(p)' /\ Relies(p)'
<1>1. /\ wsPc' = [wsPc EXCEPT ![p] = "idle"] /\ wsOp' = [wsOp EXCEPT ![p] = Files!NoOp]
      /\ listed' = [listed EXCEPT ![p] = Files!Empty] /\ staged' = [staged EXCEPT ![p] = Files!Empty]
      /\ done' = [done EXCEPT ![p] = {}]
      /\ (lock' = lock \/ lock = p) /\ UNCHANGED operations
  BY DEF Files!Leave, Files!Goto
<1>2. Files!Empty \in Files!Tree /\ Files!NoOp \in Operation /\ Files!NoOp.kind = "none" /\ "idle" \in Label
  BY DEF Files!Empty, Files!Tree, Files!NoOp, Operation, Kind, Label, Files!BoundAssumption
<1>3. /\ wsPc'[p] = "idle" /\ wsOp'[p].kind = "none" /\ staged'[p] = Files!Empty /\ done'[p] = {}
      /\ wsPc' \in [Thread -> Label] /\ wsOp' \in [Thread -> Operation]
      /\ listed' \in [Thread -> Files!Tree] /\ staged' \in [Thread -> Files!Tree] /\ done' \in [Thread -> SUBSET Name]
      /\ Others(p)
  BY <1>1, <1>2 DEF Typed, Others
<1>4. Asked(p)' /\ Holds(p)' /\ Relies(p)'
  BY <1>3 DEF Asked, Holds, Relies, Inside, Locked, OnFiles, OnBuild
<1> QED
  BY <1>1, <1>3, <1>4

\* ... and leaves snapshots and records alone.
LEMMA LeavingStill ==
    ASSUME Files!BoundAssumption, IInv, NEW p \in Thread, Files!Leave(p), UNCHANGED <<content, archive, inputs, build>>,
           files' \in Files!Tree, dirs' \in SUBSET Name, wsFaults' \in Nat, Directory', Freed',
           UNCHANGED <<files, dirs>> \/ Inside(p)
    PROVE  IInv'
<1>1. Typed
  BY DEF IInv
<1>2. /\ wsOp'[p].kind = "none" /\ Others(p) /\ (lock' = lock \/ lock = p) /\ UNCHANGED operations
      /\ wsPc' \in [Thread -> Label] /\ wsOp' \in [Thread -> Operation]
      /\ listed' \in [Thread -> Files!Tree] /\ staged' \in [Thread -> Files!Tree] /\ done' \in [Thread -> SUBSET Name]
      /\ Asked(p)' /\ Holds(p)' /\ Relies(p)'
  BY <1>1, Leaving
<1>3. Typed'
  BY <1>1, <1>2 DEF Typed
<1> QED
  BY <1>2, <1>3, SnapshotsStill, Together DEF Guarded, OnBuild

LEMMA Returns ==
    ASSUME Files!NameAssumption, Files!BoundAssumption, IInv, NEW p \in Thread, Files!Uploaded(p) \/ Files!Return(p)
    PROVE  IInv'
<1>1. /\ Files!Leave(p) /\ UNCHANGED <<files, dirs, content, archive, inputs, build, wsFaults>> /\ wsPc[p] # "prune"
  BY DEF Files!Uploaded, Files!Return, Files!fileVars, Files!snapshotVars, Files!recordVars
<1>2. Typed /\ Others(p)
  BY <1>1, Leaving DEF IInv
<1>3. Directory' /\ Freed'
  BY <1>1, <1>2, FilesStill
<1> QED
  BY <1>1, <1>2, <1>3, LeavingStill DEF Typed

-----------------------------------------------------------------------------
(***************************************************************************)
(* Steps on the files.                                                     *)
(***************************************************************************)
\* A step that leaves snapshots and records alone and goes on.
LEMMA FileStep ==
    ASSUME Files!BoundAssumption, IInv, NEW p \in Thread, Others(p), Guarded(p), wsOp' = wsOp,
           UNCHANGED <<content, archive, inputs, build, operations, wsFaults>>,
           wsPc' \in [Thread -> Label], listed' \in [Thread -> Files!Tree], staged' \in [Thread -> Files!Tree],
           done' \in [Thread -> SUBSET Name], files' \in Files!Tree, dirs' \in SUBSET Name,
           Asked(p)', Directory', Freed', Holds(p)',
           \/ wsOp[p].kind = "snapshot" /\ wsPc'[p] \notin {"describe", "mounted", "received"} /\ wsPc[p] # "describe"
           \/ wsOp[p].kind \in OnFiles \cup {"clean"} /\ wsPc'[p] \notin {"describe", "mounted", "received"}
    PROVE  IInv'
<1>1. Relies(p)'
  BY DEF IInv, SnapshotSound, Relies, OnFiles
<1>2. Typed'
  BY DEF IInv, Typed
<1> QED
  BY <1>1, <1>2, SnapshotsStill, Together

LEMMA LockedSteps ==
    ASSUME Files!NameAssumption, Files!BoundAssumption, IInv, NEW p \in Thread,
           Files!Acquire(p) \/ Files!Stage(p) \/ \E n \in Name : Files!Copy(p, n)
    PROVE  IInv'
<1> USE DEF Files!fileVars, Files!snapshotVars, Files!recordVars, Files!counters, Files!Goto
<1>0. Typed /\ Asked(p) /\ Holds(p)
  BY DEF IInv, FilesSound
<1>1. CASE Files!Acquire(p)
  <2>1. /\ wsPc[p] = "acquire" /\ lock = Nobody /\ lock' = p /\ listed' = [listed EXCEPT ![p] = files]
        /\ wsPc' = [wsPc EXCEPT ![p] = wsOp[p].kind]
        /\ UNCHANGED <<files, dirs, wsOp, done, staged, content, archive, inputs, build, operations, wsFaults>>
    BY <1>1 DEF Files!Acquire
  <2>2. wsOp[p].kind \in {"upload", "delete", "snapshot", "clean"}
    BY <1>0, <2>1 DEF Asked, OnFiles
  <2>3. /\ wsPc' \in [Thread -> Label] /\ listed' \in [Thread -> Files!Tree] /\ wsPc'[p] = wsOp[p].kind /\ listed'[p] = files
        /\ Others(p)
    BY <1>0, <2>1, <2>2 DEF Typed, Others, Label, Locked
  <2>4. Directory' /\ Freed'
    BY <2>1, <2>3, FilesStill
  <2>5. Asked(p)'
    BY <1>0, <2>1, <2>2, <2>3 DEF Asked, OnFiles, OnBuild
  <2>6. Holds(p)'
    BY <1>0, <2>1, <2>2, <2>3 DEF Holds, Inside, Locked, Files!Empty
  <2> QED
    BY <1>0, <2>1, <2>2, <2>3, <2>4, <2>5, <2>6, FileStep DEF Guarded, OnFiles, Typed
<1>2. CASE Files!Stage(p)
  <2>1. /\ wsPc[p] = "upload"
        /\ UNCHANGED <<files, dirs, lock, wsOp, listed, done, content, archive, inputs, build, operations, wsFaults>>
        /\ \/ ~Files!Conflict(p) /\ wsPc' = [wsPc EXCEPT ![p] = "replace"] /\ staged' = [staged EXCEPT ![p] = Files!After(p)]
           \/ wsPc' = [wsPc EXCEPT ![p] = "refused"] /\ UNCHANGED staged
    BY <1>2 DEF Files!Stage, Files!Acceptable
  <2>2. wsOp[p].kind = "upload" /\ wsOp[p].id \in 0..MaxOperations /\ listed[p] \in Files!Tree /\ listed[p] = files /\ lock = p
    BY <1>0, <2>1 DEF Asked, Holds, Inside, Locked, Typed, Operation
  <2>3. Files!After(p) \in Files!Tree
    BY <2>2 DEF Files!After, Files!Tree
  <2>4. /\ wsPc' \in [Thread -> Label] /\ staged' \in [Thread -> Files!Tree] /\ wsPc'[p] \in {"replace", "refused"}
        /\ wsPc'[p] = "replace" => ~Files!Conflict(p)
        /\ Others(p)
    BY <1>0, <2>1, <2>3 DEF Typed, Others, Label, Locked
  <2>5. Directory' /\ Freed'
    BY <2>1, <2>4, FilesStill
  <2>6. Asked(p)'
    BY <1>0, <2>1, <2>2, <2>4 DEF Asked, OnFiles, OnBuild
  <2>7. Holds(p)'
    BY <1>0, <2>1, <2>2, <2>4 DEF Holds, Inside, Locked, Files!Conflict
  <2> QED
    BY <1>0, <2>1, <2>2, <2>4, <2>5, <2>6, <2>7, FileStep DEF Guarded, OnFiles, Typed
<1>3. ASSUME NEW n \in Name, Files!Copy(p, n)
      PROVE  IInv'
  <2>1. /\ wsPc[p] = "snapshot" /\ staged' = [staged EXCEPT ![p][n] = files[n]]
        /\ done' = [done EXCEPT ![p] = @ \cup {n}]
        /\ UNCHANGED <<files, dirs, lock, wsOp, wsPc, listed, content, archive, inputs, build, operations, wsFaults>>
    BY <1>3 DEF Files!Copy
  <2>2. wsOp[p].kind = "snapshot" /\ listed[p] = files /\ lock = p
    BY <1>0, <2>1 DEF Asked, Holds, Inside, Locked
  <2>3. staged' = [staged EXCEPT ![p] = [staged[p] EXCEPT ![n] = files[n]]] /\ staged[p] \in Files!Tree
    BY <1>0, <2>1 DEF Typed
  <2>4. [staged[p] EXCEPT ![n] = files[n]] \in Files!Tree
    BY <1>0, <2>3 DEF Typed, Files!Tree
  <2>5. /\ staged' \in [Thread -> Files!Tree] /\ done' \in [Thread -> SUBSET Name] /\ Others(p)
        /\ staged'[p] = [staged[p] EXCEPT ![n] = files[n]] /\ done'[p] = done[p] \cup {n}
    BY <1>0, <2>1, <2>3, <2>4 DEF Typed, Others
  <2>6. \A m \in Name : staged'[p][m] = IF m \in done'[p] THEN files[m] ELSE 0
    BY <1>0, <2>1, <2>3, <2>5 DEF Holds, Files!Tree
  <2>7. Directory' /\ Freed'
    BY <2>1, <2>5, FilesStill
  <2>8. Asked(p)' /\ Holds(p)'
    BY <1>0, <2>1, <2>2, <2>5, <2>6 DEF Asked, Holds, Inside, Locked
  <2> QED
    BY <1>0, <2>1, <2>2, <2>5, <2>7, <2>8, FileStep DEF Guarded, Typed
<1> QED
  BY <1>1, <1>2, <1>3

LEMMA WritingSteps ==
    ASSUME Files!NameAssumption, Files!BoundAssumption, IInv, NEW p \in Thread, NEW n \in Name,
           Files!Replace(p, n) \/ Files!Unlink(p, n) \/ Files!Prune(p, n)
    PROVE  IInv'
<1> USE DEF Files!fileVars, Files!snapshotVars, Files!recordVars, Files!counters, Files!ownVars, Files!Goto
<1>0. Typed /\ Asked(p) /\ Holds(p) /\ Directory /\ Freed /\ Parents[n] \in SUBSET Name
  BY DEF IInv, FilesSound, Files!NameAssumption
<1>1. CASE Files!Replace(p, n)
  <2>1. /\ wsPc[p] = "replace" /\ n \in wsOp[p].names /\ files' = [files EXCEPT ![n] = wsOp[p].id]
        /\ dirs' = dirs \cup Parents[n] /\ done' = [done EXCEPT ![p] = done[p] \cup {n}]
        /\ UNCHANGED <<lock, wsPc, wsOp, listed, staged, content, archive, inputs, build, operations, wsFaults>>
    BY <1>1 DEF Files!Replace
  <2>2. /\ wsOp[p].kind = "upload" /\ wsOp[p].id \in 0..MaxOperations /\ wsOp[p].id # 0 /\ Inside(p) /\ lock = p
        /\ \A m \in wsOp[p].names : Parents[m] \cap wsOp[p].names = {}
        /\ \A m \in wsOp[p].names : m \in Name /\ m \notin dirs /\ \A d \in Parents[m] : files[d] = 0
    BY <1>0, <2>1 DEF Asked, Holds, Inside, Locked, Typed, Operation
  <2>3. /\ files' \in Files!Tree /\ files'[n] # 0 /\ \A m \in Name \ {n} : files'[m] = files[m]
        /\ dirs' \in SUBSET Name /\ done' \in [Thread -> SUBSET Name] /\ Others(p)
    BY <1>0, <2>1, <2>2 DEF Typed, Files!Tree, Others
  <2>4. Directory'
    BY <1>0, <2>1, <2>2, <2>3 DEF Directory
  <2>5. Freed'
    BY <1>0, <2>1, <2>3 DEF Freed, InUse
  <2>6. \A m \in wsOp[p].names : m \notin dirs' /\ \A d \in Parents[m] : files'[d] = 0
    <3>1. SUFFICES ASSUME NEW m \in wsOp[p].names PROVE m \notin dirs' /\ \A d \in Parents[m] : files'[d] = 0
      OBVIOUS
    <3>2. m \in Name /\ Parents[m] \in SUBSET Name /\ n \notin Parents[m] /\ m \notin Parents[n]
      BY <2>1, <2>2 DEF Files!NameAssumption
    <3> QED
      BY <2>1, <2>2, <2>3, <3>2
  <2>7. Asked(p)' /\ Holds(p)'
    BY <1>0, <2>1, <2>2, <2>6 DEF Asked, Holds, Inside, Locked
  <2> QED
    BY <1>0, <2>1, <2>2, <2>3, <2>4, <2>5, <2>7, FileStep DEF Guarded, OnFiles, Typed
<1>2. CASE Files!Unlink(p, n)
  <2>1. /\ wsPc[p] = "delete" /\ n \in wsOp[p].names
        /\ \/ wsPc' = [wsPc EXCEPT ![p] = "refused"] /\ files' = files
           \/ wsPc' = [wsPc EXCEPT ![p] = "prune"] /\ files' = [files EXCEPT ![n] = 0]
        /\ UNCHANGED <<dirs, lock, wsOp, listed, done, staged, content, archive, inputs, build, operations, wsFaults>>
    BY <1>2 DEF Files!Unlink
  <2>2. wsOp[p].kind = "delete" /\ Inside(p) /\ lock = p /\ listed[p] = files
    BY <1>0, <2>1 DEF Asked, Holds, Inside, Locked
  <2>3. /\ files' \in Files!Tree /\ Others(p) /\ wsPc' \in [Thread -> Label] /\ wsPc'[p] \in {"refused", "prune"}
        /\ wsPc'[p] = "refused" => files' = files
        /\ wsPc'[p] = "prune" => \A m \in Name : files'[m] # files[m] => m = n
        /\ \A m \in Name : files'[m] # 0 => files[m] # 0
    <3>1. 0 \in 0..MaxOperations
      BY DEF Files!BoundAssumption
    <3>2. /\ Others(p) /\ wsPc' \in [Thread -> Label] /\ wsPc'[p] \in {"refused", "prune"}
          /\ wsPc'[p] = "refused" => files' = files
      BY <1>0, <2>1 DEF Typed, Others, Label, Locked
    <3>3. files' \in Files!Tree /\ (\A m \in Name : files'[m] # files[m] => m = n /\ files'[m] = 0)
      BY <1>0, <2>1, <3>1 DEF Typed, Files!Tree
    <3> QED
      BY <3>2, <3>3
  <2>4. Directory'
    BY <1>0, <2>1, <2>3 DEF Directory
  <2>5. Freed'
    <3>1. SUFFICES ASSUME wsFaults' = 0, NEW d \in dirs', ~InUse(d)'
                   PROVE  \E q \in Thread : wsPc'[q] = "prune" /\ \E m \in wsOp'[q].names : d \in Parents[m]
      BY DEF Freed
    <3>2. CASE InUse(d)
      BY <2>1, <2>3, <3>1, <3>2 DEF InUse
    <3>3. CASE \E q \in Thread : wsPc[q] = "prune" /\ \E m \in wsOp[q].names : d \in Parents[m]
      BY <2>1, <2>3, <3>3 DEF Others
    <3> QED
      BY <1>0, <2>1, <3>1, <3>2, <3>3 DEF Freed
  <2>6. Asked(p)' /\ Holds(p)'
    BY <1>0, <2>1, <2>2, <2>3 DEF Asked, Holds, Inside, Locked, OnFiles, OnBuild
  <2> QED
    BY <1>0, <2>1, <2>2, <2>3, <2>4, <2>5, <2>6, FileStep DEF Guarded, OnFiles, Typed
<1>3. CASE Files!Prune(p, n)
  <2>1. /\ wsPc[p] = "prune" /\ n \in wsOp[p].names /\ dirs' = dirs \ Files!Vacant(n) /\ Files!Leave(p)
        /\ UNCHANGED <<files, content, archive, inputs, build, wsFaults>>
    BY <1>3 DEF Files!Prune
  <2>2. wsOp[p].names = {n} /\ Inside(p)
    BY <1>0, <2>1 DEF Asked, Inside, Locked
  <2>3. Others(p)
    BY <1>0, <2>1, Leaving
  <2>4. Directory'
    BY <1>0, <2>1 DEF Directory, Files!Vacant
  <2>5. Freed'
    <3>1. SUFFICES ASSUME wsFaults' = 0, NEW d \in dirs', ~InUse(d)
                   PROVE  \E q \in Thread : wsPc'[q] = "prune" /\ \E m \in wsOp'[q].names : d \in Parents[m]
      BY <2>1 DEF Freed, InUse
    <3>2. PICK q \in Thread : wsPc[q] = "prune" /\ \E m \in wsOp[q].names : d \in Parents[m]
      BY <1>0, <2>1, <3>1 DEF Freed
    <3>3. q # p
      BY <2>1, <2>2, <3>1, <3>2 DEF Files!Vacant, InUse
    <3> QED
      BY <2>3, <3>2, <3>3 DEF Others
  <2> QED
    BY <1>0, <2>1, <2>2, <2>4, <2>5, LeavingStill DEF Typed
<1> QED
  BY <1>1, <1>2, <1>3

LEMMA CutStep ==
    ASSUME Files!NameAssumption, Files!BoundAssumption, IInv, NEW p \in Thread, NEW crash \in BOOLEAN, Files!Cut(p, crash)
    PROVE  IInv'
<1>0. Typed /\ Asked(p) /\ Holds(p) /\ Directory
  BY DEF IInv, FilesSound
<1>1. /\ wsFaults' = wsFaults + 1 /\ Files!Leave(p) /\ UNCHANGED <<files, content, archive, inputs, build>>
      /\ \/ wsPc[p] = "replace" /\ \E n \in wsOp[p].names \ done[p] : dirs' \in {dirs, dirs \cup Parents[n]}
         \/ UNCHANGED dirs
  BY DEF Files!Cut, Files!snapshotVars, Files!recordVars
<1>2. wsFaults' \in Nat /\ wsFaults' # 0
  BY <1>0, <1>1 DEF Typed
<1>3. Freed'
  BY <1>2 DEF Freed
<1>4. CASE UNCHANGED dirs
  <2>1. Directory'
    BY <1>0, <1>1, <1>4 DEF Directory
  <2> QED
    BY <1>0, <1>1, <1>2, <1>3, <1>4, <2>1, LeavingStill DEF Typed
<1>5. ASSUME wsPc[p] = "replace", NEW n \in wsOp[p].names, dirs' = dirs \cup Parents[n]
      PROVE  IInv'
  <2>1. n \in Name /\ Parents[n] \in SUBSET Name /\ Inside(p) /\ n \notin dirs /\ \A d \in Parents[n] : files[d] = 0
    BY <1>0, <1>5 DEF Typed, Operation, Files!NameAssumption, Holds, Inside, Locked
  <2>2. Directory'
    BY <1>0, <1>1, <1>5, <2>1 DEF Directory
  <2> QED
    BY <1>0, <1>1, <1>2, <1>3, <1>5, <2>1, <2>2, LeavingStill DEF Typed
<1> QED
  BY <1>1, <1>4, <1>5

-----------------------------------------------------------------------------
(***************************************************************************)
(* Steps on the snapshots.                                                 *)
(***************************************************************************)
\* The build of an operation that excludes others is in nobody else's hands.
LEMMA Alone ==
    ASSUME IInv, NEW p \in Thread, wsOp[p].kind \in OnBuild
    PROVE  Unshared(p, wsOp[p].build)
BY DEF IInv, SnapshotSound, Excluded, Unshared

\* What Publish puts in place is the workspace.
LEMMA CopyIsWhole ==
    ASSUME IInv, NEW p \in Thread, wsPc[p] = "snapshot", done[p] = Files!Present(listed[p])
    PROVE  staged[p] = files
<1>1. listed[p] = files /\ \A n \in Name : staged[p][n] = IF n \in done[p] THEN files[n] ELSE 0
  BY DEF IInv, FilesSound, Holds, Inside, Locked
<1>2. \A n \in Name : staged[p][n] = files[n]
  BY <1>1 DEF Files!Present
<1> QED
  BY <1>2 DEF IInv, Typed, Files!Tree

LEMMA PublishStep ==
    ASSUME Files!BoundAssumption, IInv, NEW p \in Thread, Files!Publish(p)
    PROVE  IInv'
<1> DEFINE b == wsOp[p].build
<1>0. Typed /\ Asked(p) /\ Holds(p) /\ Relies(p)
  BY DEF IInv, FilesSound, SnapshotSound
<1>1. /\ wsPc[p] = "snapshot" /\ content' = [content EXCEPT ![b] = staged[p]]
      /\ archive' = [archive EXCEPT ![b] = staged[p]] /\ wsPc' = [wsPc EXCEPT ![p] = "describe"]
      /\ (lock' = lock \/ lock = p)
      /\ UNCHANGED <<files, dirs, wsOp, listed, done, staged, inputs, build, operations, wsFaults>>
  BY DEF Files!Publish, Files!Pack, Files!Goto, Files!fileVars, Files!ownVars, Files!recordVars,
     Files!counters
<1>2. wsOp[p].kind = "snapshot" /\ b \in Snap /\ build[b] = "preparing" /\ Unshared(p, b)
  BY <1>0, <1>1, Alone DEF Asked, Relies, OnBuild
<1>3. /\ content' \in [Snap -> Files!Tree \cup {Files!Gone}] /\ archive' \in [Snap -> Files!Tree \cup {Files!Gone}]
      /\ content'[b] = staged[p] /\ archive'[b] = staged[p]
      /\ \A c \in Snap \ {b} : content'[c] = content[c] /\ archive'[c] = archive[c]
      /\ wsPc' \in [Thread -> Label] /\ wsPc'[p] = "describe" /\ Others(p)
  BY <1>0, <1>1, <1>2 DEF Typed, Others, Label
<1>4. Typed'
  BY <1>0, <1>1, <1>3 DEF Typed
<1>5. Mine(p)
  BY <1>1, <1>2, <1>3 DEF Mine, SameBuild, Served
<1>6. \A c \in Snap : Staged(c)'
  BY <1>1, <1>2, <1>3 DEF IInv, SnapshotSound, Staged
<1>7. Directory' /\ Freed'
  BY <1>1, <1>3, FilesStill
<1>8. Asked(p)' /\ Holds(p)' /\ Relies(p)'
  BY <1>0, <1>1, <1>2, <1>3 DEF Asked, Holds, Relies, Inside, Locked, OnBuild, OnFiles
<1> QED
  BY <1>1, <1>3, <1>4, <1>5, <1>6, <1>7, <1>8, Together DEF Guarded

\* An operation ends, and its build has moved on.
LEMMA BuildSteps ==
    ASSUME Files!BoundAssumption, IInv, NEW p \in Thread, Files!Describe(p) \/ \E b \in Snap : Files!Cleaned(p, b)
    PROVE  IInv'
<1> USE DEF Files!fileVars, Files!snapshotVars, Files!recordVars
<1>0. Typed /\ Asked(p) /\ Holds(p) /\ Relies(p)
  BY DEF IInv, FilesSound, SnapshotSound
<1>1. Files!Leave(p) /\ wsPc[p] \in {"describe", "clean"} /\ UNCHANGED <<files, dirs, content, archive, wsFaults>>
  BY DEF Files!Describe, Files!Cleaned
<1>2. /\ Others(p) /\ wsOp'[p].kind = "none" /\ (lock' = lock \/ lock = p) /\ UNCHANGED operations
      /\ wsPc' \in [Thread -> Label] /\ wsOp' \in [Thread -> Operation]
      /\ listed' \in [Thread -> Files!Tree] /\ staged' \in [Thread -> Files!Tree] /\ done' \in [Thread -> SUBSET Name]
      /\ Asked(p)' /\ Holds(p)' /\ Relies(p)'
  BY <1>0, <1>1, Leaving
<1>3. PICK b \in Snap : b = wsOp[p].build /\ Unshared(p, b)
  BY <1>0, <1>1, Alone DEF Asked, OnBuild
<1>4. Directory' /\ Freed'
  BY <1>1, <1>2, FilesStill
<1>5. ASSUME build' \in [Snap -> {"none", "preparing", "ready", "cleaning", "cleaned"}],
             inputs' \in [Snap -> Files!Tree \cup {Files!Gone}],
             \A c \in Snap \ {b} : build'[c] = build[c] /\ inputs'[c] = inputs[c],
             build[b] \in Served => build'[b] \in Served /\ inputs'[b] = inputs[b], Staged(b)'
      PROVE  IInv'
  <2>1. Typed'
    BY <1>0, <1>1, <1>2, <1>5 DEF Typed
  <2>2. Mine(p)
    BY <1>1, <1>3, <1>5 DEF Mine, SameBuild
  <2>3. \A c \in Snap : Staged(c)'
    BY <1>1, <1>5 DEF IInv, SnapshotSound, Staged
  <2> QED
    BY <1>1, <1>2, <1>4, <2>1, <2>2, <2>3, Together DEF Guarded, OnBuild
<1>6. CASE Files!Describe(p)
  <2>1. /\ wsPc[p] = "describe" /\ inputs' = [inputs EXCEPT ![b] = staged[p]] /\ build' = [build EXCEPT ![b] = "ready"]
    BY <1>3, <1>6 DEF Files!Describe
  <2>2. content[b] = staged[p] /\ archive[b] = staged[p] /\ build[b] = "preparing"
    BY <1>0, <1>3, <2>1 DEF Relies, Asked
  <2>3. /\ build' \in [Snap -> {"none", "preparing", "ready", "cleaning", "cleaned"}]
        /\ inputs' \in [Snap -> Files!Tree \cup {Files!Gone}]
        /\ \A c \in Snap \ {b} : build'[c] = build[c] /\ inputs'[c] = inputs[c]
        /\ build'[b] = "ready" /\ inputs'[b] = staged[p]
    BY <1>0, <1>3, <2>1 DEF Typed
  <2>4. Staged(b)'
    BY <1>1, <2>2, <2>3 DEF Staged
  <2> QED
    BY <1>5, <2>2, <2>3, <2>4 DEF Served
<1>7. CASE \E c \in Snap : Files!Cleaned(p, c)
  <2>1. /\ wsPc[p] = "clean" /\ content[b] = Files!Gone /\ archive[b] = Files!Gone /\ build' = [build EXCEPT ![b] = "cleaned"]
        /\ inputs' = inputs
    BY <1>3, <1>7 DEF Files!Cleaned, Files!Removed
  <2>2. /\ build' \in [Snap -> {"none", "preparing", "ready", "cleaning", "cleaned"}]
        /\ \A c \in Snap \ {b} : build'[c] = build[c]
        /\ build'[b] = "cleaned"
    BY <1>0, <1>3, <2>1 DEF Typed
  <2>3. Staged(b)'
    BY <1>1, <2>1, <2>2 DEF Staged
  <2> QED
    BY <1>0, <1>5, <2>1, <2>2, <2>3 DEF Served, Typed
<1> QED
  BY <1>6, <1>7

LEMMA RemoveStep ==
    ASSUME Files!BoundAssumption, IInv, NEW p \in Thread, NEW b \in Snap, Files!Remove(p, b)
    PROVE  IInv'
<1>0. Typed /\ Asked(p) /\ Holds(p) /\ Relies(p)
  BY DEF IInv, FilesSound, SnapshotSound
<1>1. /\ wsPc[p] = "clean" /\ wsOp[p].build = b
      /\ \/ archive' = [archive EXCEPT ![b] = Files!Gone] /\ UNCHANGED content
         \/ content[b] # Files!Gone /\ content' = [content EXCEPT ![b] = Files!Gone] /\ UNCHANGED archive
         \/ content[b] # Files!Gone /\ UNCHANGED archive
            /\ \E n \in Name : content' = [content EXCEPT ![b] = [content[b] EXCEPT ![n] = 0]]
      /\ UNCHANGED <<files, dirs, lock, wsPc, wsOp, listed, done, staged, inputs, build, operations, wsFaults>>
  BY DEF Files!Remove, Files!fileVars, Files!ownVars, Files!recordVars, Files!counters, Files!Present
<1>2. wsOp[p].kind = "clean" /\ build[b] = "cleaning" /\ Unshared(p, b)
  BY <1>0, <1>1, Alone DEF Asked, Relies, OnBuild
<1>3. content[b] # Files!Gone => \A n \in Name : [content[b] EXCEPT ![n] = 0] \in Files!Tree
  <2>1. content[b] \in Files!Tree \cup {Files!Gone}
    BY <1>0 DEF Typed
  <2>2. SUFFICES ASSUME content[b] \in Files!Tree, NEW n \in Name PROVE [content[b] EXCEPT ![n] = 0] \in Files!Tree
    BY <2>1
  <2>3. 0 \in 0..MaxOperations
    BY DEF Files!BoundAssumption
  <2> QED
    BY <2>2, <2>3 DEF Files!Tree
<1>4. /\ content' \in [Snap -> Files!Tree \cup {Files!Gone}] /\ archive' \in [Snap -> Files!Tree \cup {Files!Gone}]
      /\ archive'[b] \in {Files!Gone, archive[b]}
      /\ \A c \in Snap \ {b} : content'[c] = content[c] /\ archive'[c] = archive[c]
      /\ Others(p)
  <2>1. content \in [Snap -> Files!Tree \cup {Files!Gone}] /\ archive \in [Snap -> Files!Tree \cup {Files!Gone}]
    BY <1>0 DEF Typed
  <2>2. \/ content' = content
        \/ \E t \in Files!Tree \cup {Files!Gone} : content' = [content EXCEPT ![b] = t]
    BY <1>1, <1>3
  <2>3. archive' = archive \/ archive' = [archive EXCEPT ![b] = Files!Gone]
    BY <1>1
  <2>4. Others(p)
    BY <1>1 DEF Others
  <2> QED
    BY <2>1, <2>2, <2>3, <2>4
<1>5. Typed'
  BY <1>0, <1>1, <1>4 DEF Typed
<1>6. Mine(p)
  BY <1>1, <1>2, <1>4 DEF Mine, SameBuild, Served
<1>7. \A c \in Snap : Staged(c)'
  BY <1>1, <1>2, <1>4 DEF IInv, SnapshotSound, Staged
<1>8. Directory' /\ Freed'
  BY <1>1, <1>4, FilesStill
<1>9. Asked(p)' /\ Holds(p)' /\ Relies(p)'
  BY <1>0, <1>1, <1>2 DEF Asked, Holds, Relies, Inside, OnBuild
<1> QED
  BY <1>1, <1>4, <1>5, <1>6, <1>7, <1>8, <1>9, Together DEF Guarded

LEMMA ServeStep ==
    ASSUME Files!BoundAssumption, IInv, NEW p \in Thread, Files!Serve(p)
    PROVE  IInv'
<1> DEFINE b == wsOp[p].build
<1>0. Typed /\ Asked(p) /\ Holds(p) /\ Relies(p)
  BY DEF IInv, FilesSound, SnapshotSound
<1>1. /\ wsPc[p] = "serve"
      /\ \/ archive[b] # Files!Gone /\ wsPc' = [wsPc EXCEPT ![p] = "received"] /\ staged' = [staged EXCEPT ![p] = archive[b]]
         \/ wsPc' = [wsPc EXCEPT ![p] = "refused"] /\ UNCHANGED staged
      /\ UNCHANGED <<files, dirs, lock, wsOp, listed, done, content, archive, inputs, build, operations, wsFaults>>
  BY DEF Files!Serve, Files!Goto, Files!fileVars, Files!snapshotVars, Files!recordVars, Files!counters
<1>2. wsOp[p].kind = "download" /\ b \in Snap /\ build[b] \in Served /\ inputs[b] # Files!Gone
  BY <1>0, <1>1 DEF Asked, Relies, OnBuild, Served
<1>3. archive[b] # Files!Gone => archive[b] = inputs[b] /\ archive[b] \in Files!Tree
  BY <1>0, <1>2 DEF IInv, SnapshotSound, Staged, Served, Typed
<1>4. /\ wsPc' \in [Thread -> Label] /\ staged' \in [Thread -> Files!Tree] /\ Others(p)
      /\ wsPc'[p] \in {"received", "refused"} /\ (wsPc'[p] = "received" => staged'[p] = inputs[b])
  BY <1>0, <1>1, <1>3 DEF Typed, Others, Label
<1>5. Typed'
  BY <1>0, <1>1, <1>4 DEF Typed
<1>6. Directory' /\ Freed'
  BY <1>1, <1>4, FilesStill
<1>7. Asked(p)' /\ Holds(p)' /\ Relies(p)'
  BY <1>0, <1>1, <1>2, <1>4 DEF Asked, Holds, Relies, Inside, Locked, OnFiles, OnBuild, Served
<1> QED
  BY <1>1, <1>4, <1>5, <1>6, <1>7, SnapshotsStill, Together DEF Guarded

-----------------------------------------------------------------------------
(***************************************************************************)
(* The invariant, and the theorems.                                        *)
(***************************************************************************)
LEMMA Initially ==
    ASSUME Files!NameAssumption, Files!BoundAssumption, Files!Init
    PROVE  IInv
<1>1. PICK names \in SUBSET Name :
         /\ \A n \in names : Parents[n] \cap names = {}
         /\ files = [n \in Name |-> IF n \in names THEN 1 ELSE 0]
         /\ dirs = UNION {Parents[n] : n \in names}
  BY DEF Files!Init
<1>2. /\ lock = Nobody /\ wsPc = [p \in Thread |-> "idle"] /\ wsOp = [p \in Thread |-> Files!NoOp]
      /\ listed = [p \in Thread |-> Files!Empty] /\ staged = listed /\ done = [p \in Thread |-> {}]
      /\ content = [b \in Snap |-> Files!Gone] /\ archive = content /\ inputs = content
      /\ build = [b \in Snap |-> "none"] /\ operations = 1 /\ wsFaults = 0
  BY DEF Files!Init
<1>3. /\ 0 \in 0..MaxOperations /\ 1 \in 0..MaxOperations /\ 1 \in 1..MaxOperations
      /\ Files!Empty \in Files!Tree /\ Files!NoOp \in Operation /\ Files!NoOp.kind = "none"
  BY DEF Files!BoundAssumption, Files!Empty, Files!Tree, Files!NoOp, Operation, Kind
<1>4. files \in Files!Tree /\ \A n \in Name : files[n] # 0 <=> n \in names
  BY <1>1, <1>3 DEF Files!Tree
<1>5. dirs \in SUBSET Name /\ \A d : d \in dirs <=> \E n \in names : d \in Parents[n]
  BY <1>1 DEF Files!NameAssumption
<1>6. Typed
  BY <1>2, <1>3, <1>4, <1>5 DEF Typed, Label
<1>7. \A p \in Thread : Asked(p)
  BY <1>2, <1>3 DEF Asked, OnFiles, OnBuild
<1>8. Directory
  BY <1>1, <1>4, <1>5 DEF Directory
<1>9. Freed
  BY <1>4, <1>5 DEF Freed, InUse
<1>10. \A p \in Thread : Holds(p)
  BY <1>2, <1>3 DEF Holds, Inside, Locked, OnFiles
<1>11. \A b \in Snap : Staged(b)
  BY <1>2 DEF Staged
<1>12. \A p \in Thread : Relies(p)
  BY <1>2, <1>3 DEF Relies
<1>13. Excluded
  BY <1>2, <1>3 DEF Excluded, OnBuild
<1> QED
  BY <1>6, <1>7, <1>8, <1>9, <1>10, <1>11, <1>12, <1>13 DEF IInv, FilesSound, SnapshotSound

LEMMA Stuttering ==
    ASSUME IInv, UNCHANGED Files!vars
    PROVE  IInv'
<1>1. /\ UNCHANGED <<files, dirs, lock, wsPc, wsOp, listed, done, staged>>
      /\ UNCHANGED <<content, archive, inputs, build, operations, wsFaults>>
  BY DEF Files!vars, Files!fileVars, Files!snapshotVars, Files!recordVars, Files!ownVars, Files!counters
<1>2. Typed' /\ \A p \in Thread : Asked(p)'
  BY <1>1 DEF IInv, Typed, Asked
<1>3. FilesSound'
  BY <1>1 DEF IInv, FilesSound, Directory, Freed, InUse, Holds, Inside
<1>4. \A p \in Thread : Relies(p)'
  BY <1>1 DEF IInv, SnapshotSound, Relies, Files!Found, Files!Present
<1>5. (\A b \in Snap : Staged(b)') /\ Excluded'
  BY <1>1 DEF IInv, SnapshotSound, Staged, Excluded
<1> QED
  BY <1>2, <1>3, <1>4, <1>5 DEF IInv, SnapshotSound

LEMMA Invariance == ASSUME Files!NameAssumption, Files!BoundAssumption PROVE Files!Spec => []IInv
<1>1. Files!Init => IInv
  BY Initially
<1>2. IInv /\ [Files!Next]_(Files!vars) => IInv'
  <2> SUFFICES ASSUME IInv, [Files!Next]_(Files!vars) PROVE IInv'
    OBVIOUS
  <2>1. CASE Files!Quiet \/ UNCHANGED Files!vars
    BY <2>1, Stuttering DEF Files!Quiet
  <2>2. ASSUME NEW p \in Thread, NEW names \in (SUBSET Name) \ {{}}, NEW bytes \in Sizes, Files!Upload(p, names, bytes)
        PROVE  IInv'
    BY <2>2, BeginSteps
  <2>3. ASSUME NEW p \in Thread,
               \/ \E n \in Name : Files!Delete(p, n)
               \/ \E b \in Snap : \/ Files!QueueBuild(p, b) \/ Files!Clean(p, b) \/ Files!Download(p, b)
                                   \/ \E n \in Name : Files!Mount(p, b, n)
        PROVE  IInv'
    BY <2>3, BeginSteps
  <2>4. ASSUME NEW p \in Thread, Files!Acquire(p) \/ Files!Stage(p) \/ \E n \in Name : Files!Copy(p, n)
        PROVE  IInv'
    BY <2>4, LockedSteps
  <2>5. ASSUME NEW p \in Thread, Files!Uploaded(p) \/ Files!Return(p)
        PROVE  IInv'
    BY <2>5, Returns
  <2>6. ASSUME NEW p \in Thread, NEW n \in Name, Files!Replace(p, n) \/ Files!Unlink(p, n) \/ Files!Prune(p, n)
        PROVE  IInv'
    BY <2>6, WritingSteps
  <2>7. ASSUME NEW p \in Thread, Files!Publish(p) \/ Files!Serve(p)
        PROVE  IInv'
    BY <2>7, PublishStep, ServeStep
  <2>8. ASSUME NEW p \in Thread, Files!Describe(p) \/ \E b \in Snap : Files!Cleaned(p, b)
        PROVE  IInv'
    BY <2>8, BuildSteps
  <2>9. ASSUME NEW p \in Thread, NEW b \in Snap, Files!Remove(p, b)
        PROVE  IInv'
    BY <2>9, RemoveStep
  <2>10. ASSUME NEW p \in Thread, NEW crash \in BOOLEAN, Files!Cut(p, crash)
         PROVE  IInv'
    BY <2>10, CutStep
  <2> QED
    BY <2>1, <2>2, <2>3, <2>4, <2>5, <2>6, <2>7, <2>8, <2>9, <2>10 DEF Files!Next
<1> QED
  BY <1>1, <1>2, PTL DEF Files!Spec

\* The files remain a directory a file system can hold, and snapshots and
\* records are trees of files, whatever uploads and deletions overlap (upload,
\* delete_file).
THEOREM TypeCorrect == ASSUME Files!NameAssumption, Files!BoundAssumption PROVE Files!Spec => []Files!TypeOK
<1>1. IInv => Files!TypeOK
  BY DEF IInv, Typed, FilesSound, Directory, Files!TypeOK, Files!Present
<1> QED
  BY <1>1, Invariance, PTL

\* An upload or a deletion that is refused has changed nothing: "Batch does not
\* partially write" (upload).
THEOREM RefusalIsWhole ==
    ASSUME Files!NameAssumption, Files!BoundAssumption
    PROVE  Files!Spec => []Files!RefusedChangesNothing
<1>1. IInv => Files!RefusedChangesNothing
  BY DEF IInv, FilesSound, Holds, Inside, OnFiles, Files!RefusedChangesNothing
<1> QED
  BY <1>1, Invariance, PTL

\* No directory is left that keeps an upload of that name out, if no operation
\* was cut short (delete_file).
THEOREM PathsFreed ==
    ASSUME Files!NameAssumption, Files!BoundAssumption
    PROVE  Files!Spec => []Files!PathsAreFreed
<1>1. IInv => Files!PathsAreFreed
  <2> SUFFICES ASSUME IInv, lock = Nobody, wsFaults = 0, NEW d \in dirs
               PROVE  \E n \in Files!Present(files) : d \in Parents[n]
    BY DEF Files!PathsAreFreed
  <2>1. \A p \in Thread : wsPc[p] # "prune"
    BY DEF IInv, FilesSound, Holds, Inside, Locked, Files!BoundAssumption
  <2> QED
    BY <2>1 DEF IInv, FilesSound, Freed, InUse, Files!Present
<1> QED
  BY <1>1, Invariance, PTL

\* Jenkins receives, and containers mount, what the build's record describes,
\* whatever is uploaded or cleaned up meanwhile (download_workspace_snapshot,
\* _resolve_source).
THEOREM InputsAreRead ==
    ASSUME Files!NameAssumption, Files!BoundAssumption
    PROVE  Files!Spec => []Files!BuildReadsItsInputs
<1>1. IInv => Files!BuildReadsItsInputs
  <2> SUFFICES ASSUME IInv, NEW p \in Thread
               PROVE  /\ wsPc[p] = "received" => staged[p] = inputs[wsOp[p].build]
                      /\ wsPc[p] = "mounted" =>
                           /\ content[wsOp[p].build] = inputs[wsOp[p].build]
                           /\ \E n \in Files!Present(inputs[wsOp[p].build]), d \in wsOp[p].names : n = d \/ d \in Parents[n]
    BY DEF Files!BuildReadsItsInputs
  <2>1. Relies(p) /\ Asked(p)
    BY DEF IInv, SnapshotSound
  <2>2. CASE wsPc[p] = "mounted"
    <3>1. wsOp[p].build \in Snap /\ build[wsOp[p].build] = "ready" /\ \E d \in wsOp[p].names : Files!Found(wsOp[p].build, d) # {}
      BY <2>1, <2>2 DEF Relies, Asked, OnBuild
    <3>2. content[wsOp[p].build] = inputs[wsOp[p].build]
      BY <3>1 DEF IInv, SnapshotSound, Staged
    <3> QED
      BY <2>2, <3>1, <3>2 DEF Files!Found
  <2> QED
    BY <2>1, <2>2 DEF Relies
<1> QED
  BY <1>1, Invariance, PTL

\* A snapshot whose cleanup has succeeded is gone with its archive, also after
\* cleanups that were cut short (delete_build_snapshot).
THEOREM SnapshotRemoved ==
    ASSUME Files!NameAssumption, Files!BoundAssumption
    PROVE  Files!Spec => []Files!CleanedIsRemoved
<1>1. IInv => Files!CleanedIsRemoved
  BY DEF IInv, SnapshotSound, Staged, Files!CleanedIsRemoved
<1> QED
  BY <1>1, Invariance, PTL

\* A snapshot appears whole, as the workspace is at that moment, and changes only
\* by removal while its build is being cleaned (snapshot, delete_build_snapshot).
THEOREM SnapshotsWhole ==
    ASSUME Files!NameAssumption, Files!BoundAssumption
    PROVE  Files!Spec => Files!SnapshotsAreMoments
<1> DEFINE Moment(b) == IF content[b] = Files!Gone THEN content'[b] = files /\ archive'[b] = files ELSE build[b] = "cleaning"
<1>1. IInv /\ [Files!Next]_(Files!vars) => \A b \in Snap : content'[b] # content[b] => Moment(b)
  <2> SUFFICES ASSUME IInv, [Files!Next]_(Files!vars), NEW b \in Snap, content'[b] # content[b]
               PROVE  Moment(b)
    OBVIOUS
  <2>1. PICK p \in Thread : Files!Publish(p) \/ \E c \in Snap : Files!Remove(p, c)
    <3>1. content' # content
      OBVIOUS
    <3> QED
      BY <3>1 DEF Files!Next, Files!Quiet, Files!vars, Files!snapshotVars, Files!Upload, Files!Delete,
         Files!QueueBuild, Files!Clean, Files!Download, Files!Mount, Files!Begin, Files!Acquire, Files!Stage,
                  Files!Uploaded, Files!Describe, Files!Serve, Files!Return, Files!Replace, Files!Unlink, Files!Prune, Files!Copy, Files!Cleaned, Files!Cut
  <2>2. CASE Files!Publish(p)
    <3>1. /\ wsPc[p] = "snapshot" /\ done[p] = Files!Present(listed[p])
          /\ content' = [content EXCEPT ![wsOp[p].build] = staged[p]]
          /\ archive' = [archive EXCEPT ![wsOp[p].build] = staged[p]]
      BY <2>2 DEF Files!Publish, Files!Pack
    <3>2. b = wsOp[p].build /\ content'[b] = staged[p] /\ archive'[b] = staged[p]
      BY <3>1 DEF IInv, Typed
    <3>3. wsOp[p].kind = "snapshot"
      BY <3>1 DEF IInv, Asked
    <3>4. content[b] = Files!Gone
      BY <3>1, <3>2, <3>3 DEF IInv, SnapshotSound, Relies
    <3> QED
      BY <3>1, <3>2, <3>4, CopyIsWhole
  <2>3. ASSUME NEW c \in Snap, Files!Remove(p, c)
        PROVE  Moment(b)
    <3>1. /\ wsPc[p] = "clean" /\ wsOp[p].build = c /\ content[c] # Files!Gone
          /\ \/ content' = [content EXCEPT ![c] = Files!Gone]
             \/ \E n \in Name : content' = [content EXCEPT ![c] = [content[c] EXCEPT ![n] = 0]]
      BY <2>3 DEF Files!Remove, Files!Present
    <3>2. b = c
      BY <3>1 DEF IInv, Typed
    <3>3. build[c] = "cleaning"
      BY <3>1 DEF IInv, Asked, SnapshotSound, Relies
    <3> QED
      BY <3>1, <3>2, <3>3
  <2> QED
    BY <2>1, <2>2, <2>3
<1> QED
  BY <1>1, Invariance, PTL DEF Files!Spec, Files!SnapshotsAreMoments
-----------------------------------------------------------------------------
(***************************************************************************)
(* The quota.  Whoever replaces files has weighed the whole workspace with *)
(* them, and holds the lock until it is done; whatever else changes a      *)
(* file takes one away.                                                    *)
(***************************************************************************)
Content(kept, sizes) == UNION {{n} \X (1..sizes[kept[n]]) : n \in Files!Present(kept)}
Fits(kept, sizes) ==
    Cardinality(Content(kept, sizes)) <= MaxBytes /\ Cardinality(Files!Present(kept)) <= MaxFiles

\* What an upload knows of the quota where it stands, and that sizes of uploads to
\* come matter to no file.
Weighed(p) ==
    /\ wsOp[p].id <= operations
    /\ wsPc[p] = "upload" => done[p] = {}
    /\ wsPc[p] = "replace" => \A n \in Name : listed[p][n] <= operations
    /\ wsPc[p] = "replace" /\ wsFaults = 0 =>
          /\ Fits(Files!After(p), size)
          /\ \A n \in Name : files[n] = IF n \in done[p] THEN wsOp[p].id ELSE listed[p][n]
          /\ done[p] \subseteq wsOp[p].names

Quota ==
    /\ size \in [1..MaxOperations -> Nat]
    /\ \A n \in Name : files[n] <= operations
    /\ \A p \in Thread : Weighed(p)
    /\ wsFaults = 0 /\ (\A p \in Thread : wsPc[p] # "replace") => Fits(files, size)

\* Finite sets, and how many, mean the same inside the module and here.
LEMMA Counting ==
    /\ \A S : Files!Cardinality(S) = Cardinality(S)
    /\ \A S : Files!IsFiniteSet(S) <=> IsFiniteSet(S)
  BY DEF Files!Cardinality, Cardinality, Files!IsFiniteSet, IsFiniteSet

LEMMA FiniteContent ==
    ASSUME Files!NameAssumption, NEW kept \in Files!Tree, NEW sizes \in [1..MaxOperations -> Nat]
    PROVE  IsFiniteSet(Content(kept, sizes)) /\ IsFiniteSet(Files!Present(kept))
<1> DEFINE Of(n) == {n} \X (1..sizes[kept[n]])
<1> DEFINE f == [n \in Files!Present(kept) |-> Of(n)]
<1> DEFINE T == {Of(n) : n \in Files!Present(kept)}
<1>1. IsFiniteSet(Files!Present(kept))
  BY Counting, FS_Subset DEF Files!Present, Files!NameAssumption
<1>2. f \in Surjection(Files!Present(kept), T)
  BY DEF Surjection
<1>3. IsFiniteSet(T)
  BY <1>1, <1>2, FS_Surjection
<1>4. ASSUME NEW n \in Files!Present(kept) PROVE IsFiniteSet(Of(n))
  <2>1. sizes[kept[n]] \in Int /\ 1 \in Int
    BY DEF Files!Present, Files!Tree
  <2>2. IsFiniteSet(1..sizes[kept[n]])
    BY <2>1, FS_Interval
  <2>3. IsFiniteSet({n})
    BY FS_Singleton
  <2> QED
    BY <2>2, <2>3, FS_Product
<1>5. \A t \in T : IsFiniteSet(t)
  BY <1>4
<1> HIDE DEF T
<1>6. IsFiniteSet(UNION T)
  BY <1>3, <1>5, FS_UNION
<1> QED
  BY <1>1, <1>6 DEF T, Content

\* What is part of something that fits, fits.
LEMMA FitsToo ==
    ASSUME Files!NameAssumption, Files!BoundAssumption, NEW a \in Files!Tree, NEW b \in Files!Tree,
           NEW s \in [1..MaxOperations -> Nat], NEW t \in [1..MaxOperations -> Nat],
           \A n \in Name : b[n] # 0 => a[n] = b[n] /\ t[b[n]] = s[b[n]],
           Fits(a, s)
    PROVE  Fits(b, t)
<1>1. Files!Present(b) \subseteq Files!Present(a)
  BY DEF Files!Present
<1>2. Content(b, t) \subseteq Content(a, s)
  <2> SUFFICES ASSUME NEW x \in Content(b, t) PROVE x \in Content(a, s)
    OBVIOUS
  <2>1. PICK n \in Files!Present(b) : x \in {n} \X (1..t[b[n]])
    BY DEF Content
  <2>2. n \in Files!Present(a) /\ x \in {n} \X (1..s[a[n]])
    BY <1>1, <2>1 DEF Files!Present
  <2> QED
    BY <2>2 DEF Content
<1>3. /\ IsFiniteSet(Content(a, s)) /\ IsFiniteSet(Files!Present(a))
      /\ IsFiniteSet(Content(b, t)) /\ IsFiniteSet(Files!Present(b))
  BY FiniteContent
<1>4. /\ Cardinality(Content(b, t)) <= Cardinality(Content(a, s))
      /\ Cardinality(Files!Present(b)) <= Cardinality(Files!Present(a))
  BY <1>1, <1>2, <1>3, FS_Subset
<1>5. /\ Cardinality(Content(a, s)) \in Nat /\ Cardinality(Files!Present(a)) \in Nat
      /\ Cardinality(Content(b, t)) \in Nat /\ Cardinality(Files!Present(b)) \in Nat
      /\ MaxBytes \in Nat /\ MaxFiles \in Nat
  BY <1>3, FS_CardinalityType DEF Files!BoundAssumption
<1> QED
  BY <1>4, <1>5 DEF Fits

LEMMA Weighing == ASSUME NEW kept PROVE Files!WithinLimits(kept) <=> Fits(kept, size)
  BY Counting DEF Files!WithinLimits, Files!Bytes, Fits, Content

\* A step of one process, if what it does keeps the quota and what it knows.
LEMMA QuotaKept ==
    ASSUME Files!NameAssumption, Files!BoundAssumption, IInv, Quota, NEW p \in Thread, Others(p), Typed', UNCHANGED files \/ Inside(p),
           size' \in [1..MaxOperations -> Nat], \A i \in 1..operations : size'[i] = size[i],
           operations' >= operations, wsFaults' = 0 => wsFaults = 0,
           \A n \in Name : files'[n] <= operations', Weighed(p)',
           wsFaults' = 0 /\ wsPc'[p] # "replace" /\ (\A q \in Thread \ {p} : wsPc[q] # "replace") => Fits(files', size')
    PROVE  Quota'
<1>1. operations \in 1..MaxOperations /\ operations' \in 1..MaxOperations /\ MaxOperations \in Nat /\ Typed
  BY DEF IInv, Typed, Files!BoundAssumption
<1>2. ASSUME NEW q \in Thread \ {p} PROVE Weighed(q)'
  <2>1. /\ wsPc'[q] = wsPc[q] /\ wsOp'[q] = wsOp[q] /\ listed'[q] = listed[q] /\ done'[q] = done[q] /\ Weighed(q)
        /\ wsOp[q].id \in 0..MaxOperations /\ listed[q] \in Files!Tree
    BY <1>1 DEF Others, Quota, Typed, Operation
  <2>2. wsOp[q].id <= operations' /\ (wsPc[q] = "replace" => \A n \in Name : listed[q][n] <= operations')
    <3>1. \A n \in Name : listed[q][n] \in Nat
      BY <2>1 DEF Files!Tree, Files!BoundAssumption
    <3> QED
      BY <1>1, <2>1, <3>1 DEF Weighed
  <2>3. wsPc[q] = "replace" => UNCHANGED files
    BY DEF IInv, FilesSound, Holds, Inside, Locked
  <2>4. ASSUME wsPc[q] = "replace", wsFaults' = 0 PROVE Fits(Files!After(q), size')
    <3>1. Fits(Files!After(q), size) /\ size \in [1..MaxOperations -> Nat] /\ (\A n \in Name : listed[q][n] <= operations)
      BY <2>1, <2>4 DEF Weighed, Quota
    <3>2. Files!After(q) \in Files!Tree /\ \A n \in Name : Files!After(q)[n] \in 0..operations
      BY <1>1, <2>1, <3>1 DEF Files!After, Files!Tree, Weighed
    <3>3. \A n \in Name : Files!After(q)[n] # 0 => size'[Files!After(q)[n]] = size[Files!After(q)[n]]
      BY <1>1, <3>2
    <3> DEFINE a == Files!After(q)
    <3>4. a \in Files!Tree /\ Fits(a, size) /\ \A n \in Name : a[n] # 0 => a[n] = a[n] /\ size'[a[n]] = size[a[n]]
      BY <3>1, <3>2, <3>3
    <3>5. size \in [1..MaxOperations -> Nat] /\ size' \in [1..MaxOperations -> Nat]
      BY <3>1
    <3> HIDE DEF a
    <3>6. Fits(a, size')
      BY <3>4, <3>5, FitsToo
    <3> QED
      BY <3>6 DEF a
  <2>5. Files!After(q)' = Files!After(q)
    BY <2>1 DEF Files!After
  <2>6. ASSUME wsPc[q] = "replace", wsFaults' = 0
        PROVE  /\ Fits(Files!After(q), size)'
               /\ \A n \in Name : files'[n] = IF n \in done[q] THEN wsOp[q].id ELSE listed[q][n]
               /\ done[q] \subseteq wsOp[q].names
    <3>1. /\ \A n \in Name : files[n] = IF n \in done[q] THEN wsOp[q].id ELSE listed[q][n]
          /\ done[q] \subseteq wsOp[q].names /\ UNCHANGED files
      BY <2>1, <2>3, <2>6 DEF Weighed
    <3>2. Fits(Files!After(q), size')
      BY <2>4, <2>6
    <3>3. Fits(Files!After(q), size)'
      BY <2>5, <3>2 DEF Fits, Content, Files!Present
    <3> QED
      BY <3>1, <3>3
  <2> QED
    BY <2>1, <2>2, <2>6 DEF Weighed
<1>3. wsFaults' = 0 /\ (\A q \in Thread : wsPc'[q] # "replace") => Fits(files', size')
  BY DEF Others
<1> QED
  BY <1>2, <1>3 DEF Quota, Fits, Content, Files!Present

\* A step that leaves the files and their sizes alone and replaces none.
LEMMA QuotaStill ==
    ASSUME Files!NameAssumption, Files!BoundAssumption, IInv, IInv', Quota, NEW p \in Thread, Others(p),
           UNCHANGED <<files, size, operations, wsFaults>>, wsPc[p] # "replace", wsPc'[p] # "replace",
           wsOp'[p].id \in {0, wsOp[p].id}, wsPc'[p] = "upload" => done'[p] = {}
    PROVE  Quota'
<1>1. Typed' /\ operations \in 1..MaxOperations
  BY DEF IInv, Typed
<1>2. Weighed(p)'
  BY <1>1 DEF Weighed, Quota
<1>3. Fits(files, size) => Fits(files', size')
  BY DEF Fits, Content, Files!Present
<1> QED
  BY <1>1, <1>2, <1>3, QuotaKept DEF Quota

LEMMA QuotaSteps ==
    ASSUME Files!NameAssumption, Files!BoundAssumption, IInv, IInv', Quota, NEW p \in Thread,
           \/ Files!Acquire(p) \/ Files!Stage(p) \/ Files!Publish(p) \/ Files!Serve(p)
           \/ \E n \in Name : Files!Copy(p, n)
           \/ \E b \in Snap : Files!Remove(p, b)
    PROVE  Quota'
<1> USE DEF Files!fileVars, Files!snapshotVars, Files!recordVars, Files!ownVars, Files!counters, Files!Goto
<1>0. Typed /\ Typed' /\ Asked(p) /\ Holds(p) /\ Weighed(p) /\ operations \in 1..MaxOperations
  BY DEF IInv, FilesSound, Typed, Quota
<1>1. CASE Files!Acquire(p)
  <2>1. /\ wsPc[p] = "acquire" /\ UNCHANGED <<files, size, operations, wsFaults, wsOp, done, staged>>
        /\ wsPc' = [wsPc EXCEPT ![p] = wsOp[p].kind] /\ listed' = [listed EXCEPT ![p] = files]
    BY <1>1 DEF Files!Acquire
  <2>2. wsPc'[p] = wsOp[p].kind /\ wsOp[p].kind \in OnFiles \cup {"snapshot", "clean"} /\ done[p] = {} /\ Others(p)
    BY <1>0, <2>1 DEF Asked, Holds, Others, Typed
  <2> QED
    BY <2>1, <2>2, QuotaStill DEF OnFiles
<1>2. CASE Files!Stage(p)
  <2>1. /\ wsPc[p] = "upload" /\ UNCHANGED <<files, size, operations, wsFaults, wsOp, done, listed>>
        /\ \/ wsPc' = [wsPc EXCEPT ![p] = "replace"] /\ Files!WithinLimits(Files!After(p)) /\ staged' = [staged EXCEPT ![p] = Files!After(p)]
           \/ wsPc' = [wsPc EXCEPT ![p] = "refused"] /\ UNCHANGED staged
    BY <1>2 DEF Files!Stage, Files!Acceptable
  <2>2. /\ wsPc'[p] \in {"replace", "refused"} /\ (wsPc'[p] = "replace" => Files!WithinLimits(Files!After(p)))
        /\ Others(p)
    BY <1>0, <2>1 DEF Others, Typed
  <2>3. listed[p] = files /\ done[p] = {} /\ Files!After(p)' = Files!After(p)
    BY <1>0, <2>1 DEF Holds, Inside, Locked, Weighed, Files!After
  <2>4. wsPc'[p] = "replace" => Fits(Files!After(p), size)
    BY <2>2, Weighing
  <2>5. Weighed(p)'
    BY <1>0, <2>1, <2>2, <2>3, <2>4 DEF Weighed, Quota, Fits, Content, Files!Present
  <2>6. (\A q \in Thread \ {p} : wsPc[q] # "replace") /\ wsFaults = 0 => Fits(files, size)
    BY <2>1 DEF Quota
  <2> QED
    BY <1>0, <2>1, <2>2, <2>5, <2>6, QuotaKept DEF Quota
<1>3. CASE Files!Publish(p)
  <2>1. /\ wsPc[p] = "snapshot" /\ UNCHANGED <<files, size, operations, wsFaults, wsOp, done, listed, staged>>
        /\ wsPc' = [wsPc EXCEPT ![p] = "describe"]
    BY <1>3 DEF Files!Publish
  <2>2. wsPc'[p] = "describe" /\ Others(p)
    BY <1>0, <2>1 DEF Others, Typed
  <2> QED
    BY <2>1, <2>2, QuotaStill
<1>4. CASE Files!Serve(p)
  <2>1. /\ wsPc[p] = "serve" /\ UNCHANGED <<files, size, operations, wsFaults, wsOp, done, listed>>
        /\ \E label \in {"received", "refused"} : wsPc' = [wsPc EXCEPT ![p] = label]
        /\ staged' = [staged EXCEPT ![p] = staged'[p]]
    <3>1. staged' = [staged EXCEPT ![p] = staged'[p]]
      BY <1>0, <1>4 DEF Files!Serve, Typed
    <3> QED
      BY <1>4, <3>1 DEF Files!Serve
  <2>2. wsPc'[p] \in {"received", "refused"} /\ Others(p)
    BY <1>0, <2>1 DEF Others, Typed
  <2> QED
    BY <2>1, <2>2, QuotaStill
<1>5. ASSUME NEW n \in Name, Files!Copy(p, n) PROVE Quota'
  <2>1. /\ wsPc[p] = "snapshot" /\ UNCHANGED <<files, size, operations, wsFaults, wsOp, wsPc, listed>>
        /\ staged' = [staged EXCEPT ![p][n] = files[n]] /\ done' = [done EXCEPT ![p] = @ \cup {n}]
    BY <1>5 DEF Files!Copy
  <2>2. Others(p)
    BY <1>0, <2>1 DEF Others, Typed
  <2> QED
    BY <2>1, <2>2, QuotaStill
<1>6. ASSUME NEW b \in Snap, Files!Remove(p, b) PROVE Quota'
  <2>1. wsPc[p] = "clean" /\ UNCHANGED <<files, size, operations, wsFaults, wsOp, wsPc, done, listed, staged>>
    BY <1>6 DEF Files!Remove
  <2>2. Others(p)
    BY <2>1 DEF Others
  <2> QED
    BY <2>1, <2>2, QuotaStill
<1> QED
  BY <1>1, <1>2, <1>3, <1>4, <1>5, <1>6

\* Operations that end: what an upload has replaced is what it has weighed.
LEMMA QuotaEnds ==
    ASSUME Files!NameAssumption, Files!BoundAssumption, IInv, IInv', Quota, NEW p \in Thread,
           \/ Files!Uploaded(p) \/ Files!Return(p) \/ Files!Describe(p)
           \/ \E n \in Name : Files!Prune(p, n)
           \/ \E b \in Snap : Files!Cleaned(p, b)
           \/ \E crash \in BOOLEAN : Files!Cut(p, crash)
    PROVE  Quota'
<1> USE DEF Files!fileVars, Files!snapshotVars, Files!recordVars
<1>0. Typed /\ Typed' /\ Asked(p) /\ Holds(p) /\ Weighed(p) /\ operations \in 1..MaxOperations
  BY DEF IInv, FilesSound, Typed, Quota
<1>1. /\ Files!Leave(p) /\ UNCHANGED <<files, size>> /\ wsFaults' \in {wsFaults, wsFaults + 1} /\ wsFaults \in Nat
      /\ wsFaults' = 0 => wsPc[p] # "replace" \/ done[p] = wsOp[p].names
  BY <1>0 DEF Files!Uploaded, Files!Return, Files!Describe, Files!Prune, Files!Cleaned, Files!Cut, Typed
<1>2. wsPc'[p] = "idle" /\ wsOp'[p] = Files!NoOp /\ Others(p) /\ UNCHANGED operations
  BY <1>0, <1>1, Leaving DEF Files!Leave
<1>3. Weighed(p)'
  BY <1>0, <1>2 DEF Weighed, Files!NoOp
<1>4. ASSUME wsFaults' = 0, \A q \in Thread \ {p} : wsPc[q] # "replace" PROVE Fits(files', size')
  <2>1. wsFaults = 0
    BY <1>1, <1>4
  <2>2. CASE wsPc[p] # "replace"
    BY <1>1, <1>4, <2>1, <2>2 DEF Quota
  <2>3. CASE wsPc[p] = "replace"
    <3>1. \A n \in Name : files[n] = Files!After(p)[n]
      BY <1>1, <1>4, <2>1, <2>3, <1>0 DEF Weighed, Files!After
    <3>2. files = Files!After(p)
      BY <1>0, <3>1 DEF Typed, Files!Tree, Files!After
    <3> QED
      BY <1>0, <1>1, <2>1, <2>3, <3>2 DEF Weighed
  <2> QED
    BY <2>2, <2>3
<1> QED
  BY <1>0, <1>1, <1>2, <1>3, <1>4, QuotaKept DEF Quota

LEMMA QuotaWrites ==
    ASSUME Files!NameAssumption, Files!BoundAssumption, IInv, IInv', Quota, NEW p \in Thread, NEW n \in Name,
           Files!Replace(p, n) \/ Files!Unlink(p, n)
    PROVE  Quota'
<1> USE DEF Files!fileVars, Files!snapshotVars, Files!recordVars, Files!ownVars, Files!counters, Files!Goto
<1>0. Typed /\ Typed' /\ Asked(p) /\ Holds(p) /\ Weighed(p) /\ operations \in 1..MaxOperations
  BY DEF IInv, FilesSound, Typed, Quota
<1>1. CASE Files!Replace(p, n)
  <2>1. /\ wsPc[p] = "replace" /\ n \in wsOp[p].names /\ files' = [files EXCEPT ![n] = wsOp[p].id]
        /\ done' = [done EXCEPT ![p] = done[p] \cup {n}]
        /\ UNCHANGED <<size, wsPc, wsOp, listed, staged, operations, wsFaults>>
    BY <1>1 DEF Files!Replace
  <2>2. /\ files' \in Files!Tree /\ files'[n] = wsOp[p].id /\ \A m \in Name \ {n} : files'[m] = files[m]
        /\ done'[p] = done[p] \cup {n} /\ Others(p) /\ Inside(p)
    BY <1>0, <2>1 DEF Typed, Files!Tree, Others, Inside, Locked
  <2>3. \A m \in Name : files'[m] <= operations'
    BY <1>0, <2>1, <2>2 DEF Weighed, Quota
  <2>4. Files!After(p)' = Files!After(p)
    BY <2>1 DEF Files!After
  <2>5. wsFaults = 0 => /\ \A m \in Name : files'[m] = IF m \in done'[p] THEN wsOp[p].id ELSE listed[p][m]
                      /\ done'[p] \subseteq wsOp[p].names
    BY <1>0, <2>1, <2>2 DEF Weighed
  <2>6. Weighed(p)'
    BY <1>0, <2>1, <2>4, <2>5 DEF Weighed, Fits, Content, Files!Present
  <2> QED
    BY <1>0, <2>1, <2>2, <2>3, <2>6, QuotaKept DEF Quota
<1>2. CASE Files!Unlink(p, n)
  <2>1. /\ wsPc[p] = "delete"
        /\ \/ wsPc' = [wsPc EXCEPT ![p] = "refused"] /\ files' = files
           \/ wsPc' = [wsPc EXCEPT ![p] = "prune"] /\ files' = [files EXCEPT ![n] = 0]
        /\ UNCHANGED <<size, wsOp, listed, done, staged, operations, wsFaults>>
    BY <1>2 DEF Files!Unlink
  <2>2. /\ \A m \in Name : files'[m] = files[m] \/ files'[m] = 0
        /\ wsPc'[p] \in {"refused", "prune"} /\ Others(p) /\ Inside(p)
    BY <1>0, <2>1 DEF Typed, Files!Tree, Others, Inside, Locked
  <2>3. \A m \in Name : files'[m] <= operations'
    BY <1>0, <2>1, <2>2 DEF Quota
  <2>4. Weighed(p)'
    BY <1>0, <2>1, <2>2 DEF Weighed
  <2>5. Fits(files, size) => Fits(files', size')
    <3>1. /\ files \in Files!Tree /\ files' \in Files!Tree /\ size \in [1..MaxOperations -> Nat]
          /\ \A m \in Name : files'[m] # 0 => files[m] = files'[m] /\ size[files'[m]] = size[files'[m]]
      BY <1>0, <2>2 DEF Typed, Quota
    <3>2. Fits(files, size) => Fits(files', size)
      BY <3>1, FitsToo
    <3> QED
      BY <2>1, <3>2
  <2> QED
    BY <1>0, <2>1, <2>2, <2>3, <2>4, <2>5, QuotaKept DEF Quota
<1> QED
  BY <1>1, <1>2

\* An operation that begins is the latest: no file has its number.
LEMMA QuotaBegins ==
    ASSUME Files!NameAssumption, Files!BoundAssumption, IInv, IInv', Quota, NEW p \in Thread,
           \/ \E names \in (SUBSET Name) \ {{}}, bytes \in Sizes : Files!Upload(p, names, bytes)
           \/ \E n \in Name : Files!Delete(p, n)
           \/ \E b \in Snap : Files!QueueBuild(p, b) \/ Files!Clean(p, b) \/ Files!Download(p, b) \/ \E n \in Name : Files!Mount(p, b, n)
    PROVE  Quota'
<1>0. Typed /\ Typed' /\ operations \in 1..MaxOperations /\ operations' \in 1..MaxOperations
  BY DEF IInv, Typed
<1>1. PICK label, kind, names, b : label \in Label \ {"upload", "replace"} /\ Files!Begin(p, label, kind, names, b)
  BY DEF Files!Upload, Files!Delete, Files!QueueBuild, Files!Clean, Files!Download, Files!Mount, Label, Locked
<1>2. size' = size \/ \E bytes \in Sizes : size' = [size EXCEPT ![operations'] = bytes]
  BY DEF Files!Upload, Files!Delete, Files!QueueBuild, Files!Clean, Files!Download, Files!Mount
<1>3. /\ operations' = operations + 1 /\ wsPc' = [wsPc EXCEPT ![p] = label] /\ wsPc[p] = "idle"
      /\ wsOp' = [wsOp EXCEPT ![p] = [kind |-> kind, names |-> names, build |-> b, id |-> operations']]
      /\ UNCHANGED <<files, listed, done, staged, wsFaults>>
  BY <1>1 DEF Files!Begin, Files!Goto, Files!ownVars
<1>4. wsPc'[p] = label /\ wsOp'[p].id = operations' /\ Others(p)
  BY <1>0, <1>3 DEF Typed, Others
<1>5. size' \in [1..MaxOperations -> Nat] /\ \A i \in 1..operations : size'[i] = size[i]
  BY <1>0, <1>2, <1>3 DEF Quota, Files!BoundAssumption
<1>6. Weighed(p)'
  BY <1>0, <1>1, <1>4 DEF Weighed
<1>7. \A n \in Name : files'[n] \in 0..MaxOperations /\ files[n] <= operations /\ files'[n] <= operations'
  BY <1>0, <1>3 DEF Quota, Typed, Files!Tree, Files!BoundAssumption
<1>8. Fits(files, size) => Fits(files, size')
  <2>1. files \in Files!Tree /\ size \in [1..MaxOperations -> Nat]
    BY <1>0 DEF Typed, Quota
  <2>2. \A n \in Name : files[n] # 0 => files[n] = files[n] /\ size'[files[n]] = size[files[n]]
    BY <1>0, <1>3, <1>5, <1>7
  <2> QED
    BY <1>5, <2>1, <2>2, FitsToo
<1>9. wsFaults' = 0 /\ wsPc'[p] # "replace" /\ (\A q \in Thread \ {p} : wsPc[q] # "replace") => Fits(files', size')
  BY <1>3, <1>8 DEF Quota
<1> QED
  BY <1>0, <1>3, <1>4, <1>5, <1>6, <1>7, <1>9, QuotaKept

LEMMA QuotaFirst ==
    ASSUME Files!NameAssumption, Files!BoundAssumption, Files!Init
    PROVE  Quota
<1>1. PICK names \in SUBSET Name, bytes \in Sizes :
         /\ bytes * Cardinality(names) <= MaxBytes /\ Cardinality(names) <= MaxFiles
         /\ files = [n \in Name |-> IF n \in names THEN 1 ELSE 0]
         /\ size = [i \in 1..MaxOperations |-> IF i = 1 THEN bytes ELSE 0]
  BY Counting DEF Files!Init
<1>2. /\ wsPc = [p \in Thread |-> "idle"] /\ wsOp = [p \in Thread |-> Files!NoOp]
      /\ operations = 1 /\ wsFaults = 0
  BY DEF Files!Init
<1>3. bytes \in Nat /\ 1 \in 1..MaxOperations
  BY DEF Files!BoundAssumption
<1>4. size \in [1..MaxOperations -> Nat] /\ size[1] = bytes
  BY <1>1, <1>3
<1>5. Files!Present(files) = names /\ \A n \in names : files[n] = 1
  BY <1>1 DEF Files!Present
<1>6. Content(files, size) = names \X (1..bytes)
  BY <1>4, <1>5 DEF Content
<1>7. IsFiniteSet(names) /\ IsFiniteSet(1..bytes) /\ Cardinality(1..bytes) = bytes /\ Cardinality(names) \in Nat
  <2>1. IsFiniteSet(names) /\ Cardinality(names) \in Nat
    BY Counting, FS_Subset, FS_CardinalityType DEF Files!NameAssumption
  <2>2. 1 \in Int /\ bytes \in Int /\ bytes >= 0
    BY <1>3
  <2>3. IsFiniteSet(1..bytes) /\ Cardinality(1..bytes) = IF 1 > bytes THEN 0 ELSE bytes - 1 + 1
    BY <2>2, FS_Interval
  <2> QED
    BY <2>1, <2>2, <2>3
<1>8. Cardinality(names \X (1..bytes)) = Cardinality(names) * bytes
  BY <1>7, FS_Product
<1>9. Cardinality(names) * bytes = bytes * Cardinality(names)
  BY <1>3, <1>7
<1>10. Fits(files, size)
  BY <1>1, <1>5, <1>6, <1>8, <1>9 DEF Fits
<1>11. (\A n \in Name : files[n] <= operations) /\ \A p \in Thread : Weighed(p)
  BY <1>1, <1>2 DEF Weighed, Files!NoOp
<1> QED
  BY <1>4, <1>10, <1>11 DEF Quota

LEMMA QuotaHolds == ASSUME Files!NameAssumption, Files!BoundAssumption PROVE Files!Spec => []Quota
<1>1. Files!Init => Quota
  BY QuotaFirst
<1>2. IInv /\ IInv' /\ Quota /\ [Files!Next]_(Files!vars) => Quota'
  <2> SUFFICES ASSUME IInv, IInv', Quota, [Files!Next]_(Files!vars) PROVE Quota'
    OBVIOUS
  <2>1. CASE Files!Quiet \/ UNCHANGED Files!vars
    <3>1. UNCHANGED <<files, size, wsPc, wsOp, listed, done, operations, wsFaults>>
      BY <2>1 DEF Files!Quiet, Files!vars, Files!fileVars, Files!ownVars, Files!counters
    <3>2. \A p \in Thread : Files!After(p)' = Files!After(p)
      BY <3>1 DEF Files!After
    <3>3. ASSUME NEW p \in Thread PROVE Weighed(p)'
      <4>1. Weighed(p) /\ Files!After(p)' = Files!After(p)
        BY <3>2 DEF Quota
      <4>2. Fits(Files!After(p), size) => Fits(Files!After(p), size)'
        BY <3>1, <4>1 DEF Fits, Content, Files!Present
      <4> QED
        BY <3>1, <4>1, <4>2 DEF Weighed
    <3>4. Fits(files, size) => Fits(files, size)'
      BY <3>1 DEF Fits, Content, Files!Present
    <3> QED
      BY <3>1, <3>3, <3>4 DEF Quota
  <2>2. ASSUME NEW p \in Thread, NEW names \in (SUBSET Name) \ {{}}, NEW bytes \in Sizes, Files!Upload(p, names, bytes)
        PROVE  Quota'
    BY <2>2, QuotaBegins
  <2>3. ASSUME NEW p \in Thread,
               \/ \E n \in Name : Files!Delete(p, n)
               \/ \E b \in Snap : \/ Files!QueueBuild(p, b) \/ Files!Clean(p, b) \/ Files!Download(p, b)
                                   \/ \E n \in Name : Files!Mount(p, b, n)
        PROVE  Quota'
    BY <2>3, QuotaBegins
  <2>4. ASSUME NEW p \in Thread,
               \/ Files!Acquire(p) \/ Files!Stage(p) \/ Files!Publish(p) \/ Files!Serve(p)
               \/ \E n \in Name : Files!Copy(p, n)
               \/ \E b \in Snap : Files!Remove(p, b)
        PROVE  Quota'
    BY <2>4, QuotaSteps
  <2>5. ASSUME NEW p \in Thread,
               \/ Files!Uploaded(p) \/ Files!Return(p) \/ Files!Describe(p)
               \/ \E n \in Name : Files!Prune(p, n)
               \/ \E b \in Snap : Files!Cleaned(p, b)
               \/ \E crash \in BOOLEAN : Files!Cut(p, crash)
        PROVE  Quota'
    BY <2>5, QuotaEnds
  <2>6. ASSUME NEW p \in Thread, NEW n \in Name, Files!Replace(p, n) \/ Files!Unlink(p, n)
        PROVE  Quota'
    BY <2>6, QuotaWrites
  <2> QED
    BY <2>1, <2>2, <2>3, <2>4, <2>5, <2>6 DEF Files!Next
<1> QED
  BY <1>1, <1>2, Invariance, PTL DEF Files!Spec

\* The application stays within its quota, whatever uploads and deletions overlap,
\* if none was cut short while it replaced files (upload).
THEOREM QuotaKeeps ==
    ASSUME Files!NameAssumption, Files!BoundAssumption
    PROVE  Files!Spec => []Files!WithinQuota
<1>1. IInv /\ Quota => Files!WithinQuota
  <2> SUFFICES ASSUME IInv, Quota, lock = Nobody, wsFaults = 0 PROVE Files!WithinLimits(files)
    BY DEF Files!WithinQuota
  <2>1. \A p \in Thread : wsPc[p] # "replace"
    BY DEF IInv, FilesSound, Holds, Inside, Locked, Files!BoundAssumption
  <2> QED
    BY <2>1, Weighing DEF Quota
<1> QED
  BY <1>1, Invariance, QuotaHolds, PTL

\* Together, what the workspaces promise: upload, delete_file, snapshot and
\* delete_build_snapshot.
THEOREM WorkspacesKept ==
    ASSUME Files!NameAssumption, Files!BoundAssumption
    PROVE  Files!Spec => WorkspacesSafe
  BY TypeCorrect, RefusalIsWhole, QuotaKeeps, PathsFreed, InputsAreRead, SnapshotRemoved, SnapshotsWhole, PTL
     DEF WorkspacesSafe
=============================================================================
