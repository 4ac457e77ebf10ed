---------------------------- MODULE Applications ----------------------------
(***************************************************************************)
(* One application record (services.py ApplicationService): its branch,    *)
(* its route and its Compose document with the commit it was read from,    *)
(* changed by concurrent create, update and synchronize requests while the *)
(* branches move on.  Each request reads the record and asks GitLab before *)
(* it writes the fields it changes, and schedules a static check last.     *)
(***************************************************************************)
EXTENDS Naturals

CONSTANTS
    Branch, Request,
    MaxHead,       \* bounds the commits of a branch
    MaxRequests    \* bounds the requests

BoundAssumption == Branch # {} /\ MaxHead \in Nat \ {0} /\ MaxRequests \in Nat

Commit == [branch : Branch, n : 1..MaxHead]
NoCommit == [branch |-> "none", n |-> 0]
\* A Compose document is the file of a commit or written by the user.
ByUser == [branch |-> "user", n |-> 0]
Document == Commit \cup {ByUser}

VARIABLES
    head,      \* the number of commits of each branch
    app,       \* the record: exists, ref, route (is one set), compose, source
    checks,    \* the commits a static check of the application exists for
    req,       \* the request each slot works on
    count,     \* requests accepted so far
    wrote      \* what the accepted writes have set ref and route to

vars == <<head, app, checks, req, count, wrote>>

AnyBranch == CHOOSE b \in Branch : TRUE
Idle == [pc |-> "idle", kind |-> "none", names |-> {}, ref |-> AnyBranch, route |-> FALSE,
         commit |-> NoCommit, source |-> NoCommit, since |-> [b \in Branch |-> 0]]

Init ==
    /\ head = [b \in Branch |-> 1]
    /\ app = [exists |-> FALSE, ref |-> AnyBranch, route |-> FALSE, compose |-> ByUser, source |-> NoCommit]
    /\ checks = {} /\ count = 0
    /\ req = [r \in Request |-> Idle]
    /\ wrote = [ref |-> AnyBranch, route |-> FALSE]

Head(b) == [branch |-> b, n |-> head[b]]

Push(b) ==
    /\ head[b] < MaxHead
    /\ head' = [head EXCEPT ![b] = @ + 1]
    /\ UNCHANGED <<app, checks, req, count, wrote>>

-----------------------------------------------------------------------------
(***************************************************************************)
(* A request comes in: what it names of {"ref", "route", "compose"} and    *)
(* the values; a synchronization names nothing.                            *)
(***************************************************************************)
Accept(r, kind, names, ref, route) ==
    /\ req[r] = Idle /\ count < MaxRequests /\ count' = count + 1
    /\ req' = [req EXCEPT ![r] = [Idle EXCEPT !.pc = kind, !.kind = kind, !.names = names, !.ref = ref,
                                              !.route = route, !.since = head]]
    /\ UNCHANGED <<head, app, checks, wrote>>

\* Any error: GitLab, an unknown or ambiguous document, no route check service.
Refuse(r) ==
    /\ req[r].pc \in {"create", "update", "sync", "resolve"}
    /\ req' = [req EXCEPT ![r] = Idle]
    /\ UNCHANGED <<head, app, checks, count, wrote>>

\* Resolving the head again for the check may fail, after the write.
Fail(r) ==
    /\ req[r].pc = "schedule" /\ req[r].commit = NoCommit /\ req[r].route
    /\ req' = [req EXCEPT ![r] = Idle]
    /\ UNCHANGED <<head, app, checks, count, wrote>>

\* The process stops: what it was serving is not taken up again.
Restart ==
    /\ req # [r \in Request |-> Idle]
    /\ req' = [r \in Request |-> Idle]
    /\ UNCHANGED <<head, app, checks, count, wrote>>

\* create_app: the document is discovered unless it is given, and the commit
\* checked is the one it was read from, or the head.
Discover(r) ==
    /\ req[r].pc = "create"
    /\ LET at == Head(req[r].ref)
           given == "compose" \in req[r].names
       IN req' = [req EXCEPT ![r].pc = "save", ![r].source = IF given THEN NoCommit ELSE at,
                             ![r].commit = IF given /\ ~req[r].route THEN NoCommit ELSE at]
    /\ UNCHANGED <<head, app, checks, count, wrote>>

\* The write returns the record as it is now.
Written(r) == req' = [req EXCEPT ![r].pc = "schedule", ![r].ref = app'.ref, ![r].route = app'.route]

Create(r) ==
    /\ req[r].pc = "save" /\ req[r].kind = "create"
    /\ IF app.exists
       THEN req' = [req EXCEPT ![r] = Idle] /\ UNCHANGED <<app, wrote>>
       ELSE /\ app' = [exists |-> TRUE, ref |-> req[r].ref, route |-> req[r].route, source |-> req[r].source,
                       compose |-> IF req[r].source = NoCommit THEN ByUser ELSE req[r].source]
            /\ wrote' = [ref |-> req[r].ref, route |-> req[r].route]
            /\ Written(r)
    /\ UNCHANGED <<head, checks, count>>

-----------------------------------------------------------------------------
\* update_app reads the record, and completes what it does not name from it.
ReadForUpdate(r) ==
    /\ req[r].pc = "update" /\ app.exists
    /\ req' = [req EXCEPT ![r].pc = "resolve",
                          ![r].ref = IF "ref" \in req[r].names THEN req[r].ref ELSE app.ref,
                          ![r].route = IF "route" \in req[r].names THEN req[r].route ELSE app.route]
    /\ UNCHANGED <<head, app, checks, count, wrote>>

\* the head of the branch, for the route, as the request would leave them
Resolve(r) ==
    /\ req[r].pc = "resolve"
    /\ req' = [req EXCEPT ![r].pc = "save", ![r].commit = IF req[r].route THEN Head(req[r].ref) ELSE NoCommit]
    /\ UNCHANGED <<head, app, checks, count, wrote>>

\* what $set names
Fields(r) == req[r].names

\* mutation: a direct edit keeps the source of the document
SourceKept(r) == app.source

\* a direct edit of the document, the repository or the branch drops the source
Source(r) == IF req[r].names \cap {"compose", "ref"} # {} THEN NoCommit ELSE app.source

Update(r) ==
    /\ req[r].pc = "save" /\ req[r].kind = "update"
    /\ app' = [app EXCEPT !.ref = IF "ref" \in Fields(r) THEN req[r].ref ELSE @,
                          !.route = IF "route" \in Fields(r) THEN req[r].route ELSE @,
                          !.compose = IF "compose" \in Fields(r) THEN ByUser ELSE @,
                          !.source = Source(r)]
    /\ wrote' = [ref |-> IF "ref" \in req[r].names THEN req[r].ref ELSE wrote.ref,
                 route |-> IF "route" \in req[r].names THEN req[r].route ELSE wrote.route]
    /\ Written(r)
    /\ UNCHANGED <<head, checks, count>>

-----------------------------------------------------------------------------
\* sync_app: the head of the branch the record names, and its document
Inspect(r) ==
    /\ req[r].pc = "sync" /\ app.exists
    /\ req' = [req EXCEPT ![r].pc = "save", ![r].commit = Head(app.ref), ![r].source = Head(app.ref)]
    /\ UNCHANGED <<head, app, checks, count, wrote>>

Synchronize(r) ==
    /\ req[r].pc = "save" /\ req[r].kind = "sync"
    /\ app' = [app EXCEPT !.compose = req[r].source, !.source = req[r].source]
    /\ Written(r)
    /\ UNCHANGED <<head, checks, count, wrote>>

\* "Persisted compose_source_commit is not a branch resolver."
Checked(r) == IF req[r].commit # NoCommit THEN req[r].commit ELSE Head(req[r].ref)

\* schedule_for_app, with the record the write has returned
Schedule(r) ==
    /\ req[r].pc = "schedule"
    /\ checks' = IF req[r].route THEN checks \cup {Checked(r)} ELSE checks
    /\ req' = [req EXCEPT ![r] = Idle]
    /\ UNCHANGED <<head, app, count, wrote>>

Next ==
    \/ \E b \in Branch : Push(b)
    \/ Restart
    \/ \E r \in Request :
         \/ \E ref \in Branch, route \in BOOLEAN :
              \/ \E names \in {{"ref", "route"}, {"ref", "route", "compose"}} : Accept(r, "create", names, ref, route)
              \/ \E names \in {{"ref"}, {"route"}, {"compose"}} : Accept(r, "update", names, ref, route)
         \/ Accept(r, "sync", {}, AnyBranch, FALSE)
         \/ Refuse(r) \/ Fail(r) \/ Discover(r) \/ Create(r) \/ ReadForUpdate(r) \/ Resolve(r) \/ Update(r)
         \/ Inspect(r) \/ Synchronize(r) \/ Schedule(r)

Spec == Init /\ [][Next]_vars

\* One request at a time, without a restart, and with GitLab there for the check.
OneAtATime == \A r, s \in Request : req[r] # Idle /\ req[s] # Idle => r = s
SteadyNext == Next /\ OneAtATime' /\ ~Restart /\ \A r \in Request : ~Fail(r)

-----------------------------------------------------------------------------
(***************************************************************************)
(* Properties.                                                             *)
(***************************************************************************)

\* The record and the requests hold branches and commits that exist.
TypeOK ==
    /\ app.ref \in Branch /\ app.compose \in Document /\ app.source \in Commit \cup {NoCommit}
    /\ checks \subseteq {c \in Commit : c.n <= head[c.branch]}
    /\ \A r \in Request : req[r].commit # NoCommit => req[r].commit.n <= head[req[r].commit.branch]

\* The recorded source commit is the one the document was read from: after a
\* direct edit the record does not claim to mirror a file (update_app).
ComposeIsSource == app.source # NoCommit => app.compose = app.source

\* A scheduled check is of a commit that was the head of its branch while the
\* request ran, never of an older one remembered in the record.
CheckIsFresh ==
    [][\A c \in checks' \ checks :
         \E r \in Request : req[r].pc = "schedule" /\ req'[r] = Idle /\ c.n >= req[r].since[c.branch]]_checks

\* No update undoes another: branch and route are what the last write that
\* named them set (update_app sets the fields of the request only).
LastWriteStands == app.exists => app.ref = wrote.ref /\ app.route = wrote.route

Quiet == \A r \in Request : req[r] = Idle

\* "A repository/ref edit also invalidates the old source metadata"
\* (services.py:149): the source is a commit of the branch recorded.
SourceMatchesRef == app.source # NoCommit => app.source.branch = app.ref

\* Creation, update and synchronization resolve the latest commit of the
\* branch and check the route there (docs/route-checks.md:55): with nothing
\* in flight the recorded branch has a check.
CheckedAsSaved == app.exists /\ app.route /\ Quiet => \E c \in checks : c.branch = app.ref
=============================================================================
