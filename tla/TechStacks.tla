----------------------------- MODULE TechStacks -----------------------------
(***************************************************************************)
(* Editable technology stacks (services.py TechStackService): one document *)
(* per stack in the repository, and in every process the template catalog  *)
(* that Compose documents are composed from.  A starting process seeds an  *)
(* empty collection, migrates what it reads and loads its catalog; a       *)
(* request writes the document, then the catalog of its own process.       *)
(* Requests of one process run concurrently in its thread pool.            *)
(***************************************************************************)
EXTENDS Naturals

CONSTANTS
    Process, Stack,
    Seeds,         \* the stacks of the catalog file
    Request,       \* requests in flight at once
    MaxEdits       \* bounds the versions written

\* A document's content: 0 none, 1 as seeded by an older release, 2 as seeded
\* or migrated now, and above that the edit that wrote it.
Gone == 0
Old == 1
Seeded == 2
Content == 0..(2 + MaxEdits)

SeedAssumption == Seeds \subseteq Stack /\ MaxEdits \in Nat

VARIABLES
    stored,    \* the collection
    catalog,   \* the components of each process
    up,        \* each process: "down", "seeding", "read", "up"
    listed,    \* what a starting process has read or seeded
    todo,      \* the stacks it has still to seed or to migrate
    req,       \* the request each slot works on
    edits,     \* edits so far
    deleted    \* stacks whose last document a client deleted

vars == <<stored, catalog, up, listed, todo, req, edits, deleted>>
procVars == <<catalog, up, listed, todo>>

Idle == [kind |-> "idle", process |-> CHOOSE p \in Process : TRUE, stack |-> CHOOSE s \in Stack : TRUE, content |-> Gone]

Init ==
    /\ stored \in {[s \in Stack |-> Gone], [s \in Stack |-> IF s \in Seeds THEN Old ELSE Gone]}
    /\ catalog = [p \in Process |-> [s \in Stack |-> Gone]]
    /\ up = [p \in Process |-> "down"]
    /\ listed = [p \in Process |-> [s \in Stack |-> Gone]]
    /\ todo = [p \in Process |-> {}]
    /\ req = [r \in Request |-> Idle]
    /\ edits = 0 /\ deleted = {}

\* the components of the catalog file
SeedCatalog == [s \in Stack |-> IF s \in Seeds THEN Seeded ELSE Gone]

Present == {s \in Stack : stored[s] # Gone}
\* validate_component and the default comments: what an older release lacks
Normalized(content) == IF content = Old THEN Seeded ELSE content

-----------------------------------------------------------------------------
(***************************************************************************)
(* _synchronize_catalog                                                    *)
(***************************************************************************)
List(p) ==
    /\ up[p] = "down"
    /\ IF Present = {}
       THEN /\ up' = [up EXCEPT ![p] = "seeding"]
            /\ todo' = [todo EXCEPT ![p] = Seeds]
            /\ listed' = [listed EXCEPT ![p] = SeedCatalog]
       ELSE /\ up' = [up EXCEPT ![p] = "read"]
            /\ todo' = [todo EXCEPT ![p] = {s \in Present : Normalized(stored[s]) # stored[s]}]
            /\ listed' = [listed EXCEPT ![p] = stored]
    /\ UNCHANGED <<stored, catalog, req, edits, deleted>>

\* a duplicate ends the start; the process is started again
Seed(p, s) ==
    /\ up[p] = "seeding" /\ s \in todo[p]
    /\ IF stored[s] # Gone
       THEN up' = [up EXCEPT ![p] = "down"] /\ UNCHANGED <<stored, deleted, todo>>
       ELSE /\ stored' = [stored EXCEPT ![s] = Seeded]
            /\ deleted' = deleted \ {s}
            /\ todo' = [todo EXCEPT ![p] = @ \ {s}]
            /\ UNCHANGED up
    /\ UNCHANGED <<catalog, listed, req, edits>>

\* $set of the migrated fields of the document as it was read
Migrate(p, s) ==
    /\ up[p] = "read" /\ s \in todo[p]
    /\ LET migrated == Normalized(listed[p][s])
       IN /\ stored' = IF stored[s] = Gone THEN stored ELSE [stored EXCEPT ![s] = migrated]
          /\ listed' = [listed EXCEPT ![p][s] = migrated]
    /\ todo' = [todo EXCEPT ![p] = @ \ {s}]
    /\ UNCHANGED <<catalog, up, req, edits, deleted>>

Load(p) ==
    /\ up[p] \in {"seeding", "read"} /\ todo[p] = {}
    /\ catalog' = [catalog EXCEPT ![p] = listed[p]]
    /\ up' = [up EXCEPT ![p] = "up"]
    /\ UNCHANGED <<stored, listed, todo, req, edits, deleted>>

Stop(p) ==
    /\ up[p] # "down"
    /\ up' = [up EXCEPT ![p] = "down"]
    /\ req' = [r \in Request |-> IF req[r].process = p THEN Idle ELSE req[r]]
    /\ UNCHANGED <<stored, catalog, listed, todo, edits, deleted>>

-----------------------------------------------------------------------------
(***************************************************************************)
(* Requests: the document first, then the catalog.                         *)
(***************************************************************************)
Accept(r, p, s, kind, content) ==
    /\ req' = [req EXCEPT ![r] = [kind |-> kind, process |-> p, stack |-> s, content |-> content]]
    /\ UNCHANGED procVars

Edit(r) == edits < MaxEdits /\ edits' = edits + 1 /\ req[r] = Idle

Creates(s) == stored[s] = Gone

Create(r, p, s) ==
    /\ Edit(r) /\ up[p] = "up" /\ Creates(s)
    /\ stored' = [stored EXCEPT ![s] = 2 + edits']
    /\ deleted' = deleted \ {s}
    /\ Accept(r, p, s, "upsert", 2 + edits')

\* mutation: find_one_and_update inserts if absent
UpdatesGone(s) == TRUE

Updates(s) == stored[s] # Gone

\* a full edit; the new content does not depend on the document read before
Update(r, p, s) ==
    /\ Edit(r) /\ up[p] = "up" /\ Updates(s)
    /\ stored' = [stored EXCEPT ![s] = 2 + edits']
    /\ Accept(r, p, s, "upsert", 2 + edits')
    /\ UNCHANGED deleted

Delete(r, p, s) ==
    /\ req[r] = Idle /\ up[p] = "up" /\ stored[s] # Gone
    /\ stored' = [stored EXCEPT ![s] = Gone]
    /\ deleted' = deleted \cup {s}
    /\ Accept(r, p, s, "remove", Gone)
    /\ UNCHANGED edits

\* upsert_component, remove_component
Finish(r) ==
    /\ req[r] # Idle
    /\ catalog' = [catalog EXCEPT ![req[r].process][req[r].stack] = req[r].content]
    /\ req' = [req EXCEPT ![r] = Idle]
    /\ UNCHANGED <<stored, up, listed, todo, edits, deleted>>

Next ==
    \/ \E p \in Process : List(p) \/ Load(p) \/ Stop(p)
    \/ \E p \in Process, s \in Stack : Seed(p, s) \/ Migrate(p, s)
    \/ \E r \in Request, p \in Process, s \in Stack : Create(r, p, s) \/ Update(r, p, s) \/ Delete(r, p, s)
    \/ \E r \in Request : Finish(r)

Spec == Init /\ [][Next]_vars

-----------------------------------------------------------------------------
(***************************************************************************)
(* Properties.                                                             *)
(***************************************************************************)

\* Documents and catalogs hold contents that were written; only a process
\* that is starting has work left, and only a running one serves requests.
TypeOK ==
    /\ stored \in [Stack -> Content] /\ catalog \in [Process -> [Stack -> Content]]
    /\ up \in [Process -> {"down", "seeding", "read", "up"}]
    /\ \A p \in Process : up[p] = "up" => todo[p] = {}
    /\ \A r \in Request : req[r] # Idle => up[req[r].process] = "up"
    /\ \A s \in Stack : stored[s] <= 2 + edits

Settled(p) == up[p] = "up" /\ \A r \in Request : req[r] = Idle

\* "CRUD changes are synchronized to the Compose composer"
\* (docs/architecture.md:68), "at once" (docs/api-call-flow.md:26): with no
\* request in flight, what a process composes from is what is stored.
CatalogFollows == \A p \in Process : Settled(p) => catalog[p] = stored

\* A stack a client has deleted comes back only by its creation, or with the
\* seeds of a process that started on an empty collection; no update, no
\* migration and no late step revives it.
DeletedStaysDeleted ==
    [][\A s \in deleted : stored'[s] # Gone =>
         \/ edits' = edits + 1 /\ stored'[s] = 2 + edits'
         \/ s \in Seeds /\ stored'[s] = Seeded]_<<stored, edits>>

\* "keeps what the user has written" (docs/architecture.md:68): a starting
\* process never replaces an edit.
EditsSurviveStart ==
    [][\A s \in Stack : stored[s] > Seeded /\ edits' = edits => stored'[s] \in {stored[s], Gone}]_<<stored, edits>>
=============================================================================
