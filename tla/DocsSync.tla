------------------------------ MODULE DocsSync ------------------------------
(***************************************************************************)
(* The docs pages: syncDB of cmd/codepuke/syncdb.go, run by every pod as   *)
(* it boots (serve) or by the sync-db command, over UpsertDoc and          *)
(* PruneDocs of internal/store/documents.go.  Each statement is its own    *)
(* transaction, so a sync may die between two of them, and the syncs of    *)
(* two pods may interleave: a deployment starts the pod of a new release   *)
(* while the old one serves, and restarts a pod that dies.                 *)
(*                                                                         *)
(* A release is a number; its pod carries the manifest and the migrations  *)
(* it was built with.  A page is a pair of project and doc slug, a text    *)
(* stands for its title, markdown and render.                              *)
(***************************************************************************)
EXTENDS Integers, Sequences

CONSTANTS
    Releases,    \* the builds, each run by one process; the later, the newer
    Jobs,        \* those that run the sync-db command; the others are pods
    Pages,       \* <<project, doc slug>> pairs
    Texts,       \* page contents
    NoRow,       \* no documents row for a page
    Manifest,    \* each release's manifest: a sequence of [page, text]
    Migrations,  \* the projects each release's migrations insert
    InitRows,    \* the docs rows earlier releases may have left
    InitProjects,\* the projects their migrations inserted
    MaxCrashes   \* how many times a process may die (bound)

Entries == [page : Pages, text : Texts]

ASSUME ReleasesAssumption ==
    /\ Releases \subseteq Nat /\ Jobs \subseteq Releases /\ MaxCrashes \in Nat
    /\ Manifest \in [Releases -> Seq(Entries)]
    /\ InitRows \subseteq [Pages -> Texts \cup {NoRow}]
    /\ NoRow \notin Texts
    /\ \A r \in InitRows, page \in Pages : r[page] # NoRow => page[1] \in InitProjects

\* cmd/sync refuses two docs of one slug in a project.
ASSUME PagesOnceAssumption ==
    \A p \in Releases : \A i, j \in DOMAIN Manifest[p] :
        Manifest[p][i].page = Manifest[p][j].page => i = j

VARIABLES
    rows,      \* documents of kind 'doc', by page
    projects,  \* the projects table
    pc,        \* where each release's process is
    next,      \* the position of syncDB's loop in the manifest
    keep,      \* the pages the loop has collected
    deployed,  \* the releases deployed so far
    crashes,   \* how many processes have died (bound)
    alone      \* history: no other sync has run since this one began

vars == <<rows, projects, pc, next, keep, deployed, crashes, alone>>

\* The release the deployment asks for.
Newest(p) == p \in deployed \ Jobs /\ \A q \in deployed \ Jobs : q <= p

Init ==
    /\ rows \in InitRows
    /\ projects = InitProjects
    /\ pc = [p \in Releases |-> "down"]
    /\ next = [p \in Releases |-> 1]
    /\ keep = [p \in Releases |-> {}]
    /\ deployed = {}
    /\ crashes = 0
    /\ alone = [p \in Releases |-> FALSE]

-----------------------------------------------------------------------------
(* The deployment: one replica, a new pod ready before the old one stops *)

\* A release goes out, newer than those before it; sync-db is run at any time.
Deploy(p) ==
    /\ p \notin deployed
    /\ p \in Jobs \/ \A q \in deployed \ Jobs : q < p
    /\ deployed' = deployed \cup {p}
    /\ UNCHANGED <<rows, projects, pc, next, keep, crashes, alone>>

\* A process that fails: the pod's is started again, the command's is not.
Died(p) == IF p \in Jobs THEN "stopped" ELSE "down"

\* A process starts, or starts again after it died.
Start(p) ==
    /\ p \in deployed /\ pc[p] = "down"
    /\ pc' = [pc EXCEPT ![p] = "migrate"]
    /\ UNCHANGED <<rows, projects, next, keep, deployed, crashes, alone>>

\* An older pod is stopped once the newest serves, or was never ready itself.
Retire(p) ==
    /\ p \in deployed \ Jobs /\ ~Newest(p) /\ pc[p] # "stopped"
    /\ pc[p] # "serving" \/ \E q \in deployed : Newest(q) /\ pc[q] = "serving"
    /\ pc' = [pc EXCEPT ![p] = "stopped"]
    /\ UNCHANGED <<rows, projects, next, keep, deployed, crashes, alone>>

-----------------------------------------------------------------------------
(* serve and sync-db, up to the end of syncDB *)

\* Mutant: the migrations are left to be run by hand.
MigratedByHand(p) == projects
Migrated(p) == projects \cup Migrations[p]

RunMigrations(p) ==
    /\ pc[p] = "migrate"
    /\ projects' = Migrated(p)
    /\ pc' = [pc EXCEPT ![p] = "pipeline"]
    /\ UNCHANGED <<rows, next, keep, deployed, crashes, alone>>

Syncing(p) == pc[p] = "sync"

FirstDoc == 1

\* buildPipeline returns once the mermaid sidecar answers, and syncDB begins with
\* an empty keep list.
BuildPipeline(p) ==
    /\ pc[p] = "pipeline"
    /\ pc' = [pc EXCEPT ![p] = "sync"]
    /\ next' = [next EXCEPT ![p] = FirstDoc]
    /\ keep' = [keep EXCEPT ![p] = {}]
    /\ alone' = [q \in Releases |-> q = p /\ \A s \in Releases : ~Syncing(s)]
    /\ UNCHANGED <<rows, projects, deployed, crashes>>

More(p) == next[p] \in DOMAIN Manifest[p]
Known(page) == page[1] \in projects

\* Mutant: ON CONFLICT DO NOTHING, the old text stays.
InsertedOnly(old, text) == IF old = NoRow THEN text ELSE old
\* ON CONFLICT DO UPDATE.
Upserted(old, text) == text

\* Mutant: only the pages whose row was new are collected.
KeepNew(p, page) == IF rows[page] = NoRow THEN keep[p] \cup {page} ELSE keep[p]
Keep(p, page) == keep[p] \cup {page}

\* One turn of the loop: render, upsert, remember the page.
UpsertDoc(p) ==
    /\ Syncing(p) /\ More(p)
    /\ LET doc == Manifest[p][next[p]] IN
        /\ Known(doc.page)
        /\ rows' = [rows EXCEPT ![doc.page] = Upserted(@, doc.text)]
        /\ keep' = [keep EXCEPT ![p] = Keep(p, doc.page)]
    /\ next' = [next EXCEPT ![p] = @ + 1]
    /\ UNCHANGED <<projects, pc, deployed, crashes, alone>>

\* An unknown project inserts no row: syncDB fails, and the process exits.
UnknownProject(p) ==
    /\ Syncing(p) /\ More(p)
    /\ ~Known(Manifest[p][next[p]].page)
    /\ pc' = [pc EXCEPT ![p] = Died(p)]
    /\ UNCHANGED <<rows, projects, next, keep, deployed, crashes, alone>>

\* not (slug = any(keep)) deletes the rows that are not kept; of a loop that
\* appended nothing keep is nil, a NULL array, and NULL deletes no row.
Pruned(page, kept) ==
    kept # {} /\ page \notin kept /\ Known(page)

\* The loop is over: prune, then serve, or exit as sync-db does.
PruneDocs(p) ==
    /\ Syncing(p) /\ ~More(p)
    /\ rows' = [page \in Pages |-> IF Pruned(page, keep[p]) THEN NoRow ELSE rows[page]]
    /\ pc' = [pc EXCEPT ![p] = IF p \in Jobs THEN "synced" ELSE "serving"]
    /\ UNCHANGED <<projects, next, keep, deployed, crashes, alone>>

\* A process dies wherever it is: a kill, a database or render error, a mermaid
\* sidecar that is not ready in time.
Crash(p) ==
    /\ pc[p] \notin {"down", "stopped", "synced"}
    /\ crashes < MaxCrashes
    /\ crashes' = crashes + 1
    /\ pc' = [pc EXCEPT ![p] = Died(p)]
    /\ UNCHANGED <<rows, projects, next, keep, deployed, alone>>

\* docPage of a pod: the project must be in its manifest, which also makes the
\* navigation, and the page must be in the table; NoRow is the 404 page.
DocPage(p, page) ==
    IF \E i \in DOMAIN Manifest[p] : Manifest[p][i].page[1] = page[1]
    THEN rows[page] ELSE NoRow

\* A serving pod answers requests: it only reads.
Serve(p) == pc[p] = "serving" /\ UNCHANGED vars

Boot(p) == \/ Start(p) \/ RunMigrations(p) \/ BuildPipeline(p)
           \/ UpsertDoc(p) \/ UnknownProject(p) \/ PruneDocs(p)

Next == \E p \in Releases : Deploy(p) \/ Boot(p) \/ Retire(p) \/ Crash(p) \/ Serve(p)

\* A started process runs, a dead one is restarted, an old pod is retired;
\* nothing forces a deployment or a crash.
Fairness == \A p \in Releases : WF_vars(Boot(p)) /\ WF_vars(Retire(p))

Spec == Init /\ [][Next]_vars
FairSpec == Spec /\ Fairness

-----------------------------------------------------------------------------
(* What must hold *)

\* Every variable has its type.
TypeOK ==
    /\ rows \in [Pages -> Texts \cup {NoRow}]
    /\ projects \subseteq (InitProjects \cup UNION {Migrations[p] : p \in Releases})
    /\ pc \in [Releases -> {"down", "migrate", "pipeline", "sync", "serving", "synced", "stopped"}]
    /\ next \in [Releases -> Nat \ {0}]
    /\ keep \in [Releases -> SUBSET Pages]
    /\ deployed \subseteq Releases
    /\ crashes \in 0..MaxCrashes
    /\ alone \in [Releases -> BOOLEAN]

Listed(p) == {Manifest[p][i].page : i \in DOMAIN Manifest[p]}

\* The row a manifest asks for.
RowOf(p, page) ==
    IF \E i \in DOMAIN Manifest[p] : Manifest[p][i].page = page
    THEN Manifest[p][CHOOSE i \in DOMAIN Manifest[p] : Manifest[p][i].page = page].text
    ELSE NoRow

\* A sync that no other one crossed leaves exactly the manifest's pages, whatever
\* rows earlier releases and half-done syncs had left, as long as it lists any.
SyncIsExact ==
    \A p \in Releases :
        pc[p] \in {"serving", "synced"} /\ alone[p] /\ Listed(p) # {} =>
            \A page \in Pages : rows[page] = RowOf(p, page)

\* The pages every release lists.
Common == {page \in Pages : \A p \in Releases : page \in Listed(p)}

\* While any pod serves, a page that all releases list is there to serve, with
\* the text one of them gave it: no deployment, crash, or crossing of two syncs
\* makes a lasting page 404.
CommonPagesServed ==
    \A p \in Releases : pc[p] = "serving" =>
        \A page \in Common : \E q \in deployed : DocPage(p, page) = RowOf(q, page)

\* "PruneDocs deletes docs rows absent from keep" (documents.go:172): a sync that
\* has run to its end leaves no row of a known project it did not list.
PruneDeletesUnlisted ==
    [][\A p \in Releases : Syncing(p) /\ pc'[p] \in {"serving", "synced"} =>
          \A page \in Pages : Known(page) /\ rows'[page] # NoRow => page \in keep[p]]_vars

\* "Rows for renamed or removed pages go away with the sync that dropped them"
\* (documents.go:172-174): while the newest release serves, the pages it dropped
\* are gone.
DroppedPagesGone ==
    \A p \in Releases : Newest(p) /\ pc[p] = "serving" =>
        \A page \in Pages \ Listed(p) : rows[page] = NoRow

\* The projects a release needs are there when its migrations have run.
Bootable(p) == \A page \in Listed(p) : page[1] \in Migrations[p]

\* A deployed release whose projects exist comes to serve, however often its
\* process dies on the way, unless a newer one replaces it.
RolloutCompletes ==
    \A p \in Releases \ Jobs :
        Bootable(p) /\ Newest(p) ~> pc[p] = "serving" \/ ~Newest(p)
=============================================================================
