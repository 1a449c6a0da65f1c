# Formal models of codepuke

TLA+ models of the parts of the codepuke site whose correctness depends on how
steps interleave or fail: TLC checks them on small instances, TLAPS proves the
most important of their properties for every instance. Paths are relative to
the repository.

## The system and its components

| component | state | operations | hard behaviour | what makes it correct |
|---|---|---|---|---|
| Article administration: `internal/web/admin.go`, `internal/store/admin.go` | tables `documents` (kind article), `categories`, `document_categories` | adminCreate, adminSave (preview, save, publish, unpublish), adminEditor, adminIndex | concurrent requests, a transaction of many statements, unique-key waits and deadlocks, publish in two commits, lost replies | saves are all or nothing, slugs unique and fixed, a redirect only after the commit, nothing public that was not saved |
| Docs sync: `cmd/codepuke/syncdb.go`, `internal/store/documents.go` | `documents` (kind doc), `projects`, the embedded manifest | RunMigrations, waitForMermaid, UpsertDoc per page, PruneDocs | every boot of every pod, not one transaction, crashes, two releases at once | after a sync the table is the manifest; lasting pages never vanish |
| Public pages: `internal/web/handlers.go`, `rss.go`, `sections.go`, `ui/*.templ` | none of their own; the pages readers hold | home, article, tag, archive, projects, docsIndex, docPage, feed | two snapshots per tag page, links followed long after they were shown, navigation from the manifest and body from the table | no dead link, no draft, listings in order |
| Serve lifecycle: `cmd/codepuke/main.go`, `routes.go`, `deploy/base` | process state | boot order, probes, graceful shutdown, pool | deadlines of boot and shutdown against those of the kubelet | every boot and stop ends; a stop cuts nobody short |
| Configuration: `internal/config` | none | Parse | values that depend on one another | a bad environment never serves |
| Sign-in: `internal/auth` | sealed login and session cookies, cached provider | Begin, Complete, ReadSession, Logout | two tabs, late or crossed callbacks, provider down | a session only from a matching, fresh login |
| Render pipeline: `internal/content` | none but the Mermaid client's cache | Render, heading anchors, directives, example tabs, RenderSVG | concurrent renders over one cache that is checked and filled in two critical sections; ids that collide | a render is a function of its document; derived ids are fresh; an outline tells the truth |
| Editor page: `ui/admin.templ`, `ui/static/admin.js` | the textarea, chip, pane and status of a page | preview round trip, the buttons of the form | answers that arrive after edits, an expired session, another author | the page says what is so; text is lost in named cases only |
| Page scripts: `ui/static/site.js` | localStorage, active tabs | code-tabs | a default of the page against a stored preference | the tabs of a page agree |
| Content sync: `cmd/sync` | the content tree and `manifest.json` | run, writeOutput, extractSnippets, front matter | crash while rewriting the tree, projects whose directories nest, nested markers | manifest and tree agree; the navigation is the directory |

A request reaches `internal/web` and calls `internal/store`; the only shared
state is PostgreSQL (and, for previews and saves, the Mermaid cache). The docs
half of the same `documents` table is written only by syncDB, at boot.

## Modules

| module | models |
|---|---|
| `Articles.tla` | the admin handlers over the statements of the store, one action per statement |
| `ArticleBook.tla` | what the store promises: create, save and publish as atomic operations |
| `ArticlesProofs.tla` | types, atomic saves, locks and waits, slugs, counts, publishing and redirects of `Articles`, and that it implements `ArticleBook`, proved with TLAPS |
| `MCArticles.tla` | its TLC instances |
| `DocsSync.tla` | syncDB in the pods of a rolling deployment, and in the sync-db command |
| `DocsSyncProofs.tla` | types, exact syncs and lasting pages of `DocsSync`, proved |
| `MCDocsSync.tla` | its TLC instances |
| `AuthFlow.tla` | sign-in in several tabs of one browser, sessions, the admin gate |
| `AuthFlowProofs.tla` | types, failures, login cookies, sessions and the gate of `AuthFlow`, proved |
| `Render.tla` | Pipeline.Render by concurrent callers over one Mermaid cache |
| `EditorPage.tla` | the editor in a browser, and the handlers it talks to, over `Render` |
| `RenderProofs.tla` | pure renders, fresh ids, outlines, a truthful page and surviving edits, proved over the whole of `EditorPage` |
| `MCEditor.tla` | the TLC instance of both |
| `Site.tla` | the public handlers and their pages, over `ArticleBook` |
| `CodeTabs.tla` | the code-tabs of the pages of one browser |
| `SiteProofs.tla`, `MCSite.tla` | links, drafts, listings and code-tabs of `Site`, proved; its TLC instance |
| `Boot.tla` | one container against the clock: boot, serving, stop |
| `BootProofs.tla`, `MCBoot.tla` | limits and clean stops of `Boot`, proved; its TLC instance |
| `ContentSync.tla`, `MCContentSync.tla` | the sync command: check all sources, rebuild the content tree; its instance |
| `ContentSyncProofs.tla` | tree and manifest, navigation, clashes and refusals of `ContentSync`, proved |
| `Snippets.tla`, `MCSnippets.tla` | extractSnippets and dedent, line by line; its instance |
| `SnippetsProofs.tla` | regions, markers and dedent of `Snippets`, proved |

Two modules compose others. `EditorPage` EXTENDS `Render`: its previews and
saves are calls of Render that share the cache. `Site` EXTENDS `CodeTabs`, since
loading a page connects its tabs, and takes the authors' side from an INSTANCE
of `ArticleBook`; that the handlers' statements implement that book is proved
in `ArticlesProofs` (`ImplementsBook`), so nothing readers see depends on the statements
in between. `EditorPage` relies on it too: its `Commit` is one step.

Elsewhere modules share nothing but data that one hands to the next:
`Snippets` yields the topics that `ContentSync` takes as given, and
`ContentSync` the manifest that `DocsSync` takes as given. That a manifest lists
a page once, which `DocsSync` assumes (`PagesOnceAssumption`), is what
`ContentSync` refuses to break (`DocsClash`; `OneFileEach`). `AuthFlow` ends
where `Articles` begins: its `Admit` runs an admin handler. `Boot` runs
`DocsSync`'s boot as one of its steps (`Synced`, or `BootFails`).

### Articles

A request `r` is one goroutine: `pc[r]` is the statement it is about to run,
`form[r]` what it submitted, one of `Workloads`. `docs`, `taggings` and
`categories` are the committed tables. The uncommitted part of a transaction is its own: the form
holds the new row, `attached[r]` the `document_categories` rows, `newcats[r]`
the `categories` rows. `todo[r]` holds the positions of the tags field that the
loop of UpdateArticle has not reached.

| action | code |
|---|---|
| `Receive` | the form of adminCreate (blank title: back to the list), the start of adminSave |
| `Insert`, `SlugTaken` | one attempt of adminCreate: CreateArticle commits, or error 23505 |
| `Load`, `Render` | GetArticleByID and the switch; Pipeline.Render |
| `UpdateRow` | UPDATE documents and DELETE FROM document_categories; takes the row |
| `InsertCategory`, `AttachTag` | the two statements of one turn of the tag loop |
| `Commit` | COMMIT of UpdateArticle |
| `SetPublished` | the single UPDATE of publish (after the save) and unpublish |
| `Reply` | the redirect |
| `Fail` | a cancelled context, lost connection, failed render or statement, or a killed process, at any statement |
| `DeadlockAbort` | PostgreSQL aborts a member of a waiting cycle |

Choices of abstraction. A slug is the sequence of its words, so that `post-2`
is both the second candidate of the title "Post" and the bare slug of the title
"Post 2", as in the code. A form's title is named by the slug Slugify makes of
it, a rendered body by its markdown, the publish time by the request that set
it; the author name is carried with the title and left out. Forms that repeat a
tag or leave one blank are inputs, because parseTags has to cope with them. The
DELETE is merged with the UPDATE before it: it cannot wait and nobody sees it
before the commit. Rows of articles are never deleted by the program, so the
"no rows affected" branch of UpdateArticle is modelled but never taken (the
invariant `TxOK` of the proofs contains the reason). A failed INSERT uses up a
number of the identity column; ids are only compared for equality, so that gap
is left out. A crash of the pod is the failure of each of its requests; they
share nothing in memory but the Mermaid cache (in `Render`), so `Fail` of one request at a time covers it. What
adminEditor and a preview show is in `EditorPage`.

PostgreSQL is external and is modelled from how the store uses it, at READ
COMMITTED: row lock until the end of the transaction, waiting on another
transaction's uncommitted unique key, a fresh snapshot per statement, deadlock
detection. `lastSave` and `effects` are history variables: no action reads them.

### DocsSync

A release is a number; its process carries its manifest and its migrations.
`Deploy`, `Start`, `Retire` are the deployment (one replica, default rolling
update: the old pod is stopped once the new one serves, or if it never did; a
dead pod is restarted). `RunMigrations`, `BuildPipeline`, `UpsertDoc` per page,
`UnknownProject` and `PruneDocs` are the boot, each its own transaction;
`Crash` kills a process anywhere. `Jobs` are processes of the sync-db command,
which exit after the prune and are not restarted. `DocPage` is what the docPage
handler finds. `alone[p]` is a history variable: no other sync began since p's
sync began, nor was one running then.

### AuthFlow

A tab `t` signs in once; `pc[t]` is where its request, or the answer to it, is.
A request carries the cookies of the moment it is sent (`carried`, `visit`), an
answer changes them when it arrives, and in between other tabs do the same to
the one jar. `Redirected` is the Set-Cookie of Begin and `Answered` that of
Complete.

| action | code |
|---|---|
| `Open`, `Logout` | authLogin, authLogout |
| `SetupCached`, `Discover`, `DiscoveryWorks`, `DiscoveryFails` | setup under `a.mu` |
| `Seal` | Begin after setup |
| `Check` | Complete up to the state comparison |
| `Exchange`, `ExchangeFails` | the rest of Complete |
| `Visit`, `Admit`, `Unauthorized`, `Forbidden` | a request to requireAuthor and its outcome: the handler, 401, 403 |
| `Restart` | the process is replaced; cookies are sealed with a key that stays |

A cookie is what was sealed: a forged one does not open. A state or verifier is
random, so it is named by its tab. `begun` and `issued` are the clock's values
in what was sealed; `cause` is a history variable. `sanitizeReturn` and where a
login lands are left out. A failing random source is not modelled, nor a callback
that the user sends twice: each tab signs in once.

### Render

A call `r` of Render is at `at[r]` with its document `source[r]`; `slots[r]`
holds the drawings it has so far, by the position of their fence, and `cache`
is the client's map. Everything but the calls to the sidecar is one goroutine's
own computation, so it is one step (`Emit`), written as operators.

| definition | code |
|---|---|
| `HeadingIds`, `Dedupe`, `Ordinal` | headingAnchors: derived and explicit ids, chips of h2 headings |
| `ExtractSections`, `Nth` | the outline that docPage takes from stored HTML: one entry for each h2 the pattern finds, which is one without attributes but the id, in order |
| `Examples`, `Refused`, `CodeTabsOf` | renderDirective and FSSource.Examples |
| `Begin`, `LookUp`, `Fill`, `SidecarFails` | renderMermaid over RenderSVG: look into the cache under the lock, ask without it, fill it under the lock again |
| `DirectiveFails`, `Emit`, `Sanitized`, `Spliced` | rendering, sanitizing (a heading keeps a class and loses its other attributes), and the figures put in for their tokens |
| `Return` | the caller has the answer |

Choices of abstraction. A document is the sequence of its blocks; a heading's
text is the sequence of its slug's words, so that an id with a suffix can meet
the id of another title, as in the code. Inline text and highlighting are left
out. A sidecar's answer is the drawing or an error page; one that outgrows the
client's limit of 4 MiB is not modelled, nor an author who types a placeholder
token.

### EditorPage

One window of an author's browser, with or without the script (`js`).
`page` is what the editor shows: the text, the text it was loaded with, the
chip, the pane and its status, the buttons. The textarea stands for all fields
of the form. `fetching` are the page's unanswered previews, `posted` the form on
its way and how far adminSave has come with it. `OtherAuthor` saves or
publishes the same article beside. `asked`, `late` and `raced` are history.

| action | code |
|---|---|
| `Type` | the input listener of admin.js |
| `ClickPreview`, `PreviewArrives`, `PreviewFails` | roundTrip, and adminPreview |
| `Abandoned` | a render nobody waits for any more ends |
| `Submit`, `Commit`, `Publish`, `PreviewPosted`, `Redirect` | a button of the form, and adminSave with the row it has loaded |
| `PostFails`, `SignInPage` | an error page, whichever of adminSave's steps failed; requireAuthor turns the browser away |
| `GiveUp` | the author stops a posted form, or presses another button |
| `Open` | adminEditor |

While a posted form is not answered the page still takes typing and previews
(admin.js disables the preview button only, and only for its own fetch), and a
second button gives the first request up (`GiveUp`, then `Submit`). The server
notices: such a request's context is cancelled, and what it had not done by then
is not done. What it does in the moment before it notices is left out.

What a browser restores on the way back to a page is not modelled: after an
error or sign-in page the author opens the editor again.

### Site and CodeTabs

`pages[w]` is the page window `w` (or a feed reader) holds, for as long as it
likes. A page is its rows: what each list item links to, and the tags it
shows. `Get` is a handler of one statement, `GetTag` and `ListTag` the two of
tag, `Fails` a failing one; `Links` is every link of a page, `Answers` what a
request for one gets now. `AuthorCreates`, `AuthorSaves` and `AuthorPublishes`
are the operations of `ArticleBook`, with any publish time: the form's date
field decides it (publishTime), so an article may be dated back.
A publish time is its day, as year * 1000 + day, in UTC, the pod's zone; two
articles of one day may come in either order (`NewestFirst`). Docs pages and projects are
those of one release; `DocsSync` shows that they are in the table.
`CodeTabs` is the element of `site.js`: `Connect` when a page is loaded,
`Click` when a reader picks a language. The code-tabs of a page come of one
render, which gives all of them the page's default (`OneRender`,
`TabsAssumption`); an author who types the element into an article, with a
default of its own, is not modelled.

### Boot

One container from its start to its end. A tick is two seconds, and the limits
are the code's and the deployment's own (`Boot.cfg`). What the program waits
for may answer at any time; `Tick` is not enabled where a limit would be passed
(`Due`). Liveness then says that what is due is done.

| action | code |
|---|---|
| `Start`, `Started` | config.Parse and the signal handler |
| `Migrate`, `Connect`, `Synced`, `BootFails` | the steps of serve and syncDBCmd, and their errors |
| `Ask`, `Answer`, `Refused`, `Again` | waitForMermaid and Ready |
| `Shutdown`, `ShutdownReturns`, `Close` | ctx.Done, srv.Shutdown, the deferred close of the pool |
| `Arrive`, `Acquire`, `Release`, `Return` | a handler, and its connection of the pool |
| `Probes`, `ProbeStops`, `Retire`, `Kill`, `Restart` | the kubelet |

`hung` is history: a call to the sidecar took a tick or more. The liveness and
readiness probes of a pod that serves are left out: no handler blocks them.

### ContentSync

`ReadSource` is one turn of run's loop, `Refuse` each of its errors. writeOutput
is one action per file system call that changes the tree: `RemoveFile` (within
RemoveAll), `Cleared`, `WriteFile`, `WriteManifest`. `Kill` is a kill or an
error between or inside them, which may cut the file in hand short. The maps
snippetFiles and docFiles are one set `files`, since their paths differ in the
first component, and are written in any order, as Go ranges over a map. `Entry`
is what the manifest says of a source. The contents of the repositories are
chosen anew for each run.

A repository's Markdown files are given by name, slug and the directories they
lie below, its projects by slug and docs directory. `Pages` is the one list that
run collects for all projects, a page for each project whose directory a file is
below; `Sorted` by `Before` is the sort by project and file, and `Nav` the loop
that passes over the pages of other projects. What comes of it, `NavIsDirectory`
says without any of them: the files below the project's directory, in order, each
leading to its own text in the tree. Names are numbers, since only their order
counts.

### Snippets

One action per case of the loop. TLC picks the next line as it goes, so the
states are all files up to the bound. A line is its verb, its argument and its
indentation; only code lines need the last. The text of a captured line is
named by its position, which is what lets the properties say where each came
from; `start`, `end` and `lines` of an output record are history.

## What is checked

| run | question | instance and bounds |
|---|---|---|
| `articles` | atomic saves, categories, truthful redirects, unique and fixed slugs, one article per create, waits that end, refinement of `ArticleBook`, and that every request is answered | three requests with every choice of three of ten forms, over three articles that hold the first three slugs of one title: every pair of crossing transactions and a third that races with either; three creates reach the fifth slug and the refusal after it |
| `articles_suffixes` | the claim that a taken slug never errors | the same instance; violated |
| `docs_rollout` | exact syncs, lasting pages, completion of a rollout | three releases (a rename, a dropped page, a new project with its migration, an unknown project), sync-db run from a working copy beside them, one crash, leftover rows |
| `docs_overlap` | the claim that dropped pages go away with the sync that dropped them | two releases; violated |
| `docs_empty` | the claim that the prune deletes what is not kept | a release without docs; violated |
| `auth_flow` | logins of two tabs never pass for one another, undisturbed ones succeed, all are answered, only authors enter | two tabs, an author and another user, lifetimes of one tick of three (equal or later, so that every boundary is met), one outage or restart |
| `editor` | renders are pure, derived ids fresh, outlines truthful; the page tells the truth; edits survive | two fetches and a form in flight over three texts (repeated headings, spelled-out ids and diagrams; two example topics; one that does not render), one edit, one act of another author; the author may post, give up and post again, so that one edit can come before, during or after any of them |
| `editor_outline` | the claim that the outline has one entry per h2 | one fetch and one edit over the same texts; violated |
| `site` | no dead link, no draft, listings in order, tabs that agree | one window, two articles, two contents with overlapping tags, days of two years, four projects; windows share only the stored language, which any order of one window's clicks and loads reaches |
| `boot` | the wait fits the probe, a stop cuts nobody short, boots and stops end | the limits of the code: 45, 1, 15, 5, 60 and 15 ticks; two requests, one restart, eight environments |
| `content_sync` | a finished run leaves exactly its own files, the navigation is the directories, a refused run changes nothing | three runs (one to be killed, one to be refused, one to finish, in any order) over nine contents: one for each reason to refuse, directories that lie below one another, slugs that sort otherwise than their files |
| `snippets` | a snippet is the lines between its own markers; no marker is lost | files of up to six lines, two topics: two regions that nest or cross around lines of their own |

Fetches are interchangeable (`SYMMETRY` in `editor`, which checks no liveness);
in `articles`, which does, the choices of forms are given up to their order
instead (`ThreeForms`).
`AllAnswered`, `Serve`, `Rest`, `Finished` and `Over` let a finished instance
stutter, so deadlock checking stays on, except in `auth_flow`: a browser whose
user does nothing stops, which `EveryRequestAnswered` tells from a request that
hangs.

**Fairness.** `articles`: each goroutine whose statement can run does run,
and PostgreSQL's deadlock detector finds every cycle (weak fairness of
`Step(r)` and of `DeadlockAbort(r)`); failures are never forced. The number of
requests is finite, so a waiter cannot be overtaken for ever; PostgreSQL queues
row waiters in order anyway. `docs_rollout`: started processes run, dead pods
are restarted and old pods retired; deployments and crashes are not forced, and
crashes are bounded by `MaxCrashes`. `auth_flow`: handlers run and answers
arrive; users, clock, provider and restarts are not forced. That a discovery
ends is part of it: a provider that accepts the connection and never answers
holds the mutex as long as its caller waits. `boot`: time passes, the program
does what its own timers and a signal make due, and the kubelet acts (`Start`,
`Tick`, `Limits`, `Shutdown`, `ProbeStops`, `Kill`); the database, the sidecar
and the handlers need never answer.

### Findings

* `articles_suffixes`: `admin.go:71-72` says a taken slug gets a suffix rather
  than an error; the sixth article of one title gets an error page.
* `docs_overlap`: `documents.go:173-174` says removed pages go away with the
  sync that dropped them; an older release's sync that overlaps brings them
  back until the next sync.
* `docs_empty`: `documents.go:172` says docs absent from the keep list are
  deleted; a manifest without docs gives a nil list, SQL NULL, and no delete.
* `editor_outline`: `ui/design-system.md:559-560` gives the outline "one
  `<li data-title="…">` per h2"; an h2 to which its author gave a class keeps it
  (`sanitize.go:33`), is not matched by `h2Re` (`sections.go:14`), and is left out,
  while its chip still counts, so that the outline's numbers skip one. What does
  hold is `OutlineTruthful`: no entry is wrong, and nothing is missing from a
  document whose h2 headings have no attributes.

Met on the way, outside what the runs check:

* `ui/admin.templ:98` says that everything works as a plain form; without the
  script the save button is disabled (`:109`) until a preview has been posted.
* `deploy/base/deployment.yaml:82-84` says the sidecar is never on a request
  path; previews and saves of articles with diagrams call it.
* `mermaid_http.go:18` speaks of one sync run; the cache lives on in the process
  that serves, and nothing is evicted.
* `admin.go:231` puts dated articles at noon so that their order is stable; two
  of one day have the same time and may be listed in either order.
* A POST to `/admin/articles` without a session returns, after the sign-in, to
  GET `/admin/articles`, which is not routed.

## What is proved

Every safety property that a passing run checks is also proved, for every value
of the constants. The arguments, module by module:

`ArticlesProofs` proves for any sets of requests, forms, ids and slugs, under
the three named assumptions of `Articles` (forms are well formed, suffixed
slugs are slugs, the table is finite at the start and its slugs are distinct):

* `TypeCorrect`: `TypeOK`. It needs `FlowOK`: an insert has a non-blank title,
  and the positions still to attach are positions parseTags kept.
* `SavesAtomic`, `CategoriesCommitted`, `MutualExclusion`, `TagsAccepted`: from
  one inductive invariant, `Typing /\ SaveInv`. `NoTornSave` is not inductive:
  a commit installs `attached[r]`, so `TxOK` says that an open transaction has
  attached exactly the tags it has dealt with, each of which it sees as a
  category, and owns no category beyond its own tags; `SavesOK` ties
  `lastSave` to a committed save of that article. The proof has one step per
  action; those that touch neither tables nor transactions share one step.

* `WaitsEnd`: the safety half of `EveryRequestAnswered`. By `TxOK` a request
  that holds an uncommitted category is in a transaction, so whoever waits,
  waits for one in flight; if all in flight wait, the waiters form a finite set
  (`FewArrived`: at any moment finitely many requests have arrived) in which
  each waits for another, and its smallest subset of that kind is a cycle that
  the database aborts.
* `UniqueSlugs`, `LinksFixed`: `SlugsUnique` is inductive by itself, since an
  insert takes a slug no row has; no other action touches a slug.
* `PublicSaved`, `RedirectsTruthful`: from `PublishInv`. `ProgressOK` says what
  a request has committed at each point of its handler (a publish between its
  two commits has committed the save and nothing else), `SavedOK` that a
  committed save leaves its article saved for good.
* `ArticlesCounted`: from `CountOK`, which keeps the count and that both sides
  are finite. By `ProgressOK` a request inserts once, so the article and the
  effect that an insert adds are both new.
* `ImplementsBook`: initial states map to initial states, and each step to one
  operation of `ArticleBook` or a stutter. Only three actions are seen:
  `Insert` is a Create (an id without an article has no tags, by `NoTornSave`
  and `SavesOK`), `Commit` a Save of the whole form (`TxOK`: at the commit every
  tag of the form is attached), `SetPublished` itself.

`DocsSyncProofs` proves, for any releases, manifests, migrations, leftover
tables and number of crashes, under the two named assumptions of `DocsSync` (a
manifest lists a page once, as `cmd/sync` ensures; leftover rows have a project):

* `TypeCorrect`;
* `ExactSync`, `LastingPages`: from `SyncInv`. Neither property is inductive: a
  prune relies on what the loop before it did. `KeepOK` says that the keep list
  is the listed pages before the loop's position, `CommonOK` that the common
  pages among them have rows no prune of any release may take, `AloneOK` that
  an uncrossed sync finds what it wrote, and `KnownRows` (the foreign key) that
  a row nobody lists has a project, so that the prune reaches it.

`AuthFlowProofs` proves, for any tabs, users, lifetimes, outages and restarts,
under `AuthAssumption` (lifetimes are not zero, no cookie is not a cookie):

* `TypeCorrect`;
* `FailuresExplained`, `LoginSpent`, `SessionProvenance`, `OnlyAuthorsEnter`:
  from `AuthInv`. `ExchangeOK` says that only a callback with its own login
  reaches the exchange and, after it, a session. `UndisturbedOK` says that while
  nothing got in a sign-in's way the jar, and then the request, holds its login;
  with `LateOK` (an expired login is late) the checks of Complete then refuse
  nobody who was not disturbed. The gate's theorem joins what `Admits` sees in
  the cookie to where `SessionsEarned` says the cookie is from.

`RenderProofs` proves, for any documents, diagrams, numbers of fetches and
edits, under `RenderAssumption` and `EditorAssumption` (documents are lists of
the four kinds of blocks; a page's calls are its fetches and its form):

* `RenderInvariant`, `RendersArePure`: from `RenderInv /\ TextInv`. Purity is
  not inductive: it needs that the cache never holds anything but a diagram's
  own drawing (`CacheInv`), that the slots filled so far are the drawings of
  their fences, with nothing in them without a sidecar (`SlotsOf`), and that
  what the page renders is a document (`TextInv`). Fills of two calls commute
  because both put the same drawing.
* `TruthInvariant`, `PageTruthful`, `EditsKept`: from `TruthInv` over that
  invariant. `FetchInv` says that a page waits for one preview at a time, of the
  text it asked for last, so that a late answer cannot be another text's;
  `StoredInv` that the row holds a text with its own render; `PostInv` how the
  posted form, the page and the row belong together until the answer, but for
  the cases that `EditsSurvive` names.
* `DerivedIdsAreFresh`: from `IdsSoFar`, the invariant of the transformer's loop
  over the headings: every id so far is in `seen`. `Dedupe` then has a suffix
  that is not, since a finite set cannot hold them all.
* `OutlinesTruthful`: the headings the pattern finds are numbered by how many of
  them come before (`Nth`), which gives each number one heading and keeps their
  order; a chip counts the h2 headings up to its own (`ChipCounts`), so labels
  grow, and an entry's derived id is unlike those above it (`PageIds`).

`SiteProofs` proves, for any windows, articles, contents, days and docs, under
`SiteAssumption`, `ProjectsOnceAssumption` (no two manifest entries share a
project, as `cmd/sync` ensures) and `TabsAssumption` (one render, one default):

* `SiteInvariant`, `LinksAlwaysLead`, `DraftsNeverShown`: from `TableInv` (slugs
  are unique, tags have their categories) and `PageInv` (each row of a held page
  names an article that still has that slug, and tags that have their rows).
  The part about chrome needs no state: each card and navigation entry is looked
  up in the manifest it was made from.
* `ListingsAlwaysInOrder`, `TabsAlwaysAgree`: from `ShownInv`. Pages are in order
  because each statement returns its rows newest first (`Times`: published
  articles have times), and because of `Grouped`, the invariant of archive's
  loop: after each article the years are distinct, in order, and hold the rows
  so far. `TabsInv` is stronger than agreement: some language explains the page,
  and each instance offers what it shows, so that a click, which can take the
  language away from an instance without it, still leaves one that explains all.

`BootProofs` proves, for any limits, environments and numbers of requests, under
`BootAssumption` (the shutdown's limit is below the grace period, as in the
code and the deployment):

* `BootInvariant`, `WaitAlwaysFits`, `StopsAreClean`: from `StopInv` and
  `WaitInv`. `StopInv` says where main can be when so much of the grace period
  is gone, so that SIGKILL finds main in the close of the pool and nowhere else;
  `WaitInv` bounds what the wait has taken by its deadline and one pause.

`ContentSyncProofs` proves, for any number of runs over any sources, with kills
anywhere, under the named assumptions of `ContentSync` (lists are lists, a
repository has finitely many files, of different names, what is torn or missing is told
from what is whole):

* `SyncCorrect`, `TreesMatchManifests`, `FilesAreCounted`, `NavsAreDirectories`,
  `RefusalsHarmless`: from `SyncInvariant`. `Collected` says that the maps hold
  what the sources before the loop's position do, and that those have no clash,
  so that every topic and page has a path of its own; `Phases` what each phase of writeOutput
  leaves to the next one: the two clears leave nothing of an earlier run, killed
  or not, and the writes nothing but files of this one, so the manifest is
  written over a tree that is exactly `files`.
  For the navigation, `SortedProperties` shows of any finite set and any order on
  it that the sort puts each element at the place of its rank; `NavProperties`
  applies it twice, to the pages and to a project's places among them: the loop
  keeps all pages of the project, and no others, in the order of their files.

`SnippetsProofs` proves, for files of any length, under `SnippetsAssumption` (a
missing or malformed argument is no topic; indentation is spaces and tabs):

* `SnippetsExact`, `MarkersAccounted`, `BareEndsInnermost`: from `Regions`. An
  open region holds every content line since its start (`Pending`); regions are
  ordered by their starts, under distinct topics (`Stacked`); what was captured
  is what lies between its markers, and a region it encloses is not open if its
  end was bare (`Captured`); every marker is in an open region or a snippet
  (`Accounted`).
* `DedentsFaithful`: from `AllDedented`. It rests on what commonPrefix and the
  loop over the lines compute: a prefix of every indentation, of which every
  other such prefix is a prefix.

Loops are written as recursive functions (`f[n \in Nat]`), not as RECURSIVE
operators. What one computes is proved by induction on its invariant, in the
form that a set of numbers with a counterexample has a least one (`LeastNat`,
`InductionTo`), since the induction theorems of the library take an operator as
a parameter, which the provers cannot instantiate. The lemma is repeated in
each module that needs it.

Only model-checked: liveness (`EveryRequestAnswered` of `Articles` and
`AuthFlow`, `RolloutCompletes`, `BootSettles`), which rests on fairness and
ENABLED, beyond the prover; `WaitsEnd` is as far as the proofs go.

## What is not modelled, and the plan

* scroll-box of `site.js`: it measures layout.
* The list of articles and the sign-in page of the admin, which only show rows
  and an error; where a sign-in returns to (`sanitizeReturn`).
* Layout, wording, markup, logging, CSS, and the code generated from templates.
* Inline Markdown, highlighting, and what the sanitizer does to attributes of
  anything but headings.
* The Mermaid cache's size; the provider's and the database's own protocols.
* Liveness and readiness probes of a pod that serves.

Time appears as order, in `AuthFlow` as a clock of a few ticks, in `Boot` as
the real limits.

Planned theorems: the safety halves of the other liveness properties (in
`DocsSync` a pod that is not blocked by its migrations can always take its next
step; in `AuthFlow` the mutex is held only by a request that will leave it; in
`Boot` something is always due), and an abstract specification of the sync, one
step from table to manifest, that an uncrossed run of `DocsSync` implements.
