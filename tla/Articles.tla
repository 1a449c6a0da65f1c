------------------------------ MODULE Articles ------------------------------
(***************************************************************************)
(* The admin side of the site: the handlers adminCreate and adminSave of   *)
(* internal/web/admin.go, run by one goroutine per request, over the       *)
(* statements of internal/store/admin.go.  One action is one statement of  *)
(* the database (or the handler code between two of them), so requests     *)
(* interleave as the goroutines of a pod, or of two pods, do.              *)
(*                                                                         *)
(* PostgreSQL is modelled from how the store uses it, at its default       *)
(* READ COMMITTED level: an UPDATE holds its row until the transaction     *)
(* ends, an INSERT that meets the uncommitted key of another transaction   *)
(* waits for it, ON CONFLICT or not, every statement sees what was         *)
(* committed before it and its own transaction's writes, and a cycle of    *)
(* waiting transactions is broken by aborting a member.                    *)
(*                                                                         *)
(* A slug is the sequence of the words between its hyphens, so that        *)
(* appending -2 is appending a word; NoSlug is what Slugify leaves of a    *)
(* text without letters or digits.  A title is named by its slug, and a    *)
(* rendered body by the markdown it is the render of.                      *)
(***************************************************************************)
EXTENDS Integers, Sequences, FiniteSets

CONSTANTS
    Requests,   \* the HTTP requests the authors send
    NoRequest,  \* "no request": published_at of a draft, the save of a new row
    Ids,        \* values of documents.id
    Slugs,      \* the slugs in play, NoSlug among them
    Bodies,     \* markdown bodies
    EmptyBody,  \* the body of a new draft
    Forms,      \* the form contents an author may submit
    Workloads,  \* which request submits which form
    Seed        \* the slugs of the drafts that exist at the start, by id

NoSlug == <<>>

\* documents.id and the buttons of the editor form; "other" is any other value
Buttons == {"preview", "save", "publish", "unpublish", "other"}

FormType == [action : Buttons \cup {"create"}, id : Ids, title : Slugs,
             body : Bodies, tags : Seq(Slugs)]

\* The suffix loop of adminCreate tries this many slugs.
Attempts == 5

\* Line 83: the bare slug first, then slug-2 .. slug-5.
Candidate(title, attempt) ==
    IF attempt = 1 THEN title ELSE Append(title, attempt)

ASSUME ConstantsAssumption ==
    /\ NoRequest \notin Requests
    /\ Ids \subseteq Int
    /\ NoSlug \in Slugs
    /\ EmptyBody \in Bodies
    /\ Forms \subseteq FormType
    /\ Workloads \subseteq [Requests -> Forms]

\* Every suffixed candidate is a slug too, and is not empty.
ASSUME CandidateAssumption ==
    \A f \in Forms, n \in 1..Attempts :
        f.title # NoSlug => Candidate(f.title, n) \in Slugs \ {NoSlug}

\* A table is finite, and the unique index holds at the start.
ASSUME SeedAssumption ==
    /\ Seed \in [Ids -> Slugs]
    /\ IsFiniteSet({id \in Ids : Seed[id] # NoSlug})
    /\ \A i, j \in Ids : Seed[i] = Seed[j] /\ Seed[i] # NoSlug => i = j

-----------------------------------------------------------------------------
VARIABLES
    docs,        \* documents of kind 'article': the committed row of each id
    taggings,    \* document_categories: the committed tags of each id
    categories,  \* categories: the committed slugs
    pc,          \* where each request's goroutine is
    form,        \* what each request submitted
    attempt,     \* adminCreate's loop counter
    todo,        \* positions of the tags UpdateArticle has still to attach
    attached,    \* its uncommitted document_categories rows
    newcats,     \* its uncommitted categories rows
    lastSave,    \* history: the request whose save of the id committed last
    effects      \* history: which statements of which request committed

tables == <<docs, taggings, categories>>
handler == <<pc, form, attempt, todo, attached, newcats>>
history == <<lastSave, effects>>
vars == <<tables, handler, history>>

\* A row as CreateArticle inserts it; with NoSlug it stands for no row at all.
Draft(slug) == [slug |-> slug, title |-> slug, body |-> EmptyBody,
                html |-> EmptyBody, published |-> NoRequest]

Exists(id) == docs[id].slug # NoSlug

Init ==
    /\ docs = [i \in Ids |-> Draft(Seed[i])]
    /\ taggings = [i \in Ids |-> {}]
    /\ categories = {}
    /\ pc = [r \in Requests |-> "idle"]
    /\ form \in Workloads
    /\ attempt = [r \in Requests |-> 1]
    /\ todo = [r \in Requests |-> {}]
    /\ attached = [r \in Requests |-> {}]
    /\ newcats = [r \in Requests |-> {}]
    /\ lastSave = [i \in Ids |-> NoRequest]
    /\ effects = {}

Answered == {"redirect", "preview", "notfound", "badrequest", "taken", "failed"}
InFlight == {"insert", "load", "render", "update", "category", "attach",
             "commit", "publish", "reply"}

Goto(r, label) == pc' = [pc EXCEPT ![r] = label]

-----------------------------------------------------------------------------
(* The handlers *)

\* A request arrives: a blank title goes back to the list, a title starts the
\* insert loop, the editor's form loads its article first.
Receive(r) ==
    /\ pc[r] = "idle"
    /\ Goto(r, IF form[r].action # "create" THEN "load"
               ELSE IF form[r].title = NoSlug THEN "redirect" ELSE "insert")
    /\ UNCHANGED <<tables, form, attempt, todo, attached, newcats, history>>

\* documents.id is a serial: the next id no article has.
NextId(id) == ~Exists(id) /\ \A j \in Ids : j < id => Exists(j)

\* Mutant: the unique index covers published articles only.
TakenIfPublished(slug) ==
    \E i \in Ids : docs[i].slug = slug /\ docs[i].published # NoRequest

Taken(slug) == \E i \in Ids : docs[i].slug = slug

\* The row of a draft: the candidate for its slug, the form's title.
NewRow(r) ==
    [Draft(Candidate(form[r].title, attempt[r])) EXCEPT !.title = form[r].title]

\* Mutant: the loop goes on after a successful insert.
AfterInsertLoops(r) == "insert"
AfterInsert(r) == "reply"

\* CreateArticle commits a draft under a free slug.
Insert(r) ==
    /\ pc[r] = "insert"
    /\ ~Taken(Candidate(form[r].title, attempt[r]))
    /\ \E id \in Ids : NextId(id) /\ docs' = [docs EXCEPT ![id] = NewRow(r)]
    /\ effects' = effects \cup {<<r, "insert">>}
    /\ Goto(r, AfterInsert(r))
    /\ UNCHANGED <<taggings, categories, form, attempt, todo, attached,
                   newcats, lastSave>>

\* Mutant: one attempt too many.
AttemptsLeftOffByOne(r) == attempt[r] <= Attempts
AttemptsLeft(r) == attempt[r] < Attempts

\* Error 23505: the next suffix, and after the last one the error page.
SlugTaken(r) ==
    /\ pc[r] = "insert"
    /\ Taken(Candidate(form[r].title, attempt[r]))
    /\ IF AttemptsLeft(r)
       THEN attempt' = [attempt EXCEPT ![r] = @ + 1] /\ pc' = pc
       ELSE Goto(r, "taken") /\ attempt' = attempt
    /\ UNCHANGED <<tables, form, todo, attached, newcats, history>>

\* Mutant: publish does not save the form first.
BranchUnsaved(action) ==
    CASE action \in {"publish", "unpublish"} -> "publish"
      [] action = "other" -> "badrequest"
      [] OTHER -> "render"

\* The switch on the pressed button.
Branch(action) ==
    CASE action = "unpublish" -> "publish"
      [] action = "other" -> "badrequest"
      [] OTHER -> "render"

\* adminSave reads the article before anything else.
Load(r) ==
    /\ pc[r] = "load"
    /\ Goto(r, IF Exists(form[r].id) THEN Branch(form[r].action) ELSE "notfound")
    /\ UNCHANGED <<tables, form, attempt, todo, attached, newcats, history>>

\* Render succeeds: a preview is answered with it, a save goes on.
Render(r) ==
    /\ pc[r] = "render"
    /\ Goto(r, IF form[r].action = "preview" THEN "preview" ELSE "update")
    /\ UNCHANGED <<tables, form, attempt, todo, attached, newcats, history>>

-----------------------------------------------------------------------------
(* UpdateArticle, one transaction *)

\* Mutant: repeats are kept.
ParseTagsWithRepeats(field) == {i \in DOMAIN field : field[i] # NoSlug}

\* The positions of the tags field that parseTags keeps, in the author's
\* order: not blank, and not a repeat of an earlier one.
ParseTags(field) ==
    {i \in DOMAIN field :
        field[i] # NoSlug /\ \A j \in DOMAIN field : j < i => field[j] # field[i]}

\* r's open transaction has updated its article's row, and holds it.
InTx(r) == pc[r] \in {"category", "attach", "commit"}

Locked(id) == \E r \in Requests : InTx(r) /\ form[r].id = id

\* The end of a transaction, committed or not: it holds nothing any more.
EndTx(r) ==
    /\ todo' = [todo EXCEPT ![r] = {}]
    /\ attached' = [attached EXCEPT ![r] = {}]
    /\ newcats' = [newcats EXCEPT ![r] = {}]

\* Mutant: the article's old tags are not deleted.
TagsLeftAll(r) == taggings[form[r].id]

\* The article's rows of document_categories after the DELETE.
TagsLeft(r) == {}

\* UPDATE documents, once no other transaction holds the row, and DELETE FROM
\* document_categories, which nobody sees before the commit.
UpdateRow(r) ==
    /\ pc[r] = "update"
    /\ ~Locked(form[r].id)
    /\ IF Exists(form[r].id)
       THEN /\ todo' = [todo EXCEPT ![r] = ParseTags(form[r].tags)]
            /\ attached' = [attached EXCEPT ![r] = TagsLeft(r)]
            /\ Goto(r, IF ParseTags(form[r].tags) = {} THEN "commit" ELSE "category")
       ELSE Goto(r, "notfound") /\ UNCHANGED <<todo, attached>>
    /\ UNCHANGED <<tables, form, attempt, newcats, history>>

\* The loop's current tag.
Current(r, i) == i \in todo[r] /\ \A j \in todo[r] : i <= j

\* Mutant: the category is inserted outside the transaction.
InsertCategoryOutsideTx(r) ==
    /\ pc[r] = "category"
    /\ \E i \in todo[r] :
        Current(r, i) /\ categories' = categories \cup {form[r].tags[i]}
    /\ Goto(r, "attach")
    /\ UNCHANGED <<docs, taggings, form, attempt, todo, attached, newcats, history>>

\* INSERT INTO categories ON CONFLICT DO NOTHING: inserts the slug unless it is
\* committed or its own, and waits while another transaction's row is open.
InsertCategory(r) ==
    /\ pc[r] = "category"
    /\ \E i \in todo[r] :
        LET tag == form[r].tags[i] IN
        /\ Current(r, i)
        /\ \A s \in Requests \ {r} : tag \notin newcats[s]
        /\ newcats' = [newcats EXCEPT ![r] =
                         IF tag \in categories THEN @ ELSE @ \cup {tag}]
    /\ Goto(r, "attach")
    /\ UNCHANGED <<tables, form, attempt, todo, attached, history>>

\* Mutant: the id comes from the INSERT's RETURNING, empty on a conflict.
VisibleIfInserted(r) == newcats[r]

\* What a SELECT FROM categories inside r's transaction sees.
Visible(r) == categories \cup newcats[r]

\* INSERT INTO document_categories SELECT: a category it does not see gives no
\* row and no error; a pair that is there breaks the primary key.
AttachTag(r) ==
    /\ pc[r] = "attach"
    /\ \E i \in todo[r] :
        LET tag == form[r].tags[i] IN
        /\ Current(r, i)
        /\ IF tag \in attached[r]
           THEN /\ Goto(r, "failed")
                /\ EndTx(r)
           ELSE /\ attached' = [attached EXCEPT ![r] = @ \cup ({tag} \cap Visible(r))]
                /\ todo' = [todo EXCEPT ![r] = @ \ {i}]
                /\ Goto(r, IF todo[r] = {i} THEN "commit" ELSE "category")
                /\ UNCHANGED newcats
    /\ UNCHANGED <<tables, form, attempt, history>>

\* Mutant: a save derives the slug from the title again.
SavedRowMovesSlug(row, f) ==
    [row EXCEPT !.slug = f.title, !.title = f.title, !.body = f.body, !.html = f.body]

\* The row UPDATE leaves: everything but the slug and published_at.
SavedRow(row, f) ==
    [row EXCEPT !.title = f.title, !.body = f.body, !.html = f.body]

\* Mutant: publish saves, and forgets SetPublished.
AfterCommitReplies(r) == "reply"
AfterCommit(r) == IF form[r].action = "publish" THEN "publish" ELSE "reply"

\* COMMIT: the row, its tags and the new categories appear together, then publish
\* goes on to SetPublished.
Commit(r) ==
    /\ pc[r] = "commit"
    /\ docs' = [docs EXCEPT ![form[r].id] = SavedRow(@, form[r])]
    /\ taggings' = [taggings EXCEPT ![form[r].id] = attached[r]]
    /\ categories' = categories \cup newcats[r]
    /\ EndTx(r)
    /\ lastSave' = [lastSave EXCEPT ![form[r].id] = r]
    /\ effects' = effects \cup {<<r, "save">>}
    /\ Goto(r, AfterCommit(r))
    /\ UNCHANGED <<form, attempt>>

-----------------------------------------------------------------------------
(* SetPublished, a statement of its own, after the save of a publish *)

\* published_at is named by the request that set it.
PublishedAt(r) == IF form[r].action = "publish" THEN r ELSE NoRequest

SetPublished(r) ==
    /\ pc[r] = "publish"
    /\ ~Locked(form[r].id)
    /\ docs' = [docs EXCEPT ![form[r].id].published = PublishedAt(r)]
    /\ effects' = effects \cup {<<r, "publish">>}
    /\ Goto(r, "reply")
    /\ UNCHANGED <<taggings, categories, form, attempt, todo, attached,
                   newcats, lastSave>>

\* The redirect of a handler that got to its end.
Reply(r) ==
    /\ pc[r] = "reply"
    /\ Goto(r, "redirect")
    /\ UNCHANGED <<tables, form, attempt, todo, attached, newcats, history>>

-----------------------------------------------------------------------------
(* Failures *)

\* Mutant: no deferred rollback, the transaction stays open.
RollbackForgotten(r) == UNCHANGED <<todo, attached, newcats>>
Rollback(r) == EndTx(r)

\* The client goes away and cancels the request's context, the connection to
\* the database breaks, the renderer or a statement fails, or the pod dies: the
\* open transaction is rolled back, what was committed stays, and no redirect
\* reaches the client.
Fail(r) ==
    /\ pc[r] \in InFlight
    /\ Rollback(r)
    /\ Goto(r, "failed")
    /\ UNCHANGED <<tables, form, attempt, history>>

\* The transactions r's next statement waits for.
WaitsFor(r) ==
    {s \in Requests \ {r} :
        \/ /\ pc[r] \in {"update", "publish"}
           /\ InTx(s) /\ form[s].id = form[r].id
        \/ /\ pc[r] = "category"
           /\ \E i \in todo[r] : Current(r, i) /\ form[r].tags[i] \in newcats[s]}

\* r is on a cycle of waiting transactions.
Deadlocked(r) ==
    \E ring \in SUBSET Requests :
        /\ r \in ring
        /\ \A s \in ring : /\ WaitsFor(s) \cap ring # {}
                           /\ \E t \in ring : s \in WaitsFor(t)

\* PostgreSQL aborts a member of the cycle (40P01) and the handler fails.
DeadlockAbort(r) == Deadlocked(r) /\ Fail(r)

\* Every request has been answered: the bounded instance is at its end.
AllAnswered == (\A r \in Requests : pc[r] \in Answered) /\ UNCHANGED vars

Step(r) ==
    \/ Receive(r) \/ Insert(r) \/ SlugTaken(r) \/ Load(r) \/ Render(r)
    \/ UpdateRow(r) \/ InsertCategory(r) \/ AttachTag(r) \/ Commit(r)
    \/ SetPublished(r) \/ Reply(r)

Next == (\E r \in Requests : Step(r) \/ Fail(r) \/ DeadlockAbort(r)) \/ AllAnswered

\* A goroutine whose statement can run does run, and the database's deadlock
\* detector finds every cycle; nothing forces a failure.
Fairness == \A r \in Requests : WF_vars(Step(r)) /\ WF_vars(DeadlockAbort(r))

Spec == Init /\ [][Next]_vars
FairSpec == Spec /\ Fairness

-----------------------------------------------------------------------------
(* What must hold *)

Rows == [slug : Slugs, title : Slugs, body : Bodies, html : Bodies,
         published : Requests \cup {NoRequest}]

\* Every variable has its type.
TypeOK ==
    /\ docs \in [Ids -> Rows]
    /\ taggings \in [Ids -> SUBSET Slugs]
    /\ categories \subseteq Slugs
    /\ pc \in [Requests -> {"idle"} \cup InFlight \cup Answered]
    /\ form \in [Requests -> Forms]
    /\ attempt \in [Requests -> 1..Attempts]
    /\ todo \in [Requests -> SUBSET Int]
    /\ attached \in [Requests -> SUBSET Slugs]
    /\ newcats \in [Requests -> SUBSET Slugs]
    /\ lastSave \in [Ids -> Requests \cup {NoRequest}]
    /\ effects \subseteq (Requests \X {"insert", "save", "publish"})

TagsOf(f) == {f.tags[i] : i \in ParseTags(f.tags)}

\* UpdateArticle is all or nothing: an article's row and its tags are, together,
\* exactly what the last save that committed submitted, every tag of it
\* attached, whatever other saves, rollbacks and deadlocks ran beside it.
NoTornSave ==
    \A id \in Ids :
        LET f == form[lastSave[id]] IN
        IF lastSave[id] = NoRequest
        THEN taggings[id] = {} /\ docs[id].body = EmptyBody
        ELSE /\ docs[id].title = f.title
             /\ docs[id].body = f.body /\ docs[id].html = f.body
             /\ taggings[id] = TagsOf(f)

\* The category rows are those of committed saves and no others: an aborted save
\* leaves none behind, and a save that met its row attaches it all the same.
CategoriesOfSaves ==
    categories = UNION {TagsOf(form[r]) : r \in {s \in Requests : <<s, "save">> \in effects}}

\* Two transactions never hold the same article row, nor the same new category.
LocksExclusive ==
    \A r, s \in Requests :
        r # s => /\ ~(InTx(r) /\ InTx(s) /\ form[r].id = form[s].id)
                 /\ newcats[r] \cap newcats[s] = {}

\* A public article was published by a request that had committed its own save
\* of that article before: no draft goes public empty or by another's publish.
PublicWasSaved ==
    \A id \in Ids :
        docs[id].published # NoRequest =>
            LET r == docs[id].published IN
            /\ form[r].action = "publish" /\ form[r].id = id
            /\ <<r, "save">> \in effects
            /\ lastSave[id] # NoRequest

\* parseTags drops repeats, so the primary key of document_categories never
\* refuses a save, however the author typed the tags.
TagsNeverRefused ==
    \A r \in Requests : pc[r] = "attach" =>
        \A i \in todo[r] : Current(r, i) => form[r].tags[i] \notin attached[r]

\* What the handler must have committed before it redirects.
Promised(f) ==
    CASE f.action = "create" -> IF f.title = NoSlug THEN {} ELSE {"insert"}
      [] f.action = "save" -> {"save"}
      [] f.action = "publish" -> {"save", "publish"}
      [] f.action = "unpublish" -> {"publish"}
      [] OTHER -> {}

\* What it has committed.
Did(r) == {s \in {"insert", "save", "publish"} : <<r, s>> \in effects}

\* A redirect tells the truth, and nothing more is done than was asked: a request
\* that was redirected committed all its statements, one that was not (an error,
\* a lost connection) at most a prefix of them.
RedirectMeansCommitted ==
    \A r \in Requests :
        /\ Did(r) \subseteq Promised(form[r])
        /\ pc[r] = "redirect" => Did(r) = Promised(form[r])
        /\ form[r].action = "publish" /\ "publish" \in Did(r) => "save" \in Did(r)

\* "The slug is fixed at creation so published links never move under edits":
\* a slug that names an article names that article ever after.
LinksNeverMove ==
    [][\A id \in Ids : Exists(id) => docs'[id].slug = docs[id].slug]_vars

\* Each slug names one article, also when creates race for it.
SlugsUnique ==
    \A i, j \in Ids : docs[i].slug = docs[j].slug /\ Exists(i) => i = j

\* A create that is answered with an error page added nothing, unless its own
\* reply was lost: the articles are the seeds and one for each "insert".
OneArticlePerCreate ==
    Cardinality({id \in Ids : Exists(id)}) =
        Cardinality({id \in Ids : Seed[id] # NoSlug})
          + Cardinality({e \in effects : e[2] = "insert"})

\* "A taken slug gets a numbered suffix rather than an error" (admin.go:71-72):
\* no create is answered with the slug-taken error page.
TakenSlugNeverErrors == \A r \in Requests : pc[r] # "taken"

\* Nobody waits in vain: a statement waits for open transactions only, never for
\* what an ended one left behind, and when requests wait, one of those in flight
\* can go on or the database finds a cycle to abort.
NobodyWaitsInVain ==
    LET waiting == {r \in Requests : WaitsFor(r) # {}} IN
    /\ \A r \in waiting : \A s \in WaitsFor(r) : InTx(s)
    /\ waiting # {} => \E r \in Requests :
          Deadlocked(r) \/ (pc[r] \in InFlight /\ WaitsFor(r) = {})

\* Every request is answered: no save waits for ever on a row or on a category,
\* crossed tag lists included.
EveryRequestAnswered ==
    \A r \in Requests : pc[r] \in InFlight ~> pc[r] \in Answered

\* The articles as ArticleBook sees them: each row with its tags.
Articles ==
    [id \in Ids |->
        [slug |-> docs[id].slug, title |-> docs[id].title, body |-> docs[id].body,
         html |-> docs[id].html, tags |-> taggings[id],
         published |-> docs[id].published]]

Contents == {[title |-> f.title, body |-> f.body, tags |-> TagsOf(f)] :
                 f \in {g \in Forms : g.action \in {"save", "publish"}}}

Book == INSTANCE ArticleBook WITH
            articles <- Articles, Stamps <- Requests, Unpublished <- NoRequest

\* The statements of the handlers, interleaved and failing anywhere, implement
\* the atomic operations of ArticleBook.
BookSpec == Book!Spec
=============================================================================
