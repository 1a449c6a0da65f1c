-------------------------------- MODULE Site --------------------------------
(***************************************************************************)
(* The public site: the handlers of internal/web/handlers.go and rss.go    *)
(* and the pages of ui they answer with, read in browser windows and feed  *)
(* readers that hold a page for as long as they like and follow its links. *)
(* Meanwhile the authors work: what they do to the articles is atomic, as  *)
(* ArticleBook says and Articles implements.  A page with code examples    *)
(* runs CodeTabs.                                                          *)
(*                                                                         *)
(* A stamp is the day of a publish time, as year * 1000 + day; the pod's   *)
(* time zone is UTC.  The docs pages and the projects are those of one     *)
(* release, which DocsSync shows in the table before it serves.  A title   *)
(* and an author are left out of the pages.                                *)
(***************************************************************************)
EXTENDS CodeTabs, Integers, FiniteSets

CONSTANTS
    Ids, Slugs, NoSlug, Contents, Stamps, Unpublished, EmptyBody, Seed,
    Manifest,     \* the release's projects with their docs, in order: [slug, docs]
    Families,     \* the families by name: each its projects by name, [slug, repo]
    NoRepo,       \* a project without a repository
    Alphabet,     \* the project slugs in alphabetical order
    ArticleTabs,  \* the code-tabs of each body
    DocTabs       \* the code-tabs of each docs page, by <<project, slug>>

VARIABLES
    articles,    \* the articles, as ArticleBook has them
    categories,  \* the categories rows
    pages,       \* the page each window holds
    listing      \* the tag whose list the window's request is about to read

Book == INSTANCE ArticleBook

dbVars == <<articles, categories>>
vars == <<dbVars, pages, listing, tabVars>>

\* The tables are finite, times are numbers, tags have slugs, the slugs of the
\* seeds are distinct, and the manifest is a list.
ASSUME SiteAssumption ==
    /\ IsFiniteSet(Ids)
    /\ Stamps \subseteq Int /\ Unpublished \notin Stamps
    /\ NoSlug \in Slugs
    /\ \A c \in Contents : c.tags \subseteq Slugs \ {NoSlug}
    /\ Seed \in [Ids -> Slugs]
    /\ \A i, j \in Ids : Seed[i] = Seed[j] /\ Seed[i] # NoSlug => i = j
    /\ Manifest \in Seq([slug : STRING, docs : Seq(STRING)])

\* cmd/sync refuses a project that two sources bring.
ASSUME ProjectsOnceAssumption ==
    \A m, n \in DOMAIN Manifest : Manifest[m].slug = Manifest[n].slug => m = n

\* Each page that is stored was made by one render.
ASSUME TabsAssumption ==
    /\ \A body \in {EmptyBody} \cup {c.body : c \in Contents} : OneRender(ArticleTabs[body])
    /\ \A n \in DOMAIN Manifest : \A k \in DOMAIN Manifest[n].docs :
           OneRender(DocTabs[<<Manifest[n].slug, Manifest[n].docs[k]>>])

\* A link of a page; id names, of an article's link, the article that was meant.
Link(to, slug) == [to |-> to, slug |-> slug]
ArticleLink(id, slug) == [to |-> "article", slug |-> slug, id |-> id]
DocLink(project, slug) == [to |-> "doc", project |-> project, slug |-> slug]

-----------------------------------------------------------------------------
(* The statements *)

\* Mutant: the condition on published_at is lost.
AnyArticle(id) == articles[id].slug # NoSlug
Public(id) == articles[id].slug # NoSlug /\ articles[id].published # Unpublished

\* An ArticleSummary: the slug, the tags and the time, of one snapshot.
Summary(id) == [id |-> id, slug |-> articles[id].slug, tags |-> articles[id].tags,
                at |-> articles[id].published]

\* Mutant: no order by.
AnyOrder(ids) == [1..Cardinality(ids) -> ids]

\* order by published_at desc: which of two articles of one day comes first is
\* not determined.
NewestFirst(ids) ==
    {order \in [1..Cardinality(ids) -> ids] :
        /\ \A id \in ids : \E n \in DOMAIN order : order[n] = id
        /\ \A m, n \in DOMAIN order :
               m < n => articles[order[m]].published >= articles[order[n]].published}

Listed(ids) == {[n \in DOMAIN order |-> Summary(order[n])] : order \in NewestFirst(ids)}

\* ListPublishedArticles and ListArticlesByTag.
PublishedArticles == Listed({id \in Ids : Public(id)})
ArticlesByTag(tag) == Listed({id \in Ids : Public(id) /\ tag \in articles[id].tags})

\* Mutant: a category without public articles is not found.
CategoryInUse(tag) == \E id \in Ids : Public(id) /\ tag \in articles[id].tags
GetCategory(tag) == tag \in categories

-----------------------------------------------------------------------------
(* The docs pages and the project chrome *)

\* h.docs: the projects of the manifest that have docs, by slug.
Documented == {Manifest[n].slug : n \in {k \in DOMAIN Manifest : Manifest[k].docs # <<>>}}
DocsOf(project) ==
    Manifest[CHOOSE n \in DOMAIN Manifest :
                Manifest[n].slug = project /\ Manifest[n].docs # <<>>].docs

\* GetDoc: the documents of kind 'doc', and docPage's map of the manifest.
HasDoc(project, slug) ==
    \E n \in DOMAIN Manifest : Manifest[n].slug = project
        /\ \E k \in DOMAIN Manifest[n].docs : Manifest[n].docs[k] = slug

FirstDoc(project) == DocLink(project, DocsOf(project)[1])

\* A card's open link: the docs, the repository, or the projects page itself.
OpenLink(project) ==
    IF project.slug \in Documented THEN FirstDoc(project.slug)
    ELSE IF project.repo # NoRepo THEN Link("repository", project.repo)
    ELSE Link("projects", NoSlug)

FamilyLinks ==
    UNION {{OpenLink(Families[f][n]) : n \in DOMAIN Families[f]} : f \in DOMAIN Families}

-----------------------------------------------------------------------------
(* The pages *)

Rows(kind, rows) == [kind |-> kind, rows |-> rows]
HomePage(rows) == Rows("home", rows)
TagPage(rows) == Rows("tag", rows)
Feed(rows) == Rows("feed", rows)
ArticlePage(id) == [kind |-> "article", rows |-> <<Summary(id)>>, body |-> articles[id].html]
ProjectsPage == Rows("projects", <<>>)
DocPage(project, slug) == [kind |-> "doc", rows |-> <<>>, doc |-> <<project, slug>>]
NotFoundPage == Rows("notfound", <<>>)
ErrorPage == Rows("error", <<>>)

Year(at) == at \div 1000

NewYear(years, year) == years = <<>> \/ years[Len(years)].year # year

\* archive's loop over the articles, newest first.
ArchiveYears(rows) ==
    LET Group[n \in 0..Len(rows)] ==
            IF n = 0 THEN <<>>
            ELSE LET years == Group[n - 1]
                     year == Year(rows[n].at)
                 IN  IF NewYear(years, year)
                     THEN Append(years, [year |-> year, rows |-> <<rows[n]>>])
                     ELSE [years EXCEPT ![Len(years)].rows = Append(@, rows[n])]
    IN  Group[Len(rows)]

ArchivePage(rows) == [kind |-> "archive", rows |-> rows, years |-> ArchiveYears(rows)]

\* Layout: the header of every page but the feed and the error text.
LayoutLinks == {Link(to, NoSlug) : to \in {"home", "archive", "projects", "feed"}}

TagChips(row) == {Link("tag", tag) : tag \in row.tags}

RowLinks(row) == {ArticleLink(row.id, row.slug)}

\* DocsNav: the pages of the project, in the manifest's order.
DocsNav(project) == {DocLink(project, DocsOf(project)[n]) : n \in DOMAIN DocsOf(project)}

RowsOf(page) == {page.rows[n] : n \in DOMAIN page.rows}

\* The links of the rows, and of what is around them.
ArticleLinks(page) ==
    IF page.kind \in {"home", "tag", "archive", "feed"}
    THEN UNION {RowLinks(row) : row \in RowsOf(page)} ELSE {}

TagLinks(page) ==
    IF page.kind \in {"home", "tag", "article"}
    THEN UNION {TagChips(row) : row \in RowsOf(page)} ELSE {}

OtherLinks(page) ==
    (IF page.kind \in {"home", "projects"} THEN FamilyLinks ELSE {})
      \cup (IF page.kind = "doc" THEN DocsNav(page.doc[1]) ELSE {})
      \cup (IF page.kind \in {"feed", "error"} THEN {} ELSE LayoutLinks)

Links(page) == ArticleLinks(page) \cup TagLinks(page) \cup OtherLinks(page)

\* The examples of a page: an article's body, a docs page's.
TabsIn(page) ==
    CASE page.kind = "article" -> ArticleTabs[page.body]
      [] page.kind = "doc" -> DocTabs[page.doc]
      [] OTHER -> <<>>

-----------------------------------------------------------------------------
(* The requests *)

\* What a window can ask for: the path of a link, typed or followed.
Paths ==
    {Link(to, NoSlug) : to \in {"home", "archive", "projects", "feed", "docs", "other"}}
      \cup {Link(to, slug) : to \in {"article", "tag"}, slug \in Slugs \ {NoSlug}}
      \cup {Link("project", Alphabet[n]) : n \in DOMAIN Alphabet}
      \cup {DocLink(Alphabet[n], slug) : n \in DOMAIN Alphabet,
                slug \in UNION {{d.docs[k] : k \in DOMAIN d.docs} : d \in
                            {Manifest[m] : m \in DOMAIN Manifest}}}

\* docPage: the project must be documented, and the page be there.
DocAnswer(project, slug) ==
    IF project \in Documented /\ HasDoc(project, slug)
    THEN DocPage(project, slug) ELSE NotFoundPage

\* docsProjectRedirect, and the redirect followed.
ProjectAnswer(project) ==
    IF project \in Documented THEN DocAnswer(project, DocsOf(project)[1]) ELSE NotFoundPage

\* docsIndex: the documented project whose slug sorts first.
DocsAnswer ==
    LET documented == {n \in DOMAIN Alphabet : Alphabet[n] \in Documented}
        first == CHOOSE n \in documented : \A k \in documented : n <= k
    IN  IF documented = {} THEN NotFoundPage ELSE ProjectAnswer(Alphabet[first])

\* GetArticle: one row or none.
ArticleAnswers(slug) ==
    LET found == {id \in Ids : Public(id) /\ articles[id].slug = slug}
    IN  IF found = {} THEN {NotFoundPage} ELSE {ArticlePage(id) : id \in found}

\* The answers there may be at this moment; a tag's takes two statements.
Answers(path) ==
    CASE path.to = "home" -> {HomePage(rows) : rows \in PublishedArticles}
      [] path.to = "archive" -> {ArchivePage(rows) : rows \in PublishedArticles}
      [] path.to = "feed" -> {Feed(rows) : rows \in PublishedArticles}
      [] path.to = "article" -> ArticleAnswers(path.slug)
      [] path.to = "projects" -> {ProjectsPage}
      [] path.to = "docs" -> {DocsAnswer}
      [] path.to = "project" -> {ProjectAnswer(path.slug)}
      [] path.to = "doc" -> {DocAnswer(path.project, path.slug)}
      [] path.to = "tag" -> {TagPage(rows) : rows \in ArticlesByTag(path.slug)}
      [] OTHER -> {NotFoundPage}

\* The answer takes the place of the page in the window, and runs its script.
Load(w, page) ==
    /\ pages' = [pages EXCEPT ![w] = page]
    /\ Connect(w, TabsIn(page))
    /\ UNCHANGED stored

\* A handler of one statement.
Get(w, path) ==
    /\ listing[w] = NoSlug /\ path.to # "tag"
    /\ \E page \in Answers(path) : Load(w, page)
    /\ UNCHANGED <<dbVars, listing>>

\* tag reads the category, and goes on to its articles.
GetTag(w, path) ==
    /\ listing[w] = NoSlug /\ path.to = "tag"
    /\ IF GetCategory(path.slug)
       THEN /\ listing' = [listing EXCEPT ![w] = path.slug]
            /\ UNCHANGED <<pages, tabVars>>
       ELSE Load(w, NotFoundPage) /\ UNCHANGED listing
    /\ UNCHANGED dbVars

ListTag(w) ==
    /\ listing[w] # NoSlug
    /\ \E page \in Answers(Link("tag", listing[w])) : Load(w, page)
    /\ listing' = [listing EXCEPT ![w] = NoSlug]
    /\ UNCHANGED dbVars

\* A statement fails: fail's plain text, status 500.
Fails(w) ==
    /\ Load(w, ErrorPage)
    /\ listing' = [listing EXCEPT ![w] = NoSlug]
    /\ UNCHANGED dbVars

\* The reader picks a language.
PickLanguage(w) ==
    /\ \E n \in DOMAIN tabs[w] : \E k \in DOMAIN tabs[w][n].langs :
           Click(w, n, tabs[w][n].langs[k])
    /\ UNCHANGED <<dbVars, pages, listing>>

-----------------------------------------------------------------------------
(* The authors *)

AuthorCreates(id, slug) ==
    Book!Create(id, slug, slug) /\ UNCHANGED <<categories, pages, listing, tabVars>>

\* UpdateArticle inserts the categories that are not there; nothing deletes one.
AuthorSaves(id, content) ==
    /\ Book!Save(id, content)
    /\ categories' = categories \cup content.tags
    /\ UNCHANGED <<pages, listing, tabVars>>

AuthorPublishes(id, at) ==
    Book!SetPublished(id, at) /\ UNCHANGED <<categories, pages, listing, tabVars>>

Init ==
    /\ Book!Init /\ categories = {}
    /\ pages = [w \in Windows |-> NotFoundPage]
    /\ listing = [w \in Windows |-> NoSlug]
    /\ stored = Unset /\ tabs = [w \in Windows |-> <<>>]

Next ==
    \/ \E w \in Windows :
        \/ \E path \in Paths : Get(w, path) \/ GetTag(w, path)
        \/ ListTag(w) \/ Fails(w) \/ PickLanguage(w)
    \/ \E id \in Ids :
        \/ \E slug \in Slugs : AuthorCreates(id, slug)
        \/ \E content \in Contents : AuthorSaves(id, content)
        \/ \E at \in Stamps \cup {Unpublished} : AuthorPublishes(id, at)

Spec == Init /\ [][Next]_vars

-----------------------------------------------------------------------------
(* What must hold *)

\* "Published links never move under edits": whatever the authors do while a page
\* is held or a feed item is remembered, the link of an article leads to that
\* article, and is not found only while the article is unpublished.
ArticleLinksLead ==
    \A w \in Windows : \A link \in ArticleLinks(pages[w]) :
        \A page \in Answers(Link("article", link.slug)) :
            IF Public(link.id)
            THEN page.kind = "article" /\ page.rows[1].id = link.id
            ELSE page = NotFoundPage

\* A tag once shown has its page ever after, also when no article has it now: the
\* chip of a held page is never a dead link.
TagLinksLead ==
    \A w \in Windows : \A link \in TagLinks(pages[w]) : GetCategory(link.slug)

\* No link of the site's own chrome is dead: cards, docs navigation and header.
OtherLinksLead ==
    \A w \in Windows : \A link \in OtherLinks(pages[w]) :
        link.to # "repository" => NotFoundPage \notin Answers(link)

LinksLead == ArticleLinksLead /\ TagLinksLead /\ OtherLinksLead

\* No draft is shown, listed or fed: an article that a page names is published at
\* the moment the page is made, also on the tag page, which takes two statements.
DraftsStayPrivate ==
    [][\A w \in Windows : pages'[w] # pages[w] =>
           \A row \in RowsOf(pages'[w]) : articles[row.id].published # Unpublished]_vars

\* The listings are newest first, back-dated articles included; the archive has
\* each year once, with the articles of that year, so that "#y2024" names one
\* place.
ListingsInOrder ==
    \A w \in Windows :
        LET rows == pages[w].rows IN
        /\ \A m, n \in DOMAIN rows : m < n => rows[m].at >= rows[n].at
        /\ pages[w].kind = "archive" =>
               LET years == pages[w].years IN
               /\ \A m, n \in DOMAIN years : m < n => years[m].year > years[n].year
               /\ \A n \in DOMAIN years : \A k \in DOMAIN years[n].rows :
                      Year(years[n].rows[k].at) = years[n].year
               /\ UNION {RowsOf(years[n]) : n \in DOMAIN years} = RowsOf(pages[w])
=============================================================================
