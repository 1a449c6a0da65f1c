----------------------------- MODULE SiteProofs -----------------------------
(***************************************************************************)
(* However long a reader holds a page, whatever the authors do meanwhile,  *)
(* no link of it is dead but that of an article that is unpublished, and   *)
(* no page shows a draft: LinksLead and DraftsStayPrivate, for any number  *)
(* of windows, articles, tags, projects and docs pages.  The strengthening *)
(* ties each row of a held page to the article it was made of: the slug is *)
(* that article's still and nobody else's, and its tags have their rows.   *)
(***************************************************************************)
EXTENDS Site, FiniteSetTheorems, TLAPS

RowFields == {"slug", "title", "body", "html", "tags", "published"}

\* The table: slugs are the articles' own, and tags have their categories.
TableInv ==
    /\ DOMAIN articles = Ids
    /\ \A id \in Ids : DOMAIN articles[id] = RowFields
    /\ \A i, j \in Ids : articles[i].slug = articles[j].slug /\ articles[i].slug # NoSlug => i = j
    /\ \A id \in Ids : articles[id].tags \subseteq categories

RowInv(row) ==
    /\ row.id \in Ids
    /\ row.slug = articles[row.id].slug /\ row.slug # NoSlug
    /\ row.tags \subseteq categories

PageInv(page) ==
    /\ \A n \in DOMAIN page.rows : RowInv(page.rows[n])
    /\ page.kind = "doc" => page.doc[1] \in Documented

Inv ==
    /\ TableInv
    /\ DOMAIN pages = Windows
    /\ \A w \in Windows : PageInv(pages[w])

-----------------------------------------------------------------------------
(* What the statements return *)

LEMMA ListedRows ==
    ASSUME NEW ids, NEW rows \in Listed(ids), NEW n \in DOMAIN rows
    PROVE  \E id \in ids : rows[n] = Summary(id)
<1>1. PICK order \in NewestFirst(ids) : rows = [k \in DOMAIN order |-> Summary(order[k])]
  BY DEF Listed
<1>2. n \in DOMAIN order /\ order[n] \in ids
  BY <1>1 DEF NewestFirst
<1> QED
  BY <1>1, <1>2

\* Every row of an answer is a public article of this moment.
LEMMA AnswerRows ==
    ASSUME NEW path, NEW page \in Answers(path), NEW n \in DOMAIN page.rows
    PROVE  \E id \in Ids : Public(id) /\ page.rows[n] = Summary(id)
<1>1. CASE path.to \in {"home", "archive", "feed"}
  <2>1. PICK rows \in PublishedArticles : page.rows = rows
    BY <1>1 DEF Answers, HomePage, ArchivePage, Feed, Rows
  <2> QED
    BY <2>1, ListedRows DEF PublishedArticles
<1>2. CASE path.to = "tag"
  <2>1. PICK rows \in ArticlesByTag(path.slug) : page.rows = rows
    BY <1>2 DEF Answers, TagPage, Rows
  <2> QED
    BY <2>1, ListedRows DEF ArticlesByTag
<1>3. CASE path.to = "article"
  <2>1. page \in ArticleAnswers(path.slug)
    BY <1>3 DEF Answers
  <2>2. page # NotFoundPage
    BY DEF NotFoundPage, Rows
  <2>3. PICK id \in Ids : Public(id) /\ page = ArticlePage(id)
    BY <2>1, <2>2 DEF ArticleAnswers
  <2> QED
    BY <2>3 DEF ArticlePage
<1>4. CASE path.to \notin {"home", "archive", "feed", "tag", "article"}
  <2>1. page.rows = <<>>
    BY <1>4 DEF Answers, ProjectsPage, DocsAnswer, ProjectAnswer, DocAnswer, DocPage,
                NotFoundPage, Rows
  <2> QED
    BY <2>1
<1> QED
  BY <1>1, <1>2, <1>3, <1>4

\* A docs page is a page of a documented project.
LEMMA AnswerDocs ==
    ASSUME NEW path, NEW page \in Answers(path), page.kind = "doc"
    PROVE  page.doc[1] \in Documented
<1>1. ASSUME NEW project, NEW slug, page = DocAnswer(project, slug)
      PROVE  page.doc[1] \in Documented
  BY <1>1 DEF DocAnswer, DocPage, NotFoundPage, Rows
<1>2. ASSUME NEW project, page = ProjectAnswer(project)
      PROVE  page.doc[1] \in Documented
  BY <1>1, <1>2 DEF ProjectAnswer, NotFoundPage, Rows
<1>3. page = DocsAnswer => page.doc[1] \in Documented
  <2>1. DocsAnswer = NotFoundPage \/ \E project : DocsAnswer = ProjectAnswer(project)
    BY Zenon DEF DocsAnswer
  <2> QED
    BY <1>2, <2>1 DEF NotFoundPage, Rows
<1>4. page \notin ArticleAnswers(path.slug)
  BY DEF ArticleAnswers, ArticlePage, NotFoundPage, Rows
<1> QED
  BY <1>1, <1>2, <1>3, <1>4
     DEF Answers, HomePage, ArchivePage, Feed, TagPage, ProjectsPage, NotFoundPage, Rows

LEMMA AnswerInv ==
    ASSUME TableInv, NEW path, NEW page \in Answers(path)
    PROVE  PageInv(page)
<1>1. ASSUME NEW n \in DOMAIN page.rows PROVE RowInv(page.rows[n])
  <2>1. PICK id \in Ids : Public(id) /\ page.rows[n] = Summary(id)
    BY AnswerRows
  <2> QED
    BY <2>1 DEF RowInv, Summary, Public, TableInv
<1> QED
  BY <1>1, AnswerDocs DEF PageInv

\* The pages without rows.
LEMMA PlainInv == PageInv(NotFoundPage) /\ PageInv(ErrorPage)
BY DEF PageInv, NotFoundPage, ErrorPage, Rows

-----------------------------------------------------------------------------
(* The chrome of the site *)

\* The entry that DocsOf reads has pages, and each has its answer.
LEMMA DocsThere ==
    ASSUME NEW project \in Documented, NEW n \in DOMAIN DocsOf(project)
    PROVE  DocAnswer(project, DocsOf(project)[n]) # NotFoundPage
<1> DEFINE Entry(k) == Manifest[k].slug = project /\ Manifest[k].docs # <<>>
           chosen == CHOOSE k \in DOMAIN Manifest : Entry(k)
<1>1. \E k \in DOMAIN Manifest : Entry(k)
  BY DEF Documented
<1>2. chosen \in DOMAIN Manifest /\ Entry(chosen)
  BY <1>1
<1>3. DocsOf(project) = Manifest[chosen].docs
  BY DEF DocsOf
<1>4. HasDoc(project, DocsOf(project)[n])
  BY <1>2, <1>3 DEF HasDoc
<1> QED
  BY <1>4 DEF DocAnswer, DocPage, NotFoundPage, Rows

LEMMA ElementOf ==
    ASSUME NEW S, NEW s \in Seq(S), NEW k \in DOMAIN s PROVE s[k] \in S
OBVIOUS

LEMMA DocsTyped ==
    ASSUME NEW k \in DOMAIN Manifest PROVE Manifest[k].docs \in Seq(STRING)
<1>1. Manifest[k] \in [slug : STRING, docs : Seq(STRING)]
  BY SiteAssumption, ElementOf, Zenon
<1> QED
  BY <1>1

LEMMA FirstDocThere ==
    ASSUME NEW project \in Documented
    PROVE  1 \in DOMAIN DocsOf(project)
<1> DEFINE Entry(k) == Manifest[k].slug = project /\ Manifest[k].docs # <<>>
           chosen == CHOOSE k \in DOMAIN Manifest : Entry(k)
<1>1. \E k \in DOMAIN Manifest : Entry(k)
  BY DEF Documented
<1>2. chosen \in DOMAIN Manifest /\ Entry(chosen)
  BY <1>1
<1>3. DocsOf(project) = Manifest[chosen].docs
  BY DEF DocsOf
<1>4. Manifest[chosen].docs \in Seq(STRING)
  BY <1>2, DocsTyped
<1> QED
  BY <1>2, <1>3, <1>4

\* A link of the chrome that has an answer.
Lead(link) == link.to # "repository" => NotFoundPage \notin Answers(link)

LEMMA DocLinksLead ==
    ASSUME NEW project \in Documented, NEW n \in DOMAIN DocsOf(project)
    PROVE  Lead(DocLink(project, DocsOf(project)[n]))
<1> DEFINE link == DocLink(project, DocsOf(project)[n])
<1>1. link.to = "doc" /\ link.project = project /\ link.slug = DocsOf(project)[n]
  BY DEF DocLink
<1>2. Answers(link) = {DocAnswer(project, DocsOf(project)[n])}
  BY <1>1 DEF Answers
<1> QED
  BY <1>2, DocsThere DEF Lead

LEMMA LayoutLeads ==
    ASSUME NEW to \in {"home", "archive", "projects", "feed"}
    PROVE  Lead(Link(to, NoSlug))
<1>1. Link(to, NoSlug).to = to
  BY DEF Link
<1>2. ASSUME NEW page \in Answers(Link(to, NoSlug)) PROVE page.kind # "notfound"
  BY <1>1 DEF Answers, HomePage, ArchivePage, Feed, ProjectsPage, Rows
<1>3. NotFoundPage.kind = "notfound"
  BY DEF NotFoundPage, Rows
<1> QED
  BY <1>2, <1>3 DEF Lead

LEMMA OpenLinkLeads == ASSUME NEW project PROVE Lead(OpenLink(project))
<1>1. CASE project.slug \in Documented
  BY <1>1, FirstDocThere, DocLinksLead DEF OpenLink, FirstDoc
<1>2. CASE project.slug \notin Documented /\ project.repo # NoRepo
  BY <1>2 DEF OpenLink, Link, Lead
<1>3. CASE project.slug \notin Documented /\ project.repo = NoRepo
  BY <1>3, LayoutLeads DEF OpenLink
<1> QED
  BY <1>1, <1>2, <1>3

LEMMA ChromeLeads ==
    ASSUME NEW page, PageInv(page), NEW link \in OtherLinks(page)
    PROVE  Lead(link)
<1>1. CASE link \in FamilyLinks
  BY <1>1, OpenLinkLeads DEF FamilyLinks
<1>2. CASE page.kind = "doc" /\ link \in DocsNav(page.doc[1])
  <2>1. page.doc[1] \in Documented
    BY <1>2 DEF PageInv
  <2>2. PICK n \in DOMAIN DocsOf(page.doc[1]) :
          link = DocLink(page.doc[1], DocsOf(page.doc[1])[n])
    BY <1>2 DEF DocsNav
  <2> QED
    BY <2>1, <2>2, DocLinksLead
<1>3. CASE link \in LayoutLinks
  BY <1>3, LayoutLeads DEF LayoutLinks
<1> QED
  BY <1>1, <1>2, <1>3 DEF OtherLinks

-----------------------------------------------------------------------------
(* The articles *)

\* The address of a row is the address of its article, published or not.
LEMMA RowLeads ==
    ASSUME TableInv, NEW row, RowInv(row), NEW page \in Answers(Link("article", row.slug))
    PROVE  IF Public(row.id) THEN page.kind = "article" /\ page.rows[1].id = row.id
           ELSE page = NotFoundPage
<1> DEFINE found == {id \in Ids : Public(id) /\ articles[id].slug = row.slug}
<1>1. page \in ArticleAnswers(row.slug)
  BY DEF Answers, Link
<1>2. found = IF Public(row.id) THEN {row.id} ELSE {}
  BY DEF RowInv, TableInv
<1>3. CASE Public(row.id)
  <2>1. page = ArticlePage(row.id)
    BY <1>1, <1>2, <1>3 DEF ArticleAnswers
  <2> QED
    BY <1>3, <2>1 DEF ArticlePage, Summary
<1>4. CASE ~Public(row.id)
  BY <1>1, <1>2, <1>4 DEF ArticleAnswers
<1> QED
  BY <1>3, <1>4

LEMMA InvLeads == Inv => LinksLead
<1> SUFFICES ASSUME Inv PROVE LinksLead
  OBVIOUS
<1>1. ArticleLinksLead
  <2> SUFFICES ASSUME NEW w \in Windows, NEW link \in ArticleLinks(pages[w]),
                      NEW page \in Answers(Link("article", link.slug))
               PROVE  IF Public(link.id)
                      THEN page.kind = "article" /\ page.rows[1].id = link.id
                      ELSE page = NotFoundPage
    BY DEF ArticleLinksLead
  <2>1. PICK row \in RowsOf(pages[w]) : link = ArticleLink(row.id, row.slug)
    BY DEF ArticleLinks, RowLinks
  <2>2. RowInv(row) /\ link.id = row.id /\ link.slug = row.slug
    BY <2>1 DEF Inv, PageInv, RowsOf, ArticleLink
  <2> QED
    BY <2>2, RowLeads DEF Inv
<1>2. TagLinksLead
  <2> SUFFICES ASSUME NEW w \in Windows, NEW link \in TagLinks(pages[w])
               PROVE  GetCategory(link.slug)
    BY DEF TagLinksLead
  <2>1. PICK row \in RowsOf(pages[w]) : \E tag \in row.tags : link = Link("tag", tag)
    BY DEF TagLinks, TagChips
  <2>2. row.tags \subseteq categories
    BY DEF Inv, PageInv, RowInv, RowsOf
  <2> QED
    BY <2>1, <2>2 DEF Link, GetCategory
<1>3. OtherLinksLead
  BY ChromeLeads DEF Inv, OtherLinksLead, Lead
<1> QED
  BY <1>1, <1>2, <1>3 DEF LinksLead

-----------------------------------------------------------------------------
(* The steps *)

\* What a held page needs of the table: no article loses its slug, no category goes.
LEMMA PagesStay ==
    ASSUME Inv, pages' = pages, categories \subseteq categories',
           \A id \in Ids : articles[id].slug # NoSlug => articles'[id].slug = articles[id].slug
    PROVE  \A w \in Windows : PageInv(pages[w])'
<1> SUFFICES ASSUME NEW w \in Windows PROVE PageInv(pages[w])'
  OBVIOUS
<1>1. ASSUME NEW n \in DOMAIN pages[w].rows PROVE RowInv(pages[w].rows[n])'
  BY DEF Inv, PageInv, RowInv
<1> QED
  BY <1>1 DEF Inv, PageInv

LEMMA LoadKeeps ==
    ASSUME Inv, NEW w \in Windows, NEW page, PageInv(page), Load(w, page), UNCHANGED dbVars
    PROVE  Inv'
<1>1. TableInv'
  BY DEF Inv, TableInv, dbVars
<1>2. DOMAIN pages' = Windows
  BY DEF Inv, Load
<1>3. ASSUME NEW v \in Windows PROVE PageInv(pages[v])'
  <2>1. pages'[v] = page \/ pages'[v] = pages[v]
    BY DEF Inv, Load
  <2> QED
    BY <2>1 DEF Inv, PageInv, RowInv, dbVars
<1> QED
  BY <1>1, <1>2, <1>3 DEF Inv

LEMMA SameKeeps ==
    ASSUME Inv, UNCHANGED <<dbVars, pages>>
    PROVE  Inv'
BY DEF Inv, TableInv, PageInv, RowInv, dbVars

LEMMA CreatesKeep ==
    ASSUME Inv, NEW id \in Ids, NEW slug \in Slugs, AuthorCreates(id, slug)
    PROVE  Inv'
<1>1. /\ articles[id].slug = NoSlug /\ slug # NoSlug
      /\ \A i \in Ids : articles[i].slug # slug
      /\ articles' = [articles EXCEPT ![id] = Book!Fresh(slug, slug)]
      /\ categories' = categories /\ pages' = pages
  BY DEF AuthorCreates, Book!Create
<1>2. /\ DOMAIN Book!Fresh(slug, slug) = RowFields
      /\ Book!Fresh(slug, slug).slug = slug /\ Book!Fresh(slug, slug).tags = {}
  BY DEF Book!Fresh, RowFields
<1>3. DOMAIN articles' = Ids /\ articles'[id] = Book!Fresh(slug, slug)
      /\ \A i \in Ids \ {id} : articles'[i] = articles[i]
  BY <1>1 DEF Inv, TableInv
<1>4. TableInv'
  BY <1>1, <1>2, <1>3 DEF Inv, TableInv
<1> QED
  BY <1>1, <1>3, <1>4, PagesStay DEF Inv

LEMMA SavesKeep ==
    ASSUME Inv, NEW id \in Ids, NEW content \in Contents, AuthorSaves(id, content)
    PROVE  Inv'
<1>1. /\ articles[id].slug # NoSlug
      /\ articles' = [articles EXCEPT ![id] = Book!Saved(articles[id], content)]
      /\ categories' = categories \cup content.tags /\ pages' = pages
  BY DEF AuthorSaves, Book!Save
<1>2. /\ DOMAIN Book!Saved(articles[id], content) = RowFields
      /\ Book!Saved(articles[id], content).slug = articles[id].slug
      /\ Book!Saved(articles[id], content).tags = content.tags
  BY DEF Book!Saved, RowFields
<1>3. DOMAIN articles' = Ids /\ articles'[id] = Book!Saved(articles[id], content)
      /\ \A i \in Ids \ {id} : articles'[i] = articles[i]
  BY <1>1 DEF Inv, TableInv
<1>4. TableInv'
  BY <1>1, <1>2, <1>3 DEF Inv, TableInv
<1> QED
  BY <1>1, <1>2, <1>3, <1>4, PagesStay DEF Inv

LEMMA PublishesKeep ==
    ASSUME Inv, NEW id \in Ids, NEW at, AuthorPublishes(id, at)
    PROVE  Inv'
<1> DEFINE row == [articles[id] EXCEPT !.published = at]
<1>1. /\ articles[id].slug # NoSlug
      /\ articles' = [articles EXCEPT ![id] = row]
      /\ categories' = categories /\ pages' = pages
  BY DEF AuthorPublishes, Book!SetPublished
<1>2. DOMAIN row = RowFields /\ row.slug = articles[id].slug /\ row.tags = articles[id].tags
  BY DEF Inv, TableInv, RowFields
<1> HIDE DEF row
<1>3. DOMAIN articles' = Ids /\ articles'[id] = row
      /\ \A i \in Ids \ {id} : articles'[i] = articles[i]
  BY <1>1 DEF Inv, TableInv
<1>4. TableInv'
  BY <1>1, <1>2, <1>3 DEF Inv, TableInv
<1> QED
  BY <1>1, <1>2, <1>3, <1>4, PagesStay DEF Inv

LEMMA InitInv == Init => Inv
<1> SUFFICES ASSUME Init PROVE Inv
  OBVIOUS
<1>1. articles = [id \in Ids |-> Book!Fresh(Seed[id], Seed[id])]
  BY DEF Init, Book!Init
<1>2. ASSUME NEW id \in Ids
      PROVE  /\ DOMAIN articles[id] = RowFields
             /\ articles[id].slug = Seed[id] /\ articles[id].tags = {}
  BY <1>1 DEF Book!Fresh, RowFields
<1>3. TableInv
  BY <1>1, <1>2, SiteAssumption DEF TableInv
<1> QED
  BY <1>3, PlainInv DEF Inv, Init

LEMMA NextKeeps == ASSUME Inv, [Next]_vars PROVE Inv'
<1>1. ASSUME NEW w \in Windows, NEW path \in Paths, Get(w, path) PROVE Inv'
  BY <1>1, AnswerInv, LoadKeeps DEF Get, Inv
<1>2. ASSUME NEW w \in Windows, NEW path \in Paths, GetTag(w, path) PROVE Inv'
  BY <1>2, PlainInv, LoadKeeps, SameKeeps DEF GetTag
<1>3. ASSUME NEW w \in Windows, ListTag(w) PROVE Inv'
  BY <1>3, AnswerInv, LoadKeeps DEF ListTag, Inv
<1>4. ASSUME NEW w \in Windows, Fails(w) PROVE Inv'
  BY <1>4, PlainInv, LoadKeeps DEF Fails
<1>5. ASSUME NEW w \in Windows, PickLanguage(w) PROVE Inv'
  BY <1>5, SameKeeps DEF PickLanguage
<1>6. CASE UNCHANGED vars
  BY <1>6, SameKeeps DEF vars
<1> QED
  BY <1>1, <1>2, <1>3, <1>4, <1>5, <1>6, CreatesKeep, SavesKeep, PublishesKeep DEF Next

\* The strengthening is an invariant of every behaviour of the site.
THEOREM SiteInvariant == Spec => []Inv
BY InitInv, NextKeeps, PTL DEF Spec

\* No link of a held page is dead, whatever the authors did since.
THEOREM LinksAlwaysLead == Spec => []LinksLead
BY SiteInvariant, InvLeads, PTL

\* A page, when it is made, shows published articles only.
THEOREM DraftsNeverShown == Spec => DraftsStayPrivate
<1> DEFINE Shown == \A w \in Windows : pages'[w] # pages[w] =>
                \A row \in RowsOf(pages'[w]) : articles[row.id].published # Unpublished
<1>1. ASSUME NEW path, NEW page \in Answers(path), NEW row \in RowsOf(page)
      PROVE  articles[row.id].published # Unpublished
  <2>1. PICK id \in Ids : Public(id) /\ row = Summary(id)
    BY AnswerRows DEF RowsOf
  <2> QED
    BY <2>1 DEF Summary, Public
<1>2. RowsOf(NotFoundPage) = {} /\ RowsOf(ErrorPage) = {}
  BY DEF RowsOf, NotFoundPage, ErrorPage, Rows
<1>3. ASSUME Inv, NEW w \in Windows, NEW page, Load(w, page),
             \A row \in RowsOf(page) : articles[row.id].published # Unpublished
      PROVE  Shown
  BY <1>3 DEF Load, Inv
<1>4. ASSUME Inv, [Next]_vars PROVE Shown
  <2>1. ASSUME NEW w \in Windows, NEW path \in Paths, Get(w, path) PROVE Shown
    BY <1>1, <1>3, <1>4, <2>1 DEF Get
  <2>2. ASSUME NEW w \in Windows, NEW path \in Paths, GetTag(w, path) PROVE Shown
    BY <1>2, <1>3, <1>4, <2>2 DEF GetTag
  <2>3. ASSUME NEW w \in Windows, ListTag(w) PROVE Shown
    BY <1>1, <1>3, <1>4, <2>3 DEF ListTag
  <2>4. ASSUME NEW w \in Windows, Fails(w) PROVE Shown
    BY <1>2, <1>3, <1>4, <2>4 DEF Fails
  <2>5. CASE pages' = pages
    BY <2>5
  <2> QED
    BY <1>4, <2>1, <2>2, <2>3, <2>4, <2>5
       DEF Next, vars, PickLanguage, AuthorCreates, AuthorSaves, AuthorPublishes
<1>5. Inv /\ [Next]_vars => [Shown]_vars
  BY <1>4
<1> QED
  BY SiteInvariant, <1>5, PTL DEF Spec, DraftsStayPrivate

-----------------------------------------------------------------------------
(* The examples: one language explains what a page shows *)

Offers(langs, lang) == \E k \in DOMAIN langs : langs[k] = lang

\* All that a page shows follows from lang: each instance shows it, or else its
\* own first one.
ShownBy(lang, instances) ==
    \A n \in DOMAIN instances :
        instances[n].active = IF Offers(instances[n].langs, lang) THEN lang
                              ELSE instances[n].langs[1]

\* An instance offers languages, and shows one.
Offering(instances) ==
    \A n \in DOMAIN instances :
        /\ \E langs, default, active :
              instances[n] = [langs |-> langs, default |-> default, active |-> active]
        /\ \A k \in DOMAIN instances[n].langs : instances[n].langs[k] # Unset

TabsOf(instances) == Offering(instances) /\ \E lang : ShownBy(lang, instances)

TabsInv == DOMAIN tabs = Windows /\ \A w \in Windows : TabsOf(tabs[w])

\* What show makes of an instance.
LEMMA ShowShows ==
    ASSUME NEW langs, NEW default, NEW active, NEW lang
    PROVE  \E shown :
              /\ Show([langs |-> langs, default |-> default, active |-> active], lang)
                   = [langs |-> langs, default |-> default, active |-> shown]
              /\ shown = IF Offers(langs, lang) THEN lang ELSE langs[1]
<1>1. PICK shown : shown = IF Offers(langs, lang) THEN lang ELSE langs[1]
  OBVIOUS
<1>2. PICK tab : tab = [langs |-> langs, default |-> default, active |-> active]
  OBVIOUS
<1>3. Show(tab, lang) = [tab EXCEPT !.active = shown]
  <2>1. tab.langs = langs
    BY <1>2
  <2> QED
    BY <1>1, <2>1 DEF Show, Offers
<1>4. [tab EXCEPT !.active = shown] = [langs |-> langs, default |-> default, active |-> shown]
  BY <1>2
<1> QED
  BY <1>1, <1>2, <1>3, <1>4

\* A page that shows lang in all its instances.
LEMMA AllShow ==
    ASSUME NEW before, Offering(before), NEW after, NEW lang, DOMAIN after = DOMAIN before,
           \A n \in DOMAIN before : after[n] = Show(before[n], lang)
    PROVE  TabsOf(after)
<1>1. ASSUME NEW n \in DOMAIN after
      PROVE  /\ \E langs, default, active :
                   after[n] = [langs |-> langs, default |-> default, active |-> active]
             /\ \A k \in DOMAIN after[n].langs : after[n].langs[k] # Unset
             /\ after[n].active =
                   IF Offers(after[n].langs, lang) THEN lang ELSE after[n].langs[1]
  <2>1. PICK langs, default, active :
          before[n] = [langs |-> langs, default |-> default, active |-> active]
    BY DEF Offering
  <2>2. PICK shown :
          /\ after[n] = [langs |-> langs, default |-> default, active |-> shown]
          /\ shown = IF Offers(langs, lang) THEN lang ELSE langs[1]
    <3>1. after[n] = Show([langs |-> langs, default |-> default, active |-> active], lang)
      BY <2>1
    <3>2. PICK shown :
            /\ Show([langs |-> langs, default |-> default, active |-> active], lang)
                 = [langs |-> langs, default |-> default, active |-> shown]
            /\ shown = IF Offers(langs, lang) THEN lang ELSE langs[1]
      BY ShowShows
    <3> QED
      BY <3>1, <3>2
  <2>3. before[n].langs = langs /\ after[n].langs = langs /\ after[n].active = shown
    BY <2>1, <2>2
  <2>4. \A k \in DOMAIN langs : langs[k] # Unset
    BY <2>3 DEF Offering
  <2> QED
    BY <2>2, <2>3, <2>4
<1>2. Offering(after)
  BY <1>1 DEF Offering
<1>3. ShownBy(lang, after)
  BY <1>1 DEF ShownBy
<1> QED
  BY <1>2, <1>3 DEF TabsOf

\* The instances of a page that is put into a window.
LEMMA PageShows ==
    ASSUME NEW nodes, OneRender(nodes), NEW after,
           after = [n \in DOMAIN nodes |-> Connected(nodes[n])]
    PROVE  TabsOf(after)
<1>1. PICK default : \A n \in DOMAIN nodes : nodes[n].default = default
  <2>1. \A m, n \in DOMAIN nodes : nodes[m].default = nodes[n].default
    BY DEF OneRender
  <2> QED
    BY <2>1
<1>2. PICK before :
        before = [n \in DOMAIN nodes |-> [langs |-> nodes[n].langs, default |-> nodes[n].default,
                                          active |-> nodes[n].langs[1]]]
  OBVIOUS
<1>3. PICK lang : lang = IF default # Unset THEN default ELSE stored
  OBVIOUS
<1>4. ASSUME NEW n \in DOMAIN nodes
      PROVE  after[n] = Show(before[n], lang)
  BY <1>1, <1>2, <1>3 DEF Connected
<1>5. ASSUME NEW n \in DOMAIN before
      PROVE  /\ \E langs, def, active :
                   before[n] = [langs |-> langs, default |-> def, active |-> active]
             /\ \A k \in DOMAIN before[n].langs : before[n].langs[k] # Unset
  <2>1. before[n].langs = nodes[n].langs /\ n \in DOMAIN nodes
    BY <1>2
  <2>2. \A k \in DOMAIN nodes[n].langs : nodes[n].langs[k] # Unset
    BY <2>1 DEF OneRender
  <2> QED
    BY <1>2, <2>1, <2>2
<1>6. Offering(before)
  BY <1>5 DEF Offering
<1>7. DOMAIN after = DOMAIN before /\ DOMAIN before = DOMAIN nodes
  BY <1>2
<1> QED
  BY <1>4, <1>6, <1>7, AllShow

LEMMA LoadTabs ==
    ASSUME TabsInv, NEW w \in Windows, NEW page, OneRender(TabsIn(page)), Load(w, page)
    PROVE  TabsInv'
<1>1. PICK after : after = [n \in DOMAIN TabsIn(page) |-> Connected(TabsIn(page)[n])]
  OBVIOUS
<1>2. TabsOf(after)
  BY <1>1, PageShows
<1>3. tabs' = [tabs EXCEPT ![w] = after]
  BY <1>1 DEF Load, Connect
<1> QED
  BY <1>2, <1>3 DEF TabsInv

LEMMA PickTabs ==
    ASSUME TabsInv, NEW w \in Windows, PickLanguage(w)
    PROVE  TabsInv'
<1>1. PICK lang : tabs' = [tabs EXCEPT ![w] = [m \in DOMAIN @ |-> Show(@[m], lang)]]
  BY DEF PickLanguage, Click
<1>2. PICK after : after = [m \in DOMAIN tabs[w] |-> Show(tabs[w][m], lang)]
  OBVIOUS
<1>3. PICK before : before = tabs[w]
  OBVIOUS
<1>4. tabs' = [tabs EXCEPT ![w] = after]
  BY <1>1, <1>2
<1>5. Offering(before)
  BY <1>3 DEF TabsInv, TabsOf
<1>6. DOMAIN after = DOMAIN before /\ \A n \in DOMAIN before : after[n] = Show(before[n], lang)
  BY <1>2, <1>3
<1>7. TabsOf(after)
  BY <1>5, <1>6, AllShow
<1> QED
  BY <1>4, <1>7 DEF TabsInv

LEMMA SyncedTabs ==
    ASSUME NEW instances, TabsOf(instances)
    PROVE  \E lang \in {Unset} \cup {instances[n].active : n \in DOMAIN instances} :
              \A n \in DOMAIN instances :
                LET langs == {instances[n].langs[k] : k \in DOMAIN instances[n].langs} IN
                IF lang \in langs THEN instances[n].active = lang
                ELSE instances[n].active = instances[n].langs[1]
<1>1. PICK lang : ShownBy(lang, instances)
  BY DEF TabsOf
<1>0. \A n \in DOMAIN instances : \A l :
         Offers(instances[n].langs, l)
           <=> l \in {instances[n].langs[k] : k \in DOMAIN instances[n].langs}
  BY DEF Offers
<1>2. CASE \E n \in DOMAIN instances : Offers(instances[n].langs, lang)
  <2>1. PICK n \in DOMAIN instances : Offers(instances[n].langs, lang)
    BY <1>2
  <2>2. lang = instances[n].active
    BY <1>1, <2>1 DEF ShownBy
  <2>3. lang \in {Unset} \cup {instances[i].active : i \in DOMAIN instances}
    BY <2>2
  <2> QED
    BY <1>0, <1>1, <2>3 DEF ShownBy
<1>3. CASE \A n \in DOMAIN instances : ~Offers(instances[n].langs, lang)
  <2>1. \A n \in DOMAIN instances : instances[n].active = instances[n].langs[1]
    BY <1>1, <1>3 DEF ShownBy
  <2>2. \A n \in DOMAIN instances : Unset \notin {instances[n].langs[k] : k \in DOMAIN instances[n].langs}
    BY DEF TabsOf, Offering
  <2> QED
    BY <2>1, <2>2
<1> QED
  BY <1>2, <1>3

\* The code-tabs of every answer come of one render.
Bodies == {EmptyBody} \cup {c.body : c \in Contents}

LEMMA NoTabs ==
    ASSUME NEW page, page.kind \notin {"article", "doc"}
    PROVE  OneRender(TabsIn(page))
BY DEF TabsIn, OneRender

LEMMA DocAnswerTabs ==
    ASSUME NEW project, NEW slug, NEW page, page = DocAnswer(project, slug)
    PROVE  OneRender(TabsIn(page))
<1>1. CASE page = NotFoundPage
  BY <1>1, NoTabs DEF NotFoundPage, Rows
<1>2. CASE page # NotFoundPage
  <2>1. page = DocPage(project, slug) /\ HasDoc(project, slug)
    BY <1>2 DEF DocAnswer
  <2>2. TabsIn(page) = DocTabs[<<project, slug>>]
    BY <2>1 DEF DocPage, TabsIn
  <2>3. PICK n \in DOMAIN Manifest :
          Manifest[n].slug = project /\ \E k \in DOMAIN Manifest[n].docs : Manifest[n].docs[k] = slug
    BY <2>1 DEF HasDoc
  <2>5. PICK k \in DOMAIN Manifest[n].docs : Manifest[n].docs[k] = slug
    BY <2>3
  <2>4. OneRender(DocTabs[<<Manifest[n].slug, Manifest[n].docs[k]>>])
    BY TabsAssumption
  <2> QED
    BY <2>2, <2>3, <2>4, <2>5
<1> QED
  BY <1>1, <1>2

LEMMA AnswerTabs ==
    ASSUME \A id \in Ids : articles[id].html \in Bodies,
           NEW path, NEW page \in Answers(path)
    PROVE  OneRender(TabsIn(page))
<1>1. OneRender(TabsIn(NotFoundPage))
  BY NoTabs DEF NotFoundPage, Rows
<1>2. ASSUME NEW project, page = ProjectAnswer(project)
      PROVE  OneRender(TabsIn(page))
  BY <1>1, <1>2, DocAnswerTabs DEF ProjectAnswer
<1>3. ASSUME page = DocsAnswer
      PROVE  OneRender(TabsIn(page))
  <2>1. DocsAnswer = NotFoundPage \/ \E project : DocsAnswer = ProjectAnswer(project)
    BY Zenon DEF DocsAnswer
  <2> QED
    BY <1>1, <1>2, <1>3, <2>1
<1>4. ASSUME page \in ArticleAnswers(path.slug)
      PROVE  OneRender(TabsIn(page))
  <2>1. CASE page = NotFoundPage
    BY <1>1, <2>1
  <2>2. CASE page # NotFoundPage
    <3>1. PICK id \in Ids : page = ArticlePage(id)
      BY <1>4, <2>2 DEF ArticleAnswers
    <3>2. TabsIn(page) = ArticleTabs[articles[id].html]
      BY <3>1 DEF ArticlePage, TabsIn
    <3> QED
      BY <3>2, TabsAssumption DEF Bodies
  <2> QED
    BY <2>1, <2>2
<1>5. CASE path.to \in {"home", "archive", "feed", "projects", "tag"}
  <2>1. page.kind \notin {"article", "doc"}
    BY <1>5 DEF Answers, HomePage, ArchivePage, Feed, TagPage, ProjectsPage, Rows
  <2> QED
    BY <2>1, NoTabs
<1>6. CASE path.to \notin {"home", "archive", "feed", "projects", "tag"}
  <2>1. \/ page = NotFoundPage \/ page = DocsAnswer \/ page = ProjectAnswer(path.slug)
        \/ page = DocAnswer(path.project, path.slug) \/ page \in ArticleAnswers(path.slug)
    BY <1>6 DEF Answers
  <2> QED
    BY <1>1, <1>2, <1>3, <1>4, <2>1, DocAnswerTabs
<1> QED
  BY <1>5, <1>6

-----------------------------------------------------------------------------
(* Induction.  The induction theorems of the library take an operator, which   *)
(* none of the provers can supply; a set of numbers does as well.              *)

LessNat == {p \in Nat \X Nat : p[1] < p[2]}

\* A set of natural numbers that is not empty has a least element.
LEMMA LeastNat ==
    ASSUME NEW S, S \subseteq Nat, S # {}
    PROVE  \E x \in S : \A y \in S : x <= y
<1>1. OpToRel(<, Nat) = LessNat
  BY DEF OpToRel, LessNat
<1>2. IsWellFoundedOn(LessNat, Nat)
  BY <1>1, NatLessThanWellFounded, Zenon
<1>3. PICK x \in S : \A y \in S : ~(<<y, x>> \in LessNat)
  BY <1>2, WFMin
<1>4. ASSUME NEW y \in S
      PROVE  x <= y
  <2>1. x \in Nat /\ y \in Nat
    OBVIOUS
  <2>2. ~(<<y, x>> \in LessNat)
    BY <1>3
  <2>3. <<y, x>> \in LessNat <=> y < x
    BY <2>1 DEF LessNat
  <2>4. QED
    BY <2>1, <2>2, <2>3
<1>5. QED
  BY <1>4

\* A set that holds 0 and, with a number below n, the next one, holds 0..n.
LEMMA InductionTo ==
    ASSUME NEW n \in Nat, NEW S, 0 \in S, \A i \in 0..(n - 1) : i \in S => i + 1 \in S
    PROVE  \A i \in 0..n : i \in S
<1> SUFFICES ASSUME (0..n) \ S # {}
             PROVE  FALSE
  OBVIOUS
<1>1. PICK x \in (0..n) \ S : \A y \in (0..n) \ S : x <= y
  <2>1. (0..n) \ S \subseteq Nat
    OBVIOUS
  <2>2. QED
    BY <2>1, LeastNat
<1>2. x \in 1..n /\ x - 1 \in 0..(n - 1) /\ (x - 1) + 1 = x
  BY <1>1
<1>3. x - 1 \notin S
  BY <1>1, <1>2
<1>4. x - 1 \in (0..n) \ S
  BY <1>2, <1>3
<1>5. x <= x - 1
  BY <1>1, <1>4
<1>6. QED
  BY <1>2, <1>5

-----------------------------------------------------------------------------
(* Lists *)

IsList(s) == Len(s) \in Nat /\ s = [n \in 1..Len(s) |-> s[n]]

LEMMA ListElements ==
    ASSUME NEW s, IsList(s)
    PROVE  /\ s \in Seq({s[n] : n \in 1..Len(s)})
           /\ Len(s) \in Nat /\ DOMAIN s = 1..Len(s)
<1> DEFINE S == {s[n] : n \in 1..Len(s)}
<1>1. Len(s) \in Nat /\ s = [n \in 1..Len(s) |-> s[n]]
  BY DEF IsList
<1>2. DOMAIN s = 1..Len(s)
  BY <1>1
<1>3. \A n \in 1..Len(s) : s[n] \in S
  OBVIOUS
<1> HIDE DEF S
<1>4. [n \in 1..Len(s) |-> s[n]] \in Seq(S)
  BY <1>1, <1>3
<1>5. s \in Seq(S)
  BY <1>1, <1>4
<1> QED
  BY <1>1, <1>2, <1>5 DEF S

\* A list can take any element.
LEMMA ListAppend ==
    ASSUME NEW s, NEW e, IsList(s)
    PROVE  /\ IsList(Append(s, e)) /\ Len(Append(s, e)) = Len(s) + 1
           /\ \A n \in 1..Len(s) : Append(s, e)[n] = s[n]
           /\ Append(s, e)[Len(s) + 1] = e
<1>1. PICK S : s \in Seq(S)
  BY ListElements
<1>2. s \in Seq(S \cup {e}) /\ e \in S \cup {e} /\ Len(s) \in Nat
  BY <1>1
<1>3. /\ Append(s, e) \in Seq(S \cup {e}) /\ Len(Append(s, e)) = Len(s) + 1
      /\ \A n \in 1..Len(s) : Append(s, e)[n] = s[n]
      /\ Append(s, e)[Len(s) + 1] = e
  BY <1>2
<1>4. ASSUME NEW T, NEW t \in Seq(T)
      PROVE  IsList(t)
  BY DEF IsList
<1> QED
  BY <1>3, <1>4

\* A list with nothing in it is the empty one.
LEMMA EmptyList ==
    ASSUME NEW s, IsList(s)
    PROVE  s = <<>> <=> Len(s) = 0
<1>1. PICK S : s \in Seq(S)
  BY ListElements
<1> QED
  BY <1>1

LEMMA SingleList ==
    ASSUME NEW e
    PROVE  \E s : s = <<e>> /\ IsList(s) /\ Len(s) = 1 /\ s[1] = e
<1>1. PICK s : s = <<e>>
  OBVIOUS
<1>2. s \in Seq({e}) /\ Len(s) = 1 /\ s[1] = e
  BY <1>1
<1>3. IsList(s)
  BY <1>2 DEF IsList
<1> QED
  BY <1>1, <1>2, <1>3

-----------------------------------------------------------------------------
(* The archive: one group for each year *)

\* A group: a year and articles of it.
Group(entry) ==
    \E year \in Int : \E rows :
        /\ entry = [year |-> year, rows |-> rows]
        /\ IsList(rows)
        /\ \A i \in 1..Len(rows) : Year(rows[i].at) = year

Holds(years, row) ==
    \E k \in 1..Len(years) : \E i \in 1..Len(years[k].rows) : years[k].rows[i] = row

\* What archive's loop has after n articles.
Grouped(rows, n, years) ==
    /\ IsList(years)
    /\ Len(years) = 0 <=> n = 0
    /\ n > 0 => years[Len(years)].year = Year(rows[n].at)
    /\ \A k \in 1..Len(years) : Group(years[k])
    /\ \A j, k \in 1..Len(years) : j < k => years[j].year > years[k].year
    /\ \A row : Holds(years, row) <=> \E i \in 1..n : rows[i] = row

WithYear(years, row) == Append(years, [year |-> Year(row.at), rows |-> <<row>>])
WithRow(years, row) == [years EXCEPT ![Len(years)].rows = Append(@, row)]

LEMMA YearOpens ==
    ASSUME NEW rows, NEW n \in Nat, NEW years, Grouped(rows, n, years),
           NEW row, rows[n + 1] = row, NewYear(years, Year(row.at)), Year(row.at) \in Int,
           n > 0 => Year(rows[n].at) \in Int /\ Year(rows[n].at) >= Year(row.at)
    PROVE  Grouped(rows, n + 1, WithYear(years, row))
<1>1. PICK m \in Nat : m = Len(years) /\ IsList(years)
  BY DEF Grouped, IsList
<1>2. PICK single : single = <<row>> /\ IsList(single) /\ Len(single) = 1 /\ single[1] = row
  BY SingleList
<1>3. PICK year \in Int : year = Year(row.at)
  OBVIOUS
<1>4. PICK entry : entry = [year |-> year, rows |-> single]
  OBVIOUS
<1>5. PICK new : new = WithYear(years, row)
  OBVIOUS
<1>6. /\ IsList(new) /\ Len(new) = m + 1 /\ new[m + 1] = entry
      /\ \A k \in 1..m : new[k] = years[k]
  <2>1. new = Append(years, entry)
    BY <1>2, <1>3, <1>4, <1>5 DEF WithYear
  <2> QED
    BY <1>1, <2>1, ListAppend
<1>7. entry.year = year /\ entry.rows = single
  BY <1>4
<1>8. Group(entry)
  BY <1>2, <1>3, <1>4 DEF Group
<1>9. 1..(m + 1) = (1..m) \cup {m + 1} /\ 1..(n + 1) = (1..n) \cup {n + 1}
  OBVIOUS
<1>10. \A k \in 1..(m + 1) : Group(new[k])
  BY <1>1, <1>6, <1>8, <1>9 DEF Grouped
<1>11. ASSUME NEW k \in 1..m
       PROVE  years[k].year \in Int /\ years[k].year > year
  <2>1. m # 0 /\ n > 0 /\ years # <<>>
    <3>1. m # 0
      OBVIOUS
    <3>2. n # 0
      BY <1>1, <3>1 DEF Grouped
    <3> QED
      BY <1>1, <3>1, <3>2, EmptyList
  <2>2. years[m].year = Year(rows[n].at) /\ years[m].year # year
    BY <1>1, <1>3, <2>1 DEF Grouped, NewYear
  <2>3. years[m].year \in Int /\ years[m].year >= year
    BY <1>3, <2>1, <2>2
  <2>4. Group(years[k])
    BY <1>1 DEF Grouped
  <2>5. years[k].year \in Int
    BY <2>4 DEF Group
  <2>6. k = m \/ years[k].year > years[m].year
    <3>1. m \in 1..m /\ (k = m \/ k < m)
      BY <2>1
    <3> QED
      BY <1>1, <3>1 DEF Grouped
  <2> QED
    BY <2>2, <2>3, <2>5, <2>6
<1>12. ASSUME NEW j \in 1..(m + 1), NEW k \in 1..(m + 1), j < k
       PROVE  new[j].year > new[k].year
  <2>1. j \in 1..m /\ new[j] = years[j]
    BY <1>6, <1>12
  <2>2. CASE k \in 1..m
    BY <1>1, <1>6, <1>12, <2>1, <2>2 DEF Grouped
  <2>3. CASE k = m + 1
    BY <1>6, <1>7, <1>11, <2>1, <2>3
  <2> QED
    BY <2>2, <2>3, <1>9
<1>13. ASSUME NEW r
       PROVE  Holds(new, r) <=> \E i \in 1..(n + 1) : rows[i] = r
  <2>1. Holds(new, r) <=> Holds(years, r) \/ \E i \in 1..Len(single) : single[i] = r
    BY <1>1, <1>6, <1>7, <1>9 DEF Holds
  <2>2. (\E i \in 1..Len(single) : single[i] = r) <=> r = row
    BY <1>2
  <2>3. Holds(years, r) <=> \E i \in 1..n : rows[i] = r
    BY DEF Grouped
  <2> QED
    BY <1>9, <2>1, <2>2, <2>3
<1>14. Grouped(rows, n + 1, new)
  BY <1>3, <1>6, <1>7, <1>10, <1>12, <1>13 DEF Grouped
<1> QED
  BY <1>5, <1>14

LEMMA YearGoesOn ==
    ASSUME NEW rows, NEW n \in Nat, NEW years, Grouped(rows, n, years),
           NEW row, rows[n + 1] = row, ~NewYear(years, Year(row.at))
    PROVE  Grouped(rows, n + 1, WithRow(years, row))
<1>1. PICK m \in Nat : m = Len(years) /\ IsList(years)
  BY DEF Grouped, IsList
<1>2. m # 0 /\ years[m].year = Year(row.at)
  BY <1>1, EmptyList DEF NewYear
<1>3. PICK year, old : /\ year \in Int /\ years[m] = [year |-> year, rows |-> old]
                       /\ IsList(old)
                       /\ \A i \in 1..Len(old) : Year(old[i].at) = year
  <2>1. Group(years[m])
    BY <1>1, <1>2 DEF Grouped
  <2> QED
    BY <2>1 DEF Group
<1>4. PICK len \in Nat : len = Len(old)
  BY <1>3 DEF IsList
<1>5. PICK list : list = Append(old, row)
  OBVIOUS
<1>6. /\ IsList(list) /\ Len(list) = len + 1 /\ list[len + 1] = row
      /\ \A i \in 1..len : list[i] = old[i]
  BY <1>3, <1>4, <1>5, ListAppend
<1>7. PICK entry : entry = [year |-> year, rows |-> list]
  OBVIOUS
<1>8. entry.year = year /\ entry.rows = list /\ years[m].year = year /\ years[m].rows = old
  BY <1>3, <1>7
<1>9. 1..(len + 1) = (1..len) \cup {len + 1} /\ 1..(n + 1) = (1..n) \cup {n + 1}
  OBVIOUS
<1>10. Group(entry)
  <2>1. \A i \in 1..Len(list) : Year(list[i].at) = year
    BY <1>2, <1>3, <1>4, <1>6, <1>8, <1>9
  <2> QED
    BY <1>3, <1>6, <1>7, <2>1 DEF Group
<1>11. PICK new : new = WithRow(years, row)
  OBVIOUS
<1>12. /\ IsList(new) /\ Len(new) = m /\ new[m] = entry
       /\ \A k \in 1..m : k # m => new[k] = years[k]
  <2>1. DOMAIN years = 1..m
    BY <1>1, ListElements
  <2>2. PICK last : last = years[m]
    OBVIOUS
  <2>3. [last EXCEPT !.rows = Append(@, row)] = entry
    <3>1. last = [year |-> year, rows |-> old]
      BY <1>3, <2>2
    <3>2. [last EXCEPT !.rows = list] = [year |-> year, rows |-> list]
      BY <3>1
    <3>3. last.rows = old
      BY <3>1
    <3> QED
      BY <1>5, <1>7, <3>2, <3>3
  <2>4. new = [years EXCEPT ![m] = [last EXCEPT !.rows = Append(@, row)]]
    BY <1>1, <1>11, <2>2 DEF WithRow
  <2>5. new = [years EXCEPT ![m] = entry]
    BY <2>3, <2>4
  <2>6. new = [k \in 1..m |-> IF k = m THEN entry ELSE years[k]]
    BY <2>1, <2>5
  <2>7. PICK S : S = {IF k = m THEN entry ELSE years[k] : k \in 1..m}
    OBVIOUS
  <2>8. \A k \in 1..m : (IF k = m THEN entry ELSE years[k]) \in S
    BY <2>7
  <2>9. new \in Seq(S) /\ Len(new) = m
    BY <2>6, <2>8
  <2>10. IsList(new)
    BY <2>9 DEF IsList
  <2> QED
    BY <1>2, <2>6, <2>9, <2>10
<1>13. \A k \in 1..m : Group(new[k]) /\ new[k].year = years[k].year
  BY <1>1, <1>8, <1>10, <1>12 DEF Grouped
<1>14. \A j, k \in 1..m : j < k => new[j].year > new[k].year
  BY <1>1, <1>13 DEF Grouped
<1>15. ASSUME NEW r
       PROVE  Holds(new, r) <=> \E i \in 1..(n + 1) : rows[i] = r
  <2> DEFINE In(k, r0) == \E i \in 1..Len(new[k].rows) : new[k].rows[i] = r0
             Had(k, r0) == \E i \in 1..Len(years[k].rows) : years[k].rows[i] = r0
  <2>1. \A k \in 1..m : k # m => (In(k, r) <=> Had(k, r))
    BY <1>12
  <2>2. In(m, r) <=> Had(m, r) \/ r = row
    <3>1. new[m].rows = list /\ years[m].rows = old
      BY <1>8, <1>12
    <3>2. (\E i \in 1..(len + 1) : list[i] = r) <=> (\E i \in 1..len : old[i] = r) \/ r = row
      BY <1>6, <1>9
    <3> QED
      BY <1>4, <1>6, <3>1, <3>2
  <2>3. Holds(new, r) <=> \E k \in 1..m : In(k, r)
    BY <1>12 DEF Holds
  <2>4. Holds(years, r) <=> \E k \in 1..m : Had(k, r)
    BY <1>1 DEF Holds
  <2> HIDE DEF In, Had
  <2>5. m \in 1..m
    BY <1>2
  <2>6. Holds(new, r) <=> Holds(years, r) \/ r = row
    BY <2>1, <2>2, <2>3, <2>4, <2>5
  <2>7. Holds(years, r) <=> \E i \in 1..n : rows[i] = r
    BY DEF Grouped
  <2> QED
    BY <1>9, <2>6, <2>7
<1>16. n + 1 > 0 /\ new[m].year = Year(row.at)
  BY <1>2, <1>8, <1>12
<1>17. Grouped(rows, n + 1, new)
  BY <1>2, <1>12, <1>13, <1>14, <1>15, <1>16 DEF Grouped
<1> QED
  BY <1>11, <1>17

YearsStep(rows, g, n) ==
    IF n = 0 THEN <<>>
    ELSE IF NewYear(g[n - 1], Year(rows[n].at)) THEN WithYear(g[n - 1], rows[n])
    ELSE WithRow(g[n - 1], rows[n])

\* archive's loop has a value after each article.
LEMMA YearsLoop ==
    ASSUME NEW rows, NEW len \in Nat, Len(rows) = len
    PROVE  \E g : g = [n \in 0..len |-> YearsStep(rows, g, n)] /\ ArchiveYears(rows) = g[len]
<1> DEFINE Upto(k) == \E g : g = [n \in 0..k |-> YearsStep(rows, g, n)]
           S == {k \in 0..len : Upto(k)}
<1>1. Upto(0)
  <2>1. PICK g : g = [n \in 0..0 |-> <<>>]
    OBVIOUS
  <2>2. g = [n \in 0..0 |-> YearsStep(rows, g, n)]
    BY <2>1 DEF YearsStep
  <2> QED
    BY <2>2
<1>2. ASSUME NEW k \in 0..(len - 1), Upto(k)
      PROVE  Upto(k + 1)
  <2>1. PICK g : g = [n \in 0..k |-> YearsStep(rows, g, n)]
    BY <1>2
  <2>2. PICK h : h = [n \in 0..(k + 1) |-> YearsStep(rows, g, n)]
    OBVIOUS
  <2>3. \A n \in 0..k : h[n] = g[n]
    BY <2>1, <2>2
  <2>4. \A n \in 0..(k + 1) : YearsStep(rows, g, n) = YearsStep(rows, h, n)
    <3>1. ASSUME NEW n \in 0..(k + 1)
          PROVE  YearsStep(rows, g, n) = YearsStep(rows, h, n)
      <4>1. CASE n = 0
        BY <4>1 DEF YearsStep
      <4>2. CASE n # 0
        <5>1. n - 1 \in 0..k
          BY <4>2
        <5>2. h[n - 1] = g[n - 1]
          BY <2>3, <5>1
        <5> QED
          BY <5>2 DEF YearsStep
      <4> QED
        BY <4>1, <4>2
    <3> QED
      BY <3>1
  <2>5. h = [n \in 0..(k + 1) |-> YearsStep(rows, h, n)]
    BY <2>2, <2>4
  <2> QED
    BY <2>5
<1> HIDE DEF Upto
<1>3. Upto(len)
  <2>1. 0 \in S /\ \A k \in 0..(len - 1) : k \in S => k + 1 \in S
    BY <1>1, <1>2
  <2> HIDE DEF S
  <2>2. \A k \in 0..len : k \in S
    BY <2>1, InductionTo
  <2> QED
    BY <2>2 DEF S
<1> DEFINE f == CHOOSE g : g = [n \in 0..len |-> YearsStep(rows, g, n)]
<1>4. f = [n \in 0..len |-> YearsStep(rows, f, n)]
  BY <1>3 DEF Upto
<1>5. ArchiveYears(rows) = f[len]
  BY DEF ArchiveYears, YearsStep, WithYear, WithRow
<1> QED
  BY <1>4, <1>5

\* Rows as the statement returns them.
NewestRows(rows) ==
    /\ IsList(rows)
    /\ \A n \in 1..Len(rows) : rows[n].at \in Int
    /\ \A m, n \in 1..Len(rows) : m < n => rows[m].at >= rows[n].at

LEMMA YearGrows ==
    ASSUME NEW a \in Int, NEW b \in Int, a >= b
    PROVE  Year(a) \in Int /\ Year(b) \in Int /\ Year(a) >= Year(b)
BY DEF Year

LEMMA YearsGrouped ==
    ASSUME NEW rows, NewestRows(rows)
    PROVE  Grouped(rows, Len(rows), ArchiveYears(rows))
<1>1. PICK len \in Nat : len = Len(rows)
  BY DEF NewestRows, IsList
<1>2. PICK g : g = [n \in 0..len |-> YearsStep(rows, g, n)] /\ ArchiveYears(rows) = g[len]
  BY <1>1, YearsLoop
<1> DEFINE S == {n \in 0..len : Grouped(rows, n, g[n])}
<1>3. 0 \in S
  <2>1. PICK none : none = <<>>
    OBVIOUS
  <2>2. IsList(none) /\ Len(none) = 0
    BY <2>1 DEF IsList
  <2>3. g[0] = none
    BY <1>2, <2>1 DEF YearsStep
  <2>4. Grouped(rows, 0, none)
    BY <2>2 DEF Grouped, Holds
  <2> QED
    BY <2>3, <2>4
<1>4. ASSUME NEW n \in 0..(len - 1), n \in S
      PROVE  n + 1 \in S
  <2>1. PICK years : years = g[n] /\ Grouped(rows, n, years)
    BY <1>4
  <2>2. PICK row : row = rows[n + 1]
    OBVIOUS
  <2>3. n \in Nat /\ n + 1 \in 1..len /\ n + 1 \in 0..len /\ n + 1 # 0 /\ (n + 1) - 1 = n
    OBVIOUS
  <2>4. row.at \in Int
    BY <1>1, <2>2, <2>3 DEF NewestRows
  <2>5. Year(row.at) \in Int
    BY <2>4, YearGrows
  <2>6. n > 0 => Year(rows[n].at) \in Int /\ Year(rows[n].at) >= Year(row.at)
    <3>1. SUFFICES ASSUME n > 0
                   PROVE  Year(rows[n].at) \in Int /\ Year(rows[n].at) >= Year(row.at)
      OBVIOUS
    <3>2. n \in 1..len /\ n < n + 1
      BY <3>1
    <3>3. rows[n].at \in Int /\ rows[n].at >= row.at
      BY <1>1, <2>2, <2>3, <3>2 DEF NewestRows
    <3> QED
      BY <2>4, <3>3, YearGrows
  <2>7. g[n + 1] = IF NewYear(years, Year(row.at)) THEN WithYear(years, row)
                   ELSE WithRow(years, row)
    BY <1>2, <2>1, <2>2, <2>3 DEF YearsStep
  <2>8. Grouped(rows, n + 1, g[n + 1])
    BY <2>1, <2>2, <2>3, <2>5, <2>6, <2>7, YearOpens, YearGoesOn
  <2> QED
    BY <2>3, <2>8
<1> HIDE DEF S
<1>5. len \in S
  BY <1>3, <1>4, InductionTo
<1> QED
  BY <1>1, <1>2, <1>5 DEF S

\* What ListingsInOrder says of a page.
InOrder(page) ==
    /\ \A m, n \in DOMAIN page.rows : m < n => page.rows[m].at >= page.rows[n].at
    /\ page.kind = "archive" =>
          LET years == page.years IN
          /\ \A m, n \in DOMAIN years : m < n => years[m].year > years[n].year
          /\ \A n \in DOMAIN years : \A k \in DOMAIN years[n].rows :
                 Year(years[n].rows[k].at) = years[n].year
          /\ UNION {RowsOf(years[n]) : n \in DOMAIN years} = RowsOf(page)

LEMMA ArchiveInOrder ==
    ASSUME NEW rows, NewestRows(rows), NEW page, page = ArchivePage(rows)
    PROVE  InOrder(page)
<1>1. PICK years : years = ArchiveYears(rows) /\ Grouped(rows, Len(rows), years)
  BY YearsGrouped
<1>2. page.kind = "archive" /\ page.rows = rows /\ page.years = years
  BY <1>1 DEF ArchivePage
<1>3. DOMAIN rows = 1..Len(rows) /\ DOMAIN years = 1..Len(years)
  BY <1>1, ListElements DEF NewestRows, Grouped
<1>4. ASSUME NEW n \in DOMAIN years
      PROVE  /\ DOMAIN years[n].rows = 1..Len(years[n].rows)
             /\ \A k \in DOMAIN years[n].rows : Year(years[n].rows[k].at) = years[n].year
  <2>1. Group(years[n])
    BY <1>1, <1>3 DEF Grouped
  <2>2. PICK year, list : /\ years[n] = [year |-> year, rows |-> list] /\ IsList(list)
                          /\ \A i \in 1..Len(list) : Year(list[i].at) = year
    BY <2>1 DEF Group
  <2>3. DOMAIN list = 1..Len(list)
    BY <2>2, ListElements
  <2>4. years[n].rows = list /\ years[n].year = year
    BY <2>2
  <2> QED
    BY <2>2, <2>3, <2>4
<1>5. UNION {RowsOf(years[n]) : n \in DOMAIN years} = RowsOf(page)
  <2> DEFINE all == UNION {RowsOf(years[n]) : n \in DOMAIN years}
  <2>1. \A row : row \in all <=> \E n \in DOMAIN years : row \in RowsOf(years[n])
    OBVIOUS
  <2>2. \A n \in DOMAIN years : \A row : row \in RowsOf(years[n])
           <=> \E i \in 1..Len(years[n].rows) : years[n].rows[i] = row
    BY <1>4 DEF RowsOf
  <2>3. \A row : row \in RowsOf(page) <=> \E i \in 1..Len(rows) : rows[i] = row
    BY <1>2, <1>3 DEF RowsOf
  <2>4. \A row : Holds(years, row) <=> \E i \in 1..Len(rows) : rows[i] = row
    BY <1>1 DEF Grouped
  <2>5. \A row : Holds(years, row)
           <=> \E n \in DOMAIN years : \E i \in 1..Len(years[n].rows) : years[n].rows[i] = row
    BY <1>3 DEF Holds
  <2> HIDE DEF all
  <2>6. \A row : row \in all <=> row \in RowsOf(page)
    <3>1. ASSUME NEW row
          PROVE  row \in all <=> Holds(years, row)
      BY <2>1, <2>2, <2>5
    <3>2. ASSUME NEW row
          PROVE  Holds(years, row) <=> row \in RowsOf(page)
      BY <2>3, <2>4
    <3> QED
      BY <3>1, <3>2
  <2>7. all = RowsOf(page)
    BY <2>6
  <2> QED
    BY <2>7 DEF all
<1>6. \A m, n \in DOMAIN years : m < n => years[m].year > years[n].year
  BY <1>1, <1>3 DEF Grouped
<1>7. \A m, n \in DOMAIN page.rows : m < n => page.rows[m].at >= page.rows[n].at
  BY <1>2, <1>3 DEF NewestRows
<1> QED
  BY <1>2, <1>4, <1>5, <1>6, <1>7 DEF InOrder

\* The times of the articles there are.
Times == \A id \in Ids : articles[id].published \in Stamps \cup {Unpublished}

LEMMA ListedNewest ==
    ASSUME Times, NEW ids, ids \subseteq Ids, \A id \in ids : Public(id),
           NEW rows \in Listed(ids)
    PROVE  NewestRows(rows)
<1>1. PICK order \in NewestFirst(ids) : rows = [n \in DOMAIN order |-> Summary(order[n])]
  BY DEF Listed
<1>2. PICK count \in Nat : count = Cardinality(ids)
  <2>1. IsFiniteSet(ids)
    BY SiteAssumption, FS_Subset
  <2> QED
    BY <2>1, FS_CardinalityType
<1>3. /\ order \in [1..count -> ids]
      /\ \A m, n \in 1..count :
            m < n => articles[order[m]].published >= articles[order[n]].published
  BY <1>1, <1>2 DEF NewestFirst
<1>4. \A n \in 1..count : rows[n].at = articles[order[n]].published
  BY <1>1, <1>3 DEF Summary
<1>5. \A id \in ids : articles[id].published \in Int
  BY SiteAssumption DEF Times, Public
<1>6. rows = [n \in 1..count |-> rows[n]] /\ Len(rows) = count
  <2>1. rows = [n \in 1..count |-> Summary(order[n])]
    BY <1>1, <1>3
  <2> QED
    BY <2>1
<1>7. IsList(rows)
  BY <1>6 DEF IsList
<1> QED
  BY <1>3, <1>4, <1>5, <1>6, <1>7 DEF NewestRows

\* Every answer of a handler is in order.
LEMMA AnswerInOrder ==
    ASSUME Times, NEW path, NEW page \in Answers(path)
    PROVE  InOrder(page)
<1>1. ASSUME NEW rows, NewestRows(rows), page.rows = rows, page.kind # "archive"
      PROVE  InOrder(page)
  <2>1. DOMAIN rows = 1..Len(rows)
    BY <1>1, ListElements DEF NewestRows
  <2> QED
    BY <1>1, <2>1 DEF InOrder, NewestRows
<1>2. ASSUME NEW rows \in PublishedArticles
      PROVE  NewestRows(rows)
  <2>1. PICK ids : ids = {id \in Ids : Public(id)}
    OBVIOUS
  <2>2. rows \in Listed(ids) /\ ids \subseteq Ids /\ \A id \in ids : Public(id)
    BY <2>1 DEF PublishedArticles
  <2> QED
    BY <2>2, ListedNewest
<1>3. ASSUME NEW tag, NEW rows \in ArticlesByTag(tag)
      PROVE  NewestRows(rows)
  <2>1. PICK ids : ids = {id \in Ids : Public(id) /\ tag \in articles[id].tags}
    OBVIOUS
  <2>2. rows \in Listed(ids) /\ ids \subseteq Ids /\ \A id \in ids : Public(id)
    BY <2>1 DEF ArticlesByTag
  <2> QED
    BY <2>2, ListedNewest
<1>4. CASE path.to = "archive"
  <2>1. PICK rows \in PublishedArticles : page = ArchivePage(rows)
    BY <1>4 DEF Answers
  <2> QED
    BY <1>2, <2>1, ArchiveInOrder
<1>5. CASE path.to \in {"home", "feed"}
  <2>1. PICK rows \in PublishedArticles : page.rows = rows /\ page.kind # "archive"
    BY <1>5 DEF Answers, HomePage, Feed, Rows
  <2> QED
    BY <1>1, <1>2, <2>1
<1>6. CASE path.to = "tag"
  <2>1. PICK rows \in ArticlesByTag(path.slug) : page.rows = rows /\ page.kind # "archive"
    BY <1>6 DEF Answers, TagPage, Rows
  <2> QED
    BY <1>1, <1>3, <2>1
<1>7. ASSUME NEW row, page.rows = <<row>>, page.kind # "archive"
      PROVE  InOrder(page)
  BY <1>7 DEF InOrder
<1>8. ASSUME page.rows = <<>>, page.kind # "archive"
      PROVE  InOrder(page)
  BY <1>8 DEF InOrder
<1>9. CASE path.to = "article"
  <2>1. page \in ArticleAnswers(path.slug)
    BY <1>9 DEF Answers
  <2>2. CASE page = NotFoundPage
    BY <1>8, <2>2 DEF NotFoundPage, Rows
  <2>3. CASE page # NotFoundPage
    <3>1. PICK id \in Ids : page = ArticlePage(id)
      BY <2>1, <2>3 DEF ArticleAnswers
    <3> QED
      BY <1>7, <3>1 DEF ArticlePage
  <2> QED
    BY <2>2, <2>3
<1>10. CASE path.to \notin {"home", "archive", "feed", "tag", "article"}
  <2>1. page.rows = <<>> /\ page.kind # "archive"
    BY <1>10 DEF Answers, ProjectsPage, DocsAnswer, ProjectAnswer, DocAnswer, DocPage,
                 NotFoundPage, Rows
  <2> QED
    BY <1>8, <2>1
<1> QED
  BY <1>4, <1>5, <1>6, <1>9, <1>10

-----------------------------------------------------------------------------
(* Both of them, step by step *)

\* What is stored: bodies that were submitted, and times that were given.
DataInv == Times /\ \A id \in Ids : articles[id].html \in Bodies

ShownInv ==
    /\ DataInv
    /\ TabsInv
    /\ \A w \in Windows : InOrder(pages[w])

LEMMA LoadShown ==
    ASSUME Inv, ShownInv, NEW w \in Windows, NEW page, InOrder(page), OneRender(TabsIn(page)),
           Load(w, page), UNCHANGED dbVars
    PROVE  ShownInv'
<1>1. DataInv'
  BY DEF ShownInv, DataInv, Times, dbVars
<1>2. TabsInv'
  BY LoadTabs DEF ShownInv
<1>3. pages' = [pages EXCEPT ![w] = page] /\ DOMAIN pages = Windows
  BY DEF Load, Inv
<1>4. ASSUME NEW v \in Windows
      PROVE  InOrder(pages'[v])
  <2>1. pages'[v] = page \/ pages'[v] = pages[v]
    BY <1>3
  <2> QED
    BY <2>1 DEF ShownInv
<1> QED
  BY <1>1, <1>2, <1>4 DEF ShownInv

LEMMA PlainShown ==
    /\ InOrder(NotFoundPage) /\ OneRender(TabsIn(NotFoundPage))
    /\ InOrder(ErrorPage) /\ OneRender(TabsIn(ErrorPage))
<1>1. InOrder(NotFoundPage) /\ InOrder(ErrorPage)
  BY DEF InOrder, NotFoundPage, ErrorPage, Rows
<1>2. NotFoundPage.kind \notin {"article", "doc"} /\ ErrorPage.kind \notin {"article", "doc"}
  BY DEF NotFoundPage, ErrorPage, Rows
<1> QED
  BY <1>1, <1>2, NoTabs

\* The authors disturb no page and no script.
LEMMA WritesShown ==
    ASSUME ShownInv, DataInv', UNCHANGED <<pages, tabVars>>
    PROVE  ShownInv'
BY DEF ShownInv, TabsInv, tabVars

LEMMA InitShown == Init => ShownInv
<1> SUFFICES ASSUME Init
             PROVE  ShownInv
  OBVIOUS
<1>1. articles = [id \in Ids |-> Book!Fresh(Seed[id], Seed[id])]
  BY DEF Init, Book!Init
<1>2. DataInv
  BY <1>1 DEF DataInv, Times, Bodies, Book!Fresh
<1>3. TabsInv
  <2>1. DOMAIN tabs = Windows /\ \A w \in Windows : tabs[w] = <<>>
    BY DEF Init
  <2>2. TabsOf(<<>>)
    BY DEF TabsOf, Offering, ShownBy
  <2> QED
    BY <2>1, <2>2 DEF TabsInv
<1> QED
  BY <1>2, <1>3, PlainShown DEF ShownInv, Init

LEMMA CreatesShown ==
    ASSUME Inv, ShownInv, NEW id \in Ids, NEW slug \in Slugs, AuthorCreates(id, slug)
    PROVE  ShownInv'
<1>1. articles' = [articles EXCEPT ![id] = Book!Fresh(slug, slug)]
  BY DEF AuthorCreates, Book!Create
<1>2. Book!Fresh(slug, slug).published = Unpublished /\ Book!Fresh(slug, slug).html = EmptyBody
  BY DEF Book!Fresh
<1>3. DataInv'
  BY <1>1, <1>2 DEF ShownInv, DataInv, Times, Bodies, Inv, TableInv
<1> QED
  BY <1>3, WritesShown DEF AuthorCreates

LEMMA SavesShown ==
    ASSUME Inv, ShownInv, NEW id \in Ids, NEW content \in Contents, AuthorSaves(id, content)
    PROVE  ShownInv'
<1>1. articles' = [articles EXCEPT ![id] = Book!Saved(articles[id], content)]
  BY DEF AuthorSaves, Book!Save
<1>2. /\ Book!Saved(articles[id], content).published = articles[id].published
      /\ Book!Saved(articles[id], content).html = content.body
  BY DEF Book!Saved
<1>3. DataInv'
  BY <1>1, <1>2 DEF ShownInv, DataInv, Times, Bodies, Inv, TableInv
<1> QED
  BY <1>3, WritesShown DEF AuthorSaves

LEMMA PublishesShown ==
    ASSUME Inv, ShownInv, NEW id \in Ids, NEW at \in Stamps \cup {Unpublished},
           AuthorPublishes(id, at)
    PROVE  ShownInv'
<1> DEFINE row == [articles[id] EXCEPT !.published = at]
<1>1. articles' = [articles EXCEPT ![id] = row]
  BY DEF AuthorPublishes, Book!SetPublished
<1>2. row.published = at /\ row.html = articles[id].html
  BY DEF Inv, TableInv, RowFields
<1> HIDE DEF row
<1>3. DataInv'
  BY <1>1, <1>2 DEF ShownInv, DataInv, Times, Inv, TableInv
<1> QED
  BY <1>3, WritesShown DEF AuthorPublishes

LEMMA NextShown == ASSUME Inv, ShownInv, [Next]_vars PROVE ShownInv'
<1>0. DataInv /\ Times /\ \A id \in Ids : articles[id].html \in Bodies
  BY DEF ShownInv, DataInv
<1>1. ASSUME NEW w \in Windows, NEW path \in Paths, Get(w, path) PROVE ShownInv'
  BY <1>0, <1>1, AnswerInOrder, AnswerTabs, LoadShown DEF Get
<1>2. ASSUME NEW w \in Windows, NEW path \in Paths, GetTag(w, path) PROVE ShownInv'
  <2>1. CASE Load(w, NotFoundPage)
    BY <1>2, <2>1, PlainShown, LoadShown DEF GetTag
  <2>2. CASE UNCHANGED <<pages, tabVars>>
    <3>1. DataInv'
      BY <1>0, <1>2 DEF DataInv, Times, GetTag, dbVars
    <3> QED
      BY <2>2, <3>1, WritesShown
  <2> QED
    BY <1>2, <2>1, <2>2 DEF GetTag
<1>3. ASSUME NEW w \in Windows, ListTag(w) PROVE ShownInv'
  BY <1>0, <1>3, AnswerInOrder, AnswerTabs, LoadShown DEF ListTag
<1>4. ASSUME NEW w \in Windows, Fails(w) PROVE ShownInv'
  BY <1>4, PlainShown, LoadShown DEF Fails
<1>5. ASSUME NEW w \in Windows, PickLanguage(w) PROVE ShownInv'
  <2>1. TabsInv'
    BY <1>5, PickTabs DEF ShownInv
  <2>2. UNCHANGED <<articles, pages>>
    BY <1>5 DEF PickLanguage, dbVars
  <2> QED
    BY <2>1, <2>2 DEF ShownInv, DataInv, Times
<1>6. CASE UNCHANGED vars
  <2>1. DataInv' /\ UNCHANGED <<pages, tabVars>>
    BY <1>0, <1>6 DEF vars, dbVars, DataInv, Times
  <2> QED
    BY <2>1, WritesShown
<1> QED
  BY <1>1, <1>2, <1>3, <1>4, <1>5, <1>6, CreatesShown, SavesShown, PublishesShown DEF Next

LEMMA ShownInvariant == Spec => [](Inv /\ ShownInv)
<1>1. Init => Inv /\ ShownInv
  BY InitInv, InitShown
<1>2. Inv /\ ShownInv /\ [Next]_vars => (Inv /\ ShownInv)'
  BY NextKeeps, NextShown
<1> QED
  BY <1>1, <1>2, PTL DEF Spec

\* However the reader moves between pages, with defaults of their own and without,
\* and whatever is stored, one language explains what all code-tabs of a page show.
THEOREM TabsAlwaysAgree == Spec => []TabsAgree
<1>1. ShownInv => TabsAgree
  BY SyncedTabs DEF ShownInv, TabsInv, TabsAgree
<1> QED
  BY ShownInvariant, <1>1, PTL

\* Every list of articles is newest first, and the archive has each year once, with
\* all its articles and no others, for any articles and times of publishing.
THEOREM ListingsAlwaysInOrder == Spec => []ListingsInOrder
<1>1. ShownInv => ListingsInOrder
  BY DEF ShownInv, InOrder, ListingsInOrder
<1> QED
  BY ShownInvariant, <1>1, PTL

=============================================================================
