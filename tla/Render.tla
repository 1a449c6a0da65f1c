------------------------------- MODULE Render -------------------------------
(***************************************************************************)
(* The render pipeline: Pipeline.Render of internal/content/pipeline.go,   *)
(* called by one goroutine per save or preview over one shared Mermaid     *)
(* client and its cache (mermaid_http.go).  A Markdown document is the     *)
(* sequence of its blocks, the HTML the sequence of what each becomes; an  *)
(* inline text and the highlighting of code are left out.  A heading's     *)
(* text is named by its slug, the sequence of the words between hyphens.   *)
(*                                                                         *)
(* Outside the model: an answer of the sidecar that outgrows the client's  *)
(* limit of 4 MiB, and an author who types a placeholder token.            *)
(***************************************************************************)
EXTENDS Integers, Sequences, FiniteSets

CONSTANTS
    Renders,    \* the calls of Render there can be at one time
    Documents,  \* the Markdown documents in play
    Diagrams,   \* Mermaid sources
    NoSVG,      \* not in the cache
    Sidecar,    \* whether MERMAID_URL is set; without it, NoopMermaid
    NoDoc,      \* no document
    Languages,  \* languages: the site-wide order of the example variants
    Topics      \* the embedded examples: the file stems of each topic there is

NoSlug == <<>>
NoId == <<>>
NoLang == ""

\* One block.  A fence is a ```mermaid one, a directive a :::name line, raw an
\* HTML element typed by the author; attrs are the attributes that a heading's
\* attribute list gives it besides the id.
Heading(level, words, id, attrs) ==
    [kind |-> "heading", level |-> level, text |-> words, id |-> id, attrs |-> attrs]
Fence(diagram) == [kind |-> "fence", diagram |-> diagram]
Directive(name, topic) == [kind |-> "directive", name |-> name, topic |-> topic]
Raw(element) == [kind |-> "raw", element |-> element]

\* s is a finite sequence, of whatever elements.
IsList(s) == Len(s) \in Nat /\ s = [n \in 1..Len(s) |-> s[n]]

\* A document is a list of the four kinds of blocks.
ASSUME RenderAssumption ==
    /\ \A doc \in Documents : IsList(doc) /\ \A i \in DOMAIN doc :
           /\ doc[i].kind \in {"heading", "fence", "directive", "raw"}
           /\ doc[i].kind = "heading" => IsList(doc[i].text)
           /\ doc[i].kind = "fence" => doc[i].diagram \in Diagrams
    /\ NoDoc \notin Documents
    /\ Sidecar \in BOOLEAN

VARIABLES
    cache,   \* KrokiMermaid.cache, by diagram
    at,      \* where each call of Render is
    source,  \* the document it renders
    slots,   \* the SVGs renderMermaid has, by the position of their fence
    html     \* what Render has returned

renderVars == <<cache, at, source, slots, html>>

-----------------------------------------------------------------------------
(* Headings: the AST transformer headingAnchors *)

Section == <<"section">>
Named(base) == IF base = NoSlug THEN Section ELSE base

\* The base, or the base with the least suffix no id before it has.
Dedupe(seen, base) ==
    IF Named(base) \notin seen THEN Named(base)
    ELSE LET free == {n \in 2..(Cardinality(seen) + 2) : Append(Named(base), n) \notin seen}
         IN  Append(Named(base), CHOOSE n \in free : \A m \in free : n <= m)

\* Mutant: an explicit id is not remembered.
SeenDerived(seen, heading, id) == IF heading.id = NoId THEN seen \cup {id} ELSE seen
Seen(seen, heading, id) == seen \cup {id}

\* The ids of the document's headings, by position: the author's own when there
\* is one, else one derived from the text and unlike those before it.
HeadingIds(doc) ==
    LET Walk[n \in 0..Len(doc)] ==
            IF n = 0 THEN [seen |-> {}, ids |-> <<>>]
            ELSE LET before == Walk[n - 1]
                     block == doc[n]
                 IN  IF block.kind # "heading"
                     THEN [before EXCEPT !.ids = Append(@, NoId)]
                     ELSE LET id == IF block.id # NoId THEN block.id
                                    ELSE Dedupe(before.seen, block.text)
                          IN  [seen |-> Seen(before.seen, block, id),
                               ids |-> Append(before.ids, id)]
    IN  Walk[Len(doc)].ids

IsChapter(block) == block.kind = "heading" /\ block.level = 2

\* Mutant: every heading counts.
OrdinalOfHeading(doc, i) == Cardinality({j \in 1..i : doc[j].kind = "heading"})

\* The label of an h2's anchor chip: which h2 of the document it is.
Ordinal(doc, i) == Cardinality({j \in 1..i : IsChapter(doc[j])})

\* The nth of a set of positions: the one with n - 1 before it.
Nth(positions, n) ==
    CHOOSE i \in positions : Cardinality({j \in positions : j < i}) = n - 1

\* The h2 elements that h2Re finds in stored HTML: those that are left with no
\* attribute but the id, each with its id, label and title.
ExtractSections(page) ==
    LET found == {i \in DOMAIN page :
                    page[i].kind = "heading" /\ page[i].level = 2 /\ page[i].attrs = {}}
    IN  [n \in 1..Cardinality(found) |->
            LET h2 == page[Nth(found, n)]
            IN  [id |-> h2.id, label |-> h2.chip, title |-> h2.text]]

-----------------------------------------------------------------------------
(* Directives: the ::: block extension and its one renderer, :::examples *)

\* FSSource.Examples: the known languages among the topic's files, in the order
\* of the site; an unknown topic, or one with no variant, is an error.
Examples(topic) ==
    LET Wanted(lang) == lang \in Topics[topic]
    IN  IF topic \notin DOMAIN Topics THEN <<>> ELSE SelectSeq(Languages, Wanted)

KnownLang(lang) == \E i \in DOMAIN Languages : Languages[i] = lang

\* A directive that renderDirective refuses fails the whole render.
Refused(block) ==
    block.kind = "directive" /\ (block.name # "examples" \/ Examples(block.topic) = <<>>)

\* The code-tabs of a topic; WithExamplesDefault stamps a default it knows.
CodeTabsOf(topic, default) ==
    [kind |-> "tabs", langs |-> Examples(topic),
     default |-> IF KnownLang(default) THEN default ELSE NoLang]

-----------------------------------------------------------------------------
(* From blocks to HTML *)

\* The sidecar's drawing with its ids scoped to the source's hash.
Svg(diagram) == <<"svg", diagram>>
\* The body of an answer that is not 200.
ErrorPage == <<"error">>

Code(diagram) == [kind |-> "code", diagram |-> diagram]
Token(i, diagram) == [kind |-> "token", n |-> i, diagram |-> diagram]
Figure(svg) == [kind |-> "figure", svg |-> svg]

Fences(doc) == {i \in DOMAIN doc : doc[i].kind = "fence"}

\* What the goldmark renderer makes of block i: a heading with its id, and a chip
\* when it is an h2 (0 stands for none); a fence is code, or the token put in its
\* place; the author's HTML is passed on.
Emitted(doc, ids, i, done, default) ==
    LET block == doc[i] IN
    CASE block.kind = "heading" ->
            [kind |-> "heading", level |-> block.level, text |-> block.text,
             id |-> ids[i], attrs |-> block.attrs,
             chip |-> IF IsChapter(block) THEN Ordinal(doc, i) ELSE 0]
      [] block.kind = "directive" -> CodeTabsOf(block.topic, default)
      [] block.kind = "fence" ->
            IF i \in done THEN Token(i, block.diagram) ELSE Code(block.diagram)
      [] OTHER -> block

\* buildPolicy lets through what the pipeline emits and a few more elements.
AllowedElements == {"p", "table", "figure", "section", "code-tabs", "scroll-box", "sup", "hr"}

\* Of what an author may give a heading, "class" and "style" say, a class stays.
AllowedAttributes == {"class"}

\* An element the policy does not list is dropped, and so would an SVG be; a
\* heading loses the attributes it does not list.
Sanitized(node) ==
    CASE \/ node.kind = "figure"
         \/ node.kind = "raw" /\ node.element \notin AllowedElements
              -> [kind |-> "dropped"]
      [] node.kind = "heading" -> [node EXCEPT !.attrs = @ \cap AllowedAttributes]
      [] OTHER -> node

\* The sanitizer runs over the page of tokens; then each token, of which there is
\* one, becomes its slot's figure.
Spliced(page, svgs) ==
    [i \in DOMAIN page |->
        IF page[i].kind = "token" THEN Figure(svgs[page[i].n]) ELSE Sanitized(page[i])]

Rendered(doc, svgs, default) ==
    LET ids == HeadingIds(doc)
    IN  Spliced([i \in DOMAIN doc |-> Emitted(doc, ids, i, DOMAIN svgs, default)], svgs)

-----------------------------------------------------------------------------
(* Render, one call *)

RenderInit ==
    /\ cache = [d \in Diagrams |-> NoSVG]
    /\ at = [r \in Renders |-> "idle"]
    /\ source = [r \in Renders |-> NoDoc]
    /\ slots = [r \in Renders |-> <<>>]
    /\ html = [r \in Renders |-> <<>>]

\* Render is called: the parser and the heading transformer run, and the walk
\* collects the fences.
Begin(r, doc) ==
    /\ at[r] = "idle"
    /\ at' = [at EXCEPT ![r] = "fences"]
    /\ source' = [source EXCEPT ![r] = doc]
    /\ UNCHANGED <<cache, slots, html>>

\* The fence that renderMermaid has come to.
Current(r, i) ==
    /\ i \in Fences(source[r]) \ DOMAIN slots[r]
    /\ \A j \in Fences(source[r]) : j < i => j \in DOMAIN slots[r]

DiagramAt(r, i) == source[r][i].diagram

WithSlot(r, i, svg) ==
    [j \in DOMAIN slots[r] \cup {i} |-> IF j = i THEN svg ELSE slots[r][j]]

\* RenderSVG takes the lock, looks into the cache and lets the lock go: the
\* drawing is there, or the sidecar is asked.
LookUp(r) ==
    /\ at[r] = "fences" /\ Sidecar
    /\ \E i \in Fences(source[r]) :
        /\ Current(r, i)
        /\ IF cache[DiagramAt(r, i)] # NoSVG
           THEN /\ slots' = [slots EXCEPT ![r] = WithSlot(r, i, cache[DiagramAt(r, i)])]
                /\ at' = at
           ELSE at' = [at EXCEPT ![r] = "asking"] /\ slots' = slots
    /\ UNCHANGED <<cache, source, html>>

\* Mutant: the status is not looked at.
AnyStatus(body) == TRUE
StatusOK(body) == body # ErrorPage

\* The sidecar answers, with the drawing or with an error page; a drawing goes
\* into the cache, under the lock, and into the slot.
Fill(r) ==
    /\ at[r] = "asking"
    /\ \E i \in Fences(source[r]) : \E body \in {Svg(DiagramAt(r, i)), ErrorPage} :
        /\ Current(r, i) /\ StatusOK(body)
        /\ cache' = [cache EXCEPT ![DiagramAt(r, i)] = body]
        /\ slots' = [slots EXCEPT ![r] = WithSlot(r, i, body)]
    /\ at' = [at EXCEPT ![r] = "fences"]
    /\ UNCHANGED <<source, html>>

Failed(r) ==
    /\ at' = [at EXCEPT ![r] = "failed"]
    /\ UNCHANGED <<cache, source, slots, html>>

\* The sidecar answers with an error, or not at all: a refused connection, the
\* thirty seconds of the client, the end of the request's own context.
SidecarFails(r) == at[r] = "asking" /\ Failed(r)

\* All fences are done, or stay code because there is no sidecar.
FencesDone(r) == Sidecar => Fences(source[r]) \subseteq DOMAIN slots[r]

\* The renderer meets a directive it refuses.
DirectiveFails(r) ==
    /\ at[r] = "fences" /\ FencesDone(r)
    /\ \E i \in DOMAIN source[r] : Refused(source[r][i])
    /\ Failed(r)

\* goldmark renders, the sanitizer sanitizes, the figures go in.
Emit(r, default) ==
    /\ at[r] = "fences" /\ FencesDone(r)
    /\ \A i \in DOMAIN source[r] : ~Refused(source[r][i])
    /\ html' = [html EXCEPT ![r] = Rendered(source[r], slots[r], default)]
    /\ at' = [at EXCEPT ![r] = "done"]
    /\ UNCHANGED <<cache, source, slots>>

\* The caller has what Render returned, and nothing of the call is left.
Return(r) ==
    /\ at[r] \in {"done", "failed"}
    /\ at' = [at EXCEPT ![r] = "idle"]
    /\ source' = [source EXCEPT ![r] = NoDoc]
    /\ slots' = [slots EXCEPT ![r] = <<>>]
    /\ html' = [html EXCEPT ![r] = <<>>]
    /\ UNCHANGED cache

RenderStep(r, default) ==
    LookUp(r) \/ Fill(r) \/ SidecarFails(r) \/ DirectiveFails(r) \/ Emit(r, default)

-----------------------------------------------------------------------------
(* What must hold *)

\* The page of a document, as a function of the document alone.
PageOf(doc, default) ==
    Rendered(doc, [i \in IF Sidecar THEN Fences(doc) ELSE {} |-> Svg(doc[i].diagram)], default)

\* Whatever other renders put into the cache meanwhile, and whichever failed, a
\* render that succeeds is the page of its document, with every diagram's own
\* drawing at its own place: a preview shows what a save will store.
RenderIsPure ==
    \A r \in Renders : at[r] = "done" =>
        /\ html[r] = PageOf(source[r], NoLang)
        /\ Sidecar => \A i \in Fences(source[r]) : html[r][i] = Figure(Svg(DiagramAt(r, i)))

HeadingsOf(page) == {i \in DOMAIN page : page[i].kind = "heading"}

\* "Every heading gets a text-derived id (deduplicated with -2 suffixes)"
\* (anchors.go:15-16): two headings of a page share an id only when the author
\* wrote the later one's out, so the link of a derived id leads to its heading
\* unless a later explicit id repeats it.
DerivedIdsFresh ==
    \A r \in Renders : at[r] = "done" =>
        \A i, j \in HeadingsOf(html[r]) :
            i < j /\ html[r][i].id = html[r][j].id => source[r][j].id # NoId

Chapters(doc) == {i \in DOMAIN doc : IsChapter(doc[i])}

\* What the outline of a page in the docs navigation says is so: each entry has the
\* title of an h2 and the label of its chip, which is its number among all of them,
\* found or not; the entries come in order; the link of an id that was derived from
\* the text leads to that h2, for no heading above it has the same id.  The outline
\* is the whole of a document whose author gave no h2 more than an id.
OutlineTruthful ==
    \A r \in Renders : at[r] = "done" =>
        LET outline == ExtractSections(html[r])
            chapters == Chapters(source[r])
        IN  /\ \A n \in DOMAIN outline : \E i \in chapters :
                   /\ outline[n].title = source[r][i].text
                   /\ outline[n].label = Cardinality({j \in chapters : j <= i})
                   /\ outline[n].id = html[r][i].id
                   /\ source[r][i].id = NoId =>
                        \A j \in HeadingsOf(html[r]) : j < i => html[r][j].id # outline[n].id
            /\ \A m, n \in DOMAIN outline : m < n => outline[m].label < outline[n].label
            /\ (\A i \in chapters : source[r][i].attrs = {}) => Len(outline) = Cardinality(chapters)

\* "One <li data-title> per h2" (ui/design-system.md:559-560): the outline has as
\* many entries as the document has h2 headings.
OutlinePerChapter ==
    \A r \in Renders : at[r] = "done" =>
        Len(ExtractSections(html[r])) = Cardinality(Chapters(source[r]))
=============================================================================
