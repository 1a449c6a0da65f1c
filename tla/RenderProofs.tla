---------------------------- MODULE RenderProofs ----------------------------
(***************************************************************************)
(* Whatever the editor pages, the saves and the sidecar do, a render that  *)
(* succeeds is the page of its document: RenderIsPure, for any number of   *)
(* previews beside the form, any documents, any diagrams and any history   *)
(* of the cache.  The strengthening says that the cache holds, for each    *)
(* diagram, nothing or its own drawing, and each slot the drawing of the   *)
(* fence at its position.  On it rest what the editor's page says and what *)
(* becomes of the author's text: PageTellsTruth and EditsSurvive.          *)
(***************************************************************************)
EXTENDS EditorPage, FiniteSetTheorems, TLAPS

\* The cache is never poisoned: no failure and no other diagram gets in.
CacheInv ==
    /\ DOMAIN cache = Diagrams
    /\ \A d \in Diagrams : cache[d] \in {NoSVG, Svg(d)}

\* The slots of r, filled so far.
SlotsOf(r) ==
    /\ slots[r] = [i \in DOMAIN slots[r] |-> Svg(DiagramAt(r, i))]
    /\ DOMAIN slots[r] \subseteq Fences(source[r])
    /\ ~Sidecar => DOMAIN slots[r] = {}

RunInv(r) ==
    /\ at[r] # "idle" => source[r] \in Documents
    /\ at[r] \in {"fences", "asking"} => SlotsOf(r)
    /\ at[r] = "idle" => slots[r] = <<>>
    /\ at[r] = "done" => html[r] = PageOf(source[r], NoLang)

Domains ==
    /\ DOMAIN at = Renders /\ DOMAIN source = Renders
    /\ DOMAIN slots = Renders /\ DOMAIN html = Renders

RenderInv == CacheInv /\ Domains /\ \A r \in Renders : RunInv(r)

\* The texts of the editor are documents.
TextInv ==
    /\ "body" \in DOMAIN article /\ article.body \in Documents
    /\ "text" \in DOMAIN page /\ page.text \in Documents
    /\ mode = "posting" => posted.body \in Documents
    /\ "body" \in DOMAIN posted

-----------------------------------------------------------------------------
(* The operators *)

\* A fence names a diagram.
LEMMA FenceDiagram ==
    ASSUME NEW doc \in Documents, NEW i \in Fences(doc)
    PROVE  doc[i].diagram \in Diagrams
BY RenderAssumption DEF Fences

\* The body of an answer that is let through is the drawing.
LEMMA OnlyDrawings ==
    ASSUME NEW d, NEW body \in {Svg(d), ErrorPage}, StatusOK(body)
    PROVE  body = Svg(d)
BY DEF StatusOK

\* In the page of a document every fence has become the figure of its drawing.
LEMMA FenceFigures ==
    ASSUME NEW doc \in Documents, NEW lang, Sidecar, NEW i \in Fences(doc)
    PROVE  PageOf(doc, lang)[i] = Figure(Svg(doc[i].diagram))
<1> DEFINE svgs == [j \in Fences(doc) |-> Svg(doc[j].diagram)]
           ids == HeadingIds(doc)
           page0 == [j \in DOMAIN doc |-> Emitted(doc, ids, j, DOMAIN svgs, lang)]
<1>1. i \in DOMAIN doc /\ doc[i].kind = "fence" /\ i \in DOMAIN svgs
  BY DEF Fences
<1>2. Emitted(doc, ids, i, DOMAIN svgs, lang) = Token(i, doc[i].diagram)
  BY <1>1 DEF Emitted
<1>3. page0[i].kind = "token" /\ page0[i].n = i
  BY <1>1, <1>2 DEF Token
<1>4. Spliced(page0, svgs)[i] = Figure(svgs[i])
  BY <1>1, <1>3 DEF Spliced
<1>5. PageOf(doc, lang) = Spliced(page0, svgs)
  BY DEF PageOf, Rendered
<1>6. svgs[i] = Svg(doc[i].diagram)
  BY <1>1
<1> QED
  BY <1>4, <1>5, <1>6

-----------------------------------------------------------------------------
(* Each step of a render *)

LEMMA OthersKeep ==
    ASSUME NEW r \in Renders, RunInv(r),
           at'[r] = at[r], source'[r] = source[r], slots'[r] = slots[r], html'[r] = html[r]
    PROVE  RunInv(r)'
BY DEF RunInv, SlotsOf, DiagramAt

LEMMA BeginKeeps ==
    ASSUME RenderInv, NEW r \in Renders, NEW doc \in Documents, Begin(r, doc)
    PROVE  RenderInv'
<1>1. CacheInv' /\ Domains'
  BY DEF RenderInv, CacheInv, Domains, Begin
<1>2. RunInv(r)'
  <2>1. at'[r] = "fences" /\ source'[r] = doc /\ slots'[r] = <<>>
    BY DEF Begin, RenderInv, Domains, RunInv
  <2>2. DOMAIN slots'[r] = {} /\ slots'[r] = [i \in DOMAIN slots'[r] |-> Svg(source'[r][i].diagram)]
    BY <2>1
  <2> QED
    BY <2>1, <2>2 DEF RunInv, SlotsOf, DiagramAt
<1>3. ASSUME NEW s \in Renders \ {r} PROVE RunInv(s)'
  BY OthersKeep DEF RenderInv, Domains, Begin
<1> QED
  BY <1>1, <1>2, <1>3 DEF RenderInv

\* A slot that gets the drawing of its fence.
LEMMA SlotFilled ==
    ASSUME NEW r \in Renders, SlotsOf(r), Sidecar, NEW i \in Fences(source[r]),
           source'[r] = source[r], slots'[r] = WithSlot(r, i, Svg(DiagramAt(r, i)))
    PROVE  SlotsOf(r)'
BY DEF SlotsOf, WithSlot, DiagramAt

LEMMA LookUpKeeps ==
    ASSUME RenderInv, NEW r \in Renders, LookUp(r)
    PROVE  RenderInv'
<1>1. PICK i \in Fences(source[r]) :
        IF cache[DiagramAt(r, i)] # NoSVG
        THEN /\ slots' = [slots EXCEPT ![r] = WithSlot(r, i, cache[DiagramAt(r, i)])]
             /\ at' = at
        ELSE at' = [at EXCEPT ![r] = "asking"] /\ slots' = slots
  BY DEF LookUp
<1>2. CacheInv' /\ Domains'
  BY <1>1 DEF RenderInv, CacheInv, Domains, LookUp
<1>3. source[r] \in Documents /\ DiagramAt(r, i) \in Diagrams /\ SlotsOf(r)
  BY FenceDiagram DEF RenderInv, RunInv, LookUp, DiagramAt
<1>4. RunInv(r)'
  <2>1. CASE cache[DiagramAt(r, i)] # NoSVG
    <3>1. cache[DiagramAt(r, i)] = Svg(DiagramAt(r, i))
      BY <1>3, <2>1 DEF RenderInv, CacheInv
    <3>2. slots'[r] = WithSlot(r, i, Svg(DiagramAt(r, i))) /\ source' = source
      BY <1>1, <2>1, <3>1 DEF LookUp, RenderInv, Domains
    <3>3. SlotsOf(r)'
      BY <1>3, <3>2, SlotFilled DEF LookUp
    <3> QED
      BY <1>1, <1>3, <2>1, <3>2, <3>3 DEF RunInv, LookUp
  <2>2. CASE cache[DiagramAt(r, i)] = NoSVG
    BY <1>1, <1>3, <2>2 DEF RunInv, LookUp, RenderInv, Domains, SlotsOf, DiagramAt
  <2> QED
    BY <2>1, <2>2
<1>5. ASSUME NEW s \in Renders \ {r} PROVE RunInv(s)'
  BY <1>1, OthersKeep DEF RenderInv, Domains, LookUp
<1> QED
  BY <1>2, <1>4, <1>5 DEF RenderInv

LEMMA FillKeeps ==
    ASSUME RenderInv, NEW r \in Renders, Fill(r), Sidecar
    PROVE  RenderInv'
<1>1. PICK i \in Fences(source[r]) :
        /\ cache' = [cache EXCEPT ![DiagramAt(r, i)] = Svg(DiagramAt(r, i))]
        /\ slots' = [slots EXCEPT ![r] = WithSlot(r, i, Svg(DiagramAt(r, i)))]
  <2>1. PICK i \in Fences(source[r]) : \E body \in {Svg(DiagramAt(r, i)), ErrorPage} :
          /\ StatusOK(body)
          /\ cache' = [cache EXCEPT ![DiagramAt(r, i)] = body]
          /\ slots' = [slots EXCEPT ![r] = WithSlot(r, i, body)]
    BY DEF Fill
  <2>2. PICK body \in {Svg(DiagramAt(r, i)), ErrorPage} :
          /\ StatusOK(body)
          /\ cache' = [cache EXCEPT ![DiagramAt(r, i)] = body]
          /\ slots' = [slots EXCEPT ![r] = WithSlot(r, i, body)]
    BY <2>1
  <2>3. body = Svg(DiagramAt(r, i))
    BY <2>2, OnlyDrawings
  <2> QED
    BY <2>2, <2>3
<1>2. at' = [at EXCEPT ![r] = "fences"] /\ source' = source /\ html' = html
  BY DEF Fill
<1>3. CacheInv'
  BY <1>1 DEF RenderInv, CacheInv
<1>4. Domains'
  BY <1>1, <1>2 DEF RenderInv, Domains
<1>5. source[r] \in Documents /\ SlotsOf(r)
  BY DEF RenderInv, RunInv, Fill
<1>6. SlotsOf(r)'
  BY <1>1, <1>2, <1>5, SlotFilled DEF RenderInv, Domains
<1>7. RunInv(r)'
  BY <1>2, <1>5, <1>6 DEF RunInv, RenderInv, Domains
<1>8. ASSUME NEW s \in Renders \ {r} PROVE RunInv(s)'
  BY <1>1, <1>2, OthersKeep DEF RenderInv, Domains
<1> QED
  BY <1>3, <1>4, <1>7, <1>8 DEF RenderInv

LEMMA FailedKeeps ==
    ASSUME RenderInv, NEW r \in Renders, at[r] # "idle", Failed(r)
    PROVE  RenderInv'
<1>1. CacheInv' /\ Domains'
  BY DEF RenderInv, CacheInv, Domains, Failed
<1>2. RunInv(r)'
  BY DEF RenderInv, Domains, RunInv, Failed
<1>3. ASSUME NEW s \in Renders \ {r} PROVE RunInv(s)'
  BY OthersKeep DEF RenderInv, Domains, Failed
<1> QED
  BY <1>1, <1>2, <1>3 DEF RenderInv

\* Once all fences are done, the slots are the drawings of the document.
LEMMA EmitKeeps ==
    ASSUME RenderInv, NEW r \in Renders, Emit(r, NoLang)
    PROVE  RenderInv'
<1>1. CacheInv' /\ Domains'
  BY DEF RenderInv, CacheInv, Domains, Emit
<1>2. source[r] \in Documents /\ SlotsOf(r)
  BY DEF RenderInv, RunInv, Emit
<1> DEFINE doc == source[r]
           fences == IF Sidecar THEN Fences(doc) ELSE {}
<1>3. DOMAIN slots[r] = fences
  BY <1>2 DEF SlotsOf, Emit, FencesDone
<1>4. slots[r] = [i \in fences |-> Svg(doc[i].diagram)]
  BY <1>2, <1>3 DEF SlotsOf, DiagramAt
<1>5. Rendered(doc, slots[r], NoLang) = PageOf(doc, NoLang)
  BY <1>4 DEF PageOf
<1>6. RunInv(r)'
  BY <1>2, <1>5 DEF RunInv, Emit, RenderInv, Domains
<1>7. ASSUME NEW s \in Renders \ {r} PROVE RunInv(s)'
  BY OthersKeep DEF RenderInv, Domains, Emit
<1> QED
  BY <1>1, <1>6, <1>7 DEF RenderInv

LEMMA ReturnKeeps ==
    ASSUME RenderInv, NEW r \in Renders, Return(r)
    PROVE  RenderInv'
<1>1. CacheInv' /\ Domains'
  BY DEF RenderInv, CacheInv, Domains, Return
<1>2. RunInv(r)'
  BY DEF RenderInv, Domains, RunInv, Return
<1>3. ASSUME NEW s \in Renders \ {r} PROVE RunInv(s)'
  BY OthersKeep DEF RenderInv, Domains, Return
<1> QED
  BY <1>1, <1>2, <1>3 DEF RenderInv

LEMMA StutterKeeps == ASSUME RenderInv, UNCHANGED renderVars PROVE RenderInv'
<1>1. CacheInv' /\ Domains'
  BY DEF RenderInv, CacheInv, Domains, renderVars
<1>2. ASSUME NEW s \in Renders PROVE RunInv(s)'
  BY OthersKeep DEF RenderInv, renderVars
<1> QED
  BY <1>1, <1>2 DEF RenderInv

\* A render asks the sidecar only when there is one.
LEMMA StepKeeps ==
    ASSUME RenderInv, NEW r \in Renders, RenderStep(r, NoLang), at[r] = "asking" => Sidecar
    PROVE  RenderInv'
<1>1. CASE LookUp(r)
  BY <1>1, LookUpKeeps
<1>2. CASE Fill(r)
  BY <1>2, FillKeeps DEF Fill
<1>3. CASE SidecarFails(r)
  BY <1>3, FailedKeeps DEF SidecarFails
<1>4. CASE DirectiveFails(r)
  BY <1>4, FailedKeeps DEF DirectiveFails
<1>5. CASE Emit(r, NoLang)
  BY <1>5, EmitKeeps
<1> QED
  BY <1>1, <1>2, <1>3, <1>4, <1>5 DEF RenderStep

-----------------------------------------------------------------------------
(* The whole editor *)

Inv == RenderInv /\ TextInv /\ \A r \in Renders : at[r] = "asking" => Sidecar

LEMMA InitInv == Init => Inv
<1> SUFFICES ASSUME Init PROVE Inv
  OBVIOUS
<1>1. CacheInv /\ Domains
  BY DEF Init, RenderInit, CacheInv, Domains
<1>2. ASSUME NEW r \in Renders PROVE RunInv(r) /\ at[r] = "idle"
  BY DEF Init, RenderInit, RunInv
<1>3. TextInv
  BY EditorAssumption DEF Init, TextInv, FreshPage, NoPost
<1> QED
  BY <1>1, <1>2, <1>3 DEF Inv, RenderInv

\* Sidecar calls are made by LookUp alone.
LEMMA AskingKeeps ==
    ASSUME Inv, Next
    PROVE  \A r \in Renders : at'[r] = "asking" => Sidecar
<1>1. at' = at \/ \E r \in Renders : \E place \in {"fences", "done", "failed", "idle"} :
                     at' = [at EXCEPT ![r] = place]
                  \/ (Sidecar /\ at' = [at EXCEPT ![r] = "asking"])
  <2> QED
    BY EditorAssumption
       DEF Next, Type, ClickPreview, PreviewArrives, PreviewFails, Abandoned, RenderStep,
           Submit, Commit, Publish, PreviewPosted, Redirect, PostFails, GiveUp, SignInPage,
           Open, OtherAuthor, Begin, LookUp, Fill, Failed, SidecarFails, DirectiveFails, Emit,
           Return, renderVars
<1> QED
  BY <1>1 DEF Inv, RenderInv, Domains

LEMMA TextKeeps == ASSUME Inv, [Next]_vars PROVE TextInv'
<1> USE DEF Inv, TextInv
<1>1. ASSUME NEW body \in Documents, Type(body) PROVE TextInv'
  BY <1>1 DEF Type, MarkUnsaved
<1>2. ASSUME NEW r \in Fetches, ClickPreview(r) PROVE TextInv'
  BY <1>2 DEF ClickPreview, InFlight
<1>3. ASSUME NEW r \in Fetches, PreviewArrives(r) PROVE TextInv'
  BY <1>3 DEF PreviewArrives, Back
<1>4. ASSUME NEW r \in Fetches, PreviewFails(r) PROVE TextInv'
  BY <1>4 DEF PreviewFails, Back
<1>5. ASSUME NEW r \in Renders, Abandoned(r) PROVE TextInv'
  BY <1>5 DEF Abandoned, pageVars
<1>6. ASSUME NEW action, Submit(action) PROVE TextInv'
  BY <1>6 DEF Submit
<1>7. CASE Commit
  BY <1>7 DEF Commit, Saved
<1>8. CASE Publish
  BY <1>8 DEF Publish
<1>9. CASE PreviewPosted
  BY <1>9 DEF PreviewPosted, Load, PreviewPage, FreshPage, NoPost
<1>10. CASE Redirect
  BY <1>10 DEF Redirect, Load, FreshPage, NoPost
<1>11. CASE PostFails \/ SignInPage \/ GiveUp
  BY <1>11 DEF PostFails, SignInPage, GiveUp, NoPost
<1>12. CASE Open
  BY <1>12 DEF Open, Load, FreshPage, NoPost
<1>13. CASE OtherAuthor
  BY <1>13 DEF OtherAuthor, pageVars
<1>14. CASE UNCHANGED <<article, page, mode, posted>>
  BY <1>14
<1> QED
  BY <1>1, <1>2, <1>3, <1>4, <1>5, <1>6, <1>7, <1>8, <1>9, <1>10, <1>11, <1>12,
     <1>13, <1>14 DEF Next, vars, pageVars

LEMMA RenderKeeps == ASSUME Inv, [Next]_vars PROVE RenderInv'
<1> USE EditorAssumption DEF Inv
<1>1. ASSUME NEW r \in Fetches, ClickPreview(r) PROVE RenderInv'
  BY <1>1, BeginKeeps, StutterKeeps DEF ClickPreview, TextInv
<1>2. ASSUME NEW r \in Fetches, PreviewArrives(r) \/ PreviewFails(r) PROVE RenderInv'
  BY <1>2, ReturnKeeps, StutterKeeps DEF PreviewArrives, PreviewFails
<1>3. ASSUME NEW r \in Renders, Abandoned(r) PROVE RenderInv'
  BY <1>3, ReturnKeeps DEF Abandoned
<1>4. ASSUME NEW r \in Renders, RenderStep(r, NoLang) PROVE RenderInv'
  BY <1>4, StepKeeps
<1>5. ASSUME NEW action, Submit(action) PROVE RenderInv'
  BY <1>5, BeginKeeps, StutterKeeps DEF Submit, TextInv
<1>6. CASE Commit \/ PreviewPosted
  BY <1>6, ReturnKeeps DEF Commit, PreviewPosted
<1>7. CASE UNCHANGED renderVars
  BY <1>7, StutterKeeps
<1> QED
  BY <1>1, <1>2, <1>3, <1>4, <1>5, <1>6, <1>7
     DEF Next, vars, Type, Publish, Redirect, PostFails, GiveUp, SignInPage, Open,
         OtherAuthor

LEMMA InvKeeps == Inv /\ [Next]_vars => Inv'
<1> SUFFICES ASSUME Inv, [Next]_vars PROVE Inv'
  OBVIOUS
<1>1. \A r \in Renders : at'[r] = "asking" => Sidecar
  <2>1. CASE Next
    BY <2>1, AskingKeeps
  <2>2. CASE UNCHANGED vars
    BY <2>2 DEF vars, renderVars, Inv
  <2> QED
    BY <2>1, <2>2
<1> QED
  BY <1>1, TextKeeps, RenderKeeps DEF Inv

\* The strengthening is an invariant of every behaviour of the editor.
THEOREM RenderInvariant == Spec => []Inv
BY InitInv, InvKeeps, PTL DEF Spec

\* A render that succeeds is the page of its document, every diagram in its place,
\* whatever other renders and failures of the sidecar came before or beside it.
THEOREM RendersArePure == Spec => []RenderIsPure
<1>1. Inv => RenderIsPure
  <2> SUFFICES ASSUME Inv, NEW r \in Renders, at[r] = "done"
               PROVE  /\ html[r] = PageOf(source[r], NoLang)
                      /\ Sidecar => \A i \in Fences(source[r]) :
                                        html[r][i] = Figure(Svg(DiagramAt(r, i)))
    BY DEF RenderIsPure
  <2>1. html[r] = PageOf(source[r], NoLang) /\ source[r] \in Documents
    BY DEF Inv, RenderInv, RunInv
  <2> QED
    BY <2>1, FenceFigures DEF DiagramAt
<1> QED
  BY RenderInvariant, <1>1, PTL

-----------------------------------------------------------------------------
(* What the page says, and what becomes of the text *)

PageFields == {"base", "text", "chip", "saveOn", "status", "pane", "previewOn", "published"}

Fields ==
    /\ DOMAIN page = PageFields
    /\ DOMAIN article = {"body", "html", "published"}
    /\ DOMAIN posted = {"action", "body", "row", "stage"}

\* What is stored is a text with its render; a form is rendered as posted.
StoredInv ==
    /\ article.html = PageOf(article.body, NoLang)
    /\ mode = "posting" /\ posted.stage = "render" /\ at[Form] # "idle" =>
           source[Form] = posted.body

\* A page waits for one preview, of the text it asked for last.
FetchInv ==
    /\ \A r, s \in fetching : r = s
    /\ fetching \subseteq Fetches
    /\ fetching # {} => ~page.previewOn
    /\ \A r \in fetching : at[r] # "idle" => source[r] = asked

PaneInv ==
    /\ js /\ page.chip = "saved" => page.text = page.base
    /\ page.status = "from last save" => page.pane = PageOf(page.base, NoLang)
    /\ js /\ page.status = "just now" /\ page.previewOn => page.pane = PageOf(asked, NoLang)

\* How a posted form, the page it was posted from and the row belong together.
PostInv ==
    mode = "posting" =>
        /\ posted.stage \in {"render", "publish", "redirect"}
        /\ posted.action = "preview" => posted.stage = "render" /\ ~js
        /\ ~late => page.text = posted.body
        /\ posted.stage # "render" /\ posted.action # "unpublish" /\ ~raced =>
               article.body = posted.body

TruthInv == Fields /\ StoredInv /\ FetchInv /\ PaneInv /\ PostInv

FullInv == Inv /\ TruthInv

LEMMA InitTruth == Init => TruthInv
<1> SUFFICES ASSUME Init PROVE TruthInv
  OBVIOUS
<1>1. article.body = FirstBody /\ article.html = PageOf(FirstBody, NoLang) /\ mode = "editor"
  BY DEF Init
<1>2. Fields
  BY DEF Init, Fields, FreshPage, NoPost, PageFields
<1>3. page.base = FirstBody /\ page.text = FirstBody /\ page.pane = PageOf(FirstBody, NoLang)
      /\ page.status = "from last save"
  BY <1>1 DEF Init, FreshPage
<1>4. fetching = {}
  BY DEF Init
<1> QED
  BY <1>1, <1>2, <1>3, <1>4 DEF TruthInv, StoredInv, FetchInv, PaneInv, PostInv

\* A render that goes on, ends or is abandoned keeps its document, unless no page
\* waits for it.
LEMMA SourceKept ==
    ASSUME Inv, NEW r \in Renders, RenderStep(r, NoLang)
    PROVE  source' = source /\ \A s \in Renders : at'[s] # "idle" => at[s] # "idle"
BY DEF RenderStep, LookUp, Fill, SidecarFails, DirectiveFails, Failed, Emit, Inv, RenderInv, Domains

\* A page that is loaded shows the row.
LEMMA LoadTrue ==
    ASSUME TruthInv, article' = article, js' = js, Load(FreshPage(article))
    PROVE  TruthInv'
BY DEF TruthInv, Fields, StoredInv, FetchInv, PaneInv, PostInv, Load, FreshPage, NoPost, PageFields

LEMMA TruthKeeps == ASSUME FullInv, [Next]_vars PROVE TruthInv'
<1> USE EditorAssumption DEF FullInv, TruthInv, Fields, StoredInv, FetchInv, PaneInv, PostInv, PageFields
<1>0. Domains /\ \A r \in Renders : at[r] = "done" => html[r] = PageOf(source[r], NoLang)
  BY DEF Inv, RenderInv, RunInv
<1>1. ASSUME NEW body \in Documents, Type(body) PROVE TruthInv'
  BY <1>1 DEF Type, MarkUnsaved, renderVars
<1>2. ASSUME NEW r \in Fetches, ClickPreview(r) PROVE TruthInv'
  <2>1. at[r] = "idle" /\ fetching = {} /\ fetching' = {r} /\ asked' = page.text /\ r # Form
    BY <1>2 DEF ClickPreview
  <2>2. page' = [page EXCEPT !.status = "rendering", !.previewOn = FALSE]
    BY <1>2 DEF ClickPreview, InFlight
  <2>3. \/ source' = [source EXCEPT ![r] = page.text] /\ at' = [at EXCEPT ![r] = "fences"]
        \/ at' = at /\ source' = source
    BY <1>2 DEF ClickPreview, Begin, renderVars
  <2>4. at'[r] # "idle" => source'[r] = asked'
    BY <1>0, <2>1, <2>3 DEF Domains
  <2>5. source'[Form] = source[Form] /\ at'[Form] = at[Form]
    BY <1>0, <2>1, <2>3 DEF Domains
  <2>6. FetchInv'
    BY <2>1, <2>2, <2>4
  <2> QED
    BY <1>2, <2>2, <2>5, <2>6 DEF ClickPreview
<1>3. ASSUME NEW r \in Fetches, PreviewArrives(r) PROVE TruthInv'
  BY <1>0, <1>3 DEF PreviewArrives, Back, Return, Domains, histories
<1>4. ASSUME NEW r \in Fetches, PreviewFails(r) PROVE TruthInv'
  BY <1>0, <1>4 DEF PreviewFails, Back, Return, Domains, renderVars, histories
<1>5. ASSUME NEW r \in Renders, Abandoned(r) PROVE TruthInv'
  BY <1>0, <1>5 DEF Abandoned, Return, Domains, pageVars, histories
<1>6. ASSUME NEW r \in Renders, RenderStep(r, NoLang),
             UNCHANGED <<article, pageVars, histories, bounds>>
      PROVE  TruthInv'
  BY <1>6, SourceKept DEF pageVars, histories
<1>7. ASSUME NEW action \in {"save", "publish", "unpublish", "preview"}, Submit(action)
      PROVE  TruthInv'
  <2>1. posted' = [action |-> action, body |-> page.text, row |-> article,
                   stage |-> IF action = "unpublish" THEN "publish" ELSE "render"]
    BY <1>7 DEF Submit
  <2>2. UNCHANGED <<article, js, page, fetching, asked>>
    BY <1>7 DEF Submit
  <2>3. action = "preview" => ~js
    BY <1>7 DEF Submit, Enabled
  <2>4. CASE UNCHANGED renderVars
    <3>1. at'[Form] = "idle"
      BY <1>7, <2>4 DEF Submit, renderVars
    <3> QED
      BY <2>1, <2>2, <2>3, <2>4, <3>1 DEF renderVars
  <2>5. CASE action # "unpublish" /\ Begin(Form, page.text)
    <3>1. Begin(Form, page.text)
      BY <2>5
    <3>2. source'[Form] = page.text /\ \A r \in Fetches : at'[r] = at[r] /\ source'[r] = source[r]
      BY <1>0, <3>1 DEF Begin, Domains
    <3> QED
      BY <2>1, <2>2, <2>3, <2>5, <3>2
  <2> QED
    BY <1>7, <2>4, <2>5 DEF Submit
<1>8. CASE Commit
  BY <1>0, <1>8 DEF Commit, Saved, Return, Domains
<1>9. CASE Publish
  BY <1>9 DEF Publish, renderVars, histories
<1>10. CASE PreviewPosted
  <2>1. Load(PreviewPage(posted.row, posted.body, html[Form])) /\ ~js /\ UNCHANGED <<article, js>>
    BY <1>10 DEF PreviewPosted
  <2>2. DOMAIN page' = PageFields /\ DOMAIN posted' = {"action", "body", "row", "stage"}
    BY <2>1 DEF Load, PreviewPage, FreshPage, NoPost
  <2>3. page'.status = "just now" /\ mode' = "editor" /\ fetching' = {}
    BY <2>1 DEF Load, PreviewPage, FreshPage
  <2> QED
    BY <2>1, <2>2, <2>3
<1>11. CASE Redirect \/ Open
  BY <1>11, LoadTrue DEF Redirect, Open
<1>12. CASE PostFails \/ SignInPage \/ GiveUp
  <2>1. mode' # "posting" /\ (fetching' = {} \/ fetching' = fetching)
    BY <1>12 DEF PostFails, SignInPage, GiveUp
  <2>2. UNCHANGED <<article, js, page, asked, renderVars>> /\ posted' = NoPost
    BY <1>12 DEF PostFails, SignInPage, GiveUp, histories
  <2> QED
    BY <2>1, <2>2 DEF NoPost, renderVars
<1>13. CASE OtherAuthor
  <2>1. UNCHANGED <<renderVars, pageVars, asked, late>>
    BY <1>13 DEF OtherAuthor
  <2>2. Fields' /\ article'.html = PageOf(article'.body, NoLang)
    BY <1>13, <2>1 DEF OtherAuthor, pageVars
  <2>3. (article'.body = article.body /\ raced' = raced) \/ mode # "posting" \/ raced'
    BY <1>13 DEF OtherAuthor
  <2> QED
    BY <2>1, <2>2, <2>3 DEF renderVars, pageVars
<1>14. CASE UNCHANGED vars
  BY <1>14 DEF vars, pageVars, renderVars, histories
<1> QED
  BY <1>1, <1>2, <1>3, <1>4, <1>5, <1>6, <1>7, <1>8, <1>9, <1>10, <1>11, <1>12,
     <1>13, <1>14 DEF Next

\* The strengthening of PageTruthful and EditsKept is an invariant.
THEOREM TruthInvariant == Spec => []FullInv
<1>1. Init => FullInv
  BY InitInv, InitTruth DEF FullInv
<1>2. FullInv /\ [Next]_vars => FullInv'
  BY InvKeeps, TruthKeeps DEF FullInv
<1> QED
  BY <1>1, <1>2, PTL DEF Spec

\* The editor's chip, status and pane are true, whatever previews were asked for,
\* answered, failed or left behind, for any texts, edits and number of fetches.
THEOREM PageTruthful == Spec => []PageTellsTruth
<1>1. FullInv => PageTellsTruth
  BY DEF FullInv, TruthInv, PaneInv, PageTellsTruth
<1> QED
  BY TruthInvariant, <1>1, PTL

\* No unsaved text is lost but in the cases that EditsSurvive names.
THEOREM EditsKept == Spec => EditsSurvive
<1>1. FullInv /\ [Next]_vars =>
        [Reloaded => (page'.text = page.text \/ late \/ posted.action = "unpublish"
                          \/ raced)]_vars
  <2> SUFFICES ASSUME FullInv, Next, Reloaded, ~late, posted.action # "unpublish", ~raced
               PROVE  page'.text = page.text
    BY DEF vars
  <2>1. CASE Redirect
    BY <2>1 DEF Redirect, Load, FreshPage, Reloaded, FullInv, TruthInv, PostInv
  <2>2. CASE PreviewPosted
    BY <2>2 DEF PreviewPosted, Load, PreviewPage, FreshPage, Reloaded
  <2>3. CASE mode' = mode \/ mode # "posting" \/ mode' # "editor" \/ page' = page
    BY <2>3 DEF Reloaded
  <2> QED
    BY <2>1, <2>2, <2>3
       DEF Next, Type, ClickPreview, PreviewArrives, PreviewFails, Abandoned, Submit,
           Commit, Publish, PostFails, GiveUp, SignInPage, Open, OtherAuthor, pageVars
<1> QED
  BY TruthInvariant, <1>1, PTL DEF Spec, EditsSurvive

-----------------------------------------------------------------------------
(* Induction.  The induction theorems of the library take an operator, which   *)
(* none of the provers can supply; a set of numbers does as well.              *)

LessNat == {p \in Nat \X Nat : p[1] < p[2]}

\* A set of natural numbers that is not empty has a least element.
LEMMA LeastNat ==
    ASSUME NEW S, S \subseteq Nat, S # {}
    PROVE  \E x \in S : \A y \in S : x <= y
<1>1. OpToRel(<, Nat) = LessNat
  BY DEF OpToRel, LessNat
<1>2. IsWellFoundedOn(LessNat, Nat)
  BY <1>1, NatLessThanWellFounded, Zenon
<1>3. PICK x \in S : \A y \in S : ~(<<y, x>> \in LessNat)
  BY <1>2, WFMin
<1>4. ASSUME NEW y \in S
      PROVE  x <= y
  <2>1. x \in Nat /\ y \in Nat
    OBVIOUS
  <2>2. ~(<<y, x>> \in LessNat)
    BY <1>3
  <2>3. <<y, x>> \in LessNat <=> y < x
    BY <2>1 DEF LessNat
  <2>4. QED
    BY <2>1, <2>2, <2>3
<1>5. QED
  BY <1>4

\* A set that holds 0 and, with a number below n, the next one, holds 0..n.
LEMMA InductionTo ==
    ASSUME NEW n \in Nat, NEW S, 0 \in S, \A i \in 0..(n - 1) : i \in S => i + 1 \in S
    PROVE  \A i \in 0..n : i \in S
<1> SUFFICES ASSUME (0..n) \ S # {}
             PROVE  FALSE
  OBVIOUS
<1>1. PICK x \in (0..n) \ S : \A y \in (0..n) \ S : x <= y
  <2>1. (0..n) \ S \subseteq Nat
    OBVIOUS
  <2>2. QED
    BY <2>1, LeastNat
<1>2. x \in 1..n /\ x - 1 \in 0..(n - 1) /\ (x - 1) + 1 = x
  BY <1>1
<1>3. x - 1 \notin S
  BY <1>1, <1>2
<1>4. x - 1 \in (0..n) \ S
  BY <1>2, <1>3
<1>5. x <= x - 1
  BY <1>1, <1>4
<1>6. QED
  BY <1>2, <1>5

-----------------------------------------------------------------------------
(* Lists *)

LEMMA ListElements ==
    ASSUME NEW s, IsList(s)
    PROVE  /\ s \in Seq({s[n] : n \in 1..Len(s)})
           /\ Len(s) \in Nat /\ DOMAIN s = 1..Len(s)
<1> DEFINE S == {s[n] : n \in 1..Len(s)}
<1>1. Len(s) \in Nat /\ s = [n \in 1..Len(s) |-> s[n]]
  BY DEF IsList
<1>2. DOMAIN s = 1..Len(s)
  BY <1>1
<1>3. \A n \in 1..Len(s) : s[n] \in S
  OBVIOUS
<1> HIDE DEF S
<1>4. [n \in 1..Len(s) |-> s[n]] \in Seq(S)
  BY <1>1, <1>3
<1>5. s \in Seq(S)
  BY <1>1, <1>4
<1> QED
  BY <1>1, <1>2, <1>5 DEF S

\* A list can take any element.
LEMMA ListAppend ==
    ASSUME NEW s, NEW e, IsList(s)
    PROVE  /\ IsList(Append(s, e)) /\ Len(Append(s, e)) = Len(s) + 1
           /\ \A n \in 1..Len(s) : Append(s, e)[n] = s[n]
           /\ Append(s, e)[Len(s) + 1] = e
<1>1. PICK S : s \in Seq(S)
  BY ListElements
<1>2. s \in Seq(S \cup {e}) /\ e \in S \cup {e} /\ Len(s) \in Nat
  BY <1>1
<1>3. /\ Append(s, e) \in Seq(S \cup {e}) /\ Len(Append(s, e)) = Len(s) + 1
      /\ \A n \in 1..Len(s) : Append(s, e)[n] = s[n]
      /\ Append(s, e)[Len(s) + 1] = e
  BY <1>2
<1>4. ASSUME NEW T, NEW t \in Seq(T)
      PROVE  IsList(t)
  BY DEF IsList
<1> QED
  BY <1>3, <1>4

-----------------------------------------------------------------------------
(* Ids: what Dedupe returns was not seen before *)

LEMMA DedupeFresh ==
    ASSUME NEW seen, IsFiniteSet(seen), NEW base, IsList(base)
    PROVE  Dedupe(seen, base) \notin seen
<1> DEFINE named == Named(base)
           c == Cardinality(seen)
           free == {n \in 2..(c + 2) : Append(named, n) \notin seen}
<1>1. c \in Nat
  BY FS_CardinalityType
<1>2. IsList(named)
  <2>1. IsList(Section)
    BY DEF Section, IsList
  <2> QED
    BY <2>1 DEF Named
<1>3. \A m, n : Append(named, m) = Append(named, n) => m = n
  BY <1>2, ListAppend
<1>4. free # {}
  <2> SUFFICES ASSUME \A n \in 2..(c + 2) : Append(named, n) \in seen
               PROVE  FALSE
    OBVIOUS
  <2> DEFINE f == [n \in 2..(c + 2) |-> Append(named, n)]
  <2>1. f \in [2..(c + 2) -> seen]
    OBVIOUS
  <2>2. IsFiniteSet(2..(c + 2)) /\ Cardinality(2..(c + 2)) = c + 1
    <3>1. 2 \in Int /\ c + 2 \in Int
      BY <1>1
    <3>2. /\ IsFiniteSet(2..(c + 2))
          /\ Cardinality(2..(c + 2)) = IF 2 > c + 2 THEN 0 ELSE (c + 2) - 2 + 1
      BY <3>1, FS_Interval
    <3> QED
      BY <1>1, <3>2
  <2> HIDE DEF f
  <2>3. \E m, n \in 2..(c + 2) : m # n /\ f[m] = f[n]
    BY <1>1, <2>1, <2>2, FS_PigeonHole
  <2> QED
    BY <1>3, <2>3 DEF f
<1>5. \E n \in free : \A m \in free : n <= m
  <2>1. free \subseteq Nat
    BY <1>1
  <2> QED
    BY <1>4, <2>1, LeastNat
<1> DEFINE least == CHOOSE n \in free : \A m \in free : n <= m
<1>6. least \in free
  BY <1>5
<1>7. Append(named, least) \notin seen
  BY <1>6
<1> HIDE DEF least
<1>8. Dedupe(seen, base) = IF named \notin seen THEN named ELSE Append(named, least)
  BY DEF Dedupe, least
<1> QED
  BY <1>7, <1>8

\* The loop of Transform computes a state after each block.
IdsStep(doc, g, n) ==
    IF n = 0 THEN [seen |-> {}, ids |-> <<>>]
    ELSE IF doc[n].kind # "heading" THEN [g[n - 1] EXCEPT !.ids = Append(@, NoId)]
    ELSE LET id == IF doc[n].id # NoId THEN doc[n].id ELSE Dedupe(g[n - 1].seen, doc[n].text)
         IN  [seen |-> Seen(g[n - 1].seen, doc[n], id), ids |-> Append(g[n - 1].ids, id)]

LEMMA IdsLoop ==
    ASSUME NEW doc, NEW len \in Nat, Len(doc) = len
    PROVE  \E g : g = [n \in 0..len |-> IdsStep(doc, g, n)] /\ HeadingIds(doc) = g[len].ids
<1> DEFINE Upto(k) == \E g : g = [n \in 0..k |-> IdsStep(doc, g, n)]
           S == {k \in 0..len : Upto(k)}
<1>1. Upto(0)
  <2>1. PICK g : g = [n \in 0..0 |-> [seen |-> {}, ids |-> <<>>]]
    OBVIOUS
  <2>2. g = [n \in 0..0 |-> IdsStep(doc, g, n)]
    BY <2>1 DEF IdsStep
  <2> QED
    BY <2>2
<1>2. ASSUME NEW k \in 0..(len - 1), Upto(k)
      PROVE  Upto(k + 1)
  <2>1. PICK g : g = [n \in 0..k |-> IdsStep(doc, g, n)]
    BY <1>2
  <2>2. PICK h : h = [n \in 0..(k + 1) |-> IdsStep(doc, g, n)]
    OBVIOUS
  <2>3. \A n \in 0..k : h[n] = g[n]
    BY <2>1, <2>2
  <2>4. \A n \in 0..(k + 1) : IdsStep(doc, g, n) = IdsStep(doc, h, n)
    <3>1. ASSUME NEW n \in 0..(k + 1)
          PROVE  IdsStep(doc, g, n) = IdsStep(doc, h, n)
      <4>1. CASE n = 0
        BY <4>1 DEF IdsStep
      <4>2. CASE n # 0
        <5>1. n - 1 \in 0..k
          BY <4>2
        <5>2. h[n - 1] = g[n - 1]
          BY <2>3, <5>1
        <5> QED
          BY <5>2 DEF IdsStep
      <4> QED
        BY <4>1, <4>2
    <3> QED
      BY <3>1
  <2>5. h = [n \in 0..(k + 1) |-> IdsStep(doc, h, n)]
    BY <2>2, <2>4
  <2> QED
    BY <2>5
<1> HIDE DEF Upto
<1>3. Upto(len)
  <2>1. 0 \in S /\ \A k \in 0..(len - 1) : k \in S => k + 1 \in S
    BY <1>1, <1>2
  <2> HIDE DEF S
  <2>2. \A k \in 0..len : k \in S
    BY <2>1, InductionTo
  <2> QED
    BY <2>2 DEF S
<1> DEFINE f == CHOOSE g : g = [n \in 0..len |-> IdsStep(doc, g, n)]
<1>4. f = [n \in 0..len |-> IdsStep(doc, f, n)]
  BY <1>3 DEF Upto
<1>5. HeadingIds(doc) = f[len].ids
  BY DEF HeadingIds, IdsStep
<1> QED
  BY <1>4, <1>5

\* After n blocks: the ids so far are seen, and a derived one is unlike those before.
IdsSoFar(doc, n, state) ==
    /\ state = [seen |-> state.seen, ids |-> state.ids]
    /\ IsFiniteSet(state.seen)
    /\ IsList(state.ids) /\ Len(state.ids) = n
    /\ \A i \in 1..n : doc[i].kind = "heading" => state.ids[i] \in state.seen
    /\ \A i, j \in 1..n :
          /\ doc[i].kind = "heading" /\ doc[j].kind = "heading"
          /\ i < j /\ state.ids[i] = state.ids[j]
          => doc[j].id # NoId

\* One more block.
LEMMA IdsNext ==
    ASSUME NEW doc, NEW n \in Nat, NEW g, IdsSoFar(doc, n, g[n]),
           doc[n + 1].kind = "heading" => IsList(doc[n + 1].text)
    PROVE  IdsSoFar(doc, n + 1, IdsStep(doc, g, n + 1))
<1> DEFINE block == doc[n + 1]
<1>1. PICK seen, ids : /\ g[n] = [seen |-> seen, ids |-> ids]
                       /\ IsFiniteSet(seen) /\ IsList(ids) /\ Len(ids) = n
  BY DEF IdsSoFar
<1>2. /\ g[n].seen = seen /\ g[n].ids = ids
      /\ \A i \in 1..n : doc[i].kind = "heading" => ids[i] \in seen
      /\ \A i, j \in 1..n :
            /\ doc[i].kind = "heading" /\ doc[j].kind = "heading" /\ i < j /\ ids[i] = ids[j]
            => doc[j].id # NoId
  BY <1>1 DEF IdsSoFar
<1>3. n + 1 # 0 /\ (n + 1) - 1 = n /\ 1..(n + 1) = (1..n) \cup {n + 1}
  OBVIOUS
<1>4. CASE block.kind # "heading"
  <2>1. IdsStep(doc, g, n + 1) = [seen |-> seen, ids |-> Append(ids, NoId)]
    <3>1. PICK before : before = [seen |-> seen, ids |-> ids]
      OBVIOUS
    <3>2. IdsStep(doc, g, n + 1) = [before EXCEPT !.ids = Append(@, NoId)]
      BY <1>1, <1>3, <1>4, <3>1 DEF IdsStep
    <3>3. PICK new : new = Append(before.ids, NoId)
      OBVIOUS
    <3>4. [before EXCEPT !.ids = new] = [seen |-> seen, ids |-> new]
      BY <3>1
    <3>5. new = Append(ids, NoId)
      BY <3>1, <3>3
    <3> QED
      BY <3>2, <3>3, <3>4, <3>5
  <2>2. PICK new : new = Append(ids, NoId)
    OBVIOUS
  <2>3. IsList(new) /\ Len(new) = n + 1 /\ \A i \in 1..n : new[i] = ids[i]
    BY <1>1, <2>2, ListAppend
  <2>4. IdsSoFar(doc, n + 1, [seen |-> seen, ids |-> new])
    BY <1>1, <1>2, <1>3, <1>4, <2>3 DEF IdsSoFar
  <2> QED
    BY <2>1, <2>2, <2>4
<1>5. CASE block.kind = "heading"
  <2>1. PICK id : id = IF block.id # NoId THEN block.id ELSE Dedupe(seen, block.text)
    OBVIOUS
  <2>2. IdsStep(doc, g, n + 1) = [seen |-> seen \cup {id}, ids |-> Append(ids, id)]
    BY <1>2, <1>3, <1>5, <2>1 DEF IdsStep, Seen
  <2>3. block.id = NoId => id \notin seen
    BY <1>1, <1>5, <2>1, DedupeFresh
  <2>4. PICK new : new = Append(ids, id)
    OBVIOUS
  <2>5. IsList(new) /\ Len(new) = n + 1 /\ new[n + 1] = id /\ \A i \in 1..n : new[i] = ids[i]
    BY <1>1, <2>4, ListAppend
  <2>6. PICK all : all = seen \cup {id}
    OBVIOUS
  <2>7. IsFiniteSet(all)
    BY <1>1, <2>6, FS_AddElement
  <2>8. \A i \in 1..(n + 1) : doc[i].kind = "heading" => new[i] \in all
    BY <1>2, <1>3, <2>5, <2>6
  <2>9. ASSUME NEW i \in 1..(n + 1), NEW j \in 1..(n + 1),
               doc[i].kind = "heading", doc[j].kind = "heading", i < j, new[i] = new[j]
        PROVE  doc[j].id # NoId
    <3>1. i \in 1..n
      BY <2>9
    <3>2. CASE j = n + 1
      <4>1. new[i] \in seen
        BY <1>2, <2>5, <2>9, <3>1
      <4> QED
        BY <2>3, <2>5, <2>9, <3>2, <4>1
    <3>3. CASE j # n + 1
      <4>1. j \in 1..n
        BY <3>3
      <4> QED
        BY <1>2, <2>5, <2>9, <3>1, <4>1
    <3> QED
      BY <3>2, <3>3
  <2>10. IdsSoFar(doc, n + 1, [seen |-> all, ids |-> new])
    BY <2>5, <2>7, <2>8, <2>9 DEF IdsSoFar
  <2> QED
    BY <2>2, <2>4, <2>6, <2>10
<1> QED
  BY <1>4, <1>5

\* Of two headings with one id, the later one spells it out.
LEMMA HeadingIdsFresh ==
    ASSUME NEW doc \in Documents
    PROVE  \A i, j \in DOMAIN doc :
              /\ doc[i].kind = "heading" /\ doc[j].kind = "heading"
              /\ i < j /\ HeadingIds(doc)[i] = HeadingIds(doc)[j]
              => doc[j].id # NoId
<1>1. IsList(doc) /\ \A i \in DOMAIN doc : doc[i].kind = "heading" => IsList(doc[i].text)
  BY RenderAssumption
<1>2. PICK len \in Nat : Len(doc) = len /\ DOMAIN doc = 1..len
  BY <1>1, ListElements
<1>3. PICK g : g = [n \in 0..len |-> IdsStep(doc, g, n)] /\ HeadingIds(doc) = g[len].ids
  BY <1>2, IdsLoop
<1> DEFINE S == {n \in 0..len : IdsSoFar(doc, n, g[n])}
<1>4. 0 \in S
  <2>1. PICK ids : ids = <<>>
    OBVIOUS
  <2>2. IsList(ids) /\ Len(ids) = 0
    BY <2>1 DEF IsList
  <2>3. g[0] = [seen |-> {}, ids |-> ids]
    BY <1>3, <2>1 DEF IdsStep
  <2>4. IsFiniteSet({})
    BY FS_EmptySet
  <2>5. IdsSoFar(doc, 0, g[0])
    BY <2>2, <2>3, <2>4 DEF IdsSoFar
  <2> QED
    BY <2>5
<1>5. ASSUME NEW n \in 0..(len - 1), n \in S
      PROVE  n + 1 \in S
  <2>1. n \in Nat /\ n + 1 \in 0..len /\ n + 1 \in DOMAIN doc
    BY <1>2
  <2>2. doc[n + 1].kind = "heading" => IsList(doc[n + 1].text)
    BY <1>1, <2>1
  <2>3. IdsSoFar(doc, n + 1, IdsStep(doc, g, n + 1))
    BY <1>5, <2>1, <2>2, IdsNext
  <2>4. g[n + 1] = IdsStep(doc, g, n + 1)
    BY <1>3, <2>1
  <2> QED
    BY <2>1, <2>3, <2>4
<1> HIDE DEF S
<1>6. len \in S
  BY <1>4, <1>5, InductionTo
<1>7. IdsSoFar(doc, len, g[len])
  BY <1>6 DEF S
<1> QED
  BY <1>2, <1>3, <1>7 DEF IdsSoFar

-----------------------------------------------------------------------------
(* The headings of a page *)

\* What a heading of the document becomes.
HeadingNode(doc, i) ==
    [kind |-> "heading", level |-> doc[i].level, text |-> doc[i].text,
     id |-> HeadingIds(doc)[i], attrs |-> doc[i].attrs \cap AllowedAttributes,
     chip |-> IF IsChapter(doc[i]) THEN Ordinal(doc, i) ELSE 0]

\* The headings of the page are those of the document, at their positions.
LEMMA HeadingNodes ==
    ASSUME NEW doc \in Documents, NEW lang, NEW page0, page0 = PageOf(doc, lang)
    PROVE  /\ DOMAIN page0 = DOMAIN doc
           /\ \A i \in DOMAIN doc :
                /\ page0[i].kind = "heading" <=> doc[i].kind = "heading"
                /\ doc[i].kind = "heading" => page0[i] = HeadingNode(doc, i)
<1> DEFINE fences == IF Sidecar THEN Fences(doc) ELSE {}
           svgs == [i \in fences |-> Svg(doc[i].diagram)]
           ids == HeadingIds(doc)
           node(i) == Emitted(doc, ids, i, DOMAIN svgs, lang)
           final(i) == IF node(i).kind = "token" THEN Figure(svgs[node(i).n])
                       ELSE Sanitized(node(i))
<1>1. page0 = [i \in DOMAIN doc |-> final(i)]
  <2>1. page0 = Spliced([i \in DOMAIN doc |-> node(i)], svgs)
    BY DEF PageOf, Rendered
  <2> QED
    BY <2>1 DEF Spliced
<1>2. ASSUME NEW i \in DOMAIN doc
      PROVE  /\ final(i).kind = "heading" <=> doc[i].kind = "heading"
             /\ doc[i].kind = "heading" => final(i) = HeadingNode(doc, i)
  <2>1. doc[i].kind \in {"heading", "fence", "directive", "raw"}
    BY RenderAssumption
  <2>2. CASE doc[i].kind = "heading"
    <3>1. PICK h : h = [kind |-> "heading", level |-> doc[i].level, text |-> doc[i].text,
                        id |-> ids[i], attrs |-> doc[i].attrs,
                        chip |-> IF IsChapter(doc[i]) THEN Ordinal(doc, i) ELSE 0]
      OBVIOUS
    <3>2. node(i) = h
      BY <2>2, <3>1 DEF Emitted
    <3>3. Sanitized(h) = [h EXCEPT !.attrs = @ \cap AllowedAttributes]
      BY <3>1 DEF Sanitized
    <3>4. [h EXCEPT !.attrs = @ \cap AllowedAttributes] = HeadingNode(doc, i)
      BY <3>1 DEF HeadingNode
    <3>5. final(i) = HeadingNode(doc, i)
      <4>1. node(i).kind # "token"
        BY <3>1, <3>2
      <4>2. final(i) = Sanitized(node(i))
        BY <4>1
      <4> QED
        BY <3>2, <3>3, <3>4, <4>2
    <3>6. HeadingNode(doc, i).kind = "heading"
      BY DEF HeadingNode
    <3> QED
      BY <2>2, <3>5, <3>6
  <2>3. CASE doc[i].kind = "fence"
    <3>1. node(i) = Token(i, doc[i].diagram) \/ node(i) = Code(doc[i].diagram)
      BY <2>3 DEF Emitted
    <3>2. final(i).kind # "heading"
      BY <3>1 DEF Token, Code, Figure, Sanitized
    <3> QED
      BY <2>3, <3>2
  <2>4. CASE doc[i].kind = "directive"
    <3>1. node(i) = CodeTabsOf(doc[i].topic, lang)
      BY <2>4 DEF Emitted
    <3>2. final(i).kind # "heading"
      BY <3>1 DEF CodeTabsOf, Sanitized
    <3> QED
      BY <2>4, <3>2
  <2>5. CASE doc[i].kind = "raw"
    <3>1. node(i) = doc[i]
      BY <2>5 DEF Emitted
    <3>2. final(i).kind # "heading"
      <4>1. final(i) = Sanitized(doc[i])
        BY <2>5, <3>1
      <4>2. Sanitized(doc[i]).kind # "heading"
        BY <2>5 DEF Sanitized
      <4> QED
        BY <4>1, <4>2
    <3> QED
      BY <2>5, <3>2
  <2> QED
    BY <2>1, <2>2, <2>3, <2>4, <2>5
<1> HIDE DEF final
<1> QED
  BY <1>1, <1>2

\* Two headings of a page share an id only when the author wrote the later one's.
LEMMA PageIds ==
    ASSUME NEW doc \in Documents, NEW lang, NEW page0, page0 = PageOf(doc, lang),
           NEW i \in HeadingsOf(page0), NEW j \in HeadingsOf(page0),
           i < j, page0[i].id = page0[j].id
    PROVE  doc[j].id # NoId
<1>1. /\ i \in DOMAIN doc /\ j \in DOMAIN doc
      /\ doc[i].kind = "heading" /\ doc[j].kind = "heading"
      /\ page0[i] = HeadingNode(doc, i) /\ page0[j] = HeadingNode(doc, j)
  BY HeadingNodes DEF HeadingsOf
<1>2. HeadingNode(doc, i).id = HeadingIds(doc)[i] /\ HeadingNode(doc, j).id = HeadingIds(doc)[j]
  BY DEF HeadingNode
<1> QED
  BY <1>1, <1>2, HeadingIdsFresh

\* In every page that is rendered, an id the transformer derived differs from the
\* ids of all headings before it, however many of them there are and whichever of
\* those ids the author chose.
THEOREM DerivedIdsAreFresh == Spec => []DerivedIdsFresh
<1>1. Inv => DerivedIdsFresh
  <2> SUFFICES ASSUME Inv, NEW r \in Renders, at[r] = "done",
                      NEW i \in HeadingsOf(html[r]), NEW j \in HeadingsOf(html[r]),
                      i < j, html[r][i].id = html[r][j].id
               PROVE  source[r][j].id # NoId
    BY DEF DerivedIdsFresh
  <2>1. html[r] = PageOf(source[r], NoLang) /\ source[r] \in Documents
    BY DEF Inv, RenderInv, RunInv
  <2> QED
    BY <2>1, PageIds
<1> QED
  BY RenderInvariant, <1>1, PTL

-----------------------------------------------------------------------------
(* The outline *)

Before(positions, i) == {j \in positions : j < i}

\* Positions have different numbers of positions before them, from none to all but
\* one, so there is an nth for every n, and they come in order.
LEMMA NthProperties ==
    ASSUME NEW positions, IsFiniteSet(positions), positions \subseteq Nat
    PROVE  /\ Cardinality(positions) \in Nat
           /\ \A n \in 1..Cardinality(positions) : Nth(positions, n) \in positions
           /\ \A m, n \in 1..Cardinality(positions) :
                 m < n => Nth(positions, m) < Nth(positions, n)
<1> DEFINE count == Cardinality(positions)
           rank == [i \in positions |-> Cardinality(Before(positions, i)) + 1]
<1>1. count \in Nat
  BY FS_CardinalityType
<1>2. ASSUME NEW i \in positions
      PROVE  /\ IsFiniteSet(Before(positions, i))
             /\ Cardinality(Before(positions, i)) \in 0..(count - 1)
  <2>1. Before(positions, i) \in SUBSET positions /\ i \notin Before(positions, i)
    BY DEF Before
  <2>2. /\ IsFiniteSet(Before(positions, i)) /\ Cardinality(Before(positions, i)) <= count
        /\ count = Cardinality(Before(positions, i)) => positions = Before(positions, i)
    BY <2>1, FS_Subset
  <2>3. Cardinality(Before(positions, i)) # count
    BY <2>1, <2>2
  <2>4. Cardinality(Before(positions, i)) \in Nat
    BY <2>2, FS_CardinalityType
  <2> QED
    BY <1>1, <2>2, <2>3, <2>4
<1>3. ASSUME NEW i \in positions, NEW j \in positions, i < j
      PROVE  rank[i] < rank[j]
  <2>1. Before(positions, i) \in SUBSET Before(positions, j)
    <3>1. ASSUME NEW k \in Before(positions, i)
          PROVE  k \in Before(positions, j)
      <4>1. k \in positions /\ k < i
        BY DEF Before
      <4>2. k \in Nat /\ i \in Nat /\ j \in Nat
        BY <4>1
      <4>3. k < j
        BY <1>3, <4>1, <4>2
      <4> QED
        BY <4>1, <4>3 DEF Before
    <3> QED
      BY <3>1
  <2>2. i \in Before(positions, j) /\ i \notin Before(positions, i)
    BY <1>3 DEF Before
  <2>3. /\ Cardinality(Before(positions, i)) <= Cardinality(Before(positions, j))
        /\ Cardinality(Before(positions, j)) = Cardinality(Before(positions, i))
             => Before(positions, j) = Before(positions, i)
    BY <1>2, <2>1, FS_Subset
  <2>4. Cardinality(Before(positions, j)) # Cardinality(Before(positions, i))
    BY <2>2, <2>3
  <2>5. /\ Cardinality(Before(positions, i)) \in 0..(count - 1)
        /\ Cardinality(Before(positions, j)) \in 0..(count - 1)
    BY <1>2
  <2> QED
    BY <2>3, <2>4, <2>5
<1>4. rank \in [positions -> 1..count]
  <2>1. \A i \in positions : Cardinality(Before(positions, i)) + 1 \in 1..count
    BY <1>1, <1>2
  <2> QED
    BY <2>1
<1>5. ASSUME NEW i \in positions, NEW j \in positions, rank[i] = rank[j]
      PROVE  i = j
  <2>1. rank[i] \in Int
    BY <1>1, <1>4
  <2>2. ~(i < j) /\ ~(j < i)
    BY <1>3, <1>5, <2>1
  <2> QED
    BY <2>2
<1>6. rank \in Surjection(positions, 1..count)
  <2>1. rank \in Injection(positions, 1..count)
    BY <1>4, <1>5 DEF Injection, IsInjective
  <2>2. IsFiniteSet(1..count) /\ Cardinality(1..count) = count
    <3>1. 1 \in Int /\ count \in Int
      BY <1>1
    <3>2. IsFiniteSet(1..count) /\ Cardinality(1..count) = IF 1 > count THEN 0 ELSE count - 1 + 1
      BY <3>1, FS_Interval
    <3> QED
      BY <1>1, <3>2
  <2> QED
    BY <2>1, <2>2, FS_Injection
<1>7. ASSUME NEW n \in 1..count
      PROVE  Nth(positions, n) \in positions /\ rank[Nth(positions, n)] = n
  <2>1. PICK i \in positions : rank[i] = n
    BY <1>6 DEF Surjection
  <2>2. Cardinality(Before(positions, i)) = n - 1
    <3>1. Cardinality(Before(positions, i)) + 1 = n
      BY <2>1
    <3>2. Cardinality(Before(positions, i)) \in Int
      BY <1>1, <1>2
    <3> QED
      BY <3>1, <3>2
  <2>3. Nth(positions, n) = CHOOSE j \in positions : Cardinality(Before(positions, j)) = n - 1
    BY DEF Nth, Before
  <2>4. /\ Nth(positions, n) \in positions
        /\ Cardinality(Before(positions, Nth(positions, n))) = n - 1
    <3>1. \E j \in positions : Cardinality(Before(positions, j)) = n - 1
      BY <2>2
    <3> QED
      BY <3>1, <2>3, Zenon
  <2>5. rank[Nth(positions, n)] = (n - 1) + 1
    BY <2>4
  <2> QED
    BY <1>1, <2>4, <2>5
<1>8. ASSUME NEW m \in 1..count, NEW n \in 1..count, m < n
      PROVE  Nth(positions, m) < Nth(positions, n)
  <2>1. PICK i \in positions, j \in positions :
          i = Nth(positions, m) /\ j = Nth(positions, n) /\ rank[i] = m /\ rank[j] = n
    BY <1>7
  <2>2. ~(j < i) /\ j # i
    BY <1>1, <1>3, <1>8, <2>1
  <2> QED
    BY <2>1, <2>2
<1> QED
  BY <1>1, <1>7, <1>8

\* The labels of a document's h2 headings grow with their positions.
LEMMA LabelsGrow ==
    ASSUME NEW doc, NEW i \in Nat, NEW j \in Nat, i < j, j > 0, IsChapter(doc[j])
    PROVE  Ordinal(doc, i) \in Nat /\ Ordinal(doc, j) \in Nat /\ Ordinal(doc, i) < Ordinal(doc, j)
<1> DEFINE upto(k) == {n \in 1..k : IsChapter(doc[n])}
<1>1. ASSUME NEW k \in Nat
      PROVE  IsFiniteSet(upto(k)) /\ Cardinality(upto(k)) \in Nat
  <2>1. 1 \in Int /\ k \in Int
    OBVIOUS
  <2>2. IsFiniteSet(1..k)
    BY <2>1, FS_Interval
  <2>3. upto(k) \in SUBSET (1..k)
    OBVIOUS
  <2>4. IsFiniteSet(upto(k))
    BY <2>2, <2>3, FS_Subset
  <2> QED
    BY <2>4, FS_CardinalityType
<1>2. upto(i) \in SUBSET upto(j) /\ j \in upto(j) /\ j \notin upto(i)
  OBVIOUS
<1>3. /\ Cardinality(upto(i)) <= Cardinality(upto(j))
      /\ Cardinality(upto(j)) = Cardinality(upto(i)) => upto(j) = upto(i)
  BY <1>1, <1>2, FS_Subset
<1>4. Cardinality(upto(j)) # Cardinality(upto(i))
  BY <1>2, <1>3
<1>5. Cardinality(upto(i)) < Cardinality(upto(j))
  BY <1>1, <1>3, <1>4
<1> QED
  BY <1>1, <1>5 DEF Ordinal

\* The chip of an h2 counts the chapters up to it.
LEMMA ChipCounts ==
    ASSUME NEW doc, NEW len \in Nat, DOMAIN doc = 1..len, NEW i \in DOMAIN doc
    PROVE  Ordinal(doc, i) = Cardinality({j \in Chapters(doc) : j <= i})
<1>1. {j \in 1..i : IsChapter(doc[j])} = {j \in Chapters(doc) : j <= i}
  BY DEF Chapters
<1> QED
  BY <1>1 DEF Ordinal

\* The chapters that h2Re finds: those that keep no attribute.
Plain(doc) == {i \in Chapters(doc) : doc[i].attrs \cap AllowedAttributes = {}}

\* One entry for each plain h2, in order, with the heading's id, label and title.
LEMMA OutlineOf ==
    ASSUME NEW doc \in Documents, NEW lang, NEW page0, page0 = PageOf(doc, lang)
    PROVE  /\ Len(ExtractSections(page0)) = Cardinality(Plain(doc))
           /\ \A n \in DOMAIN ExtractSections(page0) :
                 \E i \in Plain(doc) :
                    /\ i \in HeadingsOf(page0)
                    /\ ExtractSections(page0)[n].title = doc[i].text
                    /\ ExtractSections(page0)[n].id = page0[i].id
                    /\ ExtractSections(page0)[n].label = Cardinality({j \in Chapters(doc) : j <= i})
           /\ \A m, n \in DOMAIN ExtractSections(page0) : m < n =>
                 ExtractSections(page0)[m].label < ExtractSections(page0)[n].label
<1> DEFINE found == {i \in DOMAIN page0 :
                       page0[i].kind = "heading" /\ page0[i].level = 2 /\ page0[i].attrs = {}}
           entry(h2) == [id |-> h2.id, label |-> h2.chip, title |-> h2.text]
<1>1. IsList(doc)
  BY RenderAssumption
<1>2. PICK len \in Nat : DOMAIN doc = 1..len
  BY <1>1, ListElements
<1>3. ASSUME NEW i \in DOMAIN doc, doc[i].kind = "heading"
      PROVE  /\ page0[i].kind = "heading" /\ page0[i].level = doc[i].level
             /\ page0[i].attrs = doc[i].attrs \cap AllowedAttributes
             /\ page0[i].text = doc[i].text
             /\ page0[i].chip = IF IsChapter(doc[i]) THEN Ordinal(doc, i) ELSE 0
  <2>1. page0[i] = HeadingNode(doc, i)
    BY <1>3, HeadingNodes
  <2> QED
    BY <2>1 DEF HeadingNode
<1>4. DOMAIN page0 = DOMAIN doc /\ \A i \in DOMAIN doc :
         page0[i].kind = "heading" <=> doc[i].kind = "heading"
  BY HeadingNodes
<1>5. found = Plain(doc)
  <2>1. ASSUME NEW i \in found
        PROVE  i \in Plain(doc)
    BY <1>3, <1>4 DEF Plain, Chapters, IsChapter
  <2>2. ASSUME NEW i \in Plain(doc)
        PROVE  i \in found
    BY <1>3, <1>4 DEF Plain, Chapters, IsChapter
  <2> QED
    BY <2>1, <2>2
<1>6. Plain(doc) \subseteq Nat /\ IsFiniteSet(Plain(doc))
  <2>1. Plain(doc) \in SUBSET (1..len)
    BY <1>2 DEF Plain, Chapters
  <2>2. 1 \in Int /\ len \in Int
    OBVIOUS
  <2>3. IsFiniteSet(1..len)
    BY <2>2, FS_Interval
  <2>4. IsFiniteSet(Plain(doc))
    BY <2>1, <2>3, FS_Subset
  <2> QED
    BY <2>1, <2>4
<1>7. PICK count \in Nat : count = Cardinality(Plain(doc))
  BY <1>6, FS_CardinalityType
<1>8. PICK nth : nth = [n \in 1..count |-> Nth(Plain(doc), n)]
  OBVIOUS
<1>9. /\ \A n \in 1..count : nth[n] \in Plain(doc)
      /\ \A m, n \in 1..count : m < n => nth[m] < nth[n]
  BY <1>6, <1>7, <1>8, NthProperties
<1>10. PICK outline : outline = ExtractSections(page0)
  OBVIOUS
<1>11. outline = [n \in 1..count |-> entry(page0[nth[n]])]
  <2>1. outline = [n \in 1..Cardinality(found) |-> entry(page0[Nth(found, n)])]
    BY <1>10 DEF ExtractSections
  <2> HIDE DEF entry, found
  <2>2. outline = [n \in 1..count |-> entry(page0[Nth(Plain(doc), n)])]
    BY <1>5, <1>7, <2>1
  <2> QED
    BY <1>8, <2>2
<1>12. ASSUME NEW n \in 1..count
       PROVE  /\ nth[n] \in Plain(doc) /\ nth[n] \in HeadingsOf(page0)
              /\ outline[n].title = doc[nth[n]].text
              /\ outline[n].id = page0[nth[n]].id
              /\ outline[n].label = Ordinal(doc, nth[n])
              /\ Ordinal(doc, nth[n]) = Cardinality({j \in Chapters(doc) : j <= nth[n]})
  <2>1. PICK i \in Plain(doc) : i = nth[n]
    BY <1>9
  <2>2. i \in DOMAIN doc /\ doc[i].kind = "heading" /\ IsChapter(doc[i])
    BY DEF Plain, Chapters, IsChapter
  <2>3. page0[i].kind = "heading" /\ page0[i].chip = Ordinal(doc, i) /\ page0[i].text = doc[i].text
    BY <1>3, <2>2
  <2>4. /\ outline[n].id = page0[i].id /\ outline[n].label = page0[i].chip
        /\ outline[n].title = page0[i].text
    BY <1>11, <2>1
  <2>5. Ordinal(doc, i) = Cardinality({j \in Chapters(doc) : j <= i})
    BY <1>2, <2>2, ChipCounts
  <2> QED
    BY <1>4, <2>1, <2>2, <2>3, <2>4, <2>5 DEF HeadingsOf
<1>13. ASSUME NEW m \in 1..count, NEW n \in 1..count, m < n
       PROVE  outline[m].label < outline[n].label
  <2>1. PICK i \in Plain(doc), j \in Plain(doc) : i = nth[m] /\ j = nth[n] /\ i < j
    BY <1>9, <1>13
  <2>2. i \in Nat /\ j \in Nat /\ j > 0 /\ IsChapter(doc[j])
    BY <1>2, <1>6 DEF Plain, Chapters
  <2>3. Ordinal(doc, i) < Ordinal(doc, j)
    BY <2>1, <2>2, LabelsGrow
  <2>4. outline[m].label = Ordinal(doc, i) /\ outline[n].label = Ordinal(doc, j)
    BY <1>12, <2>1
  <2> QED
    BY <2>3, <2>4
<1>14. DOMAIN outline = 1..count /\ Len(outline) = count
  <2> HIDE DEF entry
  <2> QED
    BY <1>11
<1>15. ASSUME NEW n \in DOMAIN outline
       PROVE  \E i \in Plain(doc) :
                 /\ i \in HeadingsOf(page0)
                 /\ outline[n].title = doc[i].text
                 /\ outline[n].id = page0[i].id
                 /\ outline[n].label = Cardinality({j \in Chapters(doc) : j <= i})
  <2>1. n \in 1..count
    BY <1>14
  <2>2. PICK i \in Plain(doc) : i = nth[n]
    BY <1>12, <2>1
  <2> WITNESS i \in Plain(doc)
  <2> QED
    BY <1>12, <2>1, <2>2
<1> QED
  BY <1>7, <1>10, <1>13, <1>14, <1>15

\* What OutlineTruthful says of one page.
TrueOutline(doc, page0, outline, chapters) ==
    /\ \A n \in DOMAIN outline : \E i \in chapters :
           /\ outline[n].title = doc[i].text
           /\ outline[n].label = Cardinality({j \in chapters : j <= i})
           /\ outline[n].id = page0[i].id
           /\ doc[i].id = NoId =>
                \A j \in HeadingsOf(page0) : j < i => page0[j].id # outline[n].id
    /\ \A m, n \in DOMAIN outline : m < n => outline[m].label < outline[n].label
    /\ (\A i \in chapters : doc[i].attrs = {}) => Len(outline) = Cardinality(chapters)

LEMMA OutlineTrue ==
    ASSUME NEW doc \in Documents, NEW lang, NEW page0, page0 = PageOf(doc, lang)
    PROVE  TrueOutline(doc, page0, ExtractSections(page0), Chapters(doc))
<1>1. PICK outline : outline = ExtractSections(page0)
  OBVIOUS
<1>2. /\ Len(outline) = Cardinality(Plain(doc))
      /\ \A n \in DOMAIN outline : \E i \in Plain(doc) :
            /\ i \in HeadingsOf(page0)
            /\ outline[n].title = doc[i].text
            /\ outline[n].id = page0[i].id
            /\ outline[n].label = Cardinality({j \in Chapters(doc) : j <= i})
      /\ \A m, n \in DOMAIN outline : m < n => outline[m].label < outline[n].label
  BY <1>1, OutlineOf
<1>3. ASSUME NEW n \in DOMAIN outline
      PROVE  \E i \in Chapters(doc) :
                /\ outline[n].title = doc[i].text
                /\ outline[n].label = Cardinality({j \in Chapters(doc) : j <= i})
                /\ outline[n].id = page0[i].id
                /\ doc[i].id = NoId =>
                     \A j \in HeadingsOf(page0) : j < i => page0[j].id # outline[n].id
  <2>1. PICK i \in Plain(doc) :
          /\ i \in HeadingsOf(page0)
          /\ outline[n].title = doc[i].text
          /\ outline[n].id = page0[i].id
          /\ outline[n].label = Cardinality({j \in Chapters(doc) : j <= i})
    BY <1>2
  <2>2. i \in Chapters(doc)
    BY DEF Plain
  <2>3. ASSUME doc[i].id = NoId, NEW j \in HeadingsOf(page0), j < i
        PROVE  page0[j].id # page0[i].id
    BY <2>1, <2>3, PageIds
  <2> QED
    BY <2>1, <2>2, <2>3
<1>4. ASSUME \A i \in Chapters(doc) : doc[i].attrs = {}
      PROVE  Len(outline) = Cardinality(Chapters(doc))
  <2>1. Plain(doc) = Chapters(doc)
    BY <1>4 DEF Plain
  <2> QED
    BY <1>2, <2>1
<1>5. TrueOutline(doc, page0, outline, Chapters(doc))
  BY <1>2, <1>3, <1>4 DEF TrueOutline
<1> QED
  BY <1>1, <1>5

\* Every entry of the outline of every page that is rendered is a true one: title,
\* label and link are those of one h2, the labels grow, and the outline is whole
\* when no h2 has more than an id.
THEOREM OutlinesTruthful == Spec => []OutlineTruthful
<1>1. Inv => OutlineTruthful
  <2> SUFFICES ASSUME Inv, NEW r \in Renders, at[r] = "done"
               PROVE  TrueOutline(source[r], html[r], ExtractSections(html[r]), Chapters(source[r]))
    BY DEF OutlineTruthful, TrueOutline
  <2>1. html[r] = PageOf(source[r], NoLang) /\ source[r] \in Documents
    BY DEF Inv, RenderInv, RunInv
  <2> QED
    BY <2>1, OutlineTrue
<1> QED
  BY RenderInvariant, <1>1, PTL

=============================================================================
