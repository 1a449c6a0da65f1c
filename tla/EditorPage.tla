----------------------------- MODULE EditorPage -----------------------------
(***************************************************************************)
(* The article editor in an author's browser: the page AdminEditorPage     *)
(* (ui/admin.templ), its script ui/static/admin.js, and the requests they  *)
(* send to adminEditor, adminSave and adminPreview.  The handlers render   *)
(* with Render, whose cache the previews and the saves share.  Another     *)
(* author works on the same article; what both store is atomic, as         *)
(* ArticleBook says and Articles implements.                               *)
(*                                                                         *)
(* The textarea stands for all the fields of the form.  What a browser     *)
(* restores of a page one goes back to is not modelled: after an error or  *)
(* sign-in page the author opens the editor again.                         *)
(***************************************************************************)
EXTENDS Render

CONSTANTS
    Form,       \* the call of Render by a posted form
    Fetches,    \* the calls by POST /admin/preview
    FirstBody,  \* the body the article has at the start
    MaxEdits,   \* bound: how often the author types
    MaxOthers   \* bound: how often the other author saves or publishes

ASSUME EditorAssumption ==
    /\ Renders = Fetches \cup {Form} /\ Form \notin Fetches
    /\ FirstBody \in Documents
    /\ MaxEdits \in Nat /\ MaxOthers \in Nat

VARIABLES
    article,   \* the row: body, html, published
    js,        \* the browser runs admin.js
    mode,      \* what the window shows: editor, posting (editor, with the
               \* answer to a form outstanding), error, login
    page,      \* the editor page
    fetching,  \* the page's unanswered fetches
    posted,    \* the posted form and how far its handler has come
    asked,     \* history: the text of the page's last fetch
    late,      \* history: the author typed after posting the form
    raced,     \* history: the other author saved after that
    edits, others

pageVars == <<js, mode, page, fetching, posted>>
histories == <<asked, late, raced>>
bounds == <<edits, others>>
vars == <<renderVars, article, pageVars, histories, bounds>>

NoPost == [action |-> "none", body |-> NoDoc, row |-> NoDoc, stage |-> "none"]

\* editorModel and AdminEditorPage: the editor of a row, save disabled.
FreshPage(row) ==
    [base |-> row.body, text |-> row.body, chip |-> "saved", saveOn |-> FALSE, status |-> "from last save",
     pane |-> row.html, previewOn |-> TRUE, published |-> row.published]

\* The editor sent back by the preview button of a browser without the script.
PreviewPage(row, body, render) ==
    [FreshPage(row) EXCEPT !.text = body, !.pane = render, !.chip = "unsaved",
                           !.saveOn = TRUE, !.status = "just now"]

Init ==
    /\ RenderInit
    /\ article = [body |-> FirstBody, html |-> PageOf(FirstBody, NoLang), published |-> FALSE]
    /\ js \in BOOLEAN
    /\ mode = "editor" /\ page = FreshPage(article)
    /\ fetching = {} /\ posted = NoPost
    /\ asked = NoDoc /\ late = FALSE /\ raced = FALSE
    /\ edits = 0 /\ others = 0

-----------------------------------------------------------------------------
(* admin.js *)

MarkUnsaved(p) == [p EXCEPT !.chip = "unsaved", !.saveOn = TRUE]

\* The author types, also while a posted form is not answered yet.
Type(body) ==
    /\ mode \in {"editor", "posting"} /\ body # page.text
    /\ edits < MaxEdits /\ edits' = edits + 1
    /\ LET typed == [page EXCEPT !.text = body] IN
       page' = IF js THEN MarkUnsaved(typed) ELSE typed
    /\ late' = (late \/ mode = "posting")
    /\ UNCHANGED <<renderVars, article, js, mode, fetching, posted,
                   asked, raced, others>>

\* Mutant: the button stays enabled.
InFlightEnabled(p) == [p EXCEPT !.status = "rendering"]
InFlight(p) == [p EXCEPT !.status = "rendering", !.previewOn = FALSE]

Back(p, status) == [p EXCEPT !.status = status, !.previewOn = TRUE]

\* roundTrip sends the textarea as it is now, also while a posted form is not
\* answered yet; a request that does not get through, or has no valid session,
\* starts no render.
ClickPreview(r) ==
    /\ js /\ mode \in {"editor", "posting"} /\ page.previewOn
    /\ r \notin fetching /\ at[r] = "idle"
    /\ Begin(r, page.text) \/ UNCHANGED renderVars
    /\ fetching' = fetching \cup {r}
    /\ asked' = page.text
    /\ page' = InFlight(page)
    /\ UNCHANGED <<article, js, mode, posted, late, raced, bounds>>

\* The answer is the new pane, whatever was typed in the meantime.
PreviewArrives(r) ==
    /\ r \in fetching /\ at[r] = "done"
    /\ Return(r)
    /\ fetching' = fetching \ {r}
    /\ page' = [Back(page, "just now") EXCEPT !.pane = html[r]]
    /\ UNCHANGED <<article, js, mode, posted, histories, bounds>>

\* An answer that is not ok, 401 or 403 without a session, 422 when the render
\* fails, or one that is lost.  The pane stays.
PreviewFails(r) ==
    /\ r \in fetching
    /\ Return(r) \/ (at[r] = "idle" /\ UNCHANGED renderVars)
    /\ fetching' = fetching \ {r}
    /\ page' = Back(page, "failed")
    /\ UNCHANGED <<article, js, mode, posted, histories, bounds>>

\* The server ends a render nobody waits for any more.
Abandoned(r) ==
    /\ \/ r \in Fetches \ fetching
       \/ r = Form /\ mode # "posting"
    /\ Return(r)
    /\ UNCHANGED <<article, pageVars, histories, bounds>>

-----------------------------------------------------------------------------
(* The form: adminSave *)

\* The buttons the page offers.
Enabled(action) ==
    CASE action = "save" -> page.saveOn
      [] action = "publish" -> ~page.published
      [] action = "unpublish" -> page.published
      [] action = "preview" -> ~js

\* The browser posts the form; the handler loads the article and renders what a
\* preview or a save holds.  Without the row it starts no render.
Submit(action) ==
    /\ mode = "editor" /\ Enabled(action) /\ at[Form] = "idle"
    /\ mode' = "posting"
    /\ posted' = [action |-> action, body |-> page.text, row |-> article,
                  stage |-> IF action = "unpublish" THEN "publish" ELSE "render"]
    /\ \/ action # "unpublish" /\ Begin(Form, page.text)
       \/ UNCHANGED renderVars
    /\ late' = FALSE /\ raced' = FALSE
    /\ UNCHANGED <<article, js, page, fetching, asked, bounds>>

\* The session has run out: requireAuthor answers with the sign-in page.
SignInPage ==
    /\ \/ mode = "editor"
       \/ mode = "posting" /\ posted.stage = "redirect"
    /\ mode' = "login" /\ fetching' = {} /\ posted' = NoPost
    /\ UNCHANGED <<renderVars, article, js, page, histories, bounds>>

\* Mutant: publish stores the state, and not the form.
SavedUnlessPublish(row) ==
    IF posted.action = "publish" THEN row
    ELSE [row EXCEPT !.body = posted.body, !.html = html[Form]]
Saved(row) == [row EXCEPT !.body = posted.body, !.html = html[Form]]

\* UpdateArticle, with what Render returned.
Commit ==
    /\ mode = "posting" /\ posted.stage = "render" /\ at[Form] = "done"
    /\ posted.action \in {"save", "publish"}
    /\ article' = Saved(article)
    /\ raced' = FALSE
    /\ posted' = [posted EXCEPT !.stage =
                    IF posted.action = "publish" THEN "publish" ELSE "redirect"]
    /\ Return(Form)
    /\ UNCHANGED <<js, mode, page, fetching, asked, late, bounds>>

\* SetPublished of publish and unpublish.
Publish ==
    /\ mode = "posting" /\ posted.stage = "publish"
    /\ article' = [article EXCEPT !.published = posted.action = "publish"]
    /\ posted' = [posted EXCEPT !.stage = "redirect"]
    /\ UNCHANGED <<renderVars, js, mode, page, fetching, histories, bounds>>

\* A page takes the place of the one in the window; its fetches go with it.
Load(p) ==
    /\ mode' = "editor" /\ page' = p
    /\ fetching' = {} /\ posted' = NoPost
    /\ asked' = NoDoc /\ late' = FALSE /\ raced' = FALSE

\* The preview without the script: nothing is stored.
PreviewPosted ==
    /\ mode = "posting" /\ posted.action = "preview" /\ at[Form] = "done"
    /\ Return(Form)
    /\ Load(PreviewPage(posted.row, posted.body, html[Form]))
    /\ UNCHANGED <<article, js, bounds>>

\* The redirect is followed: adminEditor loads the row again.
Redirect ==
    /\ mode = "posting" /\ posted.stage = "redirect"
    /\ Load(FreshPage(article))
    /\ UNCHANGED <<renderVars, article, js, bounds>>

\* The render or a statement fails, or the connection is lost, anywhere on the way:
\* an error page, and the rest is not done.
PostFails ==
    /\ mode = "posting"
    /\ mode' = "error" /\ fetching' = {} /\ posted' = NoPost
    /\ UNCHANGED <<renderVars, article, js, page, histories, bounds>>

\* The author stops the request, or presses another button, which stops it first:
\* the page stays, and so does what the handler has stored by then.
GiveUp ==
    /\ mode = "posting"
    /\ mode' = "editor" /\ posted' = NoPost
    /\ late' = FALSE /\ raced' = FALSE
    /\ UNCHANGED <<renderVars, article, js, page, fetching, asked, bounds>>

-----------------------------------------------------------------------------
(* Around the page *)

\* The author opens the editor again, signing in if need be.
Open ==
    /\ mode \in {"error", "login"}
    /\ Load(FreshPage(article))
    /\ UNCHANGED <<renderVars, article, js, bounds>>

\* The other author saves, or publishes what there is: no version is compared.
OtherAuthor ==
    /\ others < MaxOthers /\ others' = others + 1
    /\ \/ \E body \in Documents :
            /\ \A i \in DOMAIN body : ~Refused(body[i])
            /\ article' = [article EXCEPT !.body = body, !.html = PageOf(body, NoLang)]
            /\ raced' = (mode = "posting")
       \/ /\ article' = [article EXCEPT !.published = ~@]
          /\ UNCHANGED raced
    /\ UNCHANGED <<renderVars, pageVars, asked, late, edits>>

Next ==
    \/ \E body \in Documents : Type(body)
    \/ \E r \in Fetches : ClickPreview(r) \/ PreviewArrives(r) \/ PreviewFails(r)
    \/ \E r \in Renders : Abandoned(r)
    \/ \E r \in Renders : /\ RenderStep(r, NoLang)
                          /\ UNCHANGED <<article, pageVars, histories, bounds>>
    \/ \E action \in {"save", "publish", "unpublish", "preview"} : Submit(action)
    \/ Commit \/ Publish \/ PreviewPosted \/ Redirect \/ PostFails \/ GiveUp
    \/ SignInPage \/ Open \/ OtherAuthor

Spec == Init /\ [][Next]_vars

-----------------------------------------------------------------------------
(* What must hold *)

\* What the editor says of itself is so: "saved" stands over the text the page was
\* loaded with, "from last save" over the render stored with that text, "rendered
\* just now" over the render of the text the author asked for last, whatever
\* other fetches were sent, answered, failed or left behind.
PageTellsTruth ==
    mode = "editor" =>
        /\ js /\ page.chip = "saved" => page.text = page.base
        /\ page.status = "from last save" => page.pane = PageOf(page.base, NoLang)
        /\ js /\ page.status = "just now" /\ page.previewOn =>
               page.pane = PageOf(asked, NoLang)

\* Unsaved text is not lost but by these: the author goes on typing after posting
\* the form, presses unpublish, which stores no text, meets an error or sign-in
\* page, or the other author saves between the save and the page that follows.
Reloaded == mode = "posting" /\ mode' = "editor" /\ page'.chip = "saved"

EditsSurvive ==
    [][Reloaded => (page'.text = page.text \/ late \/ posted.action = "unpublish"
                        \/ raced)]_vars
=============================================================================
