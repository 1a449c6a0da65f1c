------------------------------ MODULE CodeTabs ------------------------------
(***************************************************************************)
(* The <code-tabs> element of ui/static/site.js: the language tabs of the  *)
(* examples, in the pages of one browser.  The pages share localStorage;   *)
(* the event a click dispatches stays within its document.                 *)
(***************************************************************************)
EXTENDS Naturals, Sequences

CONSTANT Windows  \* the pages the browser has open

VARIABLES
    stored,   \* localStorage "codepuke:lang"
    tabs      \* the code-tabs of each page, in order

\* Nothing stored, no data-default.
Unset == ""

tabVars == <<stored, tabs>>

\* Mutant: an instance without the language stays as it is.
ShowIfThere(tab, lang) ==
    IF \E i \in DOMAIN tab.langs : tab.langs[i] = lang
    THEN [tab EXCEPT !.active = lang] ELSE tab

\* show(lang): the section of that language, or else the first one.
Show(tab, lang) ==
    [tab EXCEPT !.active =
        IF \E i \in DOMAIN tab.langs : tab.langs[i] = lang THEN lang ELSE tab.langs[1]]

\* connectedCallback: the page's default beats the stored preference.
Connected(node) ==
    Show([langs |-> node.langs, default |-> node.default, active |-> node.langs[1]],
         IF node.default # Unset THEN node.default ELSE stored)

\* A page with these code-tabs is put into window w.
Connect(w, nodes) ==
    tabs' = [tabs EXCEPT ![w] = [n \in DOMAIN nodes |-> Connected(nodes[n])]]

\* The code-tabs of a page come of one render, which stamps one default on all of
\* them; an author who types the element himself is outside the model.
OneRender(nodes) ==
    /\ \A m, n \in DOMAIN nodes : nodes[m].default = nodes[n].default
    /\ \A n \in DOMAIN nodes : \A k \in DOMAIN nodes[n].langs : nodes[n].langs[k] # Unset

\* The reader picks a language on one instance: stored unless the page has its
\* own default, and shown by every instance of the document.
Click(w, n, lang) ==
    /\ n \in DOMAIN tabs[w]
    /\ \E i \in DOMAIN tabs[w][n].langs : tabs[w][n].langs[i] = lang
    /\ stored' = IF tabs[w][n].default = Unset THEN lang ELSE stored
    /\ tabs' = [tabs EXCEPT ![w] = [m \in DOMAIN @ |-> Show(@[m], lang)]]

\* "Keeps every instance on the page in sync" (site.js:4-5): one language explains
\* what all the instances of a page show, each falling back to its own first one.
TabsAgree ==
    \A w \in Windows : tabs[w] # <<>> =>
        \E lang \in {Unset} \cup {tabs[w][n].active : n \in DOMAIN tabs[w]} :
            \A n \in DOMAIN tabs[w] :
                LET langs == {tabs[w][n].langs[k] : k \in DOMAIN tabs[w][n].langs} IN
                IF lang \in langs THEN tabs[w][n].active = lang
                ELSE tabs[w][n].active = tabs[w][n].langs[1]
=============================================================================
