----------------------------- MODULE MCArticles -----------------------------
(***************************************************************************)
(* The instances of Articles that TLC checks: the forms the authors may    *)
(* submit, to two of three articles that hold the first slugs of one       *)
(* title, and to create more under that title.                             *)
(***************************************************************************)
EXTENDS Articles, TLC

CONSTANTS go, tla, post, empty, red, blue, green

Tag(word) == <<word>>

Form(action, id, title, body, tags) ==
    [action |-> action, id |-> id, title |-> title, body |-> body, tags |-> tags]

Create(title) == Form("create", 1, title, empty, <<>>)

\* Three articles hold the first three slugs of one title.
MCIds == 1..6
MCSeed == [i \in MCIds |-> IF i <= 3 THEN Candidate(<<post>>, i) ELSE NoSlug]
MCBodies == {empty, red, blue, green}

\* Creates under that title, under the title of its suffixed form and under a blank
\* one; saves of two articles that name two new tags in opposite orders, one with
\* a blank and a repeat, a publish of each, and the other buttons, one of them on
\* an article that is there only once a create has run.
FormList ==
    << Create(<<post>>),
       Form("save", 1, <<post>>, red, <<Tag(go), Tag(tla)>>),
       Form("save", 2, <<post, 2>>, blue, <<Tag(tla), NoSlug, Tag(go), Tag(tla)>>),
       Form("publish", 1, <<go>>, green, <<Tag(tla)>>),
       Form("publish", 2, <<go>>, red, <<>>),
       Form("unpublish", 1, <<post>>, empty, <<>>),
       Form("preview", 4, <<post>>, red, <<>>),
       Form("other", 2, <<post>>, blue, <<>>),
       Create(<<post, 2>>),
       Create(NoSlug) >>
MCForms == {FormList[n] : n \in DOMAIN FormList}

\* Every choice of three of these forms, once: which request submits which of them
\* makes no difference.
ThreeRequests == 1..3
ThreeForms ==
    {[r \in ThreeRequests |-> FormList[choice[r]]] :
        choice \in {c \in [ThreeRequests -> DOMAIN FormList] : c[1] <= c[2] /\ c[2] <= c[3]}}

\* Every slug a title or a tag can become.
MCSlugs ==
    {NoSlug, Tag(go), Tag(tla)}
        \cup {Candidate(t, n) : t \in {<<post>>, <<post, 2>>, <<go>>}, n \in 1..Attempts}

=============================================================================
