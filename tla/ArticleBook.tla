---------------------------- MODULE ArticleBook ----------------------------
(***************************************************************************)
(* What internal/store/admin.go promises its callers: a table of articles  *)
(* in which each of CreateArticle, UpdateArticle and SetPublished is one   *)
(* atomic operation, whatever runs beside it and however it fails.  A slug *)
(* is given once and never shared; a save replaces title, body, render and *)
(* tags together and nothing else; publishing touches published_at alone.  *)
(***************************************************************************)
CONSTANTS
    Ids,        \* the articles there can be
    Slugs,      \* what a slug or a tag can be
    NoSlug,     \* no slug: the article does not exist
    Contents,   \* what a save may submit: title, body and set of tags
    Stamps,     \* publish times
    Unpublished,\* the published_at of a draft
    EmptyBody,  \* the body of a new draft
    Seed        \* the slugs of the drafts there are at the start

VARIABLE articles

\* A new draft with its title, untagged and not rendered yet.
Fresh(slug, title) ==
    [slug |-> slug, title |-> title, body |-> EmptyBody, html |-> EmptyBody,
     tags |-> {}, published |-> Unpublished]

Init == articles = [id \in Ids |-> Fresh(Seed[id], Seed[id])]

Create(id, slug, title) ==
    /\ articles[id].slug = NoSlug
    /\ slug # NoSlug
    /\ \A i \in Ids : articles[i].slug # slug
    /\ articles' = [articles EXCEPT ![id] = Fresh(slug, title)]

\* A save replaces all but the slug and the publish time.
Saved(article, content) ==
    [slug |-> article.slug, title |-> content.title, body |-> content.body,
     html |-> content.body, tags |-> content.tags, published |-> article.published]

Save(id, content) ==
    /\ articles[id].slug # NoSlug
    /\ articles' = [articles EXCEPT ![id] = Saved(@, content)]

SetPublished(id, at) ==
    /\ articles[id].slug # NoSlug
    /\ articles' = [articles EXCEPT ![id] = [@ EXCEPT !.published = at]]

Next ==
    \E id \in Ids :
        \/ \E slug, title \in Slugs : Create(id, slug, title)
        \/ \E content \in Contents : Save(id, content)
        \/ \E at \in Stamps \cup {Unpublished} : SetPublished(id, at)

Spec == Init /\ [][Next]_articles
=============================================================================
