--------------------------- MODULE ArticlesProofs ---------------------------
(***************************************************************************)
(* Theorems about Articles, for any set of requests, forms and articles.   *)
(***************************************************************************)
EXTENDS Articles, FiniteSetTheorems, WellFoundedInduction, TLAPS

\* A form has its fields, whichever request submitted it.
LEMMA FormTypes ==
    ASSUME TypeOK, NEW r \in Requests
    PROVE  /\ form[r] \in Forms /\ form[r] \in FormType
           /\ form[r].action \in Buttons \cup {"create"}
           /\ form[r].id \in Ids
           /\ form[r].title \in Slugs
           /\ form[r].body \in Bodies
           /\ form[r].tags \in Seq(Slugs)
BY ConstantsAssumption DEF TypeOK, FormType

\* The positions parseTags keeps are positions of the field, with a slug each.
LEMMA ParseTagsKeeps ==
    ASSUME NEW field \in Seq(Slugs)
    PROVE  /\ ParseTags(field) \subseteq Int
           /\ \A i \in ParseTags(field) : field[i] \in Slugs
           /\ \A i, j \in ParseTags(field) : field[i] = field[j] => i = j
<1>1. DOMAIN field = 1..Len(field) /\ Len(field) \in Nat
  OBVIOUS
<1>2. \A i \in DOMAIN field : field[i] \in Slugs
  BY <1>1
<1>3. QED
  BY <1>1, <1>2 DEF ParseTags

-----------------------------------------------------------------------------
(* Type correctness *)

\* Saving and publishing a row leave a row.
LEMMA SavedRowType ==
    ASSUME NEW row \in Rows, NEW f \in FormType
    PROVE  SavedRow(row, f) \in Rows
BY DEF SavedRow, Rows, FormType

LEMMA PublishedRowType ==
    ASSUME NEW row \in Rows, NEW at \in Requests \cup {NoRequest}
    PROVE  [row EXCEPT !.published = at] \in Rows
BY DEF Rows

\* Where a request's goroutine can be follows from the button it carries, and
\* the tags it has still to attach are tags of its own form.
FlowOK ==
    \A r \in Requests :
        /\ pc[r] = "insert" => form[r].action = "create" /\ form[r].title # NoSlug
        /\ pc[r] = "load" => form[r].action \in Buttons
        /\ pc[r] = "render" => form[r].action \in {"preview", "save", "publish"}
        /\ pc[r] = "update" \/ InTx(r) => form[r].action \in {"save", "publish"}
        /\ pc[r] = "publish" => form[r].action \in {"publish", "unpublish"}
        /\ todo[r] \subseteq ParseTags(form[r].tags)

Typing == TypeOK /\ FlowOK

LEMMA InitType == Init => Typing
BY ConstantsAssumption, SeedAssumption
   DEF Init, Typing, TypeOK, FlowOK, InTx, Draft, Rows, Attempts

LEMMA StepType == Typing /\ [Next]_vars => Typing'
<1> SUFFICES ASSUME Typing, [Next]_vars
             PROVE  Typing'
  OBVIOUS
<1> USE DEF Typing, TypeOK, FlowOK, InTx, Goto, tables, history, Answered, InFlight
<1>1. ASSUME NEW r \in Requests, Receive(r)
      PROVE  Typing'
  <2>1. FlowOK'
    BY <1>1, FormTypes DEF Receive
  <2>2. QED
    BY <1>1, <2>1 DEF Receive
<1>2. ASSUME NEW r \in Requests, Insert(r)
      PROVE  Typing'
  <2> DEFINE slug == Candidate(form[r].title, attempt[r])
  <2>1. PICK id \in Ids :
            docs' = [docs EXCEPT ![id] = [Draft(slug) EXCEPT !.title = form[r].title]]
    BY <1>2 DEF Insert, NewRow, AfterInsert
  <2>2. slug \in Slugs
    BY <1>2, CandidateAssumption, FormTypes DEF Insert, NewRow, AfterInsert
  <2>3. [Draft(slug) EXCEPT !.title = form[r].title] \in Rows
    BY <2>2, ConstantsAssumption, FormTypes DEF Draft, Rows
  <2>4. docs' \in [Ids -> Rows]
    BY <2>1, <2>3
  <2>5. QED
    BY <1>2, <2>4 DEF Insert, NewRow, AfterInsert
<1>3. ASSUME NEW r \in Requests, SlugTaken(r)
      PROVE  Typing'
  BY <1>3 DEF SlugTaken, AttemptsLeft, Attempts
<1>4. ASSUME NEW r \in Requests, Load(r)
      PROVE  Typing'
  <2>1. pc' \in [Requests -> {"idle"} \cup InFlight \cup Answered]
    BY <1>4 DEF Load, Branch
  <2>2. FlowOK'
    BY <1>4 DEF Load, Branch, Buttons
  <2>3. QED
    BY <1>4, <2>1, <2>2 DEF Load, Branch
<1>5. ASSUME NEW r \in Requests, Render(r)
      PROVE  Typing'
  BY <1>5 DEF Render
<1>6. ASSUME NEW r \in Requests, UpdateRow(r)
      PROVE  Typing'
  <2>1. ParseTags(form[r].tags) \subseteq Int
    BY FormTypes, ParseTagsKeeps
  <2>2. QED
    BY <1>6, <2>1 DEF UpdateRow, TagsLeft
<1>7. ASSUME NEW r \in Requests, InsertCategory(r)
      PROVE  Typing'
  <2>1. \A i \in todo[r] : form[r].tags[i] \in Slugs
    BY FormTypes, ParseTagsKeeps
  <2>2. newcats' \in [Requests -> SUBSET Slugs]
    BY <1>7, <2>1 DEF InsertCategory
  <2>3. QED
    BY <1>7, <2>2 DEF InsertCategory
<1>8. ASSUME NEW r \in Requests, AttachTag(r)
      PROVE  Typing'
  <2>1. PICK i \in todo[r] : AttachTag(r)!2!(i)
    BY <1>8 DEF AttachTag
  <2>2. \A j \in todo[r] : form[r].tags[j] \in Slugs
    BY FormTypes, ParseTagsKeeps
  <2>3. CASE form[r].tags[i] \in attached[r]
    BY <1>8, <2>1, <2>3 DEF AttachTag, EndTx
  <2>4. CASE form[r].tags[i] \notin attached[r]
    BY <1>8, <2>1, <2>2, <2>4 DEF AttachTag
  <2>5. QED
    BY <2>3, <2>4
<1>9. ASSUME NEW r \in Requests, Commit(r)
      PROVE  Typing'
  <2>1. SavedRow(docs[form[r].id], form[r]) \in Rows
    <3>1. form[r].id \in Ids /\ docs[form[r].id] \in Rows
      BY FormTypes
    <3>2. QED
      BY <3>1, FormTypes, SavedRowType
  <2>2. docs' \in [Ids -> Rows]
    BY <1>9, <2>1 DEF Commit
  <2>3. FlowOK'
    BY <1>9 DEF Commit, AfterCommit, EndTx
  <2>4. QED
    BY <1>9, <2>2, <2>3, FormTypes DEF Commit, AfterCommit, EndTx
<1>10. ASSUME NEW r \in Requests, SetPublished(r)
      PROVE  Typing'
  <2>1. docs' \in [Ids -> Rows]
    <3>1. form[r].id \in Ids /\ PublishedAt(r) \in Requests \cup {NoRequest}
      BY FormTypes DEF PublishedAt
    <3>2. QED
      BY <1>10, <3>1, PublishedRowType DEF SetPublished
  <2>2. FlowOK'
    BY <1>10 DEF SetPublished
  <2>3. QED
    BY <1>10, <2>1, <2>2 DEF SetPublished
<1>11. ASSUME NEW r \in Requests, Reply(r)
      PROVE  Typing'
  BY <1>11 DEF Reply
<1>12. ASSUME NEW r \in Requests, Fail(r)
      PROVE  Typing'
  BY <1>12 DEF Fail, Rollback, EndTx
<1>13. CASE UNCHANGED vars
  BY <1>13 DEF vars, handler
<1>14. QED
  BY <1>1, <1>2, <1>3, <1>4, <1>5, <1>6, <1>7, <1>8, <1>9, <1>10, <1>11,
     <1>12, <1>13 DEF Next, Step, DeadlockAbort, AllAnswered

\* Every variable keeps its type in every behaviour.
THEOREM TypeCorrect == Spec => []TypeOK
<1>1. Typing => TypeOK
  BY DEF Typing
<1>2. QED
  BY <1>1, InitType, StepType, PTL DEF Spec

-----------------------------------------------------------------------------
(* The saves: what is open, and what is committed *)

\* An open transaction: its article exists, it has attached exactly the tags it
\* has dealt with, each of them a category it sees, and it has inserted no
\* category but its own tags; a request outside a transaction holds none.
TxOK ==
    \A r \in Requests :
        LET field == form[r].tags  done == ParseTags(field) \ todo[r] IN
        /\ pc[r] \in {"render", "update", "publish"} \/ InTx(r) => Exists(form[r].id)
        /\ InTx(r) => /\ attached[r] = {field[i] : i \in done}
                      /\ attached[r] \subseteq Visible(r)
        /\ newcats[r] \subseteq TagsOf(form[r])
        /\ pc[r] = "attach" =>
              \A i \in todo[r] : Current(r, i) => field[i] \in Visible(r)
        /\ pc[r] = "commit" => todo[r] = {}
        /\ ~InTx(r) => newcats[r] = {}

\* The last save of an article is a committed save of that article.
SavesOK ==
    \A id \in Ids : lastSave[id] # NoRequest =>
        /\ Exists(id)
        /\ form[lastSave[id]].id = id
        /\ <<lastSave[id], "save">> \in effects

SaveInv == TxOK /\ SavesOK /\ LocksExclusive /\ NoTornSave /\ CategoriesOfSaves

LEMMA SaveInit == Init => SaveInv
BY ConstantsAssumption
   DEF Init, SaveInv, TxOK, SavesOK, LocksExclusive, NoTornSave,
       CategoriesOfSaves, InTx, Draft

LEMMA SaveStep == Typing /\ Typing' /\ SaveInv /\ [Next]_vars => SaveInv'
<1> SUFFICES ASSUME Typing, Typing', SaveInv, [Next]_vars
             PROVE  SaveInv'
  OBVIOUS
<1> USE DEF SaveInv, Goto, tables, history, InTx
<1> TypeOK /\ TypeOK' /\ FlowOK
  BY DEF Typing
\* Steps of the handlers that touch neither the tables nor a transaction.
<1>1. ASSUME NEW r \in Requests,
             UNCHANGED <<docs, taggings, categories, form, todo, attached, newcats, lastSave>>,
             {e \in effects' : e[2] = "save"} = {e \in effects : e[2] = "save"},
             \A s \in Requests \ {r} : pc'[s] = pc[s],
             pc'[r] \in {"insert", "load", "render", "update", "publish", "reply"} \cup Answered,
             ~InTx(r), pc'[r] \in {"render", "update", "publish"} => Exists(form[r].id)
      PROVE  SaveInv'
  <2>1. pc'[r] \notin {"category", "attach", "commit"}
    BY <1>1 DEF Answered
  <2>2. TxOK'
    BY <1>1, <2>1 DEF TxOK, Exists, Visible, Current, TypeOK
  <2>3. \A q : <<q, "save">> \in effects' <=> <<q, "save">> \in effects
    <3>1. \A q : <<q, "save">>[2] = "save"
      OBVIOUS
    <3>2. QED
      BY <1>1, <3>1
  <2>4. SavesOK' /\ NoTornSave' /\ LocksExclusive'
    BY <1>1, <2>1, <2>3 DEF SavesOK, NoTornSave, LocksExclusive, Exists, TypeOK
  <2>5. CategoriesOfSaves'
    BY <1>1, <2>3 DEF CategoriesOfSaves
  <2>6. QED
    BY <2>2, <2>4, <2>5
<1>2. ASSUME NEW r \in Requests, Receive(r) \/ SlugTaken(r) \/ Load(r) \/ Render(r) \/ Reply(r)
      PROVE  SaveInv'
  <2>1. /\ \A s \in Requests \ {r} : pc'[s] = pc[s]
        /\ pc'[r] \in {"insert", "load", "render", "update", "publish", "reply"} \cup Answered
        /\ pc'[r] \in {"render", "update", "publish"} => Exists(form[r].id)
    <3>1. CASE Receive(r)
      BY <3>1 DEF Receive, Answered, TypeOK
    <3>2. CASE SlugTaken(r)
      BY <3>2 DEF SlugTaken, AttemptsLeft, Answered, TypeOK
    <3>3. CASE Load(r)
      BY <3>3 DEF Load, Branch, Answered, TypeOK
    <3>4. CASE Render(r)
      BY <3>4 DEF Render, Answered, TxOK, TypeOK
    <3>5. CASE Reply(r)
      BY <3>5 DEF Reply, Answered, TypeOK
    <3>6. QED
      BY <1>2, <3>1, <3>2, <3>3, <3>4, <3>5
  <2>2. /\ UNCHANGED <<docs, taggings, categories, form, todo, attached, newcats, lastSave, effects>>
        /\ ~InTx(r)
    BY <1>2 DEF Receive, SlugTaken, Load, Render, Reply
  <2>3. QED
    BY <1>1, <2>1, <2>2
<1>3. ASSUME NEW r \in Requests, Insert(r)
      PROVE  SaveInv'
  <2>1. PICK new \in Ids :
           /\ ~Exists(new)
           /\ docs' = [docs EXCEPT ![new] =
                 [Draft(Candidate(form[r].title, attempt[r])) EXCEPT !.title = form[r].title]]
    BY <1>3 DEF Insert, NextId, NewRow
  <2>2. /\ pc[r] = "insert" /\ pc' = [pc EXCEPT ![r] = "reply"]
        /\ effects' = effects \cup {<<r, "insert">>}
        /\ UNCHANGED <<taggings, categories, form, todo, attached, newcats, lastSave>>
    BY <1>3 DEF Insert, NewRow, AfterInsert
  <2>3. \A id \in Ids : Exists(id) => id # new /\ docs'[id] = docs[id]
    BY <2>1 DEF TypeOK
  <2>4. \A q : <<q, "save">> \in effects' <=> <<q, "save">> \in effects
    BY <2>2
  <2>5. TxOK'
    BY <2>2, <2>3, FormTypes DEF TxOK, Exists, Visible, Current, TypeOK
  <2>6. SavesOK'
    BY <2>2, <2>3, <2>4 DEF SavesOK, Exists
  <2>7. NoTornSave'
    <3>1. docs'[new].body = EmptyBody /\ lastSave[new] = NoRequest
      BY <2>1 DEF Draft, SavesOK, TypeOK
    <3>2. \A id \in Ids \ {new} : docs'[id] = docs[id]
      BY <2>1 DEF TypeOK
    <3>3. QED
      BY <2>2, <3>1, <3>2 DEF NoTornSave
  <2>8. LocksExclusive' /\ CategoriesOfSaves'
    BY <2>2, <2>4 DEF LocksExclusive, CategoriesOfSaves, TypeOK
  <2>9. QED
    BY <2>5, <2>6, <2>7, <2>8
<1>4. ASSUME NEW r \in Requests, UpdateRow(r)
      PROVE  SaveInv'
  <2>1. /\ pc[r] = "update" /\ ~Locked(form[r].id) /\ Exists(form[r].id)
        /\ todo' = [todo EXCEPT ![r] = ParseTags(form[r].tags)]
        /\ attached' = [attached EXCEPT ![r] = {}]
        /\ pc' = [pc EXCEPT ![r] = IF ParseTags(form[r].tags) = {} THEN "commit" ELSE "category"]
        /\ UNCHANGED <<docs, taggings, categories, form, newcats, lastSave, effects>>
    BY <1>4 DEF UpdateRow, TagsLeft, TxOK
  <2>2. TxOK'
    BY <2>1 DEF TxOK, Exists, Visible, Current, TypeOK
  <2>3. LocksExclusive'
    BY <2>1 DEF LocksExclusive, Locked, TypeOK
  <2>4. SavesOK' /\ NoTornSave' /\ CategoriesOfSaves'
    BY <2>1 DEF SavesOK, NoTornSave, CategoriesOfSaves, Exists
  <2>5. QED
    BY <2>2, <2>3, <2>4
<1>5. ASSUME NEW r \in Requests, InsertCategory(r)
      PROVE  SaveInv'
  <2>1. PICK i \in todo[r] :
           /\ Current(r, i)
           /\ \A s \in Requests \ {r} : form[r].tags[i] \notin newcats[s]
           /\ newcats' = [newcats EXCEPT ![r] =
                IF form[r].tags[i] \in categories THEN @ ELSE @ \cup {form[r].tags[i]}]
    BY <1>5 DEF InsertCategory
  <2>2. /\ pc[r] = "category" /\ pc' = [pc EXCEPT ![r] = "attach"]
        /\ UNCHANGED <<docs, taggings, categories, form, todo, attached, lastSave, effects>>
    BY <1>5 DEF InsertCategory
  <2>3. \A j \in todo[r] : Current(r, j) => j = i
    BY <2>1 DEF Current, TypeOK
  <2>4. form[r].tags[i] \in TagsOf(form[r])
    BY DEF TagsOf, FlowOK
  <2>5. /\ newcats'[r] \subseteq TagsOf(form[r]) /\ newcats[r] \subseteq newcats'[r]
        /\ form[r].tags[i] \in categories \cup newcats'[r]
        /\ \A s \in Requests \ {r} : newcats'[s] = newcats[s]
    BY <2>1, <2>4 DEF TxOK, TypeOK
  <2>6. TxOK'
    BY <2>2, <2>3, <2>5 DEF TxOK, Exists, Visible, Current, TypeOK
  <2>7. LocksExclusive'
    BY <2>1, <2>2 DEF LocksExclusive, TypeOK
  <2>8. SavesOK' /\ NoTornSave' /\ CategoriesOfSaves'
    BY <2>2 DEF SavesOK, NoTornSave, CategoriesOfSaves, Exists
  <2>9. QED
    BY <2>6, <2>7, <2>8
<1>6. ASSUME NEW r \in Requests, AttachTag(r)
      PROVE  SaveInv'
  <2>1. PICK i \in todo[r] : AttachTag(r)!2!(i)
    BY <1>6 DEF AttachTag
  <2> DEFINE tag == form[r].tags[i]
  <2>2. /\ pc[r] = "attach"
        /\ UNCHANGED <<docs, taggings, categories, form, lastSave, effects>>
    BY <1>6 DEF AttachTag
  <2>3. Current(r, i) /\ tag \in Visible(r)
    BY <2>1, <2>2 DEF TxOK
  \* The primary key is not broken: an earlier position holds another tag.
  <2>4. tag \notin attached[r]
    BY <2>2, <2>3, FormTypes, ParseTagsKeeps DEF TxOK, FlowOK
  <2>5. /\ attached' = [attached EXCEPT ![r] = @ \cup {tag}]
        /\ todo' = [todo EXCEPT ![r] = @ \ {i}]
        /\ pc' = [pc EXCEPT ![r] = IF todo[r] = {i} THEN "commit" ELSE "category"]
        /\ newcats' = newcats
    BY <2>1, <2>3, <2>4 DEF Visible
  <2>6. TxOK'
    <3>1. \A s \in Requests \ {r} : /\ todo'[s] = todo[s] /\ attached'[s] = attached[s]
                                     /\ pc'[s] = pc[s] /\ newcats'[s] = newcats[s]
      BY <2>5 DEF TypeOK
    <3>2. attached'[r] = {form[r].tags[j] : j \in ParseTags(form[r].tags) \ todo'[r]}
      <4>1. ParseTags(form[r].tags) \ todo'[r] = (ParseTags(form[r].tags) \ todo[r]) \cup {i}
        BY <2>5 DEF TypeOK, FlowOK
      <4>2. attached'[r] = attached[r] \cup {tag}
        BY <2>5 DEF TypeOK
      <4>3. QED
        BY <2>2, <4>1, <4>2 DEF TxOK
    <3>3. /\ attached'[r] \subseteq Visible(r)
          /\ pc'[r] \in {"category", "commit"}
          /\ pc'[r] = "commit" => todo'[r] = {}
      BY <2>2, <2>3, <2>5 DEF TypeOK, TxOK
    <3>4. QED
      BY <2>2, <2>5, <3>1, <3>2, <3>3 DEF TxOK, Exists, Visible, Current
  <2>7. LocksExclusive'
    BY <2>2, <2>5 DEF LocksExclusive, TypeOK
  <2>8. SavesOK' /\ NoTornSave' /\ CategoriesOfSaves'
    BY <2>2 DEF SavesOK, NoTornSave, CategoriesOfSaves, Exists
  <2>9. QED
    BY <2>6, <2>7, <2>8
<1>7. ASSUME NEW r \in Requests, Commit(r)
      PROVE  SaveInv'
  <2>1. /\ pc[r] = "commit" /\ pc'[r] \notin {"update", "category", "attach", "commit"}
        /\ \A s \in Requests \ {r} : pc'[s] = pc[s]
        /\ docs' = [docs EXCEPT ![form[r].id] = SavedRow(@, form[r])]
        /\ taggings' = [taggings EXCEPT ![form[r].id] = attached[r]]
        /\ categories' = categories \cup newcats[r]
        /\ todo' = [todo EXCEPT ![r] = {}]
        /\ attached' = [attached EXCEPT ![r] = {}]
        /\ newcats' = [newcats EXCEPT ![r] = {}]
        /\ lastSave' = [lastSave EXCEPT ![form[r].id] = r]
        /\ effects' = effects \cup {<<r, "save">>}
        /\ form' = form
    BY <1>7 DEF Commit, AfterCommit, EndTx, TypeOK
  <2> form[r].id \in Ids
    BY FormTypes
  <2>2. attached[r] = TagsOf(form[r]) /\ attached[r] \subseteq Visible(r)
    BY <2>1 DEF TxOK, TagsOf
  <2>3. /\ docs'[form[r].id].slug = docs[form[r].id].slug
        /\ docs'[form[r].id].title = form[r].title
        /\ docs'[form[r].id].body = form[r].body
        /\ docs'[form[r].id].html = form[r].body
        /\ \A id \in Ids \ {form[r].id} : docs'[id] = docs[id]
    BY <2>1 DEF SavedRow, TypeOK, Rows
  <2>4. \A id \in Ids : Exists(id)' <=> Exists(id)
    BY <2>3 DEF Exists
  <2>5. TxOK'
    BY <2>1, <2>4, FormTypes DEF TxOK, Visible, Current, TypeOK
  <2>6. SavesOK'
    BY <2>1, <2>4 DEF SavesOK, TxOK, TypeOK
  <2>7. NoTornSave'
    BY <2>1, <2>2, <2>3, ConstantsAssumption DEF NoTornSave, TypeOK
  <2>8. LocksExclusive'
    BY <2>1 DEF LocksExclusive, TypeOK
  <2>9. CategoriesOfSaves'
    <3> DEFINE Tagged == {s \in Requests : <<s, "save">> \in effects}
    <3>1. {s \in Requests : <<s, "save">> \in effects'} = Tagged \cup {r}
      BY <2>1
    <3>2. TagsOf(form[r]) \subseteq categories \cup newcats[r]
      BY <2>2 DEF Visible
    <3>3. newcats[r] \subseteq TagsOf(form[r])
      BY DEF TxOK
    <3>4. categories = UNION {TagsOf(form[s]) : s \in Tagged}
      BY DEF CategoriesOfSaves
    <3> HIDE DEF Tagged
    <3>5. UNION {TagsOf(form[s]) : s \in Tagged \cup {r}}
            = (UNION {TagsOf(form[s]) : s \in Tagged}) \cup TagsOf(form[r])
      OBVIOUS
    <3>6. categories' = UNION {TagsOf(form[s]) : s \in Tagged \cup {r}}
      BY <2>1, <3>2, <3>3, <3>4, <3>5
    <3>7. QED
      BY <2>1, <3>1, <3>6 DEF CategoriesOfSaves
  <2>10. QED
    BY <2>5, <2>6, <2>7, <2>8, <2>9
<1>8. ASSUME NEW r \in Requests, SetPublished(r)
      PROVE  SaveInv'
  <2>1. /\ pc[r] = "publish" /\ pc' = [pc EXCEPT ![r] = "reply"]
        /\ docs' = [docs EXCEPT ![form[r].id].published = PublishedAt(r)]
        /\ effects' = effects \cup {<<r, "publish">>}
        /\ UNCHANGED <<taggings, categories, form, todo, attached, newcats, lastSave>>
    BY <1>8 DEF SetPublished
  <2>2. \A id \in Ids : /\ docs'[id].slug = docs[id].slug /\ docs'[id].title = docs[id].title
                        /\ docs'[id].body = docs[id].body /\ docs'[id].html = docs[id].html
    BY <2>1 DEF TypeOK, Rows
  <2>3. \A q : <<q, "save">> \in effects' <=> <<q, "save">> \in effects
    BY <2>1
  <2>4. TxOK'
    BY <2>1, <2>2, FormTypes DEF TxOK, Exists, Visible, Current, TypeOK
  <2>5. SavesOK' /\ NoTornSave' /\ CategoriesOfSaves'
    BY <2>1, <2>2, <2>3 DEF SavesOK, NoTornSave, CategoriesOfSaves, Exists
  <2>6. LocksExclusive'
    BY <2>1 DEF LocksExclusive, TypeOK
  <2>7. QED
    BY <2>4, <2>5, <2>6
<1>9. ASSUME NEW r \in Requests, Fail(r)
      PROVE  SaveInv'
  <2>1. /\ pc' = [pc EXCEPT ![r] = "failed"]
        /\ todo' = [todo EXCEPT ![r] = {}]
        /\ attached' = [attached EXCEPT ![r] = {}]
        /\ newcats' = [newcats EXCEPT ![r] = {}]
        /\ UNCHANGED <<docs, taggings, categories, form, lastSave, effects>>
    BY <1>9 DEF Fail, Rollback, EndTx
  <2>2. TxOK'
    BY <2>1 DEF TxOK, Exists, Visible, Current, TypeOK
  <2>3. LocksExclusive'
    BY <2>1 DEF LocksExclusive, TypeOK
  <2>4. SavesOK' /\ NoTornSave' /\ CategoriesOfSaves'
    BY <2>1 DEF SavesOK, NoTornSave, CategoriesOfSaves, Exists
  <2>5. QED
    BY <2>2, <2>3, <2>4
<1>10. CASE UNCHANGED vars
  <2>1. TxOK' /\ LocksExclusive'
    BY <1>10 DEF vars, handler, TxOK, LocksExclusive, Exists, Visible, Current
  <2>2. SavesOK' /\ NoTornSave' /\ CategoriesOfSaves'
    BY <1>10 DEF vars, handler, SavesOK, NoTornSave, CategoriesOfSaves, Exists
  <2>3. QED
    BY <2>1, <2>2
<1>11. QED
  BY <1>2, <1>3, <1>4, <1>5, <1>6, <1>7, <1>8, <1>9, <1>10
     DEF Next, Step, DeadlockAbort, AllAnswered

\* Typing and SaveInv hold together in every reachable state.
LEMMA Inductive == Spec => [](Typing /\ SaveInv)
<1>1. Init => Typing /\ SaveInv
  BY InitType, SaveInit
<1>2. Typing /\ SaveInv /\ [Next]_vars => (Typing /\ SaveInv)'
  BY StepType, SaveStep
<1>3. QED
  BY <1>1, <1>2, PTL DEF Spec

\* UpdateArticle is all or nothing: an article and its tags are, together, what
\* one committed save submitted.
THEOREM SavesAtomic == Spec => []NoTornSave
<1>1. SaveInv => NoTornSave
  BY DEF SaveInv
<1>2. QED
  BY <1>1, Inductive, PTL

\* The categories are those of committed saves: aborted ones leave none behind.
THEOREM CategoriesCommitted == Spec => []CategoriesOfSaves
<1>1. SaveInv => CategoriesOfSaves
  BY DEF SaveInv
<1>2. QED
  BY <1>1, Inductive, PTL

\* No two transactions hold one article row or one new category.
THEOREM MutualExclusion == Spec => []LocksExclusive
<1>1. SaveInv => LocksExclusive
  BY DEF SaveInv
<1>2. QED
  BY <1>1, Inductive, PTL

\* What parseTags keeps never breaks the key of document_categories.
THEOREM TagsAccepted == Spec => []TagsNeverRefused
<1>1. Typing /\ SaveInv => TagsNeverRefused
  <2> SUFFICES ASSUME Typing, SaveInv, NEW r \in Requests, pc[r] = "attach",
                      NEW i \in todo[r]
               PROVE  form[r].tags[i] \notin attached[r]
    BY DEF TagsNeverRefused
  <2>1. attached[r] = {form[r].tags[j] : j \in ParseTags(form[r].tags) \ todo[r]}
    BY DEF SaveInv, TxOK, InTx
  <2>2. i \in ParseTags(form[r].tags)
    BY DEF Typing, FlowOK
  <2>3. QED
    BY <2>1, <2>2, FormTypes, ParseTagsKeeps DEF Typing
<1>2. QED
  BY <1>1, Inductive, PTL

-----------------------------------------------------------------------------
(* Slugs and links, what is public, what a redirect means *)

\* What a request has committed, by where its goroutine is.
ProgressOK ==
    \A r \in Requests :
        /\ pc[r] = "publish" =>
              Did(r) = IF form[r].action = "publish" THEN {"save"} ELSE {}
        /\ pc[r] \in {"reply", "redirect"} => Did(r) = Promised(form[r])
        /\ pc[r] \notin {"publish", "reply", "redirect", "failed"} => Did(r) = {}
        /\ pc[r] = "failed" =>
              /\ Did(r) \subseteq Promised(form[r])
              /\ form[r].action = "publish" /\ "publish" \in Did(r) => "save" \in Did(r)

\* A committed save leaves its article saved for good.
SavedOK ==
    \A r \in Requests : <<r, "save">> \in effects => lastSave[form[r].id] # NoRequest

PublishInv == ProgressOK /\ SavedOK /\ PublicWasSaved

-----------------------------------------------------------------------------
(* Slugs *)

LEMMA SlugsInit == Init => SlugsUnique
BY SeedAssumption DEF Init, SlugsUnique, Exists, Draft

\* No step changes the slug of an article, and only Insert adds one.
LEMMA SlugsFixed ==
    ASSUME TypeOK, [Next]_vars, NEW id \in Ids, Exists(id)
    PROVE  docs'[id].slug = docs[id].slug
<1> USE DEF tables, history, TypeOK
<1>1. ASSUME NEW r \in Requests, Insert(r)
      PROVE  docs'[id].slug = docs[id].slug
  BY <1>1 DEF Insert, NextId
<1>2. ASSUME NEW r \in Requests, Commit(r)
      PROVE  docs'[id].slug = docs[id].slug
  BY <1>2, FormTypes DEF Commit, SavedRow, Rows
<1>3. ASSUME NEW r \in Requests, SetPublished(r)
      PROVE  docs'[id].slug = docs[id].slug
  BY <1>3, FormTypes DEF SetPublished, Rows
<1>4. ASSUME UNCHANGED docs
      PROVE  docs'[id].slug = docs[id].slug
  BY <1>4
<1>5. QED
  BY <1>1, <1>2, <1>3, <1>4
     DEF Next, Step, DeadlockAbort, AllAnswered, Receive, SlugTaken, Load, Render,
         UpdateRow, InsertCategory, AttachTag, Reply, Fail, vars

LEMMA SlugsStep == TypeOK /\ SlugsUnique /\ [Next]_vars => SlugsUnique'
<1> SUFFICES ASSUME TypeOK, SlugsUnique, [Next]_vars
             PROVE  SlugsUnique'
  OBVIOUS
<1> USE DEF tables, history, TypeOK
<1>1. ASSUME NEW r \in Requests, Insert(r)
      PROVE  SlugsUnique'
  <2>1. PICK new \in Ids : ~Exists(new) /\ docs' = [docs EXCEPT ![new] = NewRow(r)]
    BY <1>1 DEF Insert, NextId
  <2>2. \A i \in Ids : docs[i].slug # NewRow(r).slug
    BY <1>1 DEF Insert, Taken, NewRow, Draft
  <2>3. QED
    BY <2>1, <2>2 DEF SlugsUnique, Exists
<1>2. ASSUME \A i \in Ids : docs'[i].slug = docs[i].slug
      PROVE  SlugsUnique'
  BY <1>2 DEF SlugsUnique, Exists
<1>3. ASSUME NEW r \in Requests, Commit(r)
      PROVE  SlugsUnique'
  BY <1>2, <1>3, FormTypes DEF Commit, SavedRow, Rows
<1>4. ASSUME NEW r \in Requests, SetPublished(r)
      PROVE  SlugsUnique'
  BY <1>2, <1>4, FormTypes DEF SetPublished, Rows
<1>5. ASSUME UNCHANGED docs
      PROVE  SlugsUnique'
  BY <1>2, <1>5
<1>6. QED
  BY <1>1, <1>3, <1>4, <1>5
     DEF Next, Step, DeadlockAbort, AllAnswered, Receive, SlugTaken, Load, Render,
         UpdateRow, InsertCategory, AttachTag, Reply, Fail, vars

\* A slug names one article only, however many creates race for it.
THEOREM UniqueSlugs == Spec => []SlugsUnique
<1>1. Typing => TypeOK
  BY DEF Typing
<1>2. QED
  BY <1>1, SlugsInit, SlugsStep, Inductive, PTL DEF Spec

\* Once an article has a slug it keeps it: published links never move.
THEOREM LinksFixed == Spec => LinksNeverMove
<1>1. Typing /\ [Next]_vars => [\A id \in Ids : Exists(id) => docs'[id].slug = docs[id].slug]_vars
  BY SlugsFixed DEF Typing
<1>2. QED
  BY <1>1, Inductive, PTL DEF Spec, LinksNeverMove

-----------------------------------------------------------------------------
(* What is committed, and what is public *)

LEMMA PublishInit == Init => PublishInv
BY DEF Init, PublishInv, ProgressOK, SavedOK, PublicWasSaved, Did, Draft

\* A step of r that commits nothing leaves every promise as it was.
LEMMA QuietStep ==
    ASSUME Typing, PublishInv, NEW r \in Requests,
           UNCHANGED <<form, lastSave, effects>>,
           \A s \in Requests \ {r} : pc'[s] = pc[s],
           \A id \in Ids : docs'[id].published = docs[id].published,
           \/ pc'[r] = pc[r]
           \/ pc'[r] = "failed"
           \/ pc[r] = "reply" /\ pc'[r] = "redirect"
           \/ /\ pc[r] \notin {"publish", "reply", "redirect", "failed"}
              /\ \/ pc'[r] \notin {"publish", "reply", "redirect", "failed"}
                 \/ pc'[r] = "publish" /\ form[r].action # "publish"
                 \/ pc'[r] = "redirect" /\ Promised(form[r]) = {}
    PROVE  PublishInv'
<1>1. \A s : Did(s)' = Did(s)
  BY DEF Did
<1>2. /\ Did(r) \subseteq Promised(form[r])
      /\ form[r].action = "publish" /\ "publish" \in Did(r) => "save" \in Did(r)
  <2>1. CASE pc[r] = "publish"
    BY <2>1 DEF PublishInv, ProgressOK, Promised, Typing, FlowOK
  <2>2. CASE pc[r] \in {"reply", "redirect"}
    BY <2>2 DEF PublishInv, ProgressOK, Promised
  <2>3. CASE pc[r] \notin {"publish", "reply", "redirect"}
    BY <2>3 DEF PublishInv, ProgressOK
  <2>4. QED
    BY <2>1, <2>2, <2>3
<1>3. ProgressOK'
  <2>1. ASSUME NEW s \in Requests \ {r}
        PROVE  ProgressOK!(s)'
    BY <1>1 DEF PublishInv, ProgressOK
  <2>2. ProgressOK!(r)'
    BY <1>1, <1>2 DEF PublishInv, ProgressOK
  <2>3. QED
    BY <2>1, <2>2 DEF ProgressOK
<1>4. SavedOK' /\ PublicWasSaved'
  BY DEF PublishInv, SavedOK, PublicWasSaved
<1>5. QED
  BY <1>3, <1>4 DEF PublishInv

LEMMA PublishStep == Typing /\ PublishInv /\ [Next]_vars => PublishInv'
<1> SUFFICES ASSUME Typing, PublishInv, [Next]_vars
             PROVE  PublishInv'
  OBVIOUS
<1> USE DEF Goto, tables, history
<1> TypeOK /\ FlowOK
  BY DEF Typing
<1>1. ASSUME NEW r \in Requests, Receive(r)
      PROVE  PublishInv'
  <2>1. pc[r] = "idle" /\ pc'[r] \in {"load", "redirect", "insert"}
    BY <1>1 DEF Receive, TypeOK
  <2>2. pc'[r] = "redirect" => Promised(form[r]) = {}
    BY <1>1 DEF Receive, Promised, TypeOK
  <2>3. QED
    BY <1>1, <2>1, <2>2, QuietStep DEF Receive, TypeOK
<1>2. ASSUME NEW r \in Requests, Load(r)
      PROVE  PublishInv'
  <2>1. /\ pc[r] = "load" /\ pc'[r] \in {"notfound", "publish", "badrequest", "render"}
        /\ pc'[r] = "publish" => form[r].action # "publish"
    BY <1>2 DEF Load, Branch, TypeOK
  <2>2. QED
    BY <1>2, <2>1, QuietStep DEF Load, TypeOK
<1>3. ASSUME NEW r \in Requests, SlugTaken(r)
      PROVE  PublishInv'
  <2>1. pc[r] = "insert" /\ pc'[r] \in {"insert", "taken"}
    BY <1>3 DEF SlugTaken, TypeOK
  <2>2. QED
    BY <1>3, <2>1, QuietStep DEF SlugTaken, TypeOK
<1>4. ASSUME NEW r \in Requests, Render(r) \/ Reply(r)
      PROVE  PublishInv'
  BY <1>4, QuietStep DEF Render, Reply, TypeOK
<1>5. ASSUME NEW r \in Requests, UpdateRow(r)
      PROVE  PublishInv'
  <2>1. pc[r] = "update" /\ pc'[r] \in {"notfound", "commit", "category"}
    BY <1>5 DEF UpdateRow, TypeOK
  <2>2. QED
    BY <1>5, <2>1, QuietStep DEF UpdateRow, TypeOK
<1>6. ASSUME NEW r \in Requests, InsertCategory(r)
      PROVE  PublishInv'
  BY <1>6, QuietStep DEF InsertCategory, TypeOK
<1>7. ASSUME NEW r \in Requests, AttachTag(r)
      PROVE  PublishInv'
  <2>1. pc[r] = "attach" /\ pc'[r] \in {"failed", "commit", "category"}
    BY <1>7 DEF AttachTag, TypeOK
  <2>2. /\ UNCHANGED <<docs, form, lastSave, effects>>
        /\ \A s \in Requests \ {r} : pc'[s] = pc[s]
    BY <1>7 DEF AttachTag, TypeOK
  <2>3. QED
    BY <2>1, <2>2, QuietStep
<1>8. ASSUME NEW r \in Requests, Fail(r)
      PROVE  PublishInv'
  BY <1>8, QuietStep DEF Fail, TypeOK
<1>9. ASSUME NEW r \in Requests, Insert(r)
      PROVE  PublishInv'
  <2>1. /\ pc[r] = "insert" /\ pc'[r] = "reply"
        /\ \A s \in Requests \ {r} : pc'[s] = pc[s]
        /\ effects' = effects \cup {<<r, "insert">>}
        /\ UNCHANGED <<form, lastSave>>
    BY <1>9 DEF Insert, AfterInsert, TypeOK
  <2>2. \A id \in Ids : docs'[id].published # NoRequest => docs'[id] = docs[id]
    BY <1>9 DEF Insert, NewRow, Draft, TypeOK
  <2>3. \A s \in Requests \ {r} : Did(s)' = Did(s)
    BY <2>1 DEF Did
  <2>4. Did(r)' = {"insert"} /\ Promised(form[r]) = {"insert"}
    <3>1. Did(r) = {}
      BY <2>1 DEF PublishInv, ProgressOK
    <3>2. Did(r)' = Did(r) \cup {"insert"}
      BY <2>1 DEF Did
    <3>3. QED
      BY <2>1, <3>1, <3>2 DEF Promised, FlowOK
  <2>5. ProgressOK'
    BY <2>1, <2>3, <2>4 DEF PublishInv, ProgressOK
  <2>6. SavedOK' /\ PublicWasSaved'
    BY <2>1, <2>2 DEF PublishInv, SavedOK, PublicWasSaved
  <2>7. QED
    BY <2>5, <2>6 DEF PublishInv
<1>10. ASSUME NEW r \in Requests, Commit(r)
      PROVE  PublishInv'
  <2>1. /\ pc[r] = "commit"
        /\ pc'[r] = IF form[r].action = "publish" THEN "publish" ELSE "reply"
        /\ \A s \in Requests \ {r} : pc'[s] = pc[s]
        /\ effects' = effects \cup {<<r, "save">>}
        /\ lastSave' = [lastSave EXCEPT ![form[r].id] = r]
        /\ form' = form
    BY <1>10 DEF Commit, AfterCommit, TypeOK
  <2>2. \A id \in Ids : docs'[id].published = docs[id].published
    BY <1>10, FormTypes DEF Commit, SavedRow, TypeOK, Rows
  <2>3. \A s \in Requests \ {r} : Did(s)' = Did(s)
    BY <2>1 DEF Did
  <2>4. /\ Did(r)' = {"save"}
        /\ form[r].action = "save" => Promised(form[r]) = {"save"}
        /\ form[r].action \in {"save", "publish"}
    <3>1. Did(r) = {}
      BY <2>1 DEF PublishInv, ProgressOK
    <3>2. Did(r)' = Did(r) \cup {"save"}
      BY <2>1 DEF Did
    <3>3. QED
      BY <2>1, <3>1, <3>2 DEF Promised, FlowOK, InTx
  <2>5. ProgressOK'
    BY <2>1, <2>3, <2>4 DEF PublishInv, ProgressOK
  <2>6. /\ form[r].id \in Ids /\ lastSave'[form[r].id] = r /\ r # NoRequest
        /\ \A id \in Ids : lastSave[id] # NoRequest => lastSave'[id] # NoRequest
    BY <2>1, FormTypes, ConstantsAssumption DEF TypeOK
  <2>7. SavedOK'
    <3>1. ASSUME NEW s \in Requests, <<s, "save">> \in effects'
          PROVE  lastSave'[form[s].id] # NoRequest
      <4>1. form[s].id \in Ids
        BY FormTypes
      <4>2. CASE s = r
        BY <4>2, <2>6
      <4>3. CASE s # r
        BY <3>1, <4>1, <4>3, <2>1, <2>6 DEF PublishInv, SavedOK
      <4>4. QED
        BY <4>2, <4>3
    <3>2. QED
      BY <3>1, <2>1 DEF SavedOK
  <2>8. PublicWasSaved'
    <3>1. ASSUME NEW id \in Ids, docs'[id].published # NoRequest
          PROVE  PublicWasSaved!(id)'
      BY <3>1, <2>1, <2>2, <2>6 DEF PublishInv, PublicWasSaved
    <3>2. QED
      BY <3>1 DEF PublicWasSaved
  <2>9. QED
    BY <2>5, <2>7, <2>8 DEF PublishInv
<1>11. ASSUME NEW r \in Requests, SetPublished(r)
      PROVE  PublishInv'
  <2>1. /\ pc[r] = "publish" /\ pc'[r] = "reply"
        /\ \A s \in Requests \ {r} : pc'[s] = pc[s]
        /\ effects' = effects \cup {<<r, "publish">>}
        /\ UNCHANGED <<form, lastSave>>
    BY <1>11 DEF SetPublished, TypeOK
  <2>2. \A id \in Ids : docs'[id].published =
            IF id = form[r].id THEN PublishedAt(r) ELSE docs[id].published
    BY <1>11, FormTypes DEF SetPublished, TypeOK, Rows
  <2>3. \A s \in Requests \ {r} : Did(s)' = Did(s)
    BY <2>1 DEF Did
  <2>4. Did(r)' = Promised(form[r])
    <3>1. Did(r) = IF form[r].action = "publish" THEN {"save"} ELSE {}
      BY <2>1 DEF PublishInv, ProgressOK
    <3>2. Did(r)' = Did(r) \cup {"publish"}
      BY <2>1 DEF Did
    <3>3. QED
      BY <2>1, <3>1, <3>2 DEF Promised, FlowOK
  <2>5. ProgressOK'
    BY <2>1, <2>3, <2>4 DEF PublishInv, ProgressOK
  <2>6. SavedOK'
    BY <2>1 DEF PublishInv, SavedOK
  <2>7. PublicWasSaved'
    <3>1. form[r].action = "publish" =>
             <<r, "save">> \in effects /\ lastSave[form[r].id] # NoRequest
      BY <2>1 DEF PublishInv, ProgressOK, SavedOK, Did
    <3>2. QED
      BY <2>1, <2>2, <3>1 DEF PublishInv, PublicWasSaved, PublishedAt
  <2>8. QED
    BY <2>5, <2>6, <2>7 DEF PublishInv
<1>12. CASE UNCHANGED vars
  BY <1>12 DEF vars, handler, PublishInv, ProgressOK, SavedOK, PublicWasSaved, Did
<1>13. QED
  BY <1>1, <1>2, <1>3, <1>4, <1>5, <1>6, <1>7, <1>8, <1>9, <1>10, <1>11, <1>12
     DEF Next, Step, DeadlockAbort, AllAnswered

LEMMA PublishInductive == Spec => []PublishInv
BY PublishInit, PublishStep, Inductive, PTL DEF Spec

\* A public article was saved and published by one request: no draft goes public.
THEOREM PublicSaved == Spec => []PublicWasSaved
<1>1. PublishInv => PublicWasSaved
  BY DEF PublishInv
<1>2. QED
  BY <1>1, PublishInductive, PTL

\* A redirected request committed all it promised, any other one a prefix.
THEOREM RedirectsTruthful == Spec => []RedirectMeansCommitted
<1>1. Typing /\ PublishInv => RedirectMeansCommitted
  <2> SUFFICES ASSUME Typing, PublishInv, NEW r \in Requests
               PROVE  RedirectMeansCommitted!(r)
    BY DEF RedirectMeansCommitted
  <2>1. CASE pc[r] = "publish"
    BY <2>1 DEF PublishInv, ProgressOK, Promised, Typing, FlowOK
  <2>2. CASE pc[r] # "publish"
    BY <2>2 DEF PublishInv, ProgressOK, Promised
  <2>3. QED
    BY <2>1, <2>2
<1>2. QED
  BY <1>1, PublishInductive, Inductive, PTL

-----------------------------------------------------------------------------
(* As many articles as creates *)

InsertsOf(committed) == {e \in committed : e[2] = "insert"}
ArticlesIn(table) == {id \in Ids : table[id].slug # NoSlug}

\* The articles of the table are counted by the inserts that committed.
CountOK ==
    /\ IsFiniteSet(ArticlesIn(docs))
    /\ IsFiniteSet(InsertsOf(effects))
    /\ Cardinality(ArticlesIn(docs)) =
           Cardinality({id \in Ids : Seed[id] # NoSlug}) + Cardinality(InsertsOf(effects))

LEMMA CountInit == Init => CountOK
<1> SUFFICES ASSUME Init PROVE CountOK
  OBVIOUS
<1>1. InsertsOf(effects) = {}
  BY DEF Init, InsertsOf
<1>2. ArticlesIn(docs) = {id \in Ids : Seed[id] # NoSlug}
  BY DEF Init, ArticlesIn, Draft
<1>3. Cardinality({id \in Ids : Seed[id] # NoSlug}) \in Nat
  BY SeedAssumption, FS_CardinalityType
<1>4. QED
  BY <1>1, <1>2, <1>3, SeedAssumption, FS_EmptySet DEF CountOK

\* An insert adds one article and one effect, both of them new.
LEMMA CountInsert ==
    ASSUME Typing, PublishInv, CountOK, NEW r \in Requests, Insert(r)
    PROVE  CountOK'
<1> TypeOK /\ FlowOK
  BY DEF Typing
<1>1. PICK new \in Ids : ~Exists(new) /\ docs' = [docs EXCEPT ![new] = NewRow(r)]
  BY DEF Insert, NextId
<1>2. NewRow(r).slug # NoSlug
  <2>1. form[r].title # NoSlug /\ form[r] \in Forms /\ attempt[r] \in 1..Attempts
    BY FormTypes DEF Insert, FlowOK, TypeOK
  <2>2. NewRow(r).slug = Candidate(form[r].title, attempt[r])
    BY DEF NewRow, Draft
  <2>3. QED
    BY <2>1, <2>2, CandidateAssumption
<1>3. ArticlesIn(docs') = ArticlesIn(docs) \cup {new} /\ new \notin ArticlesIn(docs)
  BY <1>1, <1>2 DEF ArticlesIn, Exists, TypeOK
<1>4. <<r, "insert">> \notin effects
  BY DEF Insert, PublishInv, ProgressOK, Did
<1>5. /\ InsertsOf(effects') = InsertsOf(effects) \cup {<<r, "insert">>}
      /\ <<r, "insert">> \notin InsertsOf(effects)
  BY <1>4 DEF Insert, InsertsOf
<1>6. /\ IsFiniteSet(ArticlesIn(docs'))
      /\ Cardinality(ArticlesIn(docs')) = Cardinality(ArticlesIn(docs)) + 1
  BY <1>3, FS_AddElement DEF CountOK
<1>7. /\ IsFiniteSet(InsertsOf(effects'))
      /\ Cardinality(InsertsOf(effects')) = Cardinality(InsertsOf(effects)) + 1
  BY <1>5, FS_AddElement DEF CountOK
<1>8. /\ Cardinality({id \in Ids : Seed[id] # NoSlug}) \in Nat
      /\ Cardinality(InsertsOf(effects)) \in Nat
  BY SeedAssumption, FS_CardinalityType DEF CountOK
<1>9. QED
  BY <1>6, <1>7, <1>8 DEF CountOK

LEMMA CountStep == Typing /\ PublishInv /\ CountOK /\ [Next]_vars => CountOK'
<1> SUFFICES ASSUME Typing, PublishInv, CountOK, [Next]_vars
             PROVE  CountOK'
  OBVIOUS
<1> TypeOK
  BY DEF Typing
<1>1. ASSUME NEW r \in Requests, Insert(r)
      PROVE  CountOK'
  BY <1>1, CountInsert
<1>2. ASSUME \A id \in Ids : docs'[id].slug = docs[id].slug,
             InsertsOf(effects') = InsertsOf(effects)
      PROVE  CountOK'
  <2>1. ArticlesIn(docs') = ArticlesIn(docs)
    BY <1>2 DEF ArticlesIn
  <2>2. QED
    BY <1>2, <2>1 DEF CountOK
<1>3. ASSUME NEW r \in Requests, Commit(r)
      PROVE  CountOK'
  <2>1. \A id \in Ids : docs'[id].slug = docs[id].slug
    BY <1>3, FormTypes DEF Commit, SavedRow, Rows, TypeOK
  <2>2. InsertsOf(effects') = InsertsOf(effects)
    BY <1>3 DEF Commit, InsertsOf
  <2>3. QED
    BY <1>2, <2>1, <2>2
<1>4. ASSUME NEW r \in Requests, SetPublished(r)
      PROVE  CountOK'
  <2>1. \A id \in Ids : docs'[id].slug = docs[id].slug
    BY <1>4, FormTypes DEF SetPublished, Rows, TypeOK
  <2>2. InsertsOf(effects') = InsertsOf(effects)
    BY <1>4 DEF SetPublished, InsertsOf
  <2>3. QED
    BY <1>2, <2>1, <2>2
<1>5. ASSUME UNCHANGED <<docs, effects>>
      PROVE  CountOK'
  BY <1>2, <1>5
<1>6. QED
  BY <1>1, <1>3, <1>4, <1>5
     DEF Next, Step, DeadlockAbort, AllAnswered, Receive, SlugTaken, Load, Render,
         UpdateRow, InsertCategory, AttachTag, Reply, Fail, vars, tables, history

\* The articles are the seeds and one for each insert that committed: no create
\* that was answered with an error, or retried under a suffix, left another.
THEOREM ArticlesCounted == Spec => []OneArticlePerCreate
<1>1. Init => CountOK
  BY CountInit
<1>2. CountOK => OneArticlePerCreate
  BY DEF CountOK, OneArticlePerCreate, ArticlesIn, InsertsOf, Exists
<1>3. QED
  BY <1>1, <1>2, CountStep, Inductive, PublishInductive, PTL DEF Spec

-----------------------------------------------------------------------------
(* Waiting requests: somebody can always go on *)

\* The requests that have arrived: at any moment finitely many of them, even if
\* Requests is infinite.
Arrived(at) == {r \in Requests : at[r] # "idle"}
FewArrived == IsFiniteSet(Arrived(pc))

LEMMA ArrivedInit == Init => FewArrived
<1> SUFFICES ASSUME Init PROVE IsFiniteSet(Arrived(pc))
  BY DEF FewArrived
<1>1. Arrived(pc) = {}
  BY DEF Init, Arrived
<1>2. QED
  BY <1>1, FS_EmptySet

LEMMA ArrivedStep == Typing /\ FewArrived /\ [Next]_vars => FewArrived'
<1> SUFFICES ASSUME Typing, IsFiniteSet(Arrived(pc)), [Next]_vars
             PROVE  IsFiniteSet(Arrived(pc'))
  BY DEF FewArrived
<1>1. CASE UNCHANGED pc
  BY <1>1
<1>2. ASSUME NEW r \in Requests, NEW label, Goto(r, label)
      PROVE  IsFiniteSet(Arrived(pc'))
  <2>1. Arrived(pc') \subseteq Arrived(pc) \cup {r}
    BY <1>2 DEF Goto, Arrived, Typing, TypeOK
  <2>2. IsFiniteSet(Arrived(pc) \cup {r})
    BY FS_AddElement
  <2>3. QED
    BY <2>1, <2>2, FS_Subset
<1>3. ASSUME NEW r \in Requests, Step(r) \/ Fail(r)
      PROVE  UNCHANGED pc \/ \E label : Goto(r, label)
  <2>1. CASE Receive(r) \/ Insert(r) \/ Load(r) \/ Render(r) \/ InsertCategory(r)
    BY <2>1 DEF Receive, Insert, Load, Render, InsertCategory
  <2>2. CASE SlugTaken(r)
    BY <2>2 DEF SlugTaken
  <2>3. CASE UpdateRow(r)
    BY <2>3 DEF UpdateRow
  <2>4. CASE AttachTag(r)
    BY <2>4 DEF AttachTag
  <2>5. CASE Commit(r) \/ SetPublished(r) \/ Reply(r) \/ Fail(r)
    BY <2>5 DEF Commit, SetPublished, Reply, Fail
  <2>6. QED
    BY <1>3, <2>1, <2>2, <2>3, <2>4, <2>5 DEF Step
<1>4. QED
  BY <1>1, <1>2, <1>3 DEF Next, DeadlockAbort, AllAnswered, vars, handler

LessNat == {p \in Nat \X Nat : p[1] < p[2]}

\* A set of natural numbers that is not empty has a least element.
LEMMA LeastNat ==
    ASSUME NEW S, S \subseteq Nat, S # {}
    PROVE  \E x \in S : \A y \in S : x <= y
<1>1. OpToRel(<, Nat) = LessNat
  BY DEF OpToRel, LessNat
<1>2. IsWellFoundedOn(LessNat, Nat)
  BY <1>1, NatLessThanWellFounded, Zenon
<1>3. PICK x \in S : \A y \in S : ~(<<y, x>> \in LessNat)
  BY <1>2, WFMin
<1>4. ASSUME NEW y \in S
      PROVE  x <= y
  <2>1. x \in Nat /\ y \in Nat
    OBVIOUS
  <2>2. ~(<<y, x>> \in LessNat)
    BY <1>3
  <2>3. <<y, x>> \in LessNat <=> y < x
    BY <2>1 DEF LessNat
  <2>4. QED
    BY <2>1, <2>2, <2>3
<1>5. QED
  BY <1>4

\* Of the sets of a collection that has a finite one, one is smallest.
LEMMA SmallestSet ==
    ASSUME NEW C, C # {}, \A S \in C : IsFiniteSet(S)
    PROVE  \E S \in C : \A T \in C : Cardinality(S) <= Cardinality(T)
<1> DEFINE sizes == {Cardinality(S) : S \in C}
<1>1. sizes \subseteq Nat /\ sizes # {}
  BY FS_CardinalityType
<1> HIDE DEF sizes
<1>2. PICK n \in sizes : \A k \in sizes : n <= k
  BY <1>1, LeastNat
<1>3. PICK S \in C : n = Cardinality(S)
  BY DEF sizes
<1>4. \A T \in C : Cardinality(T) \in sizes
  BY DEF sizes
<1>5. QED
  BY <1>2, <1>3, <1>4

\* Requests of which each waits for another of them include a cycle of waits.
LEMMA WaitersCycle ==
    ASSUME NEW waiting \in SUBSET Requests, waiting # {}, IsFiniteSet(waiting),
           \A r \in waiting : WaitsFor(r) \cap waiting # {}
    PROVE  \E r \in Requests : Deadlocked(r)
<1> DEFINE Closed(S) == \A s \in S : WaitsFor(s) \cap S # {}
           C == {S \in SUBSET waiting : S # {} /\ Closed(S)}
<1>1. waiting \in C /\ C # {}
  OBVIOUS
<1>2. \A S \in C : IsFiniteSet(S)
  BY FS_Subset
<1>3. PICK ring \in C : \A T \in C : Cardinality(ring) <= Cardinality(T)
  BY <1>1, <1>2, SmallestSet
<1>4. IsFiniteSet(ring) /\ ring \subseteq Requests /\ ring # {} /\ Closed(ring)
  BY <1>2
<1>5. ASSUME NEW s \in ring, \A t \in ring : s \notin WaitsFor(t)
      PROVE  FALSE
  <2> DEFINE rest == ring \ {s}
  <2>1. WaitsFor(s) \cap ring # {} /\ s \notin WaitsFor(s)
    BY <1>4 DEF WaitsFor
  <2>2. rest # {} /\ rest \subseteq waiting
    BY <2>1
  <2>3. Closed(rest)
    BY <1>4, <1>5
  <2>4. rest \in C
    BY <2>2, <2>3
  <2>5. Cardinality(rest) = Cardinality(ring) - 1 /\ Cardinality(ring) \in Nat
    BY <1>4, FS_RemoveElement, FS_CardinalityType
  <2>6. Cardinality(ring) <= Cardinality(rest)
    BY <1>3, <2>4
  <2> HIDE DEF rest
  <2>7. QED
    BY <2>5, <2>6
<1>6. PICK r \in ring : TRUE
  BY <1>4
<1>7. r \in Requests /\ Deadlocked(r)
  BY <1>4, <1>5, <1>6 DEF Deadlocked
<1>8. QED
  BY <1>7

\* A request waits for open transactions only, and whenever some wait, one in
\* flight waits for nobody or a cycle of waits is there to be aborted.
THEOREM WaitsEnd == Spec => []NobodyWaitsInVain
<1>1. Typing /\ SaveInv /\ FewArrived => NobodyWaitsInVain
  <2> SUFFICES ASSUME Typing, SaveInv, IsFiniteSet(Arrived(pc))
               PROVE  NobodyWaitsInVain
    BY DEF FewArrived
  <2> DEFINE waiting == {r \in Requests : WaitsFor(r) # {}}
  <2>1. \A r \in waiting : \A s \in WaitsFor(r) : s \in Requests /\ InTx(s)
    BY DEF WaitsFor, SaveInv, TxOK
  <2>2. \A s \in Requests : InTx(s) => pc[s] \in InFlight
    BY DEF InTx, InFlight
  <2>3. ASSUME waiting # {},
               \A r \in Requests : pc[r] \in InFlight => WaitsFor(r) # {}
        PROVE  \E r \in Requests : Deadlocked(r)
    <3>1. \A r \in waiting : WaitsFor(r) \cap waiting # {}
      BY <2>1, <2>2, <2>3
    <3>2. waiting \subseteq Arrived(pc)
      BY DEF WaitsFor, Arrived
    <3>3. IsFiniteSet(waiting) /\ waiting \in SUBSET Requests
      BY <3>2, FS_Subset
    <3> HIDE DEF waiting
    <3>4. QED
      BY <2>3, <3>1, <3>3, WaitersCycle
  <2>4. QED
    BY <2>1, <2>3 DEF NobodyWaitsInVain
<1>2. QED
  BY <1>1, ArrivedInit, ArrivedStep, Inductive, PTL DEF Spec

-----------------------------------------------------------------------------
(* Articles implements ArticleBook: the statements of the handlers,        *)
(* interleaved and failing anywhere, are seen from outside as the atomic   *)
(* operations Create, Save and SetPublished.                               *)

LEMMA BookInit == Init => Book!Init
BY SeedAssumption DEF Init, Book!Init, Book!Fresh, Articles, Draft

\* An id without an article has no tags: Create leaves a row without any.
LEMMA NoArticleNoTags ==
    ASSUME SaveInv, NEW id \in Ids, ~Exists(id)
    PROVE  taggings[id] = {}
<1>1. lastSave[id] = NoRequest
  BY DEF SaveInv, SavesOK
<1>2. QED
  BY <1>1 DEF SaveInv, NoTornSave

\* The insert of adminCreate is a Create of its candidate slug.
LEMMA InsertCreates ==
    ASSUME Typing, SaveInv, NEW r \in Requests, Insert(r)
    PROVE  Book!Next
<1> DEFINE slug == Candidate(form[r].title, attempt[r])
           title == form[r].title
<1>1. PICK id \in Ids :
          ~Exists(id) /\ docs' = [docs EXCEPT ![id] = [Draft(slug) EXCEPT !.title = title]]
  BY DEF Insert, NextId, NewRow
<1>2. slug \in Slugs \ {NoSlug} /\ title \in Slugs
  BY CandidateAssumption, FormTypes DEF Insert, Typing, TypeOK, FlowOK
<1>3. taggings' = taggings /\ taggings[id] = {}
  BY <1>1, NoArticleNoTags DEF Insert
<1>4. Articles' = [Articles EXCEPT ![id] = Book!Fresh(slug, title)]
  BY <1>1, <1>3 DEF Articles, Book!Fresh, Draft, Typing, TypeOK
<1>5. Book!Create(id, slug, title)
  BY <1>1, <1>2, <1>4 DEF Book!Create, Articles, Exists, Insert, Taken
<1>6. QED
  BY <1>2, <1>5 DEF Book!Next

\* A commit is a Save of the whole form: by then every tag of it is attached.
LEMMA CommitSaves ==
    ASSUME Typing, SaveInv, NEW r \in Requests, Commit(r)
    PROVE  Book!Next
<1> DEFINE f == form[r]  id == f.id
           content == [title |-> f.title, body |-> f.body, tags |-> TagsOf(f)]
<1> TypeOK
  BY DEF Typing
<1>1. id \in Ids /\ f \in Forms /\ f.action \in {"save", "publish"}
  BY FormTypes DEF Commit, Typing, FlowOK, InTx
<1>2. content \in Contents
  BY <1>1 DEF Contents
<1>3. Exists(id) /\ attached[r] = TagsOf(f)
  <2>1. InTx(r) /\ todo[r] = {}
    BY DEF Commit, InTx, SaveInv, TxOK
  <2>2. QED
    BY <2>1 DEF SaveInv, TxOK, TagsOf
<1>4. /\ docs' = [docs EXCEPT ![id] = SavedRow(docs[id], f)]
      /\ taggings' = [taggings EXCEPT ![id] = TagsOf(f)]
  BY <1>3 DEF Commit
<1>5. Articles' = [Articles EXCEPT ![id] = Book!Saved(Articles[id], content)]
  <2>1. docs'[id] = SavedRow(docs[id], f) /\ taggings'[id] = TagsOf(f)
    BY <1>1, <1>4 DEF TypeOK
  <2>2. \A i \in Ids \ {id} : docs'[i] = docs[i] /\ taggings'[i] = taggings[i]
    BY <1>4 DEF TypeOK
  <2>3. docs[id] \in Rows
    BY <1>1 DEF TypeOK
  <2>4. /\ docs'[id].slug = docs[id].slug /\ docs'[id].title = f.title
        /\ docs'[id].body = f.body /\ docs'[id].html = f.body
        /\ docs'[id].published = docs[id].published
    BY <2>1, <2>3 DEF SavedRow, Rows
  <2>5. Articles'[id] = Book!Saved(Articles[id], content)
    BY <1>1, <2>1, <2>4 DEF Articles, Book!Saved
  <2>6. QED
    BY <1>1, <2>2, <2>5 DEF Articles
<1>6. Book!Save(id, content)
  BY <1>1, <1>3, <1>5 DEF Book!Save, Articles, Exists
<1>7. QED
  BY <1>1, <1>2, <1>6 DEF Book!Next

\* The single UPDATE of publish and unpublish is a SetPublished.
LEMMA PublishSets ==
    ASSUME Typing, SaveInv, NEW r \in Requests, SetPublished(r)
    PROVE  Book!Next
<1> DEFINE id == form[r].id  at == PublishedAt(r)
<1> TypeOK
  BY DEF Typing
<1>1. id \in Ids /\ at \in Requests \cup {NoRequest} /\ Exists(id)
  BY FormTypes DEF SetPublished, PublishedAt, SaveInv, TxOK
<1>2. /\ docs' = [docs EXCEPT ![id].published = at]
      /\ taggings' = taggings
  BY DEF SetPublished
<1>3. Articles' = [Articles EXCEPT ![id] = [Articles[id] EXCEPT !.published = at]]
  <2>1. docs[id] \in Rows /\ docs'[id] = [docs[id] EXCEPT !.published = at]
    BY <1>1, <1>2 DEF TypeOK
  <2>2. \A i \in Ids \ {id} : docs'[i] = docs[i]
    BY <1>2 DEF TypeOK
  <2>3. Articles'[id] = [Articles[id] EXCEPT !.published = at]
    BY <1>1, <1>2, <2>1 DEF Articles, Rows
  <2>4. QED
    BY <1>1, <1>2, <2>2, <2>3 DEF Articles
<1>4. Book!SetPublished(id, at)
  BY <1>1, <1>3 DEF Book!SetPublished, Articles, Exists
<1>5. QED
  BY <1>1, <1>4 DEF Book!Next

\* A step is an operation of ArticleBook, or is not seen there.
LEMMA BookStep == Typing /\ SaveInv /\ [Next]_vars => [Book!Next]_Articles
<1> SUFFICES ASSUME Typing, SaveInv, [Next]_vars
             PROVE  Book!Next \/ UNCHANGED Articles
  OBVIOUS
<1>1. ASSUME UNCHANGED <<docs, taggings>>
      PROVE  UNCHANGED Articles
  BY <1>1 DEF Articles
<1>2. QED
  BY <1>1, InsertCreates, CommitSaves, PublishSets
     DEF Next, Step, DeadlockAbort, AllAnswered, Receive, SlugTaken, Load, Render,
         UpdateRow, InsertCategory, AttachTag, Reply, Fail, vars, tables

\* The handlers, statement by statement and failing anywhere, do nothing to the
\* articles but the atomic operations the store promises.
THEOREM ImplementsBook == Spec => BookSpec
<1>1. Typing /\ SaveInv /\ [Next]_vars => [Book!Next]_Articles
  BY BookStep
<1>2. QED
  BY <1>1, BookInit, Inductive, PTL DEF Spec, BookSpec, Book!Spec
=============================================================================
