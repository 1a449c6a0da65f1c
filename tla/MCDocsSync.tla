----------------------------- MODULE MCDocsSync -----------------------------
(***************************************************************************)
(* Three releases: the second renames a page and drops another, and comes  *)
(* with a migration for its new project; the third names a project no      *)
(* migration inserts, so that it never boots.  Beside them, the command.   *)
(***************************************************************************)
EXTENDS DocsSync

Page(project, slug) == <<project, slug>>
Doc(project, slug, text) == [page |-> Page(project, slug), text |-> text]

RolloutPages == {Page("gq", "intro"), Page("gq", "old"), Page("gq", "new"), Page("pygob", "intro")}
RolloutTexts == {"v1", "v2", "v3"}
RolloutManifest ==
    << << Doc("gq", "intro", "v1"), Doc("gq", "old", "v1") >>,
       << Doc("gq", "new", "v2"), Doc("gq", "intro", "v2"), Doc("pygob", "intro", "v2") >>,
       << Doc("gq", "intro", "v3"), Doc("gobts", "intro", "v3") >> >>
RolloutMigrations == << {"gq"}, {"gq", "pygob"}, {"gq", "pygob"} >>

\* gobts/intro of the third release is a page too, of no project.
AllPages == RolloutPages \cup {Page("gobts", "intro")}

\* What a sync that died had left.
EmptyTable == [page \in AllPages |-> "none"]
LeftOver == [EmptyTable EXCEPT ![Page("gq", "old")] = "v1", ![Page("gq", "new")] = "v1"]
SeededProjects == {"gq"}
RolloutRows == {LeftOver}

Releases2 == 1..2
NoJobs == {}
Manifest2 == SubSeq(RolloutManifest, 1, 2)
Migrations2 == SubSeq(RolloutMigrations, 1, 2)

\* A release that lists no docs follows one that lists two.
EmptyManifest == << RolloutManifest[1], << >> >>

\* Beside them sync-db, run from a working copy that lists what the first release
\* does, in another order and with another text.
SyncJob == {4}
Releases4 == 1..4
JobManifest ==
    Append(RolloutManifest, << Doc("gq", "old", "v3"), Doc("gq", "intro", "v3") >>)
JobMigrations == Append(RolloutMigrations, {"gq"})
=============================================================================
