--------------------------- MODULE MCContentSync ---------------------------
(***************************************************************************)
(* Two contents that sync and seven that are refused, each for a reason of *)
(* its own and most of them at the second source.                          *)
(***************************************************************************)
EXTENDS ContentSync

\* Project slugs, in their order.
Dot == 1
Gobts == 2
Gq == 3
Mcp == 4

Project(slug, dir) == [slug |-> slug, dir |-> dir]
File(file, slug, dirs) == [file |-> file, slug |-> slug, dirs |-> dirs]
Repo(lang, topics, projects, pages) ==
    [lang |-> lang, topics |-> topics, projects |-> projects, files |-> pages]

\* The directory of mcp lies below that of gq, so its pages are of both; it is
\* declared first, but sorted last.
Gobspect == Repo("go", <<"stream", "encode">>, <<Project(Mcp, "docs/mcp"), Project(Gq, "docs")>>,
                 {File(1, 7, {"docs"}), File(2, 5, {"docs"}),
                  File(3, 6, {"docs", "docs/mcp"}), File(4, 2, {"docs", "docs/mcp"}),
                  File(5, 9, {"notes"})})
GobtsRepo == Repo("typescript", <<"encode">>, <<Project(Gobts, "none")>>, {File(1, 7, {"docs"})})

\* The next version of gobspect drops a topic, a project and pages.
Gobspect2 == Repo("go", <<"encode">>, <<Project(Gq, "docs")>>, {File(1, 5, {"docs"})})

MCInputs ==
    { <<Gobspect, GobtsRepo>>, <<Gobspect2>>, <<>>,
      <<GobtsRepo, Repo("python", Unreadable, <<>>, {})>>,
      <<Gobspect2, Repo("go", <<"encode">>, <<>>, {})>>,
      <<Gobspect2, Repo("csharp", <<>>, <<Project(Gq, "none")>>, {})>>,
      <<GobtsRepo, Repo("csharp", <<>>, <<Project(Dot, "none"), Project(Dot, "none")>>, {})>>,
      <<GobtsRepo, Repo("go", <<"encode", "encode">>, <<>>, {})>>,
      <<GobtsRepo, Repo("go", <<>>, <<Project(Gq, "docs")>>,
                        {File(1, 5, {"docs"}), File(2, 5, {"docs"})})>> }
=============================================================================
