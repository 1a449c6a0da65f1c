------------------------------ MODULE MCEditor ------------------------------
(***************************************************************************)
(* The instance of EditorPage that TLC checks: texts whose headings repeat *)
(* and carry ids, whose diagrams repeat, whose examples lack languages,    *)
(* and one that does not render.                                           *)
(***************************************************************************)
EXTENDS EditorPage, TLC

CONSTANTS f1, f2

SiteLanguages == <<"go", "typescript", "python", "csharp">>
ExampleTopics == [walk |-> {"python", "go", "README"}, scan |-> {"csharp", "python"}]

\* Two diagrams, one of them twice; the first title's suffixed id is taken by a
\* later heading that spells it out, and an h2 with a class is between.
Diagrammed ==
    << Heading(2, <<"a">>, NoId, {}), Fence("d1"), Heading(2, <<"a">>, NoId, {"class"}),
       Fence("d2"), Heading(2, <<"a", 2>>, NoId, {"style"}), Fence("d1"),
       Heading(2, <<"b">>, <<"a", 2>>, {}), Raw("script") >>

\* Two topics without a common first language; a heading without letters between
\* two that spell an id out.
Tabbed ==
    << Heading(3, <<"b">>, <<"section">>, {}), Heading(2, NoSlug, NoId, {}),
       Directive("examples", "walk"), Heading(2, <<"section">>, NoId, {}),
       Directive("examples", "scan") >>

Broken == << Directive("examples", "nowhere") >>

Texts == {Diagrammed, Tabbed, Broken}

Symmetry == Permutations({f1, f2})
=============================================================================
