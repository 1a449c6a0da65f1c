------------------------------- MODULE MCSite -------------------------------
(***************************************************************************)
(* The instance of Site that TLC checks: a draft and an article to come,   *)
(* contents whose tags overlap, days of two years to publish them on, and  *)
(* four projects: documented, with a repository, with neither, and one     *)
(* whose manifest entry has no docs.                                       *)
(***************************************************************************)
EXTENDS Site

MCIds == 1..2
MCSlugs == {"none", "post", "talk", "go", "gob"}
MCSeed == <<"post", "none">>
MCContents ==
    { [title |-> "post", body |-> "plain", tags |-> {"go"}],
      [title |-> "talk", body |-> "tabbed", tags |-> {"go", "gob"}] }
MCStamps == {2023364, 2024001}

MCManifest ==
    << [slug |-> "gq", docs |-> <<"intro", "usage">>], [slug |-> "gobts", docs |-> <<>>],
       [slug |-> "api", docs |-> <<"intro">>] >>
MCFamilies ==
    << << [slug |-> "api", repo |-> "hub/api"], [slug |-> "gobts", repo |-> "hub/ts"] >>,
       << [slug |-> "gq", repo |-> "no repo"], [slug |-> "pygob", repo |-> "no repo"] >> >>
MCAlphabet == <<"api", "gobts", "gq", "pygob">>

Tabs(langs, default) == [langs |-> langs, default |-> default]

MCArticleTabs ==
    [empty |-> <<>>, plain |-> <<>>,
     tabbed |-> << Tabs(<<"go", "python">>, Unset), Tabs(<<"csharp", "python">>, Unset) >>]
MCDocTabs ==
    [doc \in {<<"gq", "intro">>, <<"gq", "usage">>, <<"api", "intro">>} |->
        IF doc[2] = "usage" THEN << Tabs(<<"csharp", "go">>, "go"), Tabs(<<"csharp">>, "go") >>
        ELSE <<>>]
=============================================================================
