----------------------------- MODULE MCSnippets -----------------------------
(***************************************************************************)
(* Files of up to six lines over two topics: long enough for two regions   *)
(* that nest or cross around lines of their own, or for one of four lines. *)
(***************************************************************************)
EXTENDS Snippets

\* No indentation, a space, a tab, and two that share a space with a third.
MCIndents == {<<>>, <<"space">>, <<"tab">>, <<"space", "tab">>}
=============================================================================
