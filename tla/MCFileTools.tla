---------------------------- MODULE MCFileTools ----------------------------
(***************************************************************************)
(* Texts and edits for TLC that tell the cases of matching apart.          *)
(***************************************************************************)
EXTENDS FileTools

MCTexts == {<<"a", "a", "a">>, <<"Q", "a", "b">>, <<"a", "r", "n", "b", "r", "n">>,
            <<"b", "n", "a">>, <<"Z", "a", "s", "n", "b">>}
MCNews == {<<>>, <<"b", "b">>, <<"a", "n">>}

Olds == {<<"a">>, <<"b">>, <<"a", "a">>, <<"q">>, <<"q", "a">>, <<"b", "s">>, <<"s">>}

\* One call asks for any one edit or for two that differ, the other for one of two.
MCEditLists(c) ==
  LET Edits == [old : Olds, new : MCNews]
  IN IF c = 1 THEN [1..1 -> Edits] \cup {e \in [1..2 -> Edits] : e[1].old # e[2].old /\ e[1].new # e[2].new}
     ELSE {<<[old |-> <<"a">>, new |-> <<"b", "b">>]>>, <<[old |-> <<"b">>, new |-> <<>>]>>}
=============================================================================
