------------------------------ MODULE MCLayout ------------------------------
(***************************************************************************)
(* Small tables and numbers for TLC.                                       *)
(***************************************************************************)
EXTENDS Layout, TLC

MCCols == <<"name", "price">>
MCTitles == [col \in {"name", "price"} |-> IF col = "name" THEN 3 ELSE 9]

\* A page of 12 gives a column 6 to be measured with: texts that fit there,
\* that just do not, that do not by one long word, first or last, and texts
\* with blanks in a row or at an end.
MCTexts == {<<0>>, <<3>>, <<9>>, <<0, 3>>, <<3, 0, 0>>, <<2, 2>>, <<9, 2>>, <<2, 9>>,
            <<2, 2, 2>>, <<3, 1, 4, 2>>}

MCNumbers == [digits : 1 .. 7, negative : BOOLEAN, size : 0 .. 4]
=============================================================================
