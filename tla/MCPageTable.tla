---------------------------- MODULE MCPageTable ----------------------------
(***************************************************************************)
(* PageTable on two levels and three pages: two of them in one table, the  *)
(* third in another, so that walks meet in a table and stay apart.         *)
(***************************************************************************)
EXTENDS PageTable

ThreePages == {<<1, 1>>, <<1, 2>>, <<2, 1>>}
=============================================================================
