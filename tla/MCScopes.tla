------------------------------ MODULE MCScopes ------------------------------
(* Programs over two names.  *)
EXTENDS ScopePasses

CONSTANTS a, b

MCName == {a, b}
MCParamLists == {<< >>, <<a>>, <<b, b>>}
=============================================================================
