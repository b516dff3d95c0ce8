--------------------------- MODULE MCValueLists ---------------------------
(***************************************************************************)
(* Expressions of every kind for the calls TLC runs: one value, nil, a     *)
(* call that returned one or two values, an empty and a full Elipsis.      *)
(***************************************************************************)
EXTENDS ValueLists

CONSTANTS v, w

MCExprs == {Plain(v), Plain(Nil), ListOf(<<w>>), ListOf(<<v, w>>), Elipsis(<< >>), Elipsis(<<w, v>>)}
=============================================================================
