---------------------------- MODULE MCNumericFor ----------------------------
(***************************************************************************)
(* Heads over three-bit ints and the halves between them.                  *)
(***************************************************************************)
EXTENDS NumericFor

Ints == {IntNumber(n) : n \in -4 .. 3}
Doubles == {[type |-> "double", half |-> h] : h \in {-5, -2, 0, 1, 4, 6}}
MCHeads ==
  [start: Ints \cup Doubles \cup {Other}, limit: Ints \cup Doubles \cup {Other},
   step: {IntNumber(n) : n \in -2 .. 2} \cup Doubles \cup {Other, Absent}]
MCAssigned == {IntNumber(-4), IntNumber(3), [type |-> "double", half |-> -1], Other}
=============================================================================
