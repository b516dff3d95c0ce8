------------------------------ MODULE MCTables ------------------------------
(***************************************************************************)
(* Two tables, integer keys from 1 to 3, one other key and one boolean.    *)
(***************************************************************************)
EXTENDS Tables

CONSTANTS s, b

At(k, val) == [key |-> <<k>>, value |-> val]
Pos(val) == [key |-> << >>, value |-> val]

MCFieldLists ==
  {<<x, y, z>> : x, y, z \in {Pos(1), Pos(Nil), At(1, 2), At(3, 1), At(2, Nil)}}
    \cup {<< >>, <<At(Nil, 1)>>, <<At(s, 1), Pos(2)>>}

MCExprs ==
  {[op |-> "const", value |-> x] : x \in {1, 3, Nil}}
    \cup {[op |-> "read", table |-> t, key |-> k] : t \in Table, k \in {1, 2, s, b}}
    \cup {[op |-> "call", table |-> "t", key |-> k, stores |-> x, value |-> 2] : k \in {1, 2}, x \in {3, Nil}}
=============================================================================
