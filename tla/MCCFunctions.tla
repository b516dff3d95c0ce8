--------------------------- MODULE MCCFunctions ---------------------------
(***************************************************************************)
(* Signatures and conversions for TLC, in the manner of playfield.cpp: int *)
(* also takes a double, table takes tables only, bool has no conversion.   *)
(***************************************************************************)
EXTENDS CFunctions

MCKind == {"int", "double", "bool", "table"}
MCRegistered == {"int", "double", "table"}
MCAccepts == {<<t, t>> : t \in MCRegistered} \cup {<<"double", "int">>, <<"int", "double">>, <<"bool", "int">>}

P(t) == [form |-> "plain", alts |-> <<t>>]
V(alts) == [form |-> "variant", alts |-> alts]
O(t) == [form |-> "optional", alts |-> <<t>>]

MCSignatures ==
  {<< >>, <<O("int")>>, <<V(<<"int", "bool">>), P("double")>>}
    \cup {<<a, b>> : a \in {P("int"), P("table")}, b \in {P("int"), P("bool"), V(<<"double", "table">>)}}
    \cup {<<a>> : a \in {P("int"), V(<<"int", "table">>)}}
=============================================================================
