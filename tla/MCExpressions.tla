--------------------------- MODULE MCExpressions ---------------------------
(***************************************************************************)
(* Every operator over values of every type, with three-bit ints, doubles  *)
(* inside and outside their range, and a right operand that may assign the *)
(* left one.                                                               *)
(***************************************************************************)
EXTENDS Expressions

Doubles == {Double(-3, 2), Double(-1, 1), Double(1, 2), Double(2, 1), Double(5, 1)}
Strings == {Val("numeral", 2, 1), Val("numeral", 5, 2), Val("numeral", -3, 1), SomeText}
Others == {Nil, Bool(TRUE), Bool(FALSE), Val("table", 1, 1), Val("function", 1, 1)}
Values == {Int_(n) : n \in Ints} \cup Doubles \cup Strings \cup Others

(* How the left operand is read, and what the right operand assigns to it. *)
Forms == {<<"literal", Nothing>>, <<"name", Int_(1)>>, <<"name", Nil>>, <<"field", Bool(TRUE)>>,
          <<"target", Int_(1)>>}
TooLarge == Int_(9)

MCExpressionSet ==
  {e \in [op: Op, src: {"literal", "name", "field", "target"}, left: Values \cup {TooLarge},
          right: Values, store: {Nothing, Int_(1), Nil, Bool(TRUE)}] :
     /\ <<e.src, e.store>> \in Forms
     /\ e.left = TooLarge => e.src = "literal"
     /\ e.op \in Unary \/ e.left = TooLarge => e.right = Nil}

MCExpected == {Int_(2), Double(2, 1), Double(5, 2), Double(9, 4), Bool(TRUE), Nil, SomeText, Val("table", 2, 1)}
=============================================================================
