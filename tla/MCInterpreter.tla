--------------------------- MODULE MCInterpreter ---------------------------
(***************************************************************************)
(* The chunks on which TLC runs the interpreter: main holds a, a holds b   *)
(* or defines the function f, f holds g and k; h is a second function.     *)
(***************************************************************************)
EXTENDS Interpreter

MCBlock == {"main", "a", "b", "f", "g", "h", "k"}
MCBody == {"f", "h"}
MCFun == [x \in MCBlock |-> CASE x \in {"f", "g", "k"} -> "f" [] x = "h" -> "h" [] OTHER -> "main"]
MCDepth == [x \in MCBlock |-> CASE x = "main" -> 0 [] x = "a" -> 1 [] x \in {"g", "k"} -> 3 [] OTHER -> 2]

Stmt(op, id, blks, fn) == [op |-> op, id |-> id, blks |-> blks, fn |-> fn]
Leaf(op, id) == Stmt(op, id, << >>, Nil)
Local(n) == Leaf("local", n)
Goto(l) == Leaf("goto", l)
LabelAt(l) == Leaf("label", l)
Break == Leaf("break", Nil)
Error == Leaf("error", Nil)
Call(f) == Stmt("call", Nil, << >>, f)
Expect(f) == Stmt("expect_failure", Nil, << >>, f)
Def(f) == Stmt("def", Nil, << >>, f)
Code(stats, ret) == [stats |-> stats, ret |-> ret, params |-> {}]
Empty == Code(<< >>, FALSE)

(* A chunk from the code of each block; f takes the parameter x.           *)
MakeChunk(main, a, b, f, g, h) ==
  [x \in MCBlock |-> CASE x = "main" -> main [] x = "a" -> a [] x = "b" -> b
                       [] x = "f" -> [f EXCEPT !.params = {"x"}] [] x = "g" -> g [] x = "h" -> h
                       [] x = "k" -> Empty]

Nests(b) == {Stmt("if", Nil, <<b>>, Nil), Stmt("while", Nil, <<b>>, Nil), Stmt("for", "x", <<b>>, Nil)}

(* Blocks and loops in loops, left by break, goto and return.              *)
Nested ==
  {MakeChunk(Code(<<Local("x"), m, last, Local("y")>>, FALSE),
             Code(<<Local("y"), a, LabelAt("L"), Local("x")>>, FALSE),
             Code(<<Local("x"), b>>, ret), Empty, Empty, Empty) :
     m \in Nests("a") \cup {Stmt("repeat", Nil, <<"a">>, Nil)},
     last \in {LabelAt("M"), Local("x")},
     a \in Nests("b") \cup {Stmt("ifelse", Nil, <<"b">>, Nil), Stmt("do", Nil, <<"b">>, Nil)},
     b \in {Break, Goto("L"), Goto("M"), Local("y")}, ret \in BOOLEAN}

(* Calls as statements, conditions, iterators and under expect_failure, of *)
(* functions that end, return from a nested block, fail or call on.        *)
Calls ==
  {MakeChunk(Code(<<Def("f"), Stmt("function", "y", << >>, "h"), m>>, FALSE),
             Code(<<Local("x"), a>>, FALSE), Empty,
             Code(<<f, Local("y")>>, ret), Code(<<Local("y"), g>>, TRUE), Code(<<h>>, ~ ret)) :
     m \in {Call("f"), Expect("f"), Stmt("while", Nil, <<"a">>, "f"), Stmt("repeat", Nil, <<"a">>, "f"),
            Stmt("for", "x", <<"a">>, "f"), Stmt("forin", "x", <<"a">>, "f"), Stmt("while", Nil, <<"a">>, Nil)},
     a \in {Break, Call("f"), Expect("f")},
     f \in Nests("g") \cup {Call("h"), Stmt("for", "y", <<"g">>, "h")},
     g \in {Call("h"), Error, Local("x")},
     h \in {Error, Local("y"), Call("f")}, ret \in BOOLEAN}

(* A function defined in a loop and called there, that breaks.             *)
Breaks ==
  {MakeChunk(Code(<<Local("x"), m, Local("y")>>, FALSE),
             Code(<<Def("f"), Local("x"), Call("f"), a>>, FALSE), Empty,
             Code(<<Local("y"), f>>, FALSE), Code(<<Break>>, FALSE), Empty) :
     m \in Nests("a") \cup {Stmt("repeat", Nil, <<"a">>, Nil)},
     a \in {Local("x"), Break}, f \in Nests("g") \cup {Break}}

(* A call that comes before the definition it needs; local functions.      *)
Early ==
  {MakeChunk(Code(<<m, Stmt(def, "y", << >>, f), Call(f)>>, FALSE),
             Empty, Empty, Empty, Empty, Empty) :
     m \in {Call("f"), Stmt("while", Nil, <<"a">>, "f"), Stmt("for", "x", <<"a">>, "f"),
            Stmt("forin", "x", <<"a">>, "f"), Expect("f"), Local("y")},
     def \in {"localfunction", "localdef"}, f \in MCBody}

(* f calls itself and returns.                                             *)
SelfCalls ==
  {MakeChunk(Code(<<Stmt("function", "x", << >>, "f"), Call("f")>>, FALSE), Empty, Empty,
             Code(<<Stmt("if", Nil, <<"g">>, Nil), last>>, ret), Code(<<g>>, retg), Empty) :
     g \in {Call("f"), Local("y")}, last \in {Call("f"), Local("x"), Stmt("for", "y", <<"k">>, "f")},
     ret, retg \in BOOLEAN}

MCPrograms == {p \in Nested \cup Calls \cup Breaks \cup Early \cup SelfCalls : Accepted(p)}

(* The part of it with gotos.                                              *)
NestedPrograms == {p \in Nested : Accepted(p)}

ASSUME \A p \in MCPrograms : IsTree(p)
=============================================================================
