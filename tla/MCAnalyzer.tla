----------------------------- MODULE MCAnalyzer -----------------------------
(***************************************************************************)
(* The chunks on which TLC runs the analyzer: main holds a, a holds b or   *)
(* the function f, f holds g or the function h.                            *)
(***************************************************************************)
EXTENDS SyntacticAnalyzer

MCBlock == {"main", "a", "b", "f", "g", "h"}
MCBody == {"f", "h"}
MCFun == [x \in MCBlock |-> CASE x \in {"f", "g"} -> "f" [] x = "h" -> "h" [] OTHER -> "main"]
MCDepth == [x \in MCBlock |-> CASE x = "main" -> 0 [] x = "a" -> 1 [] x \in {"b", "f"} -> 2
                                [] x = "g" -> 3 [] x = "h" -> 4]

S(op, id, blks, fn) == [op |-> op, id |-> id, blks |-> blks, fn |-> fn]
Local(n) == S("local", n, << >>, Nil)
Goto(l) == S("goto", l, << >>, Nil)
LabelAt(l) == S("label", l, << >>, Nil)
Break == S("break", Nil, << >>, Nil)
Other == S("error", Nil, << >>, Nil)
Code(stats, params) == [stats |-> stats, ret |-> FALSE, params |-> params]

(* A chunk from the statements of each block.                              *)
Chunk(main, a, b, f, g, h, params) ==
  [x \in MCBlock |-> CASE x = "main" -> Code(main, {}) [] x = "a" -> Code(a, {})
                       [] x = "b" -> Code(b, {}) [] x = "f" -> Code(f, params)
                       [] x = "g" -> Code(g, {}) [] x = "h" -> Code(h, {})]

Simple == {Goto("L"), LabelAt("L"), Local("x")}
NonGoto == {LabelAt("L"), Local("x"), Other}

(* Gotos, labels and locals in every order, in a block inside a block.     *)
NestedGotos ==
  {Chunk(<<m1, S(op, "x", <<"a">>, Nil), m2>>, <<a1, a2, a3>>, << >>, << >>, << >>, << >>, {}) :
     m1 \in NonGoto, op \in {"if", "for"}, m2 \in NonGoto, a1, a2, a3 \in Simple}
  \cup
  {Chunk(<<m1, S("ifelse", Nil, <<"a", "b">>, Nil), m2>>, <<a1, a2>>, <<b1>>, << >>, << >>, << >>, {}) :
     m1, m2 \in NonGoto, a1, a2, b1 \in Simple}

(* Two levels of nesting, and two labels.                                  *)
DeepGotos ==
  {Chunk(<<m1, S("do", Nil, <<"a">>, Nil), m2>>, <<a1, S("while", Nil, <<"b">>, Nil), a2>>, <<b1, b2>>,
         << >>, << >>, << >>, {}) :
     m1 \in {LabelAt("L"), LabelAt("M"), Goto("M")}, m2, a1, a2 \in NonGoto,
     b1 \in {Local("x"), Goto("L"), Goto("M")}, b2 \in {Goto("L"), Break, LabelAt("L")}}

(* Functions inside loops and loops inside functions; shadowed names.      *)
Functions2 ==
  {Chunk(<<m1, m2>>, <<S(def, "y", << >>, "f"), a2>>, << >>, <<f1, f2, Local("y")>>, <<g1>>, <<h1>>, params) :
     m1 \in {Local("x"), LabelAt("L")},
     m2 \in {S("while", Nil, <<"a">>, Nil), S("do", Nil, <<"a">>, Nil), S("forin", "x", <<"a">>, Nil)},
     def \in DefOps, a2 \in {Goto("L"), Local("x")},
     f1 \in {Break, Goto("L"), S("repeat", Nil, <<"g">>, Nil), S("for", "x", <<"g">>, Nil)},
     f2 \in {LabelAt("L"), S("call", Nil, << >>, "f"), S("def", Nil, << >>, "h")},
     g1 \in {Break, Local("x")}, h1 \in {Break, Goto("L")}, params \in {{}, {"x"}}}

(* A for's iterator function is a call, not a definition.                  *)
WithIterators(P) ==
  {[p EXCEPT !["main"].stats = [i \in DOMAIN p["main"].stats |->
      IF p["main"].stats[i].op = "forin" THEN [p["main"].stats[i] EXCEPT !.fn = "f"]
                                         ELSE p["main"].stats[i]]] : p \in P}

MCPrograms == NestedGotos \cup DeepGotos \cup WithIterators(Functions2)

ASSUME \A p \in MCPrograms : IsTree(p)
=============================================================================
