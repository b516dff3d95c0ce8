---------------------------- MODULE MCClosures ----------------------------
(***************************************************************************)
(* Programs of one or two files.  The chunk main holds a block a and a     *)
(* function f; f defines g or loops over b, which defines c; a defines h.  *)
(* m2 is the second file, with a function k.                               *)
(***************************************************************************)
EXTENDS Closures

MCBlock == {"main", "a", "b", "c", "f", "g", "h", "k", "m2"}
MCBody == {"c", "f", "g", "h", "k"}
MCName == {"x", "y"}
MCParent == "main" :> Nil @@ "m2" :> Nil @@ "a" :> "main" @@ "f" :> "main" @@ "g" :> "f" @@ "b" :> "f" @@ "c" :> "b"
            @@ "h" :> "a" @@ "k" :> "m2"
MCFun == [b \in MCBlock |-> IF b = "a" THEN "main" ELSE IF b = "b" THEN "f" ELSE b]
MCDepth == "main" :> 0 @@ "m2" :> 0 @@ "a" :> 1 @@ "f" :> 1 @@ "g" :> 2 @@ "b" :> 2 @@ "c" :> 3 @@ "h" :> 2 @@ "k" :> 1

Exp_(kind, n, fn, arg) == [k |-> kind, n |-> n, f |-> fn, arg |-> arg]
None == Exp_("nil", Nil, Nil, Nil)
V(n) == Exp_("name", n, Nil, Nil)
F(b) == Exp_("fun", Nil, b, Nil)
Call(n, arg) == Exp_("call", n, Nil, arg)
CallF(b, arg) == Exp_("call", Nil, b, arg)
PCall(n, arg) == Exp_("pcall", n, Nil, arg)

Stat_(op, id, e, blk) == [op |-> op, id |-> id, id2 |-> Nil, e |-> e, blk |-> blk]
Local(n, e) == Stat_("local", n, e, Nil)
Assign(n, e) == Stat_("assign", n, e, Nil)
Local2(n, m, e) == [Local(n, e) EXCEPT !.id2 = m]
Assign2(n, m, e) == [Assign(n, e) EXCEPT !.id2 = m]
Do_(e) == Stat_("call", Nil, e, Nil)
Return(e) == Stat_("return", Nil, e, Nil)
Function(n, b) == Stat_("function", n, F(b), Nil)
LocalFunction(n, b) == Stat_("localfunction", n, F(b), Nil)
Do(b) == Stat_("do", Nil, None, b)
For(n, b) == Stat_("for", n, None, b)

Plain(q) == [param |-> Nil, stats |-> q]
With(n, q) == [param |-> n, stats |-> q]

(* The bodies of f and g, of a and h, and the second file.                 *)
Fs == {Plain(<<Return(V("x"))>>), With("y", <<Assign("x", V("y"))>>), With("y", <<Local("x", F("g")), Return(V("x"))>>),
       Plain(<<Local("x", None), Return(F("g"))>>), Plain(<<Assign("x", None), Do_(Call("y", Nil))>>),
       Plain(<<Assign("y", F("g")), Do_(Call("y", Nil)), Return(Call("y", Nil))>>),
       Plain(<<For("x", "b")>>), Plain(<<Local2("x", "x", V("y")), Assign2("x", "y", F("g"))>>)}
Gs == {Plain(<<Return(V("x"))>>), Plain(<<Assign("y", None)>>), Plain(<<Assign("x", V("y"))>>)}
As == {<<Assign("x", F("h")), Do_(Call("x", Nil))>>, <<Local("x", None), Assign("y", F("h"))>>,
       <<Local("y", V("x")), Local("y", F("h")), Local("y", Call("y", "x"))>>, <<Assign("y", V("x")), Return(F("h"))>>,
       <<LocalFunction("x", "h"), Assign("y", V("x"))>>, <<Local2("y", "x", V("x")), Assign2("x", "y", F("h"))>>}
Hs == {With("x", <<Return(V("x"))>>), With("y", <<Assign("x", None)>>), Plain(<<Do_(Call("y", Nil))>>)}
M2s == {Plain(<<Local("x", Call("x", Nil))>>), Plain(<<Assign("y", V("x")), Function("x", "k"), Do_(PCall("x", Nil))>>)}

(* The statements of main: Defs define f, Uses use what there is.          *)
Defs == {Local("y", F("f")), Assign("x", F("f")), Function("x", "f"), LocalFunction("y", "f"),
         Do_(CallF("f", Nil)), Assign("y", CallF("f", "x"))}
Uses == {Local("y", V("x")), Assign("x", V("y")), Do_(Call("x", Nil)), Assign("y", Call("x", "y")), Local("x", Call("y", Nil)),
         Assign2("y", "x", PCall("x", Nil))}
Mains == {<<u, d, v, w>> : u \in {Local("x", None), Assign("y", None)}, d \in Defs,
                           v \in Uses, w \in {Assign("y", None), Do_(Call("y", "x")), Assign("y", Call("x", Nil)), Do_(PCall("x", Nil))}}
Mains2 == {<<u, b, v>> : u \in {Local("x", None), Local("y", F("f")), Function("x", "f")},
                         b \in {Do("a"), For("x", "a"), For("y", "a")}, v \in Uses}

Program(m, fc, gc, ac, hc, mc, files) ==
  [files |-> files,
   code |-> "main" :> Plain(m) @@ "f" :> fc @@ "g" :> gc @@ "a" :> Plain(ac) @@ "h" :> hc @@ "m2" :> mc @@ "k" :> Plain(<<Return(V("x"))>>)
           @@ "b" :> Plain(<<Assign("y", V("x")), LocalFunction("x", "c")>>) @@ "c" :> With("y", <<Return(V("x"))>>)]

(* Programs with g, without, and with a and h.                             *)
NeedsG(c) == \E i \in DOMAIN c.stats : c.stats[i].e.f = "g"
Empty == Plain(<<>>)
WithG == {c \in Fs : NeedsG(c)}
Parts == [m: Mains, f: WithG, g: Gs, a: {<<>>}, h: {Empty}, m2: M2s]
         \cup [m: Mains, f: Fs \ WithG, g: {Empty}, a: {<<>>}, h: {Empty}, m2: M2s]
         \cup [m: Mains2, f: Fs \ WithG, g: {Empty}, a: As, h: Hs, m2: M2s]
MCScenarios == {Program(p.m, p.f, p.g, p.a, p.h, p.m2, <<"main", "m2">>) : p \in Parts}
===========================================================================
