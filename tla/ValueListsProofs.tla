-------------------------- MODULE ValueListsProofs --------------------------
(***************************************************************************)
(* Value lists, for all values, cells, expressions and lengths: where the  *)
(* code handles Elipses, variables and names receive what Lua's rule of    *)
(* adjustment gives them, and arguments reach the parameters.              *)
(***************************************************************************)
EXTENDS ValueLists, WellFoundedInduction, TLAPS

(* The lists that can be adjusted: not empty, and of values.               *)
Listed(es) == es \in Seq(Expr) /\ es # << >>

-----------------------------------------------------------------------------
(* The expressions by their kind.                                          *)
LEMMA ExprFacts ==
  ASSUME NEW e \in Expr
  PROVE  /\ e.kind \in {"value", "list", "elipsis"}
         /\ e.vs \in Seq(Value)
         /\ e.kind = "value" => Len(e.vs) = 1 /\ e.vs[1] \in Simple
         /\ e.kind = "list" => Len(e.vs) >= 1
         /\ e.kind = "elipsis" => e \in Dotted(Simple)
         /\ Get(e) \in Value
         /\ e.kind # "elipsis" => Get(e) = e.vs[1] /\ 1 \in DOMAIN e.vs
  <1>1. CASE e \in [kind: {"value"}, vs: {<<x>> : x \in Simple}]
    <2>1. PICK x \in Simple : e.kind = "value" /\ e.vs = <<x>>
      BY <1>1
    <2> QED BY <2>1 DEF Get, Value
  <1>2. CASE e \in [kind: {"list"}, vs: Seq(Value) \ {<< >>}]
    <2>1. e.kind = "list" /\ e.vs \in Seq(Value) /\ e.vs # << >>
      BY <1>2
    <2>2. Len(e.vs) >= 1 /\ e.vs[1] \in Value /\ 1 \in DOMAIN e.vs
      BY <2>1
    <2> QED BY <2>1, <2>2 DEF Get
  <1>3. CASE e \in Dotted(Simple)
    <2>1. e.kind = "elipsis" /\ e.vs \in Seq(Simple)
      BY <1>3 DEF Dotted
    <2>2. e.vs \in Seq(Value)
      BY <2>1 DEF Value
    <2> QED BY <1>3, <2>1, <2>2 DEF Get, Value
  <1> QED BY <1>1, <1>2, <1>3 DEF Expr

(* What a variable's value is as an expression, and a pointer after morph. *)
LEMMA VarOfType ==
  ASSUME NEW v \in Value
  PROVE  VarOf(v) \in Expr
  <1>1. CASE v \in Simple
    <2>1. VarOf(v) = [kind |-> "value", vs |-> <<v>>]
      BY <1>1 DEF VarOf, IsElipsis, Plain
    <2> QED BY <1>1, <2>1 DEF Expr
  <1>2. CASE v \notin Simple
    BY <1>2 DEF VarOf, IsElipsis, Value, Expr
  <1> QED BY <1>1, <1>2

LEMMA MorphFacts ==
  ASSUME NEW e \in Expr \cup Pointer, NEW store \in [Cell -> Value]
  PROVE  Morph(e, store) \in Expr
  <1>1. CASE e \in Pointer
    <2>1. PICK c \in Cell : e.kind = "lvalue" /\ e.vs = <<c>>
      BY <1>1 DEF Pointer
    <2>2. e.vs[1] \in Cell /\ store[e.vs[1]] \in Value
      BY <2>1
    <2> QED BY <2>1, <2>2, VarOfType DEF Morph
  <1>2. CASE e \in Expr
    BY <1>2, ExprFacts DEF Morph
  <1> QED BY <1>1, <1>2

(* The values left for the variables after the ones already served.        *)
LEMMA RemainsFacts ==
  ASSUME NEW e \in Expr
  PROVE  Remains(e) \in Seq(Value) /\ Seen(e).vs \in Seq(Value)
  <1>1. e.vs \in Seq(Value) /\ (e.kind = "list" => e.vs # << >>)
    BY ExprFacts
  <1>2. Seen(e).vs \in Seq(Value)
    <2>1. CASE e.kind = "list" /\ IsElipsis(e.vs[1])
      <3>1. e.vs[1] \in Value /\ e.vs[1] \notin Simple
        BY <1>1, <2>1, ExprFacts DEF IsElipsis
      <3>2. e.vs[1] \in Dotted(Simple)
        BY <3>1 DEF Value
      <3>3. e.vs[1].vs \in Seq(Value)
        BY <3>2 DEF Dotted, Value
      <3> QED BY <2>1, <3>3 DEF Seen
    <2>2. CASE ~ (e.kind = "list" /\ IsElipsis(e.vs[1]))
      BY <1>1, <2>2 DEF Seen
    <2> QED BY <2>1, <2>2
  <1>3. e.kind = "list" => Tail(e.vs) \in Seq(Value)
    BY <1>1
  <1> QED BY <1>2, <1>3 DEF Remains

LEMMA ValueOrNilType ==
  ASSUME NEW s \in Seq(Value)
  PROVE  \A i : ValueOrNil(s, i) \in Value
  <1>1. Nil \in Value
    BY DEF Value, Simple
  <1> QED BY <1>1 DEF ValueOrNil

(* "Adjust" stores values.                                                 *)
LEMMA AdjustType ==
  ASSUME NEW es, Listed(es), NEW n \in Nat
  PROVE  Adjust(es, n) \in [1..n -> Value]
  <1>1. es \in Seq(Expr) /\ Len(es) \in Nat \ {0} /\ DOMAIN es = 1..Len(es)
    BY DEF Listed
  <1>2. ASSUME NEW i \in 1..Len(es) PROVE Get(es[i]) \in Value
    BY <1>1, ExprFacts
  <1>3. Last(es) \in Expr
    BY <1>1 DEF Last
  <1>4. \A j : ValueOrNil(Remains(Last(es)), j) \in Value
    BY <1>3, RemainsFacts, ValueOrNilType
  <1>5. From(es) \in {Len(es), Len(es) + 1}
    BY DEF From
  <1>6. CASE n =< Len(es)
    BY <1>1, <1>2, <1>6 DEF Adjust
  <1>7. CASE ~ (n =< Len(es))
    <2>1. \A i \in 1..n : i < From(es) => i \in 1..Len(es)
      BY <1>1, <1>5
    <2> QED BY <1>2, <1>4, <1>7, <2>1 DEF Adjust
  <1> QED BY <1>6, <1>7

(* Lua's rule, position by position.                                       *)
LEMMA LuaAdjustAt ==
  ASSUME NEW es, Listed(es), NEW n \in Nat, NEW i \in 1..n
  PROVE  LuaAdjust(es, n)[i] = IF i < Len(es) THEN ValueOrNil(es[i].vs, 1)
                               ELSE ValueOrNil(Last(es).vs, i - Len(es) + 1)
  <1> DEFINE m == Len(es)
             z == Last(es)
             front == [k \in 1..(m - 1) |-> ValueOrNil(es[k].vs, 1)]
  <1>1. es \in Seq(Expr) /\ m \in Nat \ {0} /\ DOMAIN es = 1..m /\ z = es[m] /\ z \in Expr
    BY DEF Listed, Last
  <1>2. z.vs \in Seq(Value) /\ Len(z.vs) \in Nat /\ DOMAIN z.vs = 1..Len(z.vs)
    BY <1>1, ExprFacts
  <1>3. front \in Seq(UNION {{ValueOrNil(es[k].vs, 1)} : k \in 1..(m - 1)}) /\ Len(front) = m - 1
    BY <1>1
  <1>4. LuaAdjust(es, n)[i] = ValueOrNil(front \o z.vs, i)
    BY DEF LuaAdjust, LuaValues, Listed
  <1>5. DOMAIN (front \o z.vs) = 1..(m - 1 + Len(z.vs))
    BY <1>1, <1>2, <1>3
  <1>6. CASE i < m
    <2>1. i \in 1..(m - 1) /\ i \in DOMAIN (front \o z.vs)
      BY <1>1, <1>2, <1>5, <1>6
    <2>2. (front \o z.vs)[i] = front[i]
      BY <1>1, <1>2, <1>3, <2>1
    <2> QED BY <1>4, <1>6, <2>1, <2>2 DEF ValueOrNil
  <1>7. CASE ~ (i < m)
    <2>1. i \in DOMAIN (front \o z.vs) <=> (i - m + 1) \in DOMAIN z.vs
      BY <1>1, <1>2, <1>5, <1>7
    <2>2. i \in DOMAIN (front \o z.vs) => (front \o z.vs)[i] = z.vs[i - m + 1]
      BY <1>1, <1>2, <1>3, <1>5, <1>7
    <2> QED BY <1>4, <1>7, <2>1, <2>2 DEF ValueOrNil
  <1> QED BY <1>6, <1>7

(* Where the code handles Elipses, it adjusts a list to its variables as   *)
(* Lua does.                                                               *)
LEMMA AdjustIsLua ==
  ASSUME NEW es, Listed(es), NEW n \in Nat, Handled(es, n)
  PROVE  Adjust(es, n) = LuaAdjust(es, n)
  <1> DEFINE m == Len(es)
             z == Last(es)
  <1>1. es \in Seq(Expr) /\ m \in Nat \ {0} /\ DOMAIN es = 1..m /\ z = es[m] /\ z \in Expr
    BY DEF Listed, Last
  <1>2. z.vs \in Seq(Value) /\ Len(z.vs) \in Nat /\ DOMAIN z.vs = 1..Len(z.vs)
    BY <1>1, ExprFacts
  <1>4. ASSUME NEW i \in 1..n
        PROVE  LuaAdjust(es, n)[i] =
                 IF i < m THEN ValueOrNil(es[i].vs, 1) ELSE ValueOrNil(z.vs, i - m + 1)
    BY LuaAdjustAt
  <1>5. ASSUME NEW i \in 1..m, es[i].kind # "elipsis"
        PROVE  Get(es[i]) = ValueOrNil(es[i].vs, 1)
    BY <1>1, <1>5, ExprFacts DEF ValueOrNil
  <1>6. \A i \in 1..m : es[i].kind = "elipsis" => i = m /\ n > m
    BY <1>1 DEF Handled
  <1>7. Seen(z) = z
    <2>1. CASE z.kind = "list"
      <3>1. 1 \in DOMAIN z.vs
        BY <1>1, <2>1, ExprFacts
      <3>2. z.vs[1] \in Simple
        BY <1>1, <3>1 DEF Handled, Simple
      <3> QED BY <3>2 DEF Seen, IsElipsis
    <2> QED BY <2>1 DEF Seen
  <1> HIDE DEF m, z
  <1>8. ASSUME NEW i \in 1..n PROVE Adjust(es, n)[i] = LuaAdjust(es, n)[i]
    <2>1. CASE n =< m
      <3>1. i \in 1..m /\ ~ (n > m) /\ (~ (i < m) => i = m)
        BY <1>1, <2>1
      <3>4. es[i].kind # "elipsis"
        BY <1>6, <3>1
      <3>2. Adjust(es, n)[i] = Get(es[i])
        BY <2>1 DEF Adjust, m, z
      <3>3. ~ (i < m) => z = es[i] /\ i - m + 1 = 1
        BY <1>1, <3>1
      <3> QED BY <1>4, <1>5, <3>1, <3>2, <3>3, <3>4
    <2>2. CASE ~ (n =< m)
      <3>1. Adjust(es, n)[i] = IF i < From(es) THEN Get(es[i]) ELSE ValueOrNil(Remains(z), i - From(es) + 1)
        BY <2>2 DEF Adjust, m, z
      <3>2. CASE z.kind = "elipsis"
        <4>1. From(es) = m /\ Remains(z) = z.vs
          BY <1>7, <3>2 DEF From, Remains, m, z
        <4>2. i < m => i \in 1..m /\ i # m
          BY <1>1
        <4>3. i < m => es[i].kind # "elipsis"
          BY <1>6, <4>2
        <4> QED BY <1>4, <1>5, <3>1, <4>1, <4>2, <4>3
      <3>3. CASE z.kind # "elipsis"
        <4>1. From(es) = m + 1
          BY <1>7, <3>3 DEF From, m, z
        <4>2. CASE i < m + 1
          <5>1. i \in 1..m /\ (~ (i < m) => i = m)
            BY <1>1, <4>2
          <5>3. es[i].kind # "elipsis"
            BY <1>1, <1>6, <3>3, <5>1
          <5>2. ~ (i < m) => z = es[i] /\ i - m + 1 = 1
            BY <1>1, <5>1
          <5> QED BY <1>4, <1>5, <3>1, <4>1, <4>2, <5>1, <5>2, <5>3
        <4>3. CASE ~ (i < m + 1)
          <5>1. ~ (i < m) /\ i - m \in Nat \ {0} /\ i - (m + 1) + 1 = i - m
            BY <1>1, <4>3
          <5>2. ValueOrNil(Remains(z), i - m) = ValueOrNil(z.vs, i - m + 1)
            <6>1. CASE z.kind = "list"
              <7>1. Remains(z) = Tail(z.vs) /\ z.vs # << >>
                BY <1>1, <1>7, <6>1, ExprFacts DEF Remains
              <7> QED BY <1>2, <5>1, <7>1 DEF ValueOrNil
            <6>2. CASE z.kind = "value"
              <7>1. Remains(z) = << >> /\ Len(z.vs) = 1
                BY <1>1, <1>7, <6>2, ExprFacts DEF Remains
              <7> QED BY <1>1, <1>2, <5>1, <7>1 DEF ValueOrNil
            <6> QED BY <1>1, <3>3, <6>1, <6>2, ExprFacts
          <5> QED BY <1>4, <3>1, <4>1, <4>3, <5>1, <5>2
        <4> QED BY <4>2, <4>3
      <3> QED BY <3>2, <3>3
    <2> QED BY <2>1, <2>2
  <1>9. /\ Adjust(es, n) = [i \in 1..n |-> Adjust(es, n)[i]]
        /\ LuaAdjust(es, n) = [i \in 1..n |-> LuaAdjust(es, n)[i]]
    BY DEF Adjust, LuaAdjust
  <1> QED BY <1>8, <1>9, Zenon

(* Arguments as they are evaluated, as they are passed, and the values of  *)
(* a for-in.                                                               *)
LEMMA GetsType ==
  ASSUME NEW es \in Seq(Expr)
  PROVE  /\ Gets(es) \in Seq(Value) /\ Len(Gets(es)) = Len(es)
         /\ \A i \in 1..Len(es) : Gets(es)[i] = Get(es[i])
  <1>1. \A i \in 1..Len(es) : Get(es[i]) \in Value
    BY ExprFacts
  <1>2. Gets(es) = [i \in 1..Len(es) |-> Get(es[i])]
    BY DEF Gets
  <1> QED BY <1>1, <1>2

LEMMA ExpandedFacts ==
  ASSUME NEW es \in Seq(Expr)
  PROVE  /\ Expanded(es) \in Seq(Value) /\ Len(es) =< Len(Expanded(es))
         /\ \A i \in 1..Len(es) : Expanded(es)[i] = Get(es[i])
         /\ es = << >> \/ ~ Multiple(Last(es)) => Len(Expanded(es)) = Len(es)
  <1>1. CASE es # << >> /\ Multiple(Last(es))
    <2>1. Last(es) \in Expr
      BY <1>1 DEF Last
    <2>2. Seen(Last(es)).vs \in Seq(Value)
      BY <2>1, RemainsFacts
    <2>3. Expanded(es) = Gets(es) \o Seen(Last(es)).vs
      BY <1>1 DEF Expanded
    <2> QED BY <1>1, <2>2, <2>3, GetsType
  <1>2. CASE ~ (es # << >> /\ Multiple(Last(es)))
    <2>1. Expanded(es) = Gets(es)
      BY <1>2 DEF Expanded
    <2> QED BY <2>1, GetsType
  <1> QED BY <1>1, <1>2

LEMMA LoopValuesType ==
  ASSUME NEW es, Listed(es)
  PROVE  LoopValues(es) \in Seq(Value)
  <1>1. es \in Seq(Expr) /\ Len(es) \in Nat \ {0} /\ Last(es) \in Expr
    BY DEF Listed, Last
  <1>2. Front(es) \in Seq(Expr)
    BY <1>1 DEF Front
  <1>3. Gets(Front(es)) \in Seq(Value) /\ Last(es).vs \in Seq(Value)
    BY <1>1, <1>2, GetsType, ExprFacts
  <1> QED BY <1>3 DEF LoopValues

(* The arguments of a call reach its parameters.                           *)
LEMMA BoundAsInLua ==
  ASSUME NEW es \in Seq(Expr), NEW n \in Nat, NEW i \in 1..n,
         ~ (i < Len(es) /\ es[i].kind = "elipsis"),
         ~ (i >= Len(es) /\ es # << >> /\ Multiple(Last(es))
              /\ (i > Len(es) \/ Last(es).kind = "elipsis"))
  PROVE  ValueOrNil(Expanded(es), i) = LuaAdjust(es, n)[i]
  <1>1. Expanded(es) \in Seq(Value) /\ DOMAIN Expanded(es) = 1..Len(Expanded(es))
    BY ExpandedFacts
  <1>2. CASE es = << >>
    <2>1. Len(Expanded(es)) = 0
      BY <1>2, ExpandedFacts
    <2>2. LuaAdjust(es, n)[i] = Nil
      BY <1>2 DEF LuaAdjust, LuaValues, ValueOrNil
    <2> QED BY <1>1, <2>1, <2>2 DEF ValueOrNil
  <1>3. CASE es # << >>
    <2> DEFINE m == Len(es)
               z == Last(es)
    <2>1. m \in Nat \ {0} /\ z = es[m] /\ Listed(es)
      BY <1>3 DEF Listed, Last
    <2>2. LuaAdjust(es, n)[i] = IF i < m THEN ValueOrNil(es[i].vs, 1) ELSE ValueOrNil(z.vs, i - m + 1)
      BY <2>1, LuaAdjustAt
    <2>3. CASE i =< m
      <3>1. i \in 1..m /\ i \in 1..Len(Expanded(es)) /\ (~ (i < m) => i = m)
        BY <1>1, <2>1, <2>3, ExpandedFacts
      <3>2. es[i] \in Expr /\ es[i].kind # "elipsis"
        BY <1>3, <2>1, <3>1 DEF Multiple
      <3>3. ValueOrNil(Expanded(es), i) = Get(es[i])
        BY <1>1, <3>1, ExpandedFacts DEF ValueOrNil
      <3>4. Get(es[i]) = ValueOrNil(es[i].vs, 1)
        BY <3>2, ExprFacts DEF ValueOrNil
      <3>5. ~ (i < m) => z = es[i] /\ i - m + 1 = 1
        BY <2>1, <3>1
      <3> QED BY <2>2, <3>3, <3>4, <3>5
    <2>4. CASE ~ (i =< m)
      <3>1. ~ Multiple(z) /\ i > m /\ i - m + 1 > 1 /\ i - m + 1 \in Int
        BY <1>3, <2>1, <2>4
      <3>2. z \in Expr
        BY <2>1
      <3>3. DOMAIN z.vs = 1..1
        BY <3>1, <3>2, ExprFacts DEF Multiple
      <3>4. ValueOrNil(Expanded(es), i) = Nil
        BY <1>1, <2>1, <3>1, ExpandedFacts DEF ValueOrNil
      <3>5. ValueOrNil(z.vs, i - m + 1) = Nil
        BY <3>1, <3>3 DEF ValueOrNil
      <3> QED BY <2>1, <2>2, <3>1, <3>4, <3>5
    <2> QED BY <2>3, <2>4
  <1> QED BY <1>2, <1>3

(* The last target that names a cell.                                      *)
LEMMA MaxFacts ==
  ASSUME NEW n \in Nat, NEW T, T \subseteq 1..n, T # {}
  PROVE  Max(T) \in T
  <1> DEFINE R == {p \in Nat \X Nat : p[1] < p[2]}
             U == {n - k : k \in T}
  <1>1. IsWellFoundedOn(R, Nat)
    BY NatLessThanWellFounded DEF OpToRel
  <1>2. \A y, x \in Nat : y < x => <<y, x>> \in R
    OBVIOUS
  <1>3. \A k \in T : k \in 1..n /\ n - k \in Nat /\ n - k \in U
    OBVIOUS
  <1>4. U \subseteq Nat /\ U # {}
    BY <1>3
  <1> HIDE DEF R
  <1>5. PICK u \in U : \A w \in U : ~ (<<w, u>> \in R)
    <2> HIDE DEF U
    <2> QED BY <1>1, <1>4, WFMin
  <1>6. PICK x \in T : u = n - x
    OBVIOUS
  <1> HIDE DEF U
  <1>7. ASSUME NEW y \in T PROVE x >= y
    <2>1. ~ (n - y < n - x)
      BY <1>2, <1>3, <1>5, <1>6
    <2> QED BY <1>3, <2>1
  <1> QED BY <1>7 DEF Max

(* An assignment writes values into cells.                                 *)
LEMMA AssignedType ==
  ASSUME cells \in [Cell -> Value], NEW es \in Seq(Expr \cup Pointer), es # << >>,
         NEW n \in Nat, NEW tg \in [1..n -> Cell]
  PROVE  /\ Assigned(es, tg) \in [Cell -> Value]
         /\ Listed([i \in DOMAIN es |-> Morph(es[i], cells)])
  <1> DEFINE now == [i \in DOMAIN es |-> Morph(es[i], cells)]
             values == Adjust(now, Len(tg))
             at(c) == {k \in DOMAIN tg : tg[k] = c}
  <1>1. tg \in Seq(Cell) /\ Len(tg) = n /\ DOMAIN tg = 1..n
    OBVIOUS
  <1>2. Listed(now)
    <2>1. \A i \in 1..Len(es) : Morph(es[i], cells) \in Expr
      BY MorphFacts
    <2>2. DOMAIN es = 1..Len(es) /\ Len(es) \in Nat \ {0}
      OBVIOUS
    <2>3. now \in [1..Len(es) -> Expr]
      BY <2>1, <2>2
    <2>4. now \in Seq(Expr) /\ Len(now) # 0
      BY <2>2, <2>3
    <2> QED BY <2>4 DEF Listed
  <1> HIDE DEF now
  <1>3. values \in [1..n -> Value]
    BY <1>1, <1>2, AdjustType
  <1> HIDE DEF values
  <1>4. ASSUME NEW c \in Cell, \E k \in DOMAIN tg : tg[k] = c
        PROVE  values[Max(at(c))] \in Value
    <2>1. at(c) \subseteq 1..n /\ at(c) # {}
      BY <1>1, <1>4
    <2>2. Max(at(c)) \in at(c)
      <3> HIDE DEF at
      <3> QED BY <2>1, MaxFacts
    <2> QED BY <1>3, <2>1, <2>2
  <1>5. Assigned(es, tg) = [c \in Cell |-> IF \E k \in DOMAIN tg : tg[k] = c THEN values[Max(at(c))] ELSE cells[c]]
    BY DEF Assigned, values, now
  <1> HIDE DEF at
  <1>6. Assigned(es, tg) \in [Cell -> Value]
    BY <1>4, <1>5
  <1> QED BY <1>2, <1>6 DEF now

-----------------------------------------------------------------------------
(* The arguments of a call are the expanded list; the rest follows from    *)
(* the types and from what the last step has done.                         *)
ArgumentsAreBound == phase = "call" /\ site = "call" => args = Expanded(exprs)
NotEmpty == site = "forin" /\ phase = "exprs" => exprs # << >>

ListsInv ==
  /\ TypeOK /\ ArgumentsAreBound /\ NotEmpty
  /\ AssignmentIsSimultaneous /\ NamesAreAdjusted /\ ArgumentsReachParameters

LEMMA ListsInit == Init => ListsInv
  <1> SUFFICES ASSUME Init PROVE ListsInv
    OBVIOUS
  <1>1. PICK m \in 0..MaxExprs : exprs \in [1..m -> Exprs]
    BY DEF Init
  <1>2. m \in Nat /\ exprs \in [1..m -> Expr]
    BY <1>1, ListsAssumption
  <1>3. exprs \in Seq(Expr)
    BY <1>2
  <1>4. cells \in [Cell -> Value] /\ before = cells
    BY DEF Init, Value, Simple
  <1>5. \A S : << >> \in Seq(S) /\ Len(<< >>) = 0 /\ DOMAIN << >> = {}
    OBVIOUS
  <1>6. /\ args = << >> /\ params = << >> /\ dots = << >> /\ results = << >> /\ list = << >>
        /\ targets = << >> /\ bound = << >> /\ formals = 0 /\ vararg = FALSE
        /\ phase = "exprs" /\ site \in {"call", "forin"}
    BY DEF Init
  <1>7. 0 \in 0..MaxFormals
    BY ListsAssumption
  <1>8. TypeOK
    BY <1>3, <1>4, <1>5, <1>6, <1>7 DEF TypeOK
  <1> QED BY <1>8 DEF Init, ListsInv, ArgumentsAreBound, NotEmpty, AssignmentIsSimultaneous,
                      NamesAreAdjusted, ArgumentsReachParameters

(* Parameters and "..." are bound to values.                               *)
LEMMA BindType ==
  ASSUME args \in Seq(Value), NEW k \in 0..MaxFormals, NEW dotted \in BOOLEAN, BindParameters(k, dotted)
  PROVE  /\ formals' = k /\ formals' \in 0..MaxFormals /\ vararg' \in BOOLEAN
         /\ params' \in Seq(Value) /\ Len(params') = k
         /\ \A i \in 1..k : params'[i] = ValueOrNil(args, i)
         /\ dots' \in Seq(Value \cup Dotted(Value))
  <1>1. k \in Nat /\ NFormals(k, dotted) \in Nat
    BY ListsAssumption DEF NFormals
  <1>2. \A i : ValueOrNil(args, i) \in Value
    BY ValueOrNilType
  <1>3. params' = [i \in 1..k |-> ValueOrNil(args, i)] /\ formals' = k /\ vararg' = dotted
    BY DEF BindParameters
  <1>4. params' \in Seq(Value) /\ Len(params') = k
    BY <1>1, <1>2, <1>3
  <1>5. dots' \in Seq(Value \cup Dotted(Value))
    <2> DEFINE nf == NFormals(k, dotted)
    <2>1. CASE ~ dotted
      BY <2>1 DEF BindParameters
    <2>2. CASE dotted /\ Len(args) > nf
      <3>1. SubSeq(args, nf + 1, Len(args)) \in Seq(Value)
        BY <1>1
      <3>2. Elipsis(SubSeq(args, nf + 1, Len(args))) \in Dotted(Value)
        BY <3>1 DEF Elipsis, Dotted
      <3>3. dots' = <<Elipsis(SubSeq(args, nf + 1, Len(args)))>>
        BY <2>2 DEF BindParameters
      <3> QED BY <3>2, <3>3
    <2>3. CASE dotted /\ ~ (Len(args) > nf)
      <3>1. dots' = <<ValueOrNil(args, nf)>>
        BY <2>3 DEF BindParameters
      <3> QED BY <1>2, <3>1
    <2> QED BY <2>1, <2>2, <2>3
  <1> QED BY <1>3, <1>4, <1>5

(* What a call evaluates to.                                               *)
LEMMA CallValueType ==
  ASSUME results \in Seq(Expr)
  PROVE  CallValue \in Expr
  <1>1. CASE results = << >>
    <2>1. CallValue = [kind |-> "value", vs |-> <<Nil>>]
      BY <1>1 DEF CallValue, Plain
    <2> QED BY <2>1 DEF Expr, Simple
  <1>2. CASE results # << >>
    <2>1. CallValue = [kind |-> "list", vs |-> Gets(results)]
      BY <1>2 DEF CallValue, ListOf
    <2>2. Gets(results) \in Seq(Value) /\ Gets(results) # << >>
      BY <1>2, GetsType
    <2> QED BY <2>1, <2>2 DEF Expr
  <1> QED BY <1>1, <1>2

LEMMA WithCallType ==
  ASSUME results \in Seq(Expr), NEW other \in Expr \cup Pointer, NEW es \in WithCall(other)
  PROVE  /\ es \in Seq(Expr \cup Pointer) /\ es # << >>
         /\ other \in Expr => es \in Seq(Expr)
  <1>1. CallValue \in Expr
    BY CallValueType
  <1>2. es \in {<<CallValue>>, <<other, CallValue>>, <<CallValue, other>>}
    BY DEF WithCall
  <1>3. ASSUME NEW S, other \in S, CallValue \in S
        PROVE  es \in Seq(S) /\ es # << >>
    <2>1. CASE es = <<CallValue>>
      BY <1>3, <2>1
    <2>2. CASE es = <<other, CallValue>>
      BY <1>3, <2>2
    <2>3. CASE es = <<CallValue, other>>
      BY <1>3, <2>3
    <2> QED BY <1>2, <2>1, <2>2, <2>3
  <1> QED BY <1>1, <1>3

(* What a function returns.                                                *)
LEMMA RetstatType ==
  ASSUME params \in Seq(Value), VisitRetstat
  PROVE  results' \in Seq(Expr)
  <1> DEFINE P == {VarOf(params[i]) : i \in DOMAIN params}
             L == {e \in Exprs : e.kind = "list"}
  <1>0. PICK k \in 1..2, last \in P \cup L \cup {Plain(Nil)} :
          \E front \in [1..(k - 1) -> P] : results' = Append(front, last)
    BY DEF VisitRetstat
  <1>1. PICK front \in [1..(k - 1) -> P] : results' = Append(front, last)
    BY <1>0
  <1>2. P \subseteq Expr
    <2>1. ASSUME NEW i \in DOMAIN params PROVE VarOf(params[i]) \in Expr
      BY VarOfType
    <2> QED BY <2>1
  <1>3. L \subseteq Expr
    BY ListsAssumption
  <1>4. Plain(Nil) \in Expr
    BY DEF Plain, Expr, Simple
  <1> HIDE DEF P, L
  <1>5. k - 1 \in Nat /\ last \in Expr
    BY <1>2, <1>3, <1>4
  <1>6. front \in [1..(k - 1) -> Expr]
    BY <1>2
  <1>7. front \in Seq(Expr)
    BY <1>5, <1>6
  <1> QED BY <1>1, <1>5, <1>7

(* The list an assignment stores: the call in it, or two table fields, or  *)
(* a field and a constant.                                                 *)
LEMMA StoredList ==
  ASSUME results \in Seq(Expr), NEW c \in Cell, NEW d \in Cell, NEW e \in Exprs,
         NEW es \in WithCall(Field(c)) \cup {<<Field(c), Field(d)>>, <<Field(c), e>>}
  PROVE  es \in Seq(Expr \cup Pointer) /\ es # << >>
  <1>1. Field(c) \in Pointer /\ Field(d) \in Pointer /\ e \in Expr
    BY ListsAssumption DEF Field, Pointer
  <1>2. CASE es \in WithCall(Field(c))
    BY <1>1, <1>2, WithCallType
  <1>3. CASE es = <<Field(c), Field(d)>>
    BY <1>1, <1>3
  <1>4. CASE es = <<Field(c), e>>
    BY <1>1, <1>4
  <1> QED BY <1>2, <1>3, <1>4

(* The names of a for-in, whichever index nil is filled in from.           *)
LEMMA NamesType ==
  ASSUME NEW es, Listed(es), NEW n \in Nat
  PROVE  LET names == [i \in 1..n |-> <<Adjust(es, n)[i]>>]
         IN  names \in Seq(Seq(Value)) /\ Len(names) = n /\ \A i \in 1..n : Len(names[i]) =< 1
  <1> DEFINE a == Adjust(es, n)
  <1>1. a \in [1..n -> Value]
    BY AdjustType
  <1> HIDE DEF a
  <1>2. \A i \in 1..n : <<a[i]>> \in Seq(Value) /\ Len(<<a[i]>>) = 1
    BY <1>1
  <1>3. [i \in 1..n |-> <<a[i]>>] \in [1..n -> Seq(Value)]
    BY <1>2
  <1>4. [i \in 1..n |-> <<a[i]>>] \in Seq(Seq(Value)) /\ Len([i \in 1..n |-> <<a[i]>>]) = n
    BY <1>3
  <1> QED BY <1>2, <1>4 DEF a

LEMMA ForInNamesType ==
  ASSUME results \in Seq(Expr), results # << >>, NEW n \in Nat, NEW names \in ForInNames(n)
  PROVE  names \in Seq(Seq(Value)) /\ Len(names) = n /\ \A i \in 1..n : Len(names[i]) =< 1
  <1>1. Listed(results)
    BY DEF Listed
  <1>2. CASE Len(results) >= n \/ Multiple(Last(results))
    <2>1. names = [i \in 1..n |-> <<Adjust(results, n)[i]>>]
      BY <1>2 DEF ForInNames
    <2> QED BY <1>1, <2>1, NamesType
  <1>3. CASE ~ (Len(results) >= n \/ Multiple(Last(results)))
    <2> DEFINE Name(k, i) == IF i >= k THEN <<Nil>>
                             ELSE IF i =< Len(results) THEN <<Get(results[i])>> ELSE << >>
    <2>1. PICK k \in 1..(n + 1) : names = [i \in 1..n |-> Name(k, i)]
      BY <1>3 DEF ForInNames
    <2>2. Nil \in Value
      BY DEF Value, Simple
    <2>3. ASSUME NEW i \in 1..n PROVE Name(k, i) \in Seq(Value) /\ Len(Name(k, i)) =< 1
      <3>1. i =< Len(results) => Get(results[i]) \in Value
        BY ExprFacts
      <3> QED BY <2>2, <3>1
    <2> HIDE DEF Name
    <2>4. names \in [1..n -> Seq(Value)]
      BY <2>1, <2>3
    <2>5. names \in Seq(Seq(Value)) /\ Len(names) = n
      BY <2>4
    <2> QED BY <2>1, <2>3, <2>5
  <1> QED BY <1>2, <1>3

-----------------------------------------------------------------------------
LEMMA TypeNext == ListsInv /\ [Next]_vars => TypeOK'
  <1> SUFFICES ASSUME ListsInv, [Next]_vars PROVE TypeOK'
    OBVIOUS
  <1>1. TypeOK
    BY DEF ListsInv
  <1>2. \A S : << >> \in Seq(S) /\ Len(<< >>) = 0
    OBVIOUS
  <1>3. 0 \in 0..MaxFormals /\ MaxTargets \in Nat
    BY ListsAssumption
  <1>4. exprs \in Seq(Expr) /\ results \in Seq(Expr) /\ args \in Seq(Value) /\ params \in Seq(Value)
    BY <1>1 DEF TypeOK
  <1>5. CASE VisitArgs
    <2>1. args' \in Seq(Value)
      BY <1>4, <1>5, ExpandedFacts DEF VisitArgs
    <2> QED BY <1>1, <1>5, <2>1 DEF VisitArgs, storeVars, TypeOK
  <1>6. CASE ForInHead
    <2>1. Listed(exprs)
      BY <1>4, <1>6 DEF ForInHead, ListsInv, NotEmpty, Listed
    <2>2. \A i : ValueOrNil(LoopValues(exprs), i) \in Value
      BY <2>1, LoopValuesType, ValueOrNilType
    <2>3. args' = <<ValueOrNil(LoopValues(exprs), 2), ValueOrNil(LoopValues(exprs), 3)>>
      BY <1>6 DEF ForInHead
    <2>4. args' \in Seq(Value)
      BY <2>2, <2>3
    <2> QED BY <1>1, <1>6, <2>4 DEF ForInHead, storeVars, TypeOK
  <1>7. CASE BadForIn \/ ReturnElipsis \/ ForInBreak
    BY <1>1, <1>7 DEF BadForIn, ReturnElipsis, ForInBreak, callVars, storeVars, TypeOK, Final
  <1>8. CASE CallFunction
    <2>1. PICK k \in 0..MaxFormals, dotted \in BOOLEAN : BindParameters(k, dotted)
      BY <1>8 DEF CallFunction
    <2>2. /\ formals' = k /\ formals' \in 0..MaxFormals /\ vararg' \in BOOLEAN
          /\ params' \in Seq(Value) /\ Len(params') = k
          /\ dots' \in Seq(Value \cup Dotted(Value))
      BY <1>4, <2>1, BindType
    <2> QED BY <1>1, <1>8, <2>2 DEF CallFunction, storeVars, TypeOK
  <1>9. CASE CallNoFormals
    BY <1>1, <1>2, <1>3, <1>9 DEF CallNoFormals, storeVars, TypeOK, Final
  <1>10. CASE VisitRetstat
    <2>1. results' \in Seq(Expr)
      BY <1>4, <1>10, RetstatType
    <2> QED BY <1>1, <1>2, <1>3, <1>10, <2>1 DEF VisitRetstat, LeaveCall, storeVars, TypeOK
  <1>11. CASE FinishCall
    BY <1>1, <1>2, <1>3, <1>11 DEF FinishCall, LeaveCall, storeVars, TypeOK
  <1>12. CASE ProcessStatVarList
    <2>1. PICK tg \in UNION {[1..n -> Cell] : n \in 1..MaxTargets}, c \in Cell, d \in Cell, e \in Exprs :
          \E es \in WithCall(Field(c)) \cup {<<Field(c), Field(d)>>, <<Field(c), e>>} :
             list' = es /\ targets' = tg /\ cells' = Assigned(es, tg)
      BY <1>12 DEF ProcessStatVarList
    <2>2. PICK es \in WithCall(Field(c)) \cup {<<Field(c), Field(d)>>, <<Field(c), e>>} :
             list' = es /\ targets' = tg /\ cells' = Assigned(es, tg)
      BY <2>1
    <2>3. PICK n \in 1..MaxTargets : tg \in [1..n -> Cell]
      OBVIOUS
    <2>4. n \in Nat /\ tg \in Seq(Cell) /\ cells \in [Cell -> Value]
      BY <1>1, <1>3, <2>3 DEF TypeOK
    <2>5. es \in Seq(Expr \cup Pointer) /\ es # << >>
      BY <1>4, StoredList
    <2>6. cells' \in [Cell -> Value]
      BY <2>2, <2>3, <2>4, <2>5, AssignedType
    <2>7. /\ phase' = "assigned" /\ before' = cells /\ list' \in Seq(Expr \cup Pointer) /\ targets' \in Seq(Cell)
          /\ UNCHANGED <<site, callVars, results, bound>>
      BY <1>12, <2>2, <2>4, <2>5 DEF ProcessStatVarList
    <2> QED BY <1>1, <2>4, <2>6, <2>7 DEF callVars, TypeOK, Final
  <1>13. CASE ProcessLocalVariables
    <2>1. PICK n \in 1..MaxTargets, e \in Exprs : \E es \in WithCall(e) :
            list' = es /\ bound' = [i \in 1..n |-> <<Adjust(es, n)[i]>>]
      BY <1>13 DEF ProcessLocalVariables
    <2>2. PICK es \in WithCall(e) : list' = es /\ bound' = [i \in 1..n |-> <<Adjust(es, n)[i]>>]
      BY <2>1
    <2>3. e \in Expr /\ n \in Nat
      BY <1>3, ListsAssumption
    <2>4. Listed(es) /\ es \in Seq(Expr \cup Pointer)
      BY <1>4, <2>3, WithCallType DEF Listed
    <2>5. bound' \in Seq(Seq(Value)) /\ Len(bound') = n /\ \A i \in 1..n : Len(bound'[i]) =< 1
      BY <2>2, <2>3, <2>4, NamesType
    <2>6. DOMAIN bound' = 1..n
      BY <2>2
    <2> QED BY <1>1, <1>13, <2>2, <2>4, <2>5, <2>6 DEF ProcessLocalVariables, callVars, TypeOK, Final
  <1>14. CASE ForInBind
    <2>1. PICK n \in 1..MaxTargets : bound' \in ForInNames(n)
      BY <1>14 DEF ForInBind
    <2>2. n \in Nat /\ results # << >> /\ list' = results
      BY <1>3, <1>14 DEF ForInBind
    <2>3. bound' \in Seq(Seq(Value)) /\ Len(bound') = n /\ \A i \in 1..n : Len(bound'[i]) =< 1
      BY <1>4, <2>1, <2>2, ForInNamesType
    <2>4. DOMAIN bound' = 1..n /\ list' \in Seq(Expr \cup Pointer)
      BY <1>4, <2>2, <2>3
    <2> QED BY <1>1, <1>14, <2>3, <2>4 DEF ForInBind, callVars, TypeOK, Final
  <1>15. CASE Ended \/ UNCHANGED vars
    BY <1>1, <1>15 DEF Ended, vars, callVars, storeVars, TypeOK
  <1> QED BY <1>5, <1>6, <1>7, <1>8, <1>9, <1>10, <1>11, <1>12, <1>13, <1>14, <1>15 DEF Next

(* The expressions of an assignment as values, and the targets that are c. *)
Now(es) == [i \in DOMAIN es |-> Morph(es[i], cells)]
Targets(tg, n, c) == {k \in 1..n : tg[k] = c}

(* What an assignment leaves in a cell.                                    *)
LEMMA AssignedIsLua ==
  ASSUME cells \in [Cell -> Value], NEW es \in Seq(Expr \cup Pointer), es # << >>,
         NEW n \in Nat, NEW tg \in [1..n -> Cell], Handled(Now(es), n), NEW c \in Cell
  PROVE  Assigned(es, tg)[c] = IF Targets(tg, n, c) = {} THEN cells[c]
                               ELSE LuaAdjust(Now(es), n)[Max(Targets(tg, n, c))]
  <1>1. Len(tg) = n /\ DOMAIN tg = 1..n
    OBVIOUS
  <1>2. Listed(Now(es))
    BY AssignedType DEF Now
  <1>3. Assigned(es, tg)[c] = IF \E k \in 1..n : tg[k] = c
                              THEN Adjust(Now(es), n)[Max(Targets(tg, n, c))] ELSE cells[c]
    BY <1>1 DEF Assigned, Now, Targets
  <1>4. (\E k \in 1..n : tg[k] = c) <=> Targets(tg, n, c) # {}
    BY DEF Targets
  <1>5. Adjust(Now(es), n) = LuaAdjust(Now(es), n)
    BY <1>2, AdjustIsLua
  <1> QED BY <1>3, <1>4, <1>5

LEMMA AssignmentNext == ListsInv /\ [Next]_vars => AssignmentIsSimultaneous'
  <1> SUFFICES ASSUME ListsInv, [Next]_vars PROVE AssignmentIsSimultaneous'
    OBVIOUS
  <1>1. TypeOK /\ AssignmentIsSimultaneous
    BY DEF ListsInv
  <1>2. CASE ProcessStatVarList
    <2>1. PICK tg \in UNION {[1..n -> Cell] : n \in 1..MaxTargets}, c \in Cell, d \in Cell, e \in Exprs :
          \E es \in WithCall(Field(c)) \cup {<<Field(c), Field(d)>>, <<Field(c), e>>} :
             list' = es /\ targets' = tg /\ cells' = Assigned(es, tg)
      BY <1>2 DEF ProcessStatVarList
    <2>2. PICK es \in WithCall(Field(c)) \cup {<<Field(c), Field(d)>>, <<Field(c), e>>} :
             list' = es /\ targets' = tg /\ cells' = Assigned(es, tg)
      BY <2>1
    <2>3. PICK n \in 1..MaxTargets : tg \in [1..n -> Cell]
      OBVIOUS
    <2>4. n \in Nat /\ Len(tg) = n /\ cells \in [Cell -> Value] /\ results \in Seq(Expr)
      BY <1>1, <2>3, ListsAssumption DEF TypeOK
    <2>5. es \in Seq(Expr \cup Pointer) /\ es # << >>
      BY <2>4, StoredList
    <2>6. ASSUME Handled(Now(es), n), NEW x \in Cell
          PROVE  cells'[x] = IF Targets(tg, n, x) = {} THEN cells[x]
                             ELSE LuaAdjust(Now(es), n)[Max(Targets(tg, n, x))]
      BY <2>2, <2>3, <2>4, <2>5, <2>6, AssignedIsLua
    <2>7. [i \in DOMAIN list' |-> Morph(list'[i], before')] = Now(es)
      BY <1>2, <2>2 DEF ProcessStatVarList, Now
    <2>8. before' = cells /\ targets' = tg /\ Len(targets') = n
      BY <1>2, <2>2, <2>4 DEF ProcessStatVarList
    <2>9. ASSUME Handled(Now(es), n), NEW x \in Cell
          PROVE  cells'[x] = IF {k \in 1..n : targets'[k] = x} = {} THEN before'[x]
                             ELSE LuaAdjust(Now(es), n)[Max({k \in 1..n : targets'[k] = x})]
      BY <2>6, <2>8, <2>9 DEF Targets
    <2> QED BY <2>7, <2>8, <2>9 DEF AssignmentIsSimultaneous
  <1>3. CASE Ended \/ UNCHANGED vars
    BY <1>1, <1>3 DEF Ended, vars, callVars, storeVars, AssignmentIsSimultaneous
  <1>4. CASE ~ ProcessStatVarList /\ ~ (Ended \/ UNCHANGED vars)
    <2>1. phase' # "assigned"
      BY <1>4 DEF Next, VisitArgs, ForInHead, BadForIn, CallFunction, CallNoFormals, VisitRetstat,
                  ReturnElipsis, FinishCall, LeaveCall, ProcessLocalVariables, ForInBind, ForInBreak
    <2> QED BY <2>1 DEF AssignmentIsSimultaneous
  <1> QED BY <1>2, <1>3, <1>4

LEMMA NamesNext == ListsInv /\ [Next]_vars => NamesAreAdjusted'
  <1> SUFFICES ASSUME ListsInv, [Next]_vars PROVE NamesAreAdjusted'
    OBVIOUS
  <1>1. TypeOK /\ NamesAreAdjusted /\ results \in Seq(Expr)
    BY DEF ListsInv, TypeOK
  <1>2. ASSUME NEW es, Listed(es), list' = es, NEW n \in Nat, bound' = [i \in 1..n |-> <<Adjust(es, n)[i]>>]
        PROVE  NamesAreAdjusted'
    <2>1. Len(bound') = n /\ DOMAIN bound' = 1..n
      BY <1>2, NamesType
    <2>2. Handled(es, n) => Adjust(es, n) = LuaAdjust(es, n)
      BY <1>2, AdjustIsLua
    <2> QED BY <1>2, <2>1, <2>2 DEF NamesAreAdjusted
  <1>3. CASE ProcessLocalVariables
    <2>1. PICK n \in 1..MaxTargets, e \in Exprs : \E es \in WithCall(e) :
            list' = es /\ bound' = [i \in 1..n |-> <<Adjust(es, n)[i]>>]
      BY <1>3 DEF ProcessLocalVariables
    <2>2. PICK es \in WithCall(e) : list' = es /\ bound' = [i \in 1..n |-> <<Adjust(es, n)[i]>>]
      BY <2>1
    <2>3. e \in Expr /\ n \in Nat
      BY ListsAssumption
    <2>4. Listed(es)
      BY <1>1, <2>3, WithCallType DEF Listed
    <2> QED BY <1>2, <2>2, <2>3, <2>4
  <1>4. CASE ForInBind
    <2>1. PICK n \in 1..MaxTargets : bound' \in ForInNames(n)
      BY <1>4 DEF ForInBind
    <2>2. n \in Nat /\ Listed(results) /\ list' = results /\ site' = "forin"
      BY <1>1, <1>4, ListsAssumption DEF ForInBind, Listed
    <2>3. CASE Len(results) >= n \/ Multiple(Last(results))
      <3>1. bound' = [i \in 1..n |-> <<Adjust(results, n)[i]>>]
        BY <2>1, <2>3 DEF ForInNames
      <3> QED BY <1>2, <2>2, <3>1
    <2>4. CASE ~ (Len(results) >= n \/ Multiple(Last(results)))
      <3>1. Len(bound') = n
        BY <1>1, <2>1, <2>2, ForInNamesType DEF Listed
      <3> QED BY <2>2, <2>4, <3>1 DEF NamesAreAdjusted
    <2> QED BY <2>3, <2>4
  <1>5. CASE Ended \/ UNCHANGED vars
    BY <1>1, <1>5 DEF Ended, vars, callVars, storeVars, NamesAreAdjusted
  <1>6. CASE ~ ProcessLocalVariables /\ ~ ForInBind /\ ~ (Ended \/ UNCHANGED vars)
    <2>1. phase' # "declared"
      BY <1>6 DEF Next, VisitArgs, ForInHead, BadForIn, CallFunction, CallNoFormals, VisitRetstat,
                  ReturnElipsis, FinishCall, LeaveCall, ProcessStatVarList, ForInBreak
    <2> QED BY <2>1 DEF NamesAreAdjusted
  <1> QED BY <1>3, <1>4, <1>5, <1>6

LEMMA ArgumentsNext == ListsInv /\ [Next]_vars => ArgumentsAreBound' /\ NotEmpty' /\ ArgumentsReachParameters'
  <1> SUFFICES ASSUME ListsInv, [Next]_vars
               PROVE  ArgumentsAreBound' /\ NotEmpty' /\ ArgumentsReachParameters'
    OBVIOUS
  <1>1. TypeOK /\ TypeOK' /\ ArgumentsAreBound /\ NotEmpty /\ ArgumentsReachParameters
    BY TypeNext DEF ListsInv
  <1>2. CASE VisitArgs
    BY <1>1, <1>2 DEF VisitArgs, ArgumentsAreBound, NotEmpty, ArgumentsReachParameters
  <1>3. CASE CallFunction
    <2>1. PICK k \in 0..MaxFormals, dotted \in BOOLEAN : BindParameters(k, dotted)
      BY <1>3 DEF CallFunction
    <2>2. k \in Nat /\ exprs \in Seq(Expr) /\ args \in Seq(Value)
      BY <1>1, ListsAssumption DEF TypeOK
    <2>3. formals' = k /\ \A i \in 1..k : params'[i] = ValueOrNil(args, i)
      BY <2>1, <2>2, BindType
    <2>4. phase = "call" /\ phase' = "body" /\ site' = site /\ exprs' = exprs
      BY <1>3 DEF CallFunction
    <2>5. ASSUME site = "call", NEW i \in 1..k,
                 ~ (i < Len(exprs) /\ exprs[i].kind = "elipsis"),
                 ~ (i >= Len(exprs) /\ exprs # << >> /\ Multiple(Last(exprs))
                      /\ (i > Len(exprs) \/ Last(exprs).kind = "elipsis"))
          PROVE  params'[i] = LuaAdjust(exprs, k)[i]
      <3>1. args = Expanded(exprs)
        BY <1>1, <2>4, <2>5 DEF ArgumentsAreBound
      <3>2. ValueOrNil(Expanded(exprs), i) = LuaAdjust(exprs, k)[i]
        BY <2>2, <2>5, BoundAsInLua
      <3> QED BY <2>3, <3>1, <3>2
    <2>6. ArgumentsReachParameters'
      BY <1>1, <2>3, <2>4, <2>5 DEF ArgumentsReachParameters
    <2> QED BY <2>4, <2>6 DEF ArgumentsAreBound, NotEmpty
  <1>4. CASE Ended \/ UNCHANGED vars
    BY <1>1, <1>4 DEF Ended, vars, callVars, storeVars, ArgumentsAreBound, NotEmpty, ArgumentsReachParameters
  <1>5. CASE ~ VisitArgs /\ ~ CallFunction /\ ~ (Ended \/ UNCHANGED vars)
    <2>1. phase' \notin {"body", "exprs"} /\ ~ (phase' = "call" /\ site' = "call")
      BY <1>5 DEF Next, ForInHead, BadForIn, CallNoFormals, VisitRetstat, ReturnElipsis, FinishCall,
                  LeaveCall, ProcessStatVarList, ProcessLocalVariables, ForInBind, ForInBreak
    <2> QED BY <1>1, <2>1 DEF ArgumentsAreBound, NotEmpty, ArgumentsReachParameters
  <1> QED BY <1>2, <1>3, <1>4, <1>5

LEMMA ListsNext == ListsInv /\ [Next]_vars => ListsInv'
  BY TypeNext, AssignmentNext, NamesNext, ArgumentsNext DEF ListsInv

(* process_stat_var_list is simultaneous, for lists and targets of every   *)
(* length: every table field it reads is read before a variable is         *)
(* written, the values are adjusted as in Lua, the last of several targets *)
(* that are one cell wins, and no other cell changes.                      *)
THEOREM AssignmentsAreSimultaneous == Spec => []AssignmentIsSimultaneous
  <1>1. ListsInv => AssignmentIsSimultaneous
    BY DEF ListsInv
  <1> QED BY <1>1, ListsInit, ListsNext, PTL DEF Spec

(* process_local_variables and process_for_in give their names what Lua    *)
(* does, but for a for-in whose iterator returns too few plain values.     *)
THEOREM NamesReceiveTheirValues == Spec => []NamesAreAdjusted
  <1>1. ListsInv => NamesAreAdjusted
    BY DEF ListsInv
  <1> QED BY <1>1, ListsInit, ListsNext, PTL DEF Spec

(* visitArgs and call_function bring every argument that is no Elipsis to  *)
(* its parameter and fill the missing ones with nil, although the list     *)
(* they work on still holds the last argument twice.                       *)
THEOREM ParametersReceiveArguments == Spec => []ArgumentsReachParameters
  <1>1. ListsInv => ArgumentsReachParameters
    BY DEF ListsInv
  <1> QED BY <1>1, ListsInit, ListsNext, PTL DEF Spec
=============================================================================
