---------------------------- MODULE Expressions ----------------------------
(***************************************************************************)
(* Operators of LuaPP (visitExp) and the weak conversions between its      *)
(* types (types.cpp): one operator is evaluated step by step, since its    *)
(* right operand may call a function that assigns what the left one was    *)
(* read from; then ensure_value_type may compare the result.               *)
(*                                                                         *)
(* Ints have Width bits.  Doubles are exact fractions, with denominator 0  *)
(* for the infinities and NaN: rounding and the sign of zero are left out. *)
(* Strings are told apart by whether std::stod reads a number from them.   *)
(***************************************************************************)
EXTENDS Integers, FiniteSetsExt

CONSTANTS Width,        \* bits of an int
          Expressions,  \* the expressions under study, of finite operands
          Expected,     \* what ensure_value_type may compare with
          Precision     \* 1 / std::numeric_limits<double>::epsilon()

(* The powers that occur are positive, which Width in Nat implies.         *)
ASSUME WidthAssumption == Width \in Nat \ {0} /\ \A i \in 0 .. (Width - 1) : 2 ^ i \in Nat \ {0}

ASSUME PrecisionAssumption == Precision \in Nat \ {0, 1}

IntBound == 2 ^ (Width - 1)
Ints == -IntBound .. (IntBound - 1)

(* n / d is the number a value is or, for a numeral, denotes; n tells      *)
(* booleans, texts and references apart.                                   *)
Val(t, n, d) == [type |-> t, n |-> n, d |-> d]
ValueType == {"nil", "bool", "int", "double", "numeral", "text", "table", "function"}
IsVal(v) == v.type \in ValueType
Nil == Val("nil", 0, 1)
Bool(b) == Val("bool", IF b THEN 1 ELSE 0, 1)
Int_(n) == Val("int", n, 1)
Double(n, d) == IF d < 0 THEN Val("double", -n, -d) ELSE Val("double", n, d)
NaN == Double(0, 0)
SomeText == Val("text", 0, 1)

(* How an evaluation ends without a value.  A crash is the trap of idiv;   *)
(* only BadType is what expect_failure catches.                            *)
Failure == {"BadType", "invalid_argument", "out_of_range", "bad_variant_access", "crash"}
Fail(f) == Val(f, 0, 0)

Nothing == Val("nothing", 0, 0)

Arithmetic == {"+", "-", "*", "/", "%", "//"}
Comparison == {"<", ">", "<=", ">=", "==", "~="}
Bitwise == {"&", "|", "xor", "<<", ">>"}
Logical == {"and", "or"}
Unary == {"not", "#", "minus", "~"}
Op == Arithmetic \cup Comparison \cup Bitwise \cup Logical \cup Unary \cup {"^", ".."}

(* What an operand may be, and what a cell may hold: an int, if it is one. *)
Operand == {v \in [type: ValueType, n: Int, d: Nat \ {0}] : v.type = "int" => v.d = 1}
Held == {v \in Operand : v.type = "int" => v.n \in Ints}

(* src: a literal, a name, a table field, or either of them in a subscript *)
(* of a left side, which is visited in the mode VARLIST; store: what       *)
(* evaluating the right operand assigns to it.                             *)
IsExpression(e) ==
  /\ e.op \in Op /\ e.src \in {"literal", "name", "field", "target"}
  /\ e.left \in Operand /\ e.right \in Held /\ e.store \in Held \cup {Nothing}
  /\ IF e.src = "literal" THEN e.store = Nothing ELSE e.left \in Held

ASSUME ExpressionsAssumption == \A e \in Expressions : IsExpression(e)
ASSUME ExpectedAssumption ==
  \A v \in Expected : v \in Operand /\ (v.type \in {"int", "double"} => v.n \div v.d \in Ints)

VARIABLES exp,      \* the expression
          at,       \* where its evaluation is
          cell,     \* the variable or field of the left operand
          leftV,    \* the Var of the left operand: a copy, or Nothing for a pointer to cell
          early,    \* the left operand if it is converted before the right is visited
          rightV,   \* the right operand
          result,   \* the result or failure
          ensured   \* what ensure_value_type compared with and its verdict

vars == <<exp, at, cell, leftV, early, rightV, result, ensured>>

Init ==
  /\ exp \in Expressions /\ at = "left" /\ cell = exp.left
  /\ leftV = Nothing /\ early = Nothing /\ rightV = Nothing /\ result = Nothing
  /\ ensured = [expected |-> Nothing, type |-> "nil", verdict |-> "none"]

-----------------------------------------------------------------------------
(* Conversions: the failure or "none", and the value where there is none.  *)
LuaType(v) == IF v.type \in {"numeral", "text"} THEN "string" ELSE v.type
IsInt(v) == v.type = "int"
IsNumber(v) == v.type \in {"int", "double"}
Integral(v) == v.d = 1

(* Variant: an int is not taken for a number.                              *)
AsDoubleErrorStrict(v) ==
  CASE v.type \in {"double", "numeral"} -> "none"
    [] v.type = "text" -> "invalid_argument"
    [] OTHER -> "BadType"
(* as_double_weak: std::stod throws std::invalid_argument.                 *)
AsDoubleError(v) ==
  CASE v.type \in {"int", "double", "numeral"} -> "none"
    [] v.type = "text" -> "invalid_argument"
    [] OTHER -> "BadType"

(* as_int_weak: only exact doubles, and strings of exact doubles; on any   *)
(* other string std::stoi throws what std::stod has thrown.                *)
AsIntError(v) ==
  CASE v.type = "int" -> "none"
    [] v.type \in {"double", "numeral"} -> IF Integral(v) THEN "none" ELSE "BadType"
    [] v.type = "text" -> "invalid_argument"
    [] OTHER -> "BadType"
(* A double outside int converts to an int the language leaves open.       *)
ToInt(n, d) == IF d = 1 /\ n \in Ints THEN {n} ELSE Ints
AsInt(v) == ToInt(v.n, v.d)

AsBool(v) == IF v.type = "bool" THEN v.n = 1 ELSE v.type # "nil"

(* as_string formats numbers and nil.                                      *)
AsStringError(v) ==
  IF LuaType(v) \in {"string", "int", "double", "nil"} THEN "none" ELSE "BadType"

-----------------------------------------------------------------------------
(* Applying an operator: the set of results the build can produce.         *)
Wrap(n) == ((n + IntBound) % (2 * IntBound)) - IntBound
AnyInt == {Int_(i) : i \in Ints}
WrapInt(n) == {Int_(Wrap(n))}

(* C++ division and remainder of ints go towards zero.                     *)
Abs(n) == IF n < 0 THEN -n ELSE n
Sign(n) == IF n < 0 THEN -1 ELSE 1
(* Variant: the remainder loses the sign of the dividend.                  *)
IntRemainderUnsigned(a, b) == Abs(a) % Abs(b)
IntRemainder(a, b) == Sign(a) * (Abs(a) % Abs(b))

(* std::floor, and the multiple std::remainder takes: nearest, ties even.  *)
Floor(v) == IF v.d = 0 THEN v ELSE Double(v.n \div v.d, 1)
Nearest(v) ==
  LET f == v.n \div v.d
      twice == 2 * (v.n - f * v.d)
  IN  IF twice < v.d \/ (twice = v.d /\ f % 2 = 0) THEN f ELSE f + 1

Divide(a, b) == Double(a.n * b.d, a.d * b.n)
Remainder(a, b) ==
  IF b.n = 0 THEN NaN
  ELSE Double(a.n * b.d - Nearest(Divide(a, b)) * b.n * a.d, a.d * b.d)

(* Variant: the quotient of ints is taken towards zero.                    *)
IntQuotientTruncated(a, b) ==
  IF b = 0 THEN AnyInt ELSE WrapInt(Sign(a) * Sign(b) * (Abs(a) \div Abs(b)))
(* make_int(std::floor(left / right)): any int for a division by zero.     *)
IntQuotient(a, b) ==
  LET q == Floor(Divide(Int_(a), Int_(b))) IN {Int_(i) : i \in ToInt(q.n, q.d)}

IntResult(op, a, b) ==
  CASE op = "+" -> WrapInt(a + b)
    [] op = "-" -> WrapInt(a - b)
    [] op = "*" -> WrapInt(a * b)
    [] op = "//" -> IntQuotient(a, b)
    [] op = "%" -> IF b = 0 \/ (b = -1 /\ a = -IntBound)
                   THEN {Fail("crash")}
                   ELSE {Int_(IntRemainder(a, b))}

DoubleResult(op, a, b) ==
  CASE op = "+" -> Double(a.n * b.d + b.n * a.d, a.d * b.d)
    [] op = "-" -> Double(a.n * b.d - b.n * a.d, a.d * b.d)
    [] op = "*" -> Double(a.n * b.n, a.d * b.d)
    [] op = "/" -> Divide(a, b)
    [] op = "//" -> Floor(Divide(a, b))
    [] op = "%" -> Remainder(a, b)

(* std::pow for integral exponents; NaN stands for a power left open.      *)
Power(a, b) ==
  IF b.d # 1 THEN NaN
  ELSE IF b.n = 0 THEN Double(1, 1)
  ELSE IF b.n > 0 THEN Double(a.n ^ b.n, a.d ^ b.n)
  ELSE Double(a.d ^ (-b.n), a.n ^ (-b.n))

Holds(op, a, b) ==
  LET x == a.n * b.d
      y == b.n * a.d
  IN  CASE op = "<" -> x < y [] op = ">" -> x > y [] op = "<=" -> x =< y
        [] op = ">=" -> x >= y [] op = "==" -> x = y [] op = "~=" -> x # y

Bits(n) == {i \in 0 .. (Width - 1) : (n \div 2 ^ i) % 2 = 1}
FromBits(bits) == {Int_(n) : n \in {i \in Ints : Bits(i) = bits}}
BitwiseResult(op, a, b) ==
  CASE op = "&" -> FromBits(Bits(a) \cap Bits(b))
    [] op = "|" -> FromBits(Bits(a) \cup Bits(b))
    [] op = "xor" -> FromBits(SymDiff(Bits(a), Bits(b)))
    [] op = "<<" -> IF b \in 0 .. (Width - 1) THEN WrapInt(a * 2 ^ b) ELSE AnyInt
    [] op = ">>" -> IF b \in 0 .. (Width - 1) THEN {Int_(a \div 2 ^ b)} ELSE AnyInt

(* The operands are converted left first.                                  *)
FirstError(left, right) == IF left # "none" THEN left ELSE right
Checked(error, results) == IF error # "none" THEN {Fail(error)} ELSE results

ArithmeticResults(op, a, b) ==
  Checked(FirstError(AsDoubleError(a), AsDoubleError(b)),
          IF IsInt(a) /\ IsInt(b) /\ op # "/" THEN IntResult(op, a.n, b.n) ELSE {DoubleResult(op, a, b)})

(* e is the left operand of and and ^ as it was converted.                 *)
BinaryResults(op, a, b, e) ==
  CASE op \in Arithmetic -> ArithmeticResults(op, a, b)
    [] op \in Comparison -> Checked(FirstError(AsDoubleError(a), AsDoubleError(b)), {Bool(Holds(op, a, b))})
    [] op \in Bitwise -> Checked(FirstError(AsIntError(a), AsIntError(b)),
                                 UNION {BitwiseResult(op, i, j) : i \in AsInt(a), j \in AsInt(b)})
    [] op = "^" -> Checked(AsDoubleError(b), {Power(e, b)})
    [] op = ".." -> Checked(FirstError(AsStringError(a), AsStringError(b)), {SomeText})
    [] op = "and" -> {IF AsBool(e) THEN b ELSE a}
    [] op = "or" -> {IF AsBool(a) THEN a ELSE b}

(* Variant: a string becomes the number it denotes before its sign changes.*)
NegatedKeepingInts(v) ==
  CASE v.type = "int" -> WrapInt(- v.n)
    [] v.type = "double" -> {Double(- v.n, v.d)}
    [] v.type = "numeral" -> {IF Integral(v) THEN Int_(- v.n) ELSE Double(- v.n, v.d)}
    [] v.type = "text" -> {Fail("invalid_argument")}
    [] OTHER -> {Fail("BadType")}
(* A string is forced to be a double.                                      *)
Negated(v) ==
  CASE v.type = "int" -> WrapInt(- v.n)
    [] v.type \in {"double", "numeral"} -> {Double(- v.n, v.d)}
    [] v.type = "text" -> {Fail("invalid_argument")}
    [] OTHER -> {Fail("BadType")}

(* Lengths are in Tables and in the string itself.                         *)
UnaryResults(op, v) ==
  CASE op = "not" -> {Bool(~ AsBool(v))}
    [] op = "minus" -> Negated(v)
    [] op = "~" -> Checked(AsIntError(v), {Int_(-1 - i) : i \in AsInt(v)})
    [] op = "#" -> IF LuaType(v) \in {"string", "table"}
                   THEN {Int_(i) : i \in Ints \cap Nat}
                   ELSE {Fail("bad_variant_access")}

-----------------------------------------------------------------------------
(* Evaluation.                                                             *)
ConvertsEarly == exp.op \in {"^", "and"}
Left == IF leftV = Nothing THEN cell ELSE leftV

(* visitNumber reads ints with std::stoi.                                  *)
BadLiteral ==
  /\ at = "left" /\ exp.left.type = "int" /\ exp.left.n \notin Ints
  /\ result' = Fail("out_of_range") /\ at' = "done"
  /\ UNCHANGED <<exp, cell, leftV, early, rightV, ensured>>

(* Variant: names are not copied either.                                   *)
LeftVarByPointer == Nothing
(* A field that exists is handed on by its address, a name is copied; in   *)
(* the mode VARLIST both are handed on by their address, and created if    *)
(* need be.                                                                *)
LeftVar == IF exp.src = "target" \/ (exp.src = "field" /\ cell # Nil) THEN Nothing ELSE cell

VisitLeft ==
  /\ at = "left" /\ (IsInt(exp.left) => exp.left.n \in Ints)
  /\ leftV' = LeftVar
  /\ at' = IF exp.op \in Unary THEN "apply" ELSE IF ConvertsEarly THEN "convert" ELSE "right"
  /\ UNCHANGED <<exp, cell, early, rightV, result, ensured>>

ConvertLeft ==
  /\ at = "convert"
  /\ IF exp.op = "^" /\ AsDoubleError(Left) # "none"
     THEN result' = Fail(AsDoubleError(Left)) /\ at' = "done" /\ UNCHANGED early
     ELSE early' = Left /\ at' = "right" /\ UNCHANGED result
  /\ UNCHANGED <<exp, cell, leftV, rightV, ensured>>

(* Whatever the left operand is: and and or evaluate both.                 *)
VisitRight ==
  /\ at = "right"
  /\ rightV' = exp.right
  /\ cell' = IF exp.store = Nothing THEN cell ELSE exp.store
  /\ at' = "apply"
  /\ UNCHANGED <<exp, leftV, early, result, ensured>>

Apply ==
  /\ at = "apply"
  /\ result' \in IF exp.op \in Unary
                 THEN UnaryResults(exp.op, Left)
                 ELSE BinaryResults(exp.op, Left, rightV, early)
  /\ at' = "done"
  /\ UNCHANGED <<exp, cell, leftV, early, rightV, ensured>>

(* Value::operator==, which is what ensure_value_type asks: "BadType" when *)
(* an int meets a double with a fraction.  Two doubles may differ by       *)
(* epsilon times the larger of them and 1.  That is infinite if one is, so *)
(* that an infinity equals every other number; a difference that is NaN    *)
(* equals nothing: that of NaN, and that of an infinity to itself.         *)
SameNumber(a, b) == a.d # 0 /\ b.d # 0 /\ a.n * b.d = b.n * a.d
Within(a, b) ==
  \E bound \in {a.d * b.d, Abs(a.n) * b.d, Abs(b.n) * a.d} :
    Precision * Abs(a.n * b.d - b.n * a.d) =< bound
Infinite(v) == v.d = 0 /\ v.n # 0
SameDouble(a, b) ==
  IF a.d # 0 /\ b.d # 0 THEN Within(a, b)
  ELSE /\ \A v \in {a, b} : v.d = 0 => Infinite(v)
       /\ Infinite(a) /\ Infinite(b) => Sign(a.n) # Sign(b.n)
ValueEqualsError(a, b) == IF IsInt(a) /\ b.type = "double" THEN AsIntError(b) ELSE "none"
(* Variant: values of different types are compared as booleans.            *)
ValueEqualsAsBools(a, b) ==
  IF a.type = b.type THEN a.n = b.n /\ a.d = b.d ELSE AsBool(a) = AsBool(b)
ValueEquals(a, b) ==
  IF a.type = "double" /\ b.type = "double" THEN SameDouble(a, b)
  ELSE IF IsNumber(a) /\ IsNumber(b) THEN SameNumber(a, b)
  ELSE IF a.type = b.type THEN a.n = b.n /\ a.d = b.d
  ELSE "bool" \in {a.type, b.type} /\ AsBool(a) = AsBool(b)

EnsureValueType ==
  /\ at = "done" /\ IsVal(result)
  /\ \E v \in Expected, t \in {"int", "double", "string", "table", "bool", "nil"} :
       ensured' = [expected |-> v, type |-> t, verdict |->
         LET compared == v.type \notin {"table", "function"}
         IN  IF compared /\ ValueEqualsError(result, v) # "none" THEN "BadType"
             ELSE IF compared /\ ~ ValueEquals(result, v) THEN "ValueEqualityExpected"
             ELSE IF t # LuaType(result) THEN "TypeEqualityExpected"
             ELSE "ok"]
  /\ at' = "ensured"
  /\ UNCHANGED <<exp, cell, leftV, early, rightV, result>>

Ended == (at = "ensured" \/ result.type \in Failure) /\ UNCHANGED vars

Next == BadLiteral \/ VisitLeft \/ ConvertLeft \/ VisitRight \/ Apply \/ EnsureValueType \/ Ended

Spec == Init /\ [][Next]_vars

-----------------------------------------------------------------------------
TypeOK ==
  /\ IsExpression(exp)
  /\ at \in {"left", "convert", "right", "apply", "done", "ensured"}
  /\ IsVal(cell)
  /\ \A v \in {leftV, early, rightV} : v = Nothing \/ IsVal(v)
  /\ at \in {"done", "ensured"} => IsVal(result) \/ result.type \in Failure
  /\ IsInt(result) => result.n \in Ints

Done == at \in {"done", "ensured"}
InRange == IsInt(exp.left) => exp.left.n \in Ints
Copied == {"literal", "name"}

(* The left operand counts with the value it had when it was visited, even *)
(* if the right operand calls a function that assigns it, unless it is a   *)
(* table field or stands in a subscript of a left side: "Copy, because     *)
(* having pointers is dangerous.  Only give a pointer when needed."        *)
(* (visitVar_).                                                            *)
OperandsAreSnapshots ==
  Done /\ exp.src \in Copied /\ InRange =>
    result \in IF exp.op \in Unary THEN UnaryResults(exp.op, exp.left)
               ELSE IF exp.op = "^" /\ AsDoubleError(exp.left) # "none" THEN {Fail(AsDoubleError(exp.left))}
               ELSE BinaryResults(exp.op, exp.left, exp.right, exp.left)

(* Results have the types the tests of 01_typing ask for: ints stay ints   *)
(* under + - * % //, everything else that is arithmetic becomes a double.  *)
(* An int fits its width.                                                  *)
ResultTypes ==
  TypeOK /\ (Done /\ IsVal(result) /\ exp.src \in Copied =>
    CASE exp.op \in Comparison \cup {"not"} -> result.type = "bool"
      [] exp.op \in Bitwise \cup {"~", "#"} -> result.type = "int"
      [] exp.op = ".." -> LuaType(result) = "string"
      [] exp.op \in {"/", "^"} -> result.type = "double"
      [] exp.op = "minus" -> IsInt(result) <=> IsInt(exp.left)
      [] exp.op \in Arithmetic \ {"/"} ->
           /\ IsNumber(result)
           /\ IsInt(result) <=> IsInt(exp.left) /\ IsInt(exp.right)
      [] exp.op \in Logical -> result \in {exp.left, exp.right})

(* What two operands give when they are the doubles they stand for.        *)
AsIfDouble(v) == IF v.type \in {"int", "numeral"} THEN Double(v.n, v.d) ELSE v
InDoubles(a, b) == BinaryResults(exp.op, AsIfDouble(a), AsIfDouble(b), AsIfDouble(a))

(* An operator gives the same number for ints, for doubles and for strings *)
(* that denote them, if it fits in an int and nothing is divided by zero.  *)
(* % is not among them: it truncates ints and rounds doubles.  A bitwise   *)
(* operator takes a string that denotes a number as that number, too.      *)
OneArithmetic ==
  Done /\ exp.src \in Copied /\ InRange =>
    /\ /\ exp.op \in {"+", "-", "*", "/", "//"} \cup Comparison
       /\ \A v \in {exp.left, exp.right} : v.type \in {"int", "double", "numeral"}
       => \A r \in InDoubles(exp.left, exp.right) :
            r.d # 0 /\ (IsInt(result) => r.n % r.d = 0 /\ r.n \div r.d \in Ints) => SameNumber(result, r)
    /\ exp.op \in Bitwise => result \in InDoubles(exp.left, exp.right)

(* // and % of two ints fit together, as far as both round the same way.   *)
QuotientFitsRemainder ==
  Done /\ IsInt(result) /\ IsInt(exp.left) /\ IsInt(exp.right) /\ exp.src \in Copied =>
    LET a == exp.left.n
        b == exp.right.n
    IN  /\ exp.op = "%" => Abs(result.n) < Abs(b) /\ (a - result.n) % Abs(b) = 0
        /\ exp.op = "//" /\ b # 0 /\ Sign(a) = Sign(b) /\ Abs(a) \div Abs(b) \in Ints
             => result.n * b + IntRemainder(a, b) = a

(* Numbers never make an operator fail, except a fraction where an int is  *)
(* needed, the two remainders idiv traps on, and a length.                 *)
NumbersDoNotFail ==
  Done /\ result.type \in Failure /\ exp.src \in Copied /\ InRange
       /\ IsNumber(exp.left) /\ (exp.op \in Unary \/ IsNumber(exp.right)) =>
    \/ exp.op \in Bitwise \cup {"~"} /\ result = Fail("BadType")
         /\ ~ (Integral(exp.left) /\ (exp.op \in Unary \/ Integral(exp.right)))
    \/ exp.op = "%" /\ result = Fail("crash") /\ exp.right.n \in {0, -1}
    \/ exp.op = "#"

(* If ensure_value_type accepts a number, the result is that number, up to *)
(* a relative error between two doubles, or it is an infinity that was     *)
(* compared with a double.  What it accepts has the type it was told.      *)
EnsuredIsEqual ==
  ensured.verdict = "ok" =>
    /\ LuaType(result) = ensured.type
    /\ IsNumber(result) /\ IsNumber(ensured.expected) =>
         \/ SameNumber(result, ensured.expected)
         \/ /\ result.type = "double" /\ ensured.expected.type = "double"
            /\ Infinite(result) \/ Within(result, ensured.expected)
=============================================================================
