------------------------- MODULE ExpressionsProofs -------------------------
(***************************************************************************)
(* Proofs about the operators: what they compute, which operands they see  *)
(* and what ensure_value_type accepts, for ints of any width and for any   *)
(* set of expressions.                                                     *)
(***************************************************************************)
EXTENDS Expressions, TLAPS

-----------------------------------------------------------------------------
(* Integers.                                                               *)
LEMMA Powers ==
  /\ IntBound \in Nat \ {0} /\ \A i \in 0 .. (Width - 1) : 2 ^ i \in Nat \ {0}
  <1>1. Width - 1 \in 0 .. (Width - 1)
    BY WidthAssumption
  <1> QED BY <1>1, WidthAssumption DEF IntBound

LEMMA IntsFacts ==
  /\ \A n \in Ints : n \in Int /\ -IntBound =< n /\ n < IntBound
  /\ \A n \in Int : -IntBound =< n /\ n < IntBound => n \in Ints
  BY Powers DEF Ints

LEMMA ModRange ==
  ASSUME NEW m \in Nat \ {0}, NEW x \in Int
  PROVE  x % m \in Int /\ 0 =< x % m /\ x % m < m
  OBVIOUS

LEMMA ModSmall ==
  ASSUME NEW m \in Nat \ {0}, NEW x \in Int, 0 =< x, x < m
  PROVE  x % m = x
  OBVIOUS

LEMMA DivMod ==
  ASSUME NEW m \in Nat \ {0}, NEW x \in Int
  PROVE  x \div m \in Int /\ x = (x \div m) * m + (x % m)
  OBVIOUS

LEMMA ModOfNat ==
  ASSUME NEW m \in Nat \ {0}, NEW x \in Nat
  PROVE  x % m =< x
  OBVIOUS

LEMMA MultipleMod ==
  ASSUME NEW m \in Nat \ {0}, NEW k \in Int
  PROVE  (k * m) % m = 0
  OBVIOUS

LEMMA DivShrinks ==
  ASSUME NEW m \in Nat \ {0}, NEW x \in Int, NEW h \in Nat, -h =< x, x < h
  PROVE  x \div m \in Int /\ -h =< x \div m /\ x \div m < h
  OBVIOUS

LEMMA WrapInts ==
  ASSUME NEW n \in Int
  PROVE  /\ Wrap(n) \in Ints
         /\ n \in Ints => Wrap(n) = n
  <1> DEFINE m == 2 * IntBound
             x == n + IntBound
  <1>1. IntBound \in Nat \ {0} /\ m \in Nat \ {0} /\ x \in Int
    BY Powers
  <1>2. Wrap(n) = (x % m) - IntBound
    BY DEF Wrap
  <1>3. n \in Ints => 0 =< x /\ x < m
    BY <1>1, IntsFacts
  <1> HIDE DEF x
  <1>4. m = 2 * IntBound
    OBVIOUS
  <1> HIDE DEF m
  <1>5. x % m \in Int /\ 0 =< x % m /\ x % m < m
    BY <1>1, ModRange
  <1>6. Wrap(n) \in Int /\ -IntBound =< Wrap(n) /\ Wrap(n) < IntBound
    BY <1>1, <1>2, <1>4, <1>5
  <1>7. n \in Ints => x % m = x
    BY <1>1, <1>3, ModSmall
  <1> QED BY <1>1, <1>2, <1>6, <1>7, IntsFacts DEF x

-----------------------------------------------------------------------------
(* What one operator gives.                                                *)
AnInt(r) == r.type = "int" /\ r.n \in Ints /\ r.d = 1
Outcome(r) == (IsVal(r) \/ r.type \in Failure) /\ (IsInt(r) => r.n \in Ints)

LEMMA MadeInt == \A n \in Ints : AnInt(Int_(n)) /\ Int_(n).n = n
  BY DEF AnInt, Int_, Val

LEMMA AnIntOutcome == \A r : AnInt(r) => Outcome(r) /\ r.type \notin Failure /\ r # Nothing
  BY DEF AnInt, Outcome, IsVal, ValueType, Failure, IsInt, Nothing, Val

LEMMA MadeDouble ==
  ASSUME NEW n, NEW d
  PROVE  LET r == Double(n, d) IN
         /\ r.type = "double" /\ Outcome(r) /\ r.type \notin Failure
         /\ d \in Nat => r.n = n /\ r.d = d
  BY DEF Double, Val, Outcome, IsVal, ValueType, Failure, IsInt

LEMMA MadeBool == \A b : /\ Bool(b).type = "bool" /\ Outcome(Bool(b)) /\ Bool(b).type \notin Failure
                         /\ Bool(b).d = 1 /\ Bool(b).n \in Int
  BY DEF Bool, Val, Outcome, IsVal, ValueType, Failure, IsInt

LEMMA MadeFailure == \A f \in Failure : /\ Fail(f).type = f /\ Outcome(Fail(f)) /\ ~ IsVal(Fail(f))
                                        /\ Fail(f).type \in Failure /\ ~ IsInt(Fail(f))
  BY DEF Fail, Val, Outcome, IsVal, ValueType, Failure, IsInt

LEMMA WrappedInt ==
  ASSUME NEW n \in Int
  PROVE  \A r \in WrapInt(n) : AnInt(r) /\ (n \in Ints => r.n = n)
  <1>1. Wrap(n) \in Ints /\ (n \in Ints => Wrap(n) = n)
    BY WrapInts
  <1> QED BY <1>1, MadeInt DEF WrapInt

LEMMA ToIntIsInt == \A n, d : ToInt(n, d) \subseteq Ints /\ (d = 1 /\ n \in Ints => ToInt(n, d) = {n})
  BY DEF ToInt

LEMMA OperandFacts ==
  /\ Held \subseteq Operand /\ Nothing \notin Operand
  /\ \A v \in Operand : /\ v.type \in ValueType /\ IsVal(v) /\ v.type \notin Failure
                        /\ v.n \in Int /\ v.d \in Nat \ {0}
                        /\ IsInt(v) => v.d = 1
  /\ \A v \in Held : (IsInt(v) => v.n \in Ints) /\ Outcome(v)
  BY DEF Held, Operand, ValueType, IsVal, Failure, IsInt, Nothing, Val, Outcome

LEMMA RemainderFacts ==
  ASSUME NEW a \in Ints, NEW b \in Int, b # 0
  PROVE  LET r == IntRemainder(a, b) IN
         /\ r \in Ints /\ Abs(r) < Abs(b) /\ (a - r) % Abs(b) = 0
  <1> DEFINE x == Abs(a)
             m == Abs(b)
             p == x % m
             q == x \div m
             s == Sign(a)
             r == IntRemainder(a, b)
             k == IF a < 0 THEN -q ELSE q
  <1>1. a \in Int /\ -IntBound =< a /\ a < IntBound /\ IntBound \in Nat
    BY IntsFacts, Powers
  <1>2. x \in Nat /\ m \in Nat \ {0} /\ (a >= 0 => x = a) /\ (a < 0 => x = -a)
    BY <1>1 DEF Abs
  <1>3. (a >= 0 => s = 1) /\ (a < 0 => s = -1) /\ r = s * p
    BY <1>1 DEF Sign, IntRemainder
  <1> HIDE DEF x, m, s, r
  <1>4. p \in Int /\ 0 =< p /\ p < m /\ p =< x /\ q \in Int /\ x = q * m + p
    BY <1>2, ModRange, ModOfNat, DivMod
  <1> HIDE DEF p, q
  <1>5. (a >= 0 => r = p) /\ (a < 0 => r = -p)
    BY <1>1, <1>3, <1>4
  <1>6. r \in Int /\ -IntBound =< r /\ r < IntBound
    BY <1>1, <1>2, <1>4, <1>5
  <1>7. Abs(r) < m
    BY <1>1, <1>4, <1>5 DEF Abs
  <1>8. k \in Int /\ a - r = k * m
    <2> DEFINE y == q * m
    <2>1. y \in Int /\ (-q) * m = -y
      BY <1>2, <1>4
    <2>2. x = y + p
      BY <1>4
    <2> HIDE DEF y
    <2>3. (a >= 0 => a - r = y) /\ (a < 0 => a - r = -y)
      BY <1>1, <1>2, <1>4, <1>5, <2>1, <2>2
    <2> QED BY <1>1, <1>4, <2>1, <2>3 DEF y
  <1> HIDE DEF k
  <1>9. (a - r) % m = 0
    BY <1>2, <1>8, MultipleMod
  <1> QED BY <1>6, <1>7, <1>9, IntsFacts DEF r, m

LEMMA IntOutcomes ==
  ASSUME NEW op \in Arithmetic \ {"/"}, NEW a \in Ints, NEW b \in Ints
  PROVE  \A r \in IntResult(op, a, b) :
           \/ AnInt(r)
           \/ op = "%" /\ r = Fail("crash") /\ b \in {0, -1}
  <1>1. a \in Int /\ b \in Int
    BY IntsFacts
  <1>2. CASE op \in {"+", "-", "*"}
    <2>1. a + b \in Int /\ a - b \in Int /\ a * b \in Int
      BY <1>1
    <2>2. IntResult(op, a, b) \in {WrapInt(a + b), WrapInt(a - b), WrapInt(a * b)}
      BY <1>2 DEF IntResult
    <2>3. \A n \in Int : \A r \in WrapInt(n) : AnInt(r)
      BY WrappedInt
    <2> QED BY <2>1, <2>2, <2>3
  <1>3. CASE op = "//"
    <2>1. IntResult(op, a, b) = IntQuotient(a, b)
      BY <1>3 DEF IntResult
    <2>2. \A r \in IntQuotient(a, b) : \E i \in Ints : r = Int_(i)
      BY ToIntIsInt DEF IntQuotient
    <2> QED BY <2>1, <2>2, MadeInt
  <1>4. CASE op = "%"
    <2>1. IntResult(op, a, b) = IF b = 0 \/ (b = -1 /\ a = -IntBound)
                                THEN {Fail("crash")} ELSE {Int_(IntRemainder(a, b))}
      BY <1>4 DEF IntResult
    <2>2. b # 0 => AnInt(Int_(IntRemainder(a, b)))
      BY <1>1, RemainderFacts, MadeInt
    <2> QED BY <1>4, <2>1, <2>2
  <1> QED BY <1>2, <1>3, <1>4 DEF Arithmetic

LEMMA DoubleOutcomes ==
  ASSUME NEW op \in Arithmetic, NEW a \in Operand, NEW b \in Operand
  PROVE  LET r == DoubleResult(op, a, b) IN
         r.type = "double" /\ Outcome(r) /\ r.type \notin Failure
  <1>1. \A n, d : Double(n, d).type = "double"
    BY DEF Double, Val
  <1>2. DoubleResult(op, a, b).type = "double"
    <2>1. Divide(a, b).type = "double" /\ Remainder(a, b).type = "double"
      BY <1>1 DEF Divide, Remainder, NaN
    <2>2. Floor(Divide(a, b)).type = "double"
      BY <1>1, <2>1 DEF Floor
    <2> HIDE DEF Divide, Floor, Remainder
    <2> QED BY <1>1, <2>1, <2>2 DEF DoubleResult, Arithmetic
  <1> QED BY <1>2 DEF Outcome, IsVal, ValueType, Failure, IsInt

LEMMA BitwiseOutcomes ==
  ASSUME NEW op \in Bitwise, NEW a \in Ints, NEW b \in Ints
  PROVE  \A r \in BitwiseResult(op, a, b) : AnInt(r)
  <1>1. a \in Int /\ b \in Int /\ -IntBound =< a /\ a < IntBound /\ IntBound \in Nat
    BY IntsFacts, Powers
  <1>2. \A bits : \A r \in FromBits(bits) : AnInt(r)
    BY MadeInt DEF FromBits
  <1>3. CASE op \in {"&", "|", "xor"}
    <2>1. BitwiseResult(op, a, b) \in {FromBits(Bits(a) \cap Bits(b)), FromBits(Bits(a) \cup Bits(b)),
                                       FromBits(SymDiff(Bits(a), Bits(b)))}
      BY <1>3 DEF BitwiseResult
    <2> QED BY <1>2, <2>1
  <1>4. CASE op \in {"<<", ">>"} /\ b \notin 0 .. (Width - 1)
    <2>1. BitwiseResult(op, a, b) = AnyInt
      BY <1>4 DEF BitwiseResult
    <2> QED BY <2>1, MadeInt DEF AnyInt
  <1>5. CASE op \in {"<<", ">>"} /\ b \in 0 .. (Width - 1)
    <2> DEFINE p == 2 ^ b
    <2>1. p \in Nat \ {0}
      BY <1>5, Powers
    <2>2. BitwiseResult(op, a, b) = IF op = "<<" THEN WrapInt(a * p) ELSE {Int_(a \div p)}
      BY <1>5 DEF BitwiseResult
    <2> HIDE DEF p
    <2>3. a * p \in Int
      BY <1>1, <2>1
    <2>4. a \div p \in Ints
      BY <1>1, <2>1, DivShrinks, IntsFacts
    <2> QED BY <2>2, <2>3, <2>4, WrappedInt, MadeInt
  <1> QED BY <1>3, <1>4, <1>5 DEF Bitwise

-----------------------------------------------------------------------------
(* What a binary operator makes of two operands.                           *)
BinaryFits(op, a, b, r) ==
  /\ Outcome(r)
  /\ IsVal(r) =>
       /\ op \in Comparison => r.type = "bool"
       /\ op \in Bitwise => r.type = "int"
       /\ op = ".." => LuaType(r) = "string"
       /\ op \in {"/", "^"} => r.type = "double"
       /\ op \in Arithmetic \ {"/"} => IsNumber(r) /\ (IsInt(r) <=> IsInt(a) /\ IsInt(b))
       /\ op \in Logical => r \in {a, b}
  /\ r.type \in Failure /\ IsNumber(a) /\ IsNumber(b) =>
       \/ op \in Bitwise /\ r = Fail("BadType") /\ ~ (Integral(a) /\ Integral(b))
       \/ op = "%" /\ r = Fail("crash") /\ b.n \in {0, -1}

(* Conversions fail with these exceptions, and never for a number that     *)
(* the operator can use.                                                   *)
LEMMA ErrorFacts ==
  /\ \A v : /\ AsDoubleError(v) \in {"none", "BadType", "invalid_argument"}
            /\ AsIntError(v) \in {"none", "BadType", "invalid_argument"}
            /\ AsStringError(v) \in {"none", "BadType"}
            /\ IsNumber(v) => /\ AsDoubleError(v) = "none" /\ AsStringError(v) = "none"
                              /\ AsIntError(v) \in {"none", "BadType"}
                              /\ Integral(v) => AsIntError(v) = "none"
  /\ \A f \in {"BadType", "invalid_argument"} : f # "none" /\ f \in Failure
  BY DEF AsDoubleError, AsIntError, AsStringError, IsNumber, Integral, LuaType, Failure

LEMMA CheckedFacts ==
  ASSUME NEW error, NEW R, NEW r \in Checked(error, R)
  PROVE  (error = "none" => r \in R) /\ (error # "none" => r = Fail(error))
  BY DEF Checked

LEMMA ArithmeticFits ==
  ASSUME NEW op \in Arithmetic, NEW a \in Held, NEW b \in Held, NEW e,
         NEW r \in BinaryResults(op, a, b, e)
  PROVE  BinaryFits(op, a, b, r)
  <1> DEFINE err == FirstError(AsDoubleError(a), AsDoubleError(b))
             R == IF IsInt(a) /\ IsInt(b) /\ op # "/" THEN IntResult(op, a.n, b.n) ELSE {DoubleResult(op, a, b)}
  <1>1. r \in Checked(err, R)
    BY DEF BinaryResults, ArithmeticResults, Arithmetic, Comparison, Bitwise
  <1>2. (err = "none" => r \in R) /\ (err # "none" => r = Fail(err))
    BY <1>1, CheckedFacts
  <1>3. /\ err \in {"none", "BadType", "invalid_argument"}
        /\ IsNumber(a) /\ IsNumber(b) => err = "none"
    BY ErrorFacts DEF FirstError
  <1>4. op \notin Comparison \cup Bitwise \cup Logical \cup {"..", "^"}
    BY DEF Arithmetic, Comparison, Bitwise, Logical
  <1> HIDE DEF err
  <1>5. CASE err # "none"
    <2>1. r = Fail(err) /\ err \in Failure /\ ~ (IsNumber(a) /\ IsNumber(b))
      BY <1>2, <1>3, <1>5, ErrorFacts
    <2>2. Outcome(r) /\ ~ IsVal(r)
      BY <2>1, MadeFailure
    <2> QED BY <2>1, <2>2 DEF BinaryFits
  <1>6. CASE err = "none" /\ IsInt(a) /\ IsInt(b) /\ op # "/"
    <2>1. a.n \in Ints /\ b.n \in Ints
      BY <1>6, OperandFacts
    <2>2. r \in IntResult(op, a.n, b.n)
      BY <1>2, <1>6
    <2>3. AnInt(r) \/ (op = "%" /\ r = Fail("crash") /\ b.n \in {0, -1})
      BY <1>6, <2>1, <2>2, IntOutcomes
    <2>4. CASE AnInt(r)
      <3>1. Outcome(r) /\ r.type \notin Failure
        BY <2>4, AnIntOutcome
      <3> QED BY <1>4, <1>6, <2>4, <3>1 DEF BinaryFits, AnInt, IsNumber, IsInt
    <2>5. CASE op = "%" /\ r = Fail("crash") /\ b.n \in {0, -1}
      <3>1. "crash" \in Failure
        BY DEF Failure
      <3>2. Outcome(r) /\ ~ IsVal(r)
        BY <2>5, <3>1, MadeFailure
      <3> QED BY <2>5, <3>2 DEF BinaryFits
    <2> QED BY <2>3, <2>4, <2>5
  <1>7. CASE err = "none" /\ ~ (IsInt(a) /\ IsInt(b) /\ op # "/")
    <2>1. r = DoubleResult(op, a, b)
      BY <1>2, <1>7
    <2>2. r.type = "double" /\ Outcome(r) /\ r.type \notin Failure
      BY <2>1, DoubleOutcomes, OperandFacts
    <2> QED BY <1>4, <1>7, <2>2 DEF BinaryFits, IsNumber, IsInt
  <1> QED BY <1>5, <1>6, <1>7

LEMMA BitwiseFits ==
  ASSUME NEW op \in Bitwise, NEW a \in Held, NEW b \in Held, NEW e,
         NEW r \in BinaryResults(op, a, b, e)
  PROVE  BinaryFits(op, a, b, r)
  <1> DEFINE err == FirstError(AsIntError(a), AsIntError(b))
             R == UNION {BitwiseResult(op, i, j) : i \in AsInt(a), j \in AsInt(b)}
  <1>1. r \in Checked(err, R)
    BY DEF BinaryResults, Bitwise, Arithmetic, Comparison
  <1>2. (err = "none" => r \in R) /\ (err # "none" => r = Fail(err))
    BY <1>1, CheckedFacts
  <1>3. /\ err \in {"none", "BadType", "invalid_argument"}
        /\ IsNumber(a) /\ IsNumber(b) => err \in {"none", "BadType"}
        /\ IsNumber(a) /\ IsNumber(b) /\ Integral(a) /\ Integral(b) => err = "none"
    BY ErrorFacts DEF FirstError
  <1>4. op \notin Comparison \cup Arithmetic \cup Logical \cup {"..", "^", "/"}
    BY DEF Arithmetic, Comparison, Bitwise, Logical
  <1> HIDE DEF err
  <1>5. CASE err # "none"
    <2>1. r = Fail(err) /\ err \in Failure
      BY <1>2, <1>3, <1>5, ErrorFacts
    <2>2. Outcome(r) /\ ~ IsVal(r)
      BY <2>1, MadeFailure
    <2> QED BY <1>3, <1>5, <2>1, <2>2 DEF BinaryFits
  <1>6. CASE err = "none"
    <2>1. \A i \in AsInt(a), j \in AsInt(b) : i \in Ints /\ j \in Ints
      BY ToIntIsInt DEF AsInt
    <2>2. \E i \in AsInt(a), j \in AsInt(b) : r \in BitwiseResult(op, i, j)
      BY <1>2, <1>6
    <2>3. AnInt(r)
      BY <2>1, <2>2, BitwiseOutcomes
    <2>4. Outcome(r) /\ r.type \notin Failure
      BY <2>3, AnIntOutcome
    <2> QED BY <1>4, <2>3, <2>4 DEF BinaryFits, AnInt
  <1> QED BY <1>5, <1>6

LEMMA OtherFits ==
  ASSUME NEW op \in Comparison \cup Logical \cup {"^", ".."}, NEW a \in Held, NEW b \in Held, NEW e,
         NEW r \in BinaryResults(op, a, b, e)
  PROVE  BinaryFits(op, a, b, r)
  <1>0. op \notin Arithmetic \cup Bitwise \cup {"/", "%"}
    BY DEF Arithmetic, Comparison, Bitwise, Logical
  <1>1. \A f \in {"BadType", "invalid_argument"} : f \in Failure /\ Outcome(Fail(f)) /\ ~ IsVal(Fail(f))
    BY ErrorFacts, MadeFailure
  <1>2. CASE op \in Comparison
    <2> DEFINE err == FirstError(AsDoubleError(a), AsDoubleError(b))
    <2>1. (err = "none" => r \in {Bool(Holds(op, a, b))}) /\ (err # "none" => r = Fail(err))
      BY <1>2, CheckedFacts DEF BinaryResults, Arithmetic, Comparison, Bitwise
    <2>2. /\ err \in {"none", "BadType", "invalid_argument"}
          /\ IsNumber(a) /\ IsNumber(b) => err = "none"
      BY ErrorFacts DEF FirstError
    <2>3. op \notin Logical \cup {"^", ".."}
      BY <1>2 DEF Comparison, Logical
    <2> HIDE DEF err
    <2>4. CASE err = "none"
      BY <1>0, <2>1, <2>3, <2>4, MadeBool DEF BinaryFits
    <2>5. CASE err # "none"
      BY <1>1, <2>1, <2>2, <2>5 DEF BinaryFits
    <2> QED BY <2>4, <2>5
  <1>3. CASE op = "^"
    <2> DEFINE err == AsDoubleError(b)
    <2>1. (err = "none" => r \in {Power(e, b)}) /\ (err # "none" => r = Fail(err))
      BY <1>3, CheckedFacts DEF BinaryResults, Arithmetic, Comparison, Bitwise
    <2>2. err \in {"none", "BadType", "invalid_argument"} /\ (IsNumber(b) => err = "none")
      BY ErrorFacts
    <2>3. op \notin Comparison \cup Logical \cup {".."}
      BY <1>3 DEF Comparison, Logical
    <2>4. Power(e, b).type = "double"
      BY MadeDouble DEF Power, NaN
    <2>5. \A v : v.type = "double" => Outcome(v) /\ v.type \notin Failure
      BY DEF Outcome, IsVal, ValueType, Failure, IsInt
    <2> HIDE DEF err
    <2>6. CASE err = "none"
      BY <1>0, <2>1, <2>3, <2>4, <2>5, <2>6 DEF BinaryFits
    <2>7. CASE err # "none"
      BY <1>1, <2>1, <2>2, <2>7 DEF BinaryFits
    <2> QED BY <2>6, <2>7
  <1>4. CASE op = ".."
    <2> DEFINE err == FirstError(AsStringError(a), AsStringError(b))
    <2>1. (err = "none" => r \in {SomeText}) /\ (err # "none" => r = Fail(err))
      BY <1>4, CheckedFacts DEF BinaryResults, Arithmetic, Comparison, Bitwise
    <2>2. err \in {"none", "BadType"} /\ (IsNumber(a) /\ IsNumber(b) => err = "none")
      BY ErrorFacts DEF FirstError
    <2>3. op \notin Comparison \cup Logical \cup {"^"}
      BY <1>4 DEF Comparison, Logical
    <2>4. Outcome(SomeText) /\ SomeText.type \notin Failure /\ LuaType(SomeText) = "string"
      BY DEF SomeText, Val, Outcome, IsVal, ValueType, Failure, IsInt, LuaType
    <2> HIDE DEF err
    <2>5. CASE err = "none"
      BY <1>0, <2>1, <2>3, <2>4, <2>5 DEF BinaryFits
    <2>6. CASE err # "none"
      BY <1>1, <2>1, <2>2, <2>6 DEF BinaryFits
    <2> QED BY <2>5, <2>6
  <1>5. CASE op \in Logical
    <2>1. r \in {a, b}
      BY <1>5 DEF BinaryResults, Arithmetic, Comparison, Bitwise, Logical
    <2>2. Outcome(r) /\ r.type \notin Failure
      BY <2>1, OperandFacts
    <2>3. op \notin Comparison \cup {"^", ".."}
      BY <1>5 DEF Comparison, Logical
    <2> QED BY <1>0, <2>1, <2>2, <2>3 DEF BinaryFits
  <1> QED BY <1>2, <1>3, <1>4, <1>5

LEMMA BinaryOutcomes ==
  ASSUME NEW op \in Op \ Unary, NEW a \in Held, NEW b \in Held, NEW e
  PROVE  \A r \in BinaryResults(op, a, b, e) : BinaryFits(op, a, b, r)
  BY ArithmeticFits, BitwiseFits, OtherFits DEF Op

(* What a unary operator makes of its operand.                             *)
UnaryFits(op, a, r) ==
  /\ Outcome(r)
  /\ IsVal(r) =>
       /\ op = "not" => r.type = "bool"
       /\ op \in {"~", "#"} => r.type = "int"
       /\ op = "minus" => (IsInt(r) <=> IsInt(a))
  /\ r.type \in Failure /\ IsNumber(a) =>
       op = "#" \/ (op = "~" /\ r = Fail("BadType") /\ ~ Integral(a))

LEMMA UnaryOutcomes ==
  ASSUME NEW op \in Unary, NEW a \in Held
  PROVE  \A r \in UnaryResults(op, a) : UnaryFits(op, a, r)
  <1> SUFFICES ASSUME NEW r \in UnaryResults(op, a) PROVE UnaryFits(op, a, r)
    OBVIOUS
  <1>1. /\ \A f \in Failure : Outcome(Fail(f)) /\ ~ IsVal(Fail(f))
        /\ {"BadType", "invalid_argument", "bad_variant_access"} \subseteq Failure
    BY MadeFailure DEF Failure
  <1>2. CASE op = "not"
    <2>1. r = Bool(~ AsBool(a))
      BY <1>2 DEF UnaryResults
    <2>2. r.type = "bool" /\ Outcome(r) /\ r.type \notin Failure
      BY <2>1, MadeBool
    <2> QED BY <1>2, <2>2 DEF UnaryFits
  <1>3. CASE op = "minus"
    <2>1. r \in Negated(a)
      BY <1>3 DEF UnaryResults
    <2>2. CASE a.type = "int"
      <3>1. - a.n \in Int
        BY OperandFacts
      <3>2. AnInt(r)
        BY <2>1, <2>2, <3>1, WrappedInt DEF Negated
      <3> QED BY <1>3, <2>2, <3>2, AnIntOutcome DEF UnaryFits, AnInt, IsInt
    <2>3. CASE a.type \in {"double", "numeral"}
      <3>1. r = Double(- a.n, a.d)
        BY <2>1, <2>3 DEF Negated
      <3>2. r.type = "double" /\ Outcome(r) /\ r.type \notin Failure
        BY <3>1, MadeDouble
      <3> QED BY <1>3, <2>3, <3>2 DEF UnaryFits, IsInt
    <2>4. CASE a.type \notin {"int", "double", "numeral"}
      <3>1. r \in {Fail("invalid_argument"), Fail("BadType")}
        BY <2>1, <2>4 DEF Negated
      <3>2. ~ IsNumber(a)
        BY <2>4 DEF IsNumber
      <3> QED BY <1>1, <3>1, <3>2 DEF UnaryFits
    <2> QED BY <2>2, <2>3, <2>4
  <1>4. CASE op = "~"
    <2> DEFINE err == AsIntError(a)
    <2>1. r \in Checked(err, {Int_(-1 - i) : i \in AsInt(a)})
      BY <1>4 DEF UnaryResults
    <2>2. /\ err \in {"none", "BadType", "invalid_argument"}
          /\ IsNumber(a) => err \in {"none", "BadType"} /\ (Integral(a) => err = "none")
      BY ErrorFacts
    <2> HIDE DEF err
    <2>3. CASE err = "none"
      <3>1. \A i \in AsInt(a) : i \in Ints
        BY ToIntIsInt DEF AsInt
      <3>2. \A i \in Ints : -1 - i \in Ints
        BY IntsFacts, Powers
      <3>3. AnInt(r)
        BY <2>1, <2>3, <3>1, <3>2, MadeInt DEF Checked
      <3> QED BY <1>4, <3>3, AnIntOutcome DEF UnaryFits, AnInt
    <2>4. CASE err # "none"
      <3>1. r = Fail(err)
        BY <2>1, <2>4 DEF Checked
      <3> QED BY <1>1, <1>4, <2>2, <2>4, <3>1 DEF UnaryFits
    <2> QED BY <2>3, <2>4
  <1>5. CASE op = "#"
    <2>1. (\E i \in Ints : r = Int_(i)) \/ r = Fail("bad_variant_access")
      BY <1>5 DEF UnaryResults
    <2>2. AnInt(r) \/ r = Fail("bad_variant_access")
      BY <2>1, MadeInt
    <2> QED BY <1>1, <1>5, <2>2, AnIntOutcome DEF UnaryFits, AnInt
  <1> QED BY <1>2, <1>3, <1>4, <1>5 DEF Unary

-----------------------------------------------------------------------------
(* The evaluation.                                                         *)
Going == {"convert", "right", "apply"}

(* The cell, the operands and the places they are read at.                 *)
CellInv ==
  /\ IsExpression(exp)
  /\ at \in {"left", "convert", "right", "apply", "done", "ensured"}
  /\ cell \in Operand /\ leftV \in Operand \cup {Nothing} /\ early \in Operand \cup {Nothing}
  /\ rightV \in Operand \cup {Nothing}
  /\ at = "left" => cell = exp.left
  /\ at \in Going => InRange /\ cell \in Held /\ leftV \in Held \cup {Nothing}

(* The left operand is a copy unless it is handed on by its address.       *)
CopyInv ==
  /\ at \in Going /\ exp.src \in Copied => leftV = exp.left
  /\ at = "convert" => exp.op \in {"^", "and"}
  /\ at = "right" => exp.op \notin Unary
  /\ at \in {"right", "apply"} /\ exp.op \in {"^", "and"} /\ exp.src \in Copied =>
       early = exp.left /\ (exp.op = "^" => AsDoubleError(exp.left) = "none")
  /\ at = "apply" /\ exp.op \notin Unary => rightV = exp.right

ResultInv ==
  /\ ~ Done => result = Nothing
  /\ Done => Outcome(result)
  /\ Done /\ ~ InRange => result = Fail("out_of_range")
  /\ OperandsAreSnapshots

EnsuredInv ==
  /\ at # "ensured" => ensured.verdict = "none"
  /\ EnsuredIsEqual

ExpInv == CellInv /\ CopyInv /\ ResultInv /\ EnsuredInv

LEMMA ExpressionFacts ==
  ASSUME IsExpression(exp)
  PROVE  /\ exp.op \in Op /\ exp.src \in {"literal", "name", "field", "target"}
         /\ exp.left \in Operand /\ exp.right \in Held /\ exp.store \in Held \cup {Nothing}
         /\ InRange => exp.left \in Held
  BY DEF IsExpression, InRange, IsInt, Held

LEMMA ExpInit == Init => ExpInv
  <1> SUFFICES ASSUME Init PROVE ExpInv
    OBVIOUS
  <1>1. IsExpression(exp)
    BY ExpressionsAssumption DEF Init
  <1>2. exp.left \in Operand
    BY <1>1, ExpressionFacts
  <1>3. CellInv
    BY <1>1, <1>2 DEF Init, CellInv, Going
  <1>4. CopyInv
    BY DEF Init, CopyInv, Going
  <1>5. ResultInv
    BY DEF Init, ResultInv, Done, OperandsAreSnapshots
  <1>6. EnsuredInv
    BY DEF Init, EnsuredInv, EnsuredIsEqual
  <1> QED BY <1>3, <1>4, <1>5, <1>6 DEF ExpInv

LEMMA LeftSteps ==
  ASSUME ExpInv, BadLiteral \/ VisitLeft
  PROVE  ExpInv'
  <1>1. /\ at = "left" /\ cell = exp.left /\ IsExpression(exp) /\ cell \in Operand
        /\ exp' = exp /\ cell' = cell /\ early' = early /\ rightV' = rightV /\ ensured' = ensured
    BY DEF ExpInv, CellInv, BadLiteral, VisitLeft
  <1>2. /\ early \in Operand \cup {Nothing} /\ rightV \in Operand \cup {Nothing}
        /\ leftV \in Operand \cup {Nothing} /\ result = Nothing /\ ensured.verdict = "none"
    BY <1>1 DEF ExpInv, CellInv, ResultInv, EnsuredInv, Done
  <1>3. Nothing \notin Operand /\ Held \subseteq Operand
    BY OperandFacts
  <1>4. CASE BadLiteral
    <2>1. /\ at' = "done" /\ leftV' = leftV /\ result' = Fail("out_of_range") /\ ~ InRange
      BY <1>4 DEF BadLiteral, InRange, IsInt
    <2>2. ~ InRange'
      BY <1>1, <2>1 DEF InRange, IsInt
    <2>3. Outcome(result')
      BY <2>1, MadeFailure DEF Failure
    <2>4. CellInv'
      BY <1>1, <1>2, <2>1 DEF CellInv, Going, IsExpression
    <2>5. CopyInv'
      BY <2>1 DEF CopyInv, Going
    <2>6. ResultInv'
      BY <2>1, <2>2, <2>3 DEF ResultInv, Done, OperandsAreSnapshots, Outcome, IsVal, IsInt
    <2>7. EnsuredInv'
      BY <1>1, <1>2, <2>1 DEF EnsuredInv, EnsuredIsEqual
    <2> QED BY <2>4, <2>5, <2>6, <2>7 DEF ExpInv
  <1>5. CASE VisitLeft
    <2>1. /\ leftV' = (IF exp.src = "target" \/ (exp.src = "field" /\ cell # Nil) THEN Nothing ELSE cell)
          /\ at' = (IF exp.op \in Unary THEN "apply" ELSE IF ConvertsEarly THEN "convert" ELSE "right")
          /\ result' = result /\ InRange
      BY <1>5 DEF VisitLeft, LeftVar, InRange
    <2>2. exp.left \in Held /\ InRange'
      BY <1>1, <2>1, ExpressionFacts DEF InRange, IsInt
    <2>3. CellInv'
      BY <1>1, <1>2, <1>3, <2>1, <2>2 DEF CellInv, Going, IsExpression
    <2>4. CopyInv'
      <3>1. exp.op \in {"^", "and"} => exp.op \notin Unary
        BY DEF Unary
      <3> QED BY <1>1, <2>1, <3>1 DEF CopyInv, Going, ConvertsEarly, Copied
    <2>5. ResultInv'
      BY <1>2, <2>1 DEF ResultInv, Done, OperandsAreSnapshots
    <2>6. EnsuredInv'
      BY <1>1, <1>2, <2>1 DEF EnsuredInv, EnsuredIsEqual
    <2> QED BY <2>3, <2>4, <2>5, <2>6 DEF ExpInv
  <1> QED BY <1>4, <1>5

(* What the operand is read as, before the right operand is visited and    *)
(* after it.                                                               *)
LEMMA LeftOperand ==
  ASSUME ExpInv, at \in Going
  PROVE  /\ Left \in Held /\ (exp.src \in Copied => Left = exp.left)
         /\ IsExpression(exp) /\ InRange /\ exp.left \in Held /\ exp.right \in Held
         /\ result = Nothing /\ ensured.verdict = "none"
  <1>1. /\ IsExpression(exp) /\ InRange /\ cell \in Held /\ leftV \in Held \cup {Nothing}
        /\ exp.src \in Copied => leftV = exp.left
    BY DEF ExpInv, CellInv, CopyInv
  <1>2. exp.left \in Held /\ exp.right \in Held
    BY <1>1, ExpressionFacts
  <1>3. Nothing \notin Held
    BY OperandFacts
  <1>4. ~ Done /\ at # "ensured"
    BY DEF Going, Done
  <1>5. result = Nothing /\ ensured.verdict = "none"
    BY <1>4 DEF ExpInv, ResultInv, EnsuredInv
  <1> QED BY <1>1, <1>2, <1>3, <1>5 DEF Left

LEMMA ConvertStep ==
  ASSUME ExpInv, ConvertLeft
  PROVE  ExpInv'
  <1>1. /\ at = "convert" /\ at \in Going /\ exp' = exp /\ cell' = cell /\ leftV' = leftV
        /\ rightV' = rightV /\ ensured' = ensured
    BY DEF ConvertLeft, Going
  <1>2. /\ Left \in Held /\ (exp.src \in Copied => Left = exp.left)
        /\ IsExpression(exp) /\ InRange /\ exp.left \in Held /\ exp.right \in Held
        /\ result = Nothing /\ ensured.verdict = "none"
    BY <1>1, LeftOperand
  <1>3. /\ cell \in Operand /\ leftV \in Operand \cup {Nothing} /\ early \in Operand \cup {Nothing}
        /\ rightV \in Operand \cup {Nothing} /\ cell \in Held /\ leftV \in Held \cup {Nothing}
        /\ exp.op \in {"^", "and"} /\ exp.op \notin Unary
        /\ exp.src \in Copied => leftV = exp.left
    BY <1>1 DEF ExpInv, CellInv, CopyInv, Unary
  <1>4. InRange'
    BY <1>1, <1>2 DEF InRange, IsInt
  <1>5. IsExpression(exp')
    BY <1>1, <1>2
  <1>6. Held \subseteq Operand
    BY OperandFacts
  <1>7. CASE exp.op = "^" /\ AsDoubleError(Left) # "none"
    <2> DEFINE f == AsDoubleError(Left)
    <2>1. result' = Fail(f) /\ at' = "done" /\ early' = early
      BY <1>7 DEF ConvertLeft
    <2>2. Outcome(result')
      BY <1>7, <2>1, ErrorFacts, MadeFailure
    <2>3. CellInv'
      BY <1>1, <1>3, <1>5, <2>1 DEF CellInv, Going
    <2>4. CopyInv'
      BY <2>1 DEF CopyInv, Going
    <2>5. OperandsAreSnapshots'
      <3>1. exp.src \in Copied => result' = Fail(AsDoubleError(exp.left)) /\ AsDoubleError(exp.left) # "none"
        BY <1>2, <1>7, <2>1
      <3>2. SUFFICES ASSUME exp.src \in Copied
                     PROVE  result' \in {Fail(AsDoubleError(exp.left))} /\ AsDoubleError(exp.left) # "none"
        BY <1>1, <1>3, <1>7 DEF OperandsAreSnapshots, AsDoubleError
      <3> QED BY <3>1, <3>2
    <2>6. ResultInv'
      BY <1>4, <2>1, <2>2, <2>5 DEF ResultInv, Done, Outcome, IsVal, IsInt
    <2>7. EnsuredInv'
      BY <1>1, <1>2, <2>1 DEF EnsuredInv, EnsuredIsEqual
    <2> QED BY <2>3, <2>4, <2>6, <2>7 DEF ExpInv
  <1>8. CASE ~ (exp.op = "^" /\ AsDoubleError(Left) # "none")
    <2>1. early' = Left /\ at' = "right" /\ result' = result
      BY <1>8 DEF ConvertLeft
    <2>2. CellInv'
      BY <1>1, <1>2, <1>3, <1>4, <1>5, <1>6, <2>1 DEF CellInv, Going
    <2>3. CopyInv'
      <3>1. exp.src \in Copied => early' = exp.left /\ (exp.op = "^" => AsDoubleError(exp.left) = "none")
        BY <1>2, <1>8, <2>1
      <3> QED BY <1>1, <1>3, <2>1, <3>1 DEF CopyInv, Going, AsDoubleError
    <2>4. ResultInv'
      BY <1>2, <2>1 DEF ResultInv, Done, OperandsAreSnapshots
    <2>5. EnsuredInv'
      BY <1>1, <1>2, <2>1 DEF EnsuredInv, EnsuredIsEqual
    <2> QED BY <2>2, <2>3, <2>4, <2>5 DEF ExpInv
  <1> QED BY <1>7, <1>8

LEMMA RightStep ==
  ASSUME ExpInv, VisitRight
  PROVE  ExpInv'
  <1>1. /\ at = "right" /\ at \in Going /\ at' = "apply" /\ exp' = exp /\ rightV' = exp.right
        /\ cell' = (IF exp.store = Nothing THEN cell ELSE exp.store)
        /\ leftV' = leftV /\ early' = early /\ result' = result /\ ensured' = ensured
    BY DEF VisitRight, Going
  <1>2. /\ IsExpression(exp) /\ InRange /\ exp.right \in Held
        /\ result = Nothing /\ ensured.verdict = "none"
    BY <1>1, LeftOperand
  <1>3. /\ leftV \in Operand \cup {Nothing} /\ early \in Operand \cup {Nothing}
        /\ cell \in Held /\ leftV \in Held \cup {Nothing} /\ exp.op \notin Unary
    BY <1>1 DEF ExpInv, CellInv, CopyInv
  <1>4. cell' \in Held /\ Held \subseteq Operand
    BY <1>1, <1>2, <1>3, ExpressionFacts, OperandFacts
  <1>5. InRange' /\ IsExpression(exp')
    BY <1>1, <1>2 DEF InRange, IsInt
  <1>6. CellInv'
    BY <1>1, <1>2, <1>3, <1>4, <1>5 DEF CellInv, Going
  <1>7. CopyInv'
    <2>1. /\ exp.src \in Copied => leftV = exp.left
          /\ exp.op \in {"^", "and"} /\ exp.src \in Copied =>
               early = exp.left /\ (exp.op = "^" => AsDoubleError(exp.left) = "none")
      BY <1>1 DEF ExpInv, CopyInv
    <2> QED BY <1>1, <2>1 DEF CopyInv, Going, AsDoubleError
  <1>8. ResultInv'
    BY <1>1, <1>2 DEF ResultInv, Done, OperandsAreSnapshots
  <1>9. EnsuredInv'
    BY <1>1, <1>2 DEF EnsuredInv, EnsuredIsEqual
  <1> QED BY <1>6, <1>7, <1>8, <1>9 DEF ExpInv

(* Only these two use the left operand as it was converted.                *)
LEMMA EarlyOnlyWhereConverted ==
  ASSUME NEW op \in Op \ Unary, op \notin {"^", "and"}, NEW a, NEW b, NEW e, NEW f
  PROVE  BinaryResults(op, a, b, e) = BinaryResults(op, a, b, f)
  <1>1. op \in Arithmetic \cup Comparison \cup Bitwise \cup {"..", "or"}
    BY DEF Op, Logical
  <1>2. CASE op \in Arithmetic
    BY <1>2 DEF BinaryResults, Arithmetic, Comparison, Bitwise
  <1>3. CASE op \in Comparison
    BY <1>3 DEF BinaryResults, Arithmetic, Comparison, Bitwise
  <1>4. CASE op \in Bitwise
    BY <1>4 DEF BinaryResults, Arithmetic, Comparison, Bitwise
  <1>5. CASE op \in {"..", "or"}
    BY <1>5 DEF BinaryResults, Arithmetic, Comparison, Bitwise
  <1> QED BY <1>1, <1>2, <1>3, <1>4, <1>5

LEMMA ApplyStep ==
  ASSUME ExpInv, Apply
  PROVE  ExpInv'
  <1>1. /\ at = "apply" /\ at \in Going /\ at' = "done" /\ exp' = exp /\ cell' = cell
        /\ leftV' = leftV /\ early' = early /\ rightV' = rightV /\ ensured' = ensured
    BY DEF Apply, Going
  <1>2. /\ Left \in Held /\ (exp.src \in Copied => Left = exp.left)
        /\ IsExpression(exp) /\ InRange /\ exp.right \in Held /\ ensured.verdict = "none"
    BY <1>1, LeftOperand
  <1>3. exp.op \in Op
    BY <1>2, ExpressionFacts
  <1>4. /\ exp.op \in Unary => result' \in UnaryResults(exp.op, Left)
        /\ exp.op \notin Unary => result' \in BinaryResults(exp.op, Left, exp.right, early)
    BY <1>1 DEF Apply, ExpInv, CopyInv
  <1>5. Outcome(result')
    <2>1. CASE exp.op \in Unary
      BY <1>2, <1>4, <2>1, UnaryOutcomes DEF UnaryFits
    <2>2. CASE exp.op \notin Unary
      BY <1>2, <1>3, <1>4, <2>2, BinaryOutcomes DEF BinaryFits
    <2> QED BY <2>1, <2>2
  <1>6. /\ cell \in Operand /\ leftV \in Operand \cup {Nothing} /\ early \in Operand \cup {Nothing}
        /\ rightV \in Operand \cup {Nothing}
    BY DEF ExpInv, CellInv
  <1>7. InRange' /\ IsExpression(exp')
    BY <1>1, <1>2 DEF InRange, IsInt
  <1>8. CellInv'
    BY <1>1, <1>6, <1>7 DEF CellInv, Going
  <1>9. CopyInv'
    BY <1>1 DEF CopyInv, Going
  <1>10. exp.src \in Copied =>
           result' \in IF exp.op \in Unary THEN UnaryResults(exp.op, exp.left)
                       ELSE IF exp.op = "^" /\ AsDoubleError(exp.left) # "none"
                       THEN {Fail(AsDoubleError(exp.left))}
                       ELSE BinaryResults(exp.op, exp.left, exp.right, exp.left)
    <2> SUFFICES ASSUME exp.src \in Copied PROVE
           result' \in IF exp.op \in Unary THEN UnaryResults(exp.op, exp.left)
                       ELSE IF exp.op = "^" /\ AsDoubleError(exp.left) # "none"
                       THEN {Fail(AsDoubleError(exp.left))}
                       ELSE BinaryResults(exp.op, exp.left, exp.right, exp.left)
      OBVIOUS
    <2>1. CASE exp.op \in Unary
      BY <1>2, <1>4, <2>1
    <2>2. CASE exp.op \in {"^", "and"} /\ exp.op \notin Unary
      <3>1. early = exp.left /\ (exp.op = "^" => AsDoubleError(exp.left) = "none")
        BY <1>1, <2>2 DEF ExpInv, CopyInv
      <3> QED BY <1>2, <1>4, <2>2, <3>1
    <2>3. CASE exp.op \notin {"^", "and"} /\ exp.op \notin Unary
      <3>1. BinaryResults(exp.op, exp.left, exp.right, early)
              = BinaryResults(exp.op, exp.left, exp.right, exp.left)
        BY <1>3, <2>3, EarlyOnlyWhereConverted
      <3> QED BY <1>2, <1>4, <2>3, <3>1
    <2> QED BY <2>1, <2>2, <2>3
  <1>11. OperandsAreSnapshots'
    BY <1>1, <1>10 DEF OperandsAreSnapshots
  <1>12. ResultInv'
    BY <1>1, <1>5, <1>7, <1>11 DEF ResultInv, Done, Outcome, IsVal, IsInt
  <1>13. EnsuredInv'
    BY <1>1, <1>2 DEF EnsuredInv, EnsuredIsEqual
  <1> QED BY <1>8, <1>9, <1>12, <1>13 DEF ExpInv

(* What an accepted number is to the one it was compared with.             *)
Accepted(r, v) ==
  \/ SameNumber(r, v)
  \/ r.type = "double" /\ v.type = "double" /\ (Infinite(r) \/ Within(r, v))

LEMMA EnsureStep ==
  ASSUME ExpInv, EnsureValueType
  PROVE  ExpInv'
  <1>1. /\ at = "done" /\ at' = "ensured" /\ exp' = exp /\ cell' = cell /\ leftV' = leftV
        /\ early' = early /\ rightV' = rightV /\ result' = result
    BY DEF EnsureValueType
  <1>2. EnsuredIsEqual'
    <2> SUFFICES ASSUME ensured'.verdict = "ok"
                 PROVE  /\ LuaType(result) = ensured'.type
                        /\ IsNumber(result) /\ IsNumber(ensured'.expected)
                             => Accepted(result, ensured'.expected)
      BY <1>1 DEF EnsuredIsEqual, Accepted
    <2>1. PICK v \in Expected, t \in {"int", "double", "string", "table", "bool", "nil"} :
            ensured' = [expected |-> v, type |-> t, verdict |->
              IF v.type \notin {"table", "function"} /\ ValueEqualsError(result, v) # "none" THEN "BadType"
              ELSE IF v.type \notin {"table", "function"} /\ ~ ValueEquals(result, v) THEN "ValueEqualityExpected"
              ELSE IF t # LuaType(result) THEN "TypeEqualityExpected"
              ELSE "ok"]
      BY DEF EnsureValueType
    <2>2. /\ ensured'.expected = v /\ ensured'.type = t /\ t = LuaType(result)
          /\ v.type \notin {"table", "function"} => ValueEquals(result, v)
      BY <2>1
    <2>3. v.d # 0
      BY ExpectedAssumption DEF Operand
    <2>4. IsNumber(result) /\ IsNumber(v) => Accepted(result, v)
      BY <2>2, <2>3 DEF IsNumber, ValueEquals, SameDouble, Accepted
    <2> QED BY <2>2, <2>4
  <1>3. CellInv' /\ CopyInv'
    BY <1>1 DEF ExpInv, CellInv, CopyInv, Going
  <1>4. ResultInv'
    <2>1. (Done' <=> Done) /\ Done /\ (InRange' <=> InRange)
      BY <1>1 DEF Done, InRange, IsInt
    <2>2. OperandsAreSnapshots'
      BY <1>1, <2>1 DEF ExpInv, ResultInv, OperandsAreSnapshots
    <2> QED BY <1>1, <2>1, <2>2 DEF ExpInv, ResultInv, Outcome, IsVal, IsInt
  <1> QED BY <1>1, <1>2, <1>3, <1>4 DEF ExpInv, EnsuredInv

LEMMA ExpNext == ExpInv /\ [Next]_vars => ExpInv'
  <1> SUFFICES ASSUME ExpInv, [Next]_vars PROVE ExpInv'
    OBVIOUS
  <1>1. CASE Ended \/ UNCHANGED vars
    <2>1. /\ exp' = exp /\ at' = at /\ cell' = cell /\ leftV' = leftV /\ early' = early
          /\ rightV' = rightV /\ result' = result /\ ensured' = ensured
      BY <1>1 DEF Ended, vars
    <2>2. (Done' <=> Done) /\ (InRange' <=> InRange)
      BY <2>1 DEF Done, InRange, IsInt
    <2>3. CellInv'
      BY <2>1, <2>2 DEF ExpInv, CellInv
    <2>4. CopyInv'
      BY <2>1 DEF ExpInv, CopyInv
    <2>5. OperandsAreSnapshots'
      BY <2>1, <2>2 DEF ExpInv, ResultInv, OperandsAreSnapshots
    <2>6. ResultInv'
      BY <2>1, <2>2, <2>5 DEF ExpInv, ResultInv, Outcome, IsVal, IsInt
    <2>7. EnsuredInv'
      BY <2>1 DEF ExpInv, EnsuredInv, EnsuredIsEqual, LuaType, IsNumber, SameNumber, Infinite, Within
    <2> QED BY <2>3, <2>4, <2>6, <2>7 DEF ExpInv
  <1> QED BY <1>1, LeftSteps, ConvertStep, RightStep, ApplyStep, EnsureStep DEF Next

LEMMA ExpAlways == Spec => []ExpInv
  BY ExpInit, ExpNext, PTL DEF Spec

-----------------------------------------------------------------------------
(* The left operand of every operator of visitExp counts with the value it *)
(* had when it was visited, whatever the right operand assigns, unless it  *)
(* is a table field or stands in a subscript of a left side: visitVar_     *)
(* copies names and hands on fields by address, and both by address in the *)
(* mode VARLIST.                                                           *)
THEOREM LeftOperandsAreCopies == Spec => []OperandsAreSnapshots
  BY ExpAlways, PTL DEF ExpInv, ResultInv

(* If ensure_value_type accepts a number the result is that number, up to  *)
(* the relative error Value::operator== allows between doubles, or it is   *)
(* an infinity compared with a double.  What it accepts has the type it    *)
(* was told.                                                               *)
THEOREM AcceptedMeansEqual == Spec => []EnsuredIsEqual
  BY ExpAlways, PTL DEF ExpInv, EnsuredInv

(* The outcome of an operator on operands that are not fields.             *)
LEMMA OutcomeOfCopies ==
  ASSUME ExpInv, Done, exp.src \in Copied
  PROVE  /\ ~ InRange => result = Fail("out_of_range")
         /\ InRange => /\ exp.left \in Held /\ exp.right \in Held /\ exp.op \in Op
                       /\ exp.op \in Unary => UnaryFits(exp.op, exp.left, result)
                       /\ exp.op \notin Unary =>
                            \/ BinaryFits(exp.op, exp.left, exp.right, result)
                            \/ /\ exp.op = "^" /\ AsDoubleError(exp.left) # "none"
                               /\ result = Fail(AsDoubleError(exp.left))
  <1>1. IsExpression(exp) /\ OperandsAreSnapshots /\ (~ InRange => result = Fail("out_of_range"))
    BY DEF ExpInv, CellInv, ResultInv
  <1> SUFFICES ASSUME InRange
               PROVE  /\ exp.left \in Held /\ exp.right \in Held /\ exp.op \in Op
                      /\ exp.op \in Unary => UnaryFits(exp.op, exp.left, result)
                      /\ exp.op \notin Unary =>
                            \/ BinaryFits(exp.op, exp.left, exp.right, result)
                            \/ /\ exp.op = "^" /\ AsDoubleError(exp.left) # "none"
                               /\ result = Fail(AsDoubleError(exp.left))
    BY <1>1
  <1>2. exp.left \in Held /\ exp.right \in Held /\ exp.op \in Op
    BY <1>1, ExpressionFacts
  <1>3. CASE exp.op \in Unary
    <2>1. result \in UnaryResults(exp.op, exp.left)
      BY <1>1, <1>3 DEF OperandsAreSnapshots
    <2> QED BY <1>2, <1>3, <2>1, UnaryOutcomes
  <1>4. CASE exp.op \notin Unary /\ ~ (exp.op = "^" /\ AsDoubleError(exp.left) # "none")
    <2>1. result \in BinaryResults(exp.op, exp.left, exp.right, exp.left)
      BY <1>1, <1>4 DEF OperandsAreSnapshots
    <2> QED BY <1>2, <1>4, <2>1, BinaryOutcomes
  <1>5. CASE exp.op \notin Unary /\ exp.op = "^" /\ AsDoubleError(exp.left) # "none"
    <2>1. result \in {Fail(AsDoubleError(exp.left))}
      BY <1>1, <1>5 DEF OperandsAreSnapshots
    <2> QED BY <1>2, <1>5, <2>1
  <1> QED BY <1>3, <1>4, <1>5

(* Numbers never make an operator of visitExp fail, except a fraction      *)
(* where as_int_weak needs an int, the two remainders idiv traps on, and a *)
(* length.                                                                 *)
THEOREM OperatorsTakeNumbers == Spec => []NumbersDoNotFail
  <1>1. ExpInv => NumbersDoNotFail
    <2> SUFFICES ASSUME ExpInv, Done, result.type \in Failure, exp.src \in Copied, InRange,
                        IsNumber(exp.left), exp.op \in Unary \/ IsNumber(exp.right)
                 PROVE  \/ exp.op \in Bitwise \cup {"~"} /\ result = Fail("BadType")
                             /\ ~ (Integral(exp.left) /\ (exp.op \in Unary \/ Integral(exp.right)))
                        \/ exp.op = "%" /\ result = Fail("crash") /\ exp.right.n \in {0, -1}
                        \/ exp.op = "#"
      BY DEF NumbersDoNotFail
    <2>1. CASE exp.op \in Unary
      BY <2>1, OutcomeOfCopies DEF UnaryFits
    <2>2. CASE exp.op \notin Unary
      <3>1. AsDoubleError(exp.left) = "none"
        BY ErrorFacts
      <3>2. BinaryFits(exp.op, exp.left, exp.right, result)
        BY <2>2, <3>1, OutcomeOfCopies
      <3> QED BY <2>2, <3>2 DEF BinaryFits
    <2> QED BY <2>1, <2>2
  <1> QED BY <1>1, ExpAlways, PTL

(* Results have the type the operator of visitExp gives them: ints stay    *)
(* ints under + - * % // and unary minus, and fit their width; everything  *)
(* else that is arithmetic becomes a double.                               *)
THEOREM OperatorsKeepTypes == Spec => []ResultTypes
  <1>1. ExpInv => ResultTypes
    <2> SUFFICES ASSUME ExpInv PROVE ResultTypes
      OBVIOUS
    <2>1. TypeOK
      <3>1. IsVal(cell) /\ \A v \in {leftV, early, rightV} : v = Nothing \/ IsVal(v)
        BY OperandFacts DEF ExpInv, CellInv
      <3>2. Done => (IsVal(result) \/ result.type \in Failure) /\ (IsInt(result) => result.n \in Ints)
        BY DEF ExpInv, ResultInv, Outcome
      <3>3. ~ Done => ~ IsInt(result)
        BY DEF ExpInv, ResultInv, Nothing, Val, IsInt
      <3> QED BY <3>1, <3>2, <3>3 DEF ExpInv, CellInv, TypeOK, Done
    <2>2. ASSUME Done, IsVal(result), exp.src \in Copied
          PROVE  CASE exp.op \in Comparison \cup {"not"} -> result.type = "bool"
                   [] exp.op \in Bitwise \cup {"~", "#"} -> result.type = "int"
                   [] exp.op = ".." -> LuaType(result) = "string"
                   [] exp.op \in {"/", "^"} -> result.type = "double"
                   [] exp.op = "minus" -> IsInt(result) <=> IsInt(exp.left)
                   [] exp.op \in Arithmetic \ {"/"} ->
                        /\ IsNumber(result)
                        /\ IsInt(result) <=> IsInt(exp.left) /\ IsInt(exp.right)
                   [] exp.op \in Logical -> result \in {exp.left, exp.right}
      <3>1. InRange
        BY <2>2, OutcomeOfCopies, MadeFailure DEF Failure
      <3>2. exp.op \in Op
        BY <2>2, <3>1, OutcomeOfCopies
      <3>3. CASE exp.op \in Unary
        <4>1. UnaryFits(exp.op, exp.left, result)
          BY <2>2, <3>1, <3>3, OutcomeOfCopies
        <4> QED BY <2>2, <3>3, <4>1 DEF UnaryFits, Unary, Comparison, Bitwise, Arithmetic, Logical
      <3>4. CASE exp.op \notin Unary
        <4>1. \A f : AsDoubleError(f) # "none" => ~ IsVal(Fail(AsDoubleError(f)))
          BY ErrorFacts, MadeFailure
        <4>2. BinaryFits(exp.op, exp.left, exp.right, result)
          BY <2>2, <3>1, <3>4, <4>1, OutcomeOfCopies
        <4> QED BY <2>2, <3>2, <3>4, <4>2 DEF BinaryFits, Op, Unary, Comparison, Bitwise, Arithmetic, Logical
      <3> QED BY <3>3, <3>4
    <2> QED BY <2>1, <2>2 DEF ResultTypes
  <1> QED BY <1>1, ExpAlways, PTL

-----------------------------------------------------------------------------
(* Division of ints.                                                       *)
LEMMA FloorOfInts ==
  ASSUME NEW a \in Int, NEW b \in Int, b # 0
  PROVE  LET q == Floor(Divide(Int_(a), Int_(b))) IN
         q.d = 1 /\ q.n = IF b < 0 THEN (-a) \div (-b) ELSE a \div b
  <1>1. Int_(a).n = a /\ Int_(a).d = 1 /\ Int_(b).n = b /\ Int_(b).d = 1
    BY DEF Int_, Val
  <1>2. Divide(Int_(a), Int_(b)) = IF b < 0 THEN Val("double", -a, -b) ELSE Val("double", a, b)
    <2>1. a * 1 = a /\ 1 * b = b
      OBVIOUS
    <2> QED BY <1>1, <2>1 DEF Divide, Double
  <1> DEFINE v == Divide(Int_(a), Int_(b))
             n == IF b < 0 THEN -a ELSE a
             d == IF b < 0 THEN -b ELSE b
  <1>3. v.n = n /\ v.d = d /\ d # 0
    BY <1>2 DEF Val
  <1> HIDE DEF v, n, d
  <1>4. Floor(v) = Double(n \div d, 1)
    BY <1>3 DEF Floor
  <1>5. Floor(v).n = n \div d /\ Floor(v).d = 1
    BY <1>4, MadeDouble
  <1> QED BY <1>5 DEF v, n, d

LEMMA QuotientFacts ==
  ASSUME NEW a \in Ints, NEW b \in Ints, b # 0, Sign(a) = Sign(b), Abs(a) \div Abs(b) \in Ints,
         NEW r \in IntQuotient(a, b)
  PROVE  r.n * b + IntRemainder(a, b) = a
  <1> DEFINE x == Abs(a)
             m == Abs(b)
             p == x % m
             q == x \div m
  <1>1. a \in Int /\ b \in Int
    BY IntsFacts
  <1>2. (a < 0 /\ b < 0 /\ x = -a /\ m = -b) \/ (a >= 0 /\ b > 0 /\ x = a /\ m = b)
    BY <1>1 DEF Sign, Abs
  <1>3. r.n = q
    <2> DEFINE f == Floor(Divide(Int_(a), Int_(b)))
    <2>1. f.d = 1 /\ f.n = IF b < 0 THEN (-a) \div (-b) ELSE a \div b
      BY <1>1, FloorOfInts
    <2>2. f.n = q
      BY <1>1, <1>2, <2>1
    <2>3. ToInt(f.n, f.d) = {q}
      BY <2>1, <2>2, ToIntIsInt
    <2>4. \E i \in ToInt(f.n, f.d) : r = Int_(i)
      BY DEF IntQuotient
    <2> QED BY <2>3, <2>4 DEF Int_, Val
  <1>4. x \in Nat /\ m \in Nat \ {0}
    BY <1>1, <1>2
  <1>5. IntRemainder(a, b) = Sign(a) * p
    BY DEF IntRemainder
  <1> HIDE DEF x, m
  <1>6. p \in Int /\ q \in Int /\ x = q * m + p
    BY <1>4, ModRange, DivMod
  <1> HIDE DEF p, q
  <1>7. CASE a < 0
    <2>1. b = -m /\ a = -x /\ m \in Int /\ x \in Int
      BY <1>1, <1>2, <1>4, <1>7
    <2>2. IntRemainder(a, b) = -p
      BY <1>5, <1>6, <1>7 DEF Sign
    <2>3. q * b = -(q * m) /\ q * m \in Int
      BY <1>6, <2>1
    <2> DEFINE y == q * m
    <2> HIDE DEF y
    <2>4. q * b = -y /\ y \in Int /\ x = y + p
      BY <1>6, <2>3 DEF y
    <2> QED BY <1>3, <1>6, <2>1, <2>2, <2>4
  <1>8. CASE ~ (a < 0)
    <2>1. b = m /\ a = x
      BY <1>1, <1>2, <1>8
    <2>2. IntRemainder(a, b) = p
      BY <1>5, <1>6, <1>8 DEF Sign
    <2> QED BY <1>3, <1>6, <2>1, <2>2
  <1> QED BY <1>7, <1>8

(* What two ints give.                                                     *)
LEMMA IntsGiveInts ==
  ASSUME ExpInv, Done, IsInt(result), IsInt(exp.left), IsInt(exp.right), exp.src \in Copied,
         exp.op \in Arithmetic \ {"/"}
  PROVE  /\ exp.left.n \in Ints /\ exp.right.n \in Ints
         /\ result \in IntResult(exp.op, exp.left.n, exp.right.n)
  <1>1. exp.op \notin Unary /\ exp.op # "^"
    BY DEF Arithmetic, Unary
  <1>2. InRange
    BY OutcomeOfCopies, MadeFailure DEF Failure
  <1>3. exp.left \in Held /\ exp.right \in Held
    BY <1>2, OutcomeOfCopies
  <1>4. result \in BinaryResults(exp.op, exp.left, exp.right, exp.left)
    BY <1>1, <1>2 DEF ExpInv, ResultInv, OperandsAreSnapshots
  <1>5. AsDoubleError(exp.left) = "none" /\ AsDoubleError(exp.right) = "none"
    BY ErrorFacts DEF IsInt, IsNumber
  <1>6. BinaryResults(exp.op, exp.left, exp.right, exp.left) = IntResult(exp.op, exp.left.n, exp.right.n)
    BY <1>5 DEF BinaryResults, Arithmetic, Comparison, Bitwise, ArithmeticResults, Checked, FirstError
  <1> QED BY <1>3, <1>4, <1>6, OperandFacts

(* // and % of two ints, as visitExp computes them, fit together wherever  *)
(* both round the same way.                                                *)
THEOREM DivisionFitsTogether == Spec => []QuotientFitsRemainder
  <1>1. ExpInv => QuotientFitsRemainder
    <2> SUFFICES ASSUME ExpInv, Done, IsInt(result), IsInt(exp.left), IsInt(exp.right), exp.src \in Copied
                 PROVE  /\ exp.op = "%" => /\ Abs(result.n) < Abs(exp.right.n)
                                           /\ (exp.left.n - result.n) % Abs(exp.right.n) = 0
                        /\ /\ exp.op = "//" /\ exp.right.n # 0 /\ Sign(exp.left.n) = Sign(exp.right.n)
                           /\ Abs(exp.left.n) \div Abs(exp.right.n) \in Ints
                           => result.n * exp.right.n + IntRemainder(exp.left.n, exp.right.n) = exp.left.n
      BY DEF QuotientFitsRemainder
    <2> DEFINE a == exp.left.n
               b == exp.right.n
    <2>1. exp.op \in {"%", "//"} => a \in Ints /\ b \in Ints /\ result \in IntResult(exp.op, a, b)
      BY IntsGiveInts DEF Arithmetic
    <2> HIDE DEF a, b
    <2>2. CASE exp.op = "%"
      <3>1. a \in Ints /\ b \in Int
        BY <2>1, <2>2, IntsFacts
      <3>2. b # 0 /\ result = Int_(IntRemainder(a, b))
        <4>1. result # Fail("crash")
          BY MadeFailure DEF Failure
        <4> QED BY <2>1, <2>2, <4>1 DEF IntResult
      <3>3. result.n = IntRemainder(a, b)
        BY <3>2 DEF Int_, Val
      <3>4. Abs(result.n) < Abs(b) /\ (a - result.n) % Abs(b) = 0
        BY <3>1, <3>2, <3>3, RemainderFacts
      <3> QED BY <2>2, <3>4 DEF a, b
    <2>3. CASE exp.op = "//"
      <3>1. a \in Ints /\ b \in Ints /\ result \in IntQuotient(a, b)
        BY <2>1, <2>3 DEF IntResult
      <3>2. b # 0 /\ Sign(a) = Sign(b) /\ Abs(a) \div Abs(b) \in Ints
              => result.n * b + IntRemainder(a, b) = a
        BY <3>1, QuotientFacts
      <3> QED BY <2>3, <3>2 DEF a, b
    <2> QED BY <2>2, <2>3
  <1> QED BY <1>1, ExpAlways, PTL

-----------------------------------------------------------------------------
(* An operand as a double.                                                 *)
LEMMA AsIfFacts ==
  ASSUME NEW v \in Held
  PROVE  LET w == AsIfDouble(v) IN
         /\ w.n = v.n /\ w.d = v.d /\ ~ IsInt(w)
         /\ AsIntError(w) = AsIntError(v) /\ AsInt(w) = AsInt(v)
         /\ v.type \in {"int", "double", "numeral"} => AsDoubleError(w) = "none" /\ AsDoubleError(v) = "none"
  <1> DEFINE w == AsIfDouble(v)
  <1>1. v.d \in Nat \ {0} /\ (v.type = "int" => v.d = 1)
    BY OperandFacts DEF IsInt
  <1>2. Double(v.n, v.d).type = "double" /\ Double(v.n, v.d).n = v.n /\ Double(v.n, v.d).d = v.d
    BY <1>1, MadeDouble
  <1>3. CASE v.type \in {"int", "numeral"}
    <2>1. w.type = "double" /\ w.n = v.n /\ w.d = v.d
      BY <1>2, <1>3 DEF AsIfDouble
    <2> HIDE DEF w
    <2>2. AsIntError(w) = AsIntError(v)
      BY <1>1, <1>3, <2>1 DEF AsIntError, Integral
    <2>3. AsDoubleError(w) = "none" /\ AsDoubleError(v) = "none"
      BY <1>3, <2>1 DEF AsDoubleError
    <2> QED BY <2>1, <2>2, <2>3 DEF AsInt, IsInt, w
  <1>4. CASE v.type \notin {"int", "numeral"}
    <2>1. w = v
      BY <1>4 DEF AsIfDouble
    <2> QED BY <1>4, <2>1 DEF IsInt, AsDoubleError
  <1> QED BY <1>3, <1>4

(* Operators on doubles depend on the numbers alone.                       *)
LEMMA SameFractions ==
  ASSUME NEW a, NEW b, NEW x, NEW y, x.n = a.n, x.d = a.d, y.n = b.n, y.d = b.d
  PROVE  /\ \A op \in {"+", "-", "*", "/", "//"} : DoubleResult(op, x, y) = DoubleResult(op, a, b)
         /\ \A op \in Comparison : Holds(op, x, y) = Holds(op, a, b)
         /\ Divide(x, y) = Divide(a, b)
  <1>1. Divide(x, y) = Divide(a, b)
    BY DEF Divide
  <1>2. \A op \in {"+", "-", "*", "/", "//"} : DoubleResult(op, x, y) = DoubleResult(op, a, b)
    BY <1>1 DEF DoubleResult
  <1>3. \A op \in Comparison : Holds(op, x, y) = Holds(op, a, b)
    BY DEF Holds, Comparison
  <1> QED BY <1>1, <1>2, <1>3

LEMMA OneIsNeutral ==
  ASSUME NEW n \in Int
  PROVE  n * 1 = n /\ 1 * n = n /\ n \div 1 = n
  OBVIOUS

(* Two ints give the number that the doubles they stand for give, if it is *)
(* an int.                                                                 *)
LEMMA IntsAsDoubles ==
  ASSUME NEW op \in {"+", "-", "*", "//"}, NEW a \in Held, NEW b \in Held, IsInt(a), IsInt(b),
         NEW r \in IntResult(op, a.n, b.n),
         DoubleResult(op, a, b).d # 0,
         DoubleResult(op, a, b).n \div DoubleResult(op, a, b).d \in Ints
  PROVE  SameNumber(r, DoubleResult(op, a, b))
  <1> DEFINE x == a.n
             y == b.n
             s == DoubleResult(op, a, b)
  <1>1. x \in Ints /\ y \in Ints /\ x \in Int /\ y \in Int /\ a.d = 1 /\ b.d = 1
    BY OperandFacts, IntsFacts
  <1>2. CASE op \in {"+", "-", "*"}
    <2> DEFINE n == IF op = "+" THEN x + y ELSE IF op = "-" THEN x - y ELSE x * y
    <2>1. n \in Int
      BY <1>1
    <2>2. s = Double(n, 1)
      <3>1. x * 1 = x /\ y * 1 = y /\ 1 * 1 = 1
        BY <1>1
      <3> QED BY <1>1, <1>2, <3>1 DEF DoubleResult
    <2>3. r \in WrapInt(n)
      BY <1>2 DEF IntResult
    <2> HIDE DEF n, s
    <2>4. s.n = n /\ s.d = 1
      BY <2>2, MadeDouble
    <2>5. n \in Ints
      BY <2>1, <2>4, OneIsNeutral DEF s
    <2>6. r.n = n /\ r.d = 1
      BY <2>1, <2>3, <2>5, WrappedInt DEF AnInt
    <2> QED BY <2>4, <2>6 DEF SameNumber, s
  <1>3. CASE op = "//"
    <2>1. Divide(Int_(x), Int_(y)) = Divide(a, b)
      BY <1>1 DEF Divide, Int_, Val
    <2>2. s = Floor(Divide(Int_(x), Int_(y)))
      BY <1>3, <2>1 DEF DoubleResult
    <2>3. y # 0
      <3> SUFFICES ASSUME y = 0 PROVE FALSE
        OBVIOUS
      <3>1. Divide(a, b) = Double(x * 1, 1 * 0)
        BY <1>1 DEF Divide
      <3>2. Divide(a, b) = Double(x * 1, 0)
        BY <3>1
      <3>3. Divide(a, b).d = 0
        BY <3>2, MadeDouble
      <3>4. s = Divide(a, b)
        BY <1>3, <3>3 DEF DoubleResult, Floor
      <3> QED BY <3>3, <3>4
    <2>4. s.d = 1 /\ s.n \in Int
      <3>1. s.d = 1 /\ s.n = IF y < 0 THEN (-x) \div (-y) ELSE x \div y
        BY <1>1, <2>2, <2>3, FloorOfInts
      <3>2. (y < 0 => (-x) \div (-y) \in Int) /\ (~ (y < 0) => x \div y \in Int)
        BY <1>1, <2>3
      <3> QED BY <3>1, <3>2
    <2> HIDE DEF s
    <2>5. s.n \in Ints
      BY <2>4, OneIsNeutral DEF s
    <2>6. \E i \in ToInt(s.n, s.d) : r = Int_(i)
      BY <1>3, <2>2 DEF IntResult, IntQuotient
    <2>7. r.n = s.n /\ r.d = 1
      BY <2>4, <2>5, <2>6, ToIntIsInt DEF Int_, Val
    <2> QED BY <2>4, <2>7 DEF SameNumber, s
  <1> QED BY <1>2, <1>3

(* An operator of visitExp gives the same number for ints, for doubles and *)
(* for strings that denote them (% and ^ aside), and a bitwise operator    *)
(* takes a string that denotes a number as that number.                    *)
THEOREM OperatorsIgnoreRepresentation == Spec => []OneArithmetic
  <1>1. ExpInv => OneArithmetic
    <2> SUFFICES ASSUME ExpInv, Done, exp.src \in Copied, InRange
                 PROVE  OneArithmetic
      BY DEF OneArithmetic
    <2> DEFINE op == exp.op
               a == exp.left
               b == exp.right
               x == AsIfDouble(a)
               y == AsIfDouble(b)
    <2>1. a \in Held /\ b \in Held
      BY OutcomeOfCopies
    <2>2. /\ x.n = a.n /\ x.d = a.d /\ ~ IsInt(x) /\ AsIntError(x) = AsIntError(a) /\ AsInt(x) = AsInt(a)
          /\ y.n = b.n /\ y.d = b.d /\ ~ IsInt(y) /\ AsIntError(y) = AsIntError(b) /\ AsInt(y) = AsInt(b)
      BY <2>1, AsIfFacts
    <2>3. op \notin Unary /\ op # "^" => result \in BinaryResults(op, a, b, a)
      BY DEF ExpInv, ResultInv, OperandsAreSnapshots
    <2>4. InDoubles(a, b) = BinaryResults(op, x, y, x)
      BY DEF InDoubles
    <2> HIDE DEF x, y
    <2>5. op \in Bitwise => result \in InDoubles(a, b)
      <3> SUFFICES ASSUME op \in Bitwise PROVE result \in InDoubles(a, b)
        OBVIOUS
      <3>1. op \notin Unary /\ op # "^"
        BY DEF Bitwise, Unary
      <3>2. BinaryResults(op, x, y, x)
              = Checked(FirstError(AsIntError(x), AsIntError(y)),
                        UNION {BitwiseResult(op, i, j) : i \in AsInt(x), j \in AsInt(y)})
        BY DEF BinaryResults, Bitwise, Arithmetic, Comparison
      <3>3. BinaryResults(op, a, b, a)
              = Checked(FirstError(AsIntError(a), AsIntError(b)),
                        UNION {BitwiseResult(op, i, j) : i \in AsInt(a), j \in AsInt(b)})
        BY DEF BinaryResults, Bitwise, Arithmetic, Comparison
      <3> QED BY <2>2, <2>3, <2>4, <3>1, <3>2, <3>3
    <2>6. ASSUME op \in {"+", "-", "*", "/", "//"} \cup Comparison,
                 \A v \in {a, b} : v.type \in {"int", "double", "numeral"},
                 NEW r \in InDoubles(a, b), r.d # 0,
                 IsInt(result) => r.n % r.d = 0 /\ r.n \div r.d \in Ints
          PROVE  SameNumber(result, r)
      <3>1. op \notin Unary /\ op # "^"
        BY <2>6 DEF Unary, Comparison
      <3>2. result \in BinaryResults(op, a, b, a) /\ r \in BinaryResults(op, x, y, x)
        BY <2>3, <2>4, <2>6, <3>1
      <3>3. /\ AsDoubleError(a) = "none" /\ AsDoubleError(b) = "none"
            /\ AsDoubleError(x) = "none" /\ AsDoubleError(y) = "none"
        BY <2>1, <2>6, AsIfFacts DEF x, y
      <3>4. CASE op \in Comparison
        <4>1. result = Bool(Holds(op, a, b)) /\ r = Bool(Holds(op, x, y))
          BY <3>2, <3>3, <3>4 DEF BinaryResults, Arithmetic, Comparison, Bitwise, Checked, FirstError
        <4>2. Holds(op, x, y) = Holds(op, a, b)
          BY <2>2, <3>4, SameFractions
        <4>3. result = r /\ result.d = 1 /\ result.n \in Int
          BY <4>1, <4>2, MadeBool
        <4> QED BY <4>3 DEF SameNumber
      <3>5. CASE op \in {"+", "-", "*", "/", "//"}
        <4>1. op \in Arithmetic /\ op \notin Comparison /\ op \notin Bitwise
          BY <3>5 DEF Arithmetic, Comparison, Bitwise
        <4>2. r = DoubleResult(op, a, b)
          <5>1. r = DoubleResult(op, x, y)
            BY <2>2, <3>2, <3>3, <4>1
               DEF BinaryResults, ArithmeticResults, Arithmetic, Comparison, Bitwise, Checked, FirstError
          <5> QED BY <2>2, <3>5, <5>1, SameFractions
        <4>3. result \in IF IsInt(a) /\ IsInt(b) /\ op # "/" THEN IntResult(op, a.n, b.n)
                         ELSE {DoubleResult(op, a, b)}
          BY <3>2, <3>3, <4>1
             DEF BinaryResults, ArithmeticResults, Arithmetic, Comparison, Bitwise, Checked, FirstError
        <4>4. CASE ~ (IsInt(a) /\ IsInt(b) /\ op # "/")
          BY <2>6, <4>2, <4>3, <4>4 DEF SameNumber
        <4>5. CASE IsInt(a) /\ IsInt(b) /\ op # "/"
          <5>1. result \in IntResult(op, a.n, b.n) /\ op \in {"+", "-", "*", "//"}
            BY <3>5, <4>3, <4>5
          <5>2. IsInt(result)
            <6>1. a.n \in Ints /\ b.n \in Ints
              BY <2>1, <4>5, OperandFacts
            <6>2. AnInt(result)
              BY <4>1, <4>5, <5>1, <6>1, IntOutcomes
            <6> QED BY <6>2 DEF AnInt, IsInt
          <5> QED BY <2>1, <2>6, <4>2, <4>5, <5>1, <5>2, IntsAsDoubles
        <4> QED BY <4>4, <4>5
      <3> QED BY <2>6, <3>4, <3>5
    <2> QED BY <2>5, <2>6 DEF OneArithmetic
  <1> QED BY <1>1, ExpAlways, PTL
=============================================================================
