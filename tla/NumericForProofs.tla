-------------------------- MODULE NumericForProofs --------------------------
(***************************************************************************)
(* Proofs about the numeric for: the loop variable follows its head,       *)
(* whatever the bodies assign to it, and the number of rounds is what the  *)
(* head says.                                                              *)
(***************************************************************************)
EXTENDS NumericFor, TLAPS

(* The steps already taken, and the value after n of them.                 *)
Elapsed == IF at \in {"body", "step"} THEN rounds - 1 ELSE rounds
Reached(n) == head.start.half + n * StepHalf

(* n steps do not wrap around.                                             *)
Straight(n) == InInts => IF StepHalf > 0 THEN Fits ELSE Reached(n) >= -(2 * IntBound)

Looping == {"test", "body", "step", "done"}

(* While the head is evaluated.                                            *)
HeadInv ==
  /\ at \in {"counter", "limit", "increment"} => rounds = 0
  /\ at \in {"limit", "increment"} => counter = head.start /\ IsNumber(head.start)
  /\ at = "increment" => value = counter /\ limit = head.limit /\ IsNumber(head.limit)

(* What the loop knows of its head, and the counter.                       *)
LoopInv ==
  at \in Looping =>
    /\ GoodHead /\ limit = head.limit /\ increment.half = StepHalf
    /\ counter \in Number /\ counter.type = IF InInts THEN "int" ELSE "double"
    /\ Elapsed \in Nat
    /\ Straight(Elapsed) => counter.half = Reached(Elapsed)
    /\ Elapsed = 0 => counter.half = head.start.half

(* The loop variable, and the tests passed so far.                         *)
RangeInv ==
  /\ at \in {"test", "body", "done"} => value = counter
  /\ at \in {"body", "step"} => rounds >= 1 /\ counter.half =< limit.half
  /\ at \in Looping /\ rounds >= 1 =>
        /\ head.start.half =< head.limit.half
        /\ Straight(rounds - 1) => Reached(rounds - 1) =< head.limit.half
  /\ at = "done" => ~ (value.half =< limit.half)

ForInv == TypeOK /\ HeadInv /\ LoopInv /\ RangeInv

-----------------------------------------------------------------------------
(* Arithmetic.                                                             *)
LEMMA NextMultiple ==
  ASSUME NEW n \in Int, NEW b \in Int
  PROVE  /\ n * b \in Int /\ (n + 1) * b = n * b + b /\ (n - 1) * b = n * b - b /\ 0 * b = 0
  OBVIOUS

LEMMA ModSmall ==
  ASSUME NEW m \in Nat \ {0}, NEW x \in Int, 0 =< x, x < m
  PROVE  x % m = x
  OBVIOUS

LEMMA ModRange ==
  ASSUME NEW m \in Nat \ {0}, NEW x \in Int
  PROVE  x % m \in Int
  OBVIOUS

LEMMA DivOf ==
  ASSUME NEW b \in Nat \ {0}, NEW n \in Nat, NEW x \in Int, n * b =< x, x < n * b + b
  PROVE  x \div b = n
  OBVIOUS

LEMMA UpMultiple ==
  ASSUME NEW n \in Nat, NEW b \in Nat
  PROVE  n * b >= 0
  OBVIOUS

LEMMA DownMultiple ==
  ASSUME NEW n \in Nat, NEW b \in Int, b =< 0
  PROVE  n * b =< 0
  OBVIOUS

(* Sums of ints that stay in the range of ints do not wrap around.         *)
LEMMA WrapFits ==
  ASSUME NEW h \in Int, h >= -(2 * IntBound), h < 2 * IntBound
  PROVE  Wrap(h) = h
  <1> DEFINE m == 4 * IntBound
             x == h + 2 * IntBound
  <1>1. IntBound \in Nat \ {0}
    BY ForAssumption
  <1>2. m \in Nat \ {0} /\ x \in Int /\ 0 =< x /\ x < m
    BY <1>1
  <1> HIDE DEF m, x
  <1>3. x % m = x
    BY <1>2, ModSmall
  <1> QED BY <1>1, <1>3 DEF Wrap, m, x

LEMMA WrapInt ==
  ASSUME NEW h \in Int
  PROVE  Wrap(h) \in Int
  <1> DEFINE m == 4 * IntBound
             x == h + 2 * IntBound
  <1>1. IntBound \in Nat \ {0}
    BY ForAssumption
  <1>2. m \in Nat \ {0} /\ x \in Int
    BY <1>1
  <1> HIDE DEF m, x
  <1>3. x % m \in Int
    BY <1>2, ModRange
  <1> QED BY <1>1, <1>3 DEF Wrap, m, x

-----------------------------------------------------------------------------
(* The head.                                                               *)
LEMMA HeadFacts ==
  ASSUME TypeOK
  PROVE  /\ head.start \in Value /\ head.limit \in Value /\ head.step \in Value \cup {Absent}
         /\ head.start.half \in Int /\ head.limit.half \in Int /\ StepHalf \in Int
         /\ InInts \in BOOLEAN
         /\ InInts => head.start.half >= -(2 * IntBound) /\ head.start.half < 2 * IntBound
         /\ IntBound \in Nat \ {0}
  <1>1. head \in [start: Value, limit: Value, step: Value \cup {Absent}]
    BY ForAssumption DEF TypeOK
  <1>2. \A v \in Value \cup {Absent} : v.half \in Int
    BY DEF Value, Number, Other, Absent
  <1>3. StepHalf \in Int
    BY <1>1, <1>2 DEF StepHalf
  <1>4. InInts => head.start.half >= -(2 * IntBound) /\ head.start.half < 2 * IntBound
    <2>1. head.start.type = "int"
             => head.start.half >= -(2 * IntBound) /\ head.start.half < 2 * IntBound
      BY ForAssumption DEF TypeOK
    <2> QED BY <2>1 DEF InInts
  <1>5. InInts \in BOOLEAN
    BY DEF InInts
  <1> QED BY <1>1, <1>2, <1>3, <1>4, <1>5, ForAssumption

LEMMA NumberFacts ==
  /\ \A v \in Value : IsNumber(v) => v \in Number
  /\ \A v \in Number : /\ v.half \in Int /\ v.type \in {"int", "double"}
                       /\ v = [type |-> v.type, half |-> v.half]
                       /\ AsDouble(v) \in Number /\ AsDouble(v).type = "double"
                       /\ AsDouble(v).half = v.half
  /\ \A v \in Value \cup {Absent} : v # Other /\ v # Absent => v \in Number
  /\ IntNumber(1) \in Number /\ IntNumber(1).half = 2 /\ IntNumber(1).type = "int"
  /\ Absent.type = "absent"
  BY DEF Value, Number, Other, Absent, IsNumber, AsDouble, IntNumber

(* The sum is a number of the same type, without wrapping one step further.*)
LEMMA SumFacts ==
  ASSUME NEW v \in Number, increment.half \in Int
  PROVE  /\ Sum(v) \in Number /\ Sum(v).type = v.type
         /\ \/ v.type # "int"
            \/ /\ v.half + increment.half >= -(2 * IntBound)
               /\ v.half + increment.half < 2 * IntBound
            => Sum(v).half = v.half + increment.half
  <1>1. v.half \in Int /\ v.type \in {"int", "double"} /\ v = [type |-> v.type, half |-> v.half]
    BY NumberFacts
  <1> DEFINE h == v.half + increment.half
             s == IF v.type = "int" THEN Wrap(h) ELSE h
  <1>2. h \in Int
    BY <1>1
  <1> HIDE DEF h
  <1>3. s \in Int
    BY <1>2, WrapInt
  <1>4. v.type # "int" \/ (h >= -(2 * IntBound) /\ h < 2 * IntBound) => s = h
    BY <1>2, WrapFits
  <1>5. Sum(v) = [v EXCEPT !.half = s]
    BY DEF Sum, h
  <1> HIDE DEF s
  <1>6. Sum(v) \in Number /\ Sum(v).type = v.type /\ Sum(v).half = s
    BY <1>1, <1>3, <1>5 DEF Number
  <1> QED BY <1>4, <1>6 DEF h

(* The value after n steps.                                                *)
LEMMA ReachedFacts ==
  ASSUME TypeOK, NEW n \in Nat
  PROVE  /\ Reached(n) \in Int /\ Reached(n + 1) = Reached(n) + StepHalf
         /\ Reached(0) = head.start.half
         /\ StepHalf =< 0 => Reached(n) =< head.start.half
         /\ StepHalf >= 0 => Reached(n) >= head.start.half
         /\ Straight(n + 1) => Straight(n)
  <1>1. head.start.half \in Int /\ StepHalf \in Int /\ IntBound \in Nat
    BY HeadFacts
  <1> DEFINE b == StepHalf
  <1>2. b \in Int
    BY <1>1
  <1> HIDE DEF b
  <1>3. n * b \in Int /\ (n + 1) * b = n * b + b /\ 0 * b = 0
    BY <1>2, NextMultiple
  <1>4. (b =< 0 => n * b =< 0) /\ (b >= 0 => n * b >= 0)
    BY <1>2, UpMultiple, DownMultiple
  <1>5. /\ Reached(n) = head.start.half + n * b /\ Reached(n + 1) = head.start.half + (n + 1) * b
        /\ Reached(0) = head.start.half + 0 * b
    BY DEF Reached, b
  <1>6. Reached(n) \in Int /\ Reached(n + 1) = Reached(n) + b /\ Reached(0) = head.start.half
    BY <1>1, <1>2, <1>3, <1>5
  <1>7. /\ b =< 0 => Reached(n) =< head.start.half
        /\ b >= 0 => Reached(n) >= head.start.half
    BY <1>1, <1>3, <1>4, <1>5
  <1>8. Straight(n + 1) => Straight(n)
    <2> DEFINE x == Reached(n)
               y == Reached(n + 1)
               m == -(2 * IntBound)
    <2>1. x \in Int /\ y = x + b /\ m \in Int
      BY <1>1, <1>6
    <2> HIDE DEF x, y, m
    <2>2. ~ (b > 0) /\ y >= m => x >= m
      BY <1>2, <2>1
    <2> QED BY <2>2 DEF Straight, b, x, y, m
  <1> QED BY <1>6, <1>7, <1>8 DEF b

-----------------------------------------------------------------------------
(* The invariant.                                                          *)
LEMMA SameHead ==
  ASSUME head' = head
  PROVE  /\ StepHalf' = StepHalf /\ (InInts' <=> InInts) /\ (GoodHead' <=> GoodHead)
         /\ \A n : Reached(n)' = Reached(n) /\ (Straight(n)' <=> Straight(n))
  BY DEF StepHalf, InInts, GoodHead, Reached, Straight, Fits, IsNumber

LEMMA ForInit == Init => ForInv
  BY DEF Init, ForInv, TypeOK, HeadInv, LoopInv, RangeInv, Looping, Place

LEMMA HeadSteps ==
  ASSUME ForInv, EvalCounter \/ EvalLimit \/ BadHead
  PROVE  ForInv'
  <1>1. TypeOK /\ HeadInv /\ head' = head
    BY DEF ForInv, EvalCounter, EvalLimit, BadHead
  <1>2. /\ head.start \in Value /\ head.limit \in Value
        /\ \A v \in Value : IsNumber(v) => v \in Number
    BY <1>1, HeadFacts, NumberFacts
  <1>3. /\ at' \notin Looping /\ rounds' = rounds /\ increment' = increment
        /\ at \in {"counter", "limit", "increment"} /\ at' \in {"limit", "increment", "badtype"}
    BY DEF EvalCounter, EvalLimit, BadHead, Looping
  <1>4. HeadInv'
    <2>1. rounds' = 0
      BY <1>1, <1>3 DEF HeadInv
    <2>2. CASE EvalCounter
      BY <2>1, <2>2 DEF EvalCounter, HeadInv, IsNumber
    <2>3. CASE EvalLimit
      BY <1>1, <2>1, <2>3 DEF EvalLimit, HeadInv, IsNumber
    <2>4. CASE BadHead
      BY <2>1, <2>4 DEF BadHead, HeadInv
    <2> QED BY <2>2, <2>3, <2>4
  <1>5. TypeOK'
    <2>1. CASE EvalCounter
      BY <1>1, <1>2, <1>3, <2>1 DEF EvalCounter, TypeOK, Place
    <2>2. CASE EvalLimit
      <3>1. counter \in Number \cup {Absent} /\ counter \in Value \cup {Absent}
        BY <1>1 DEF TypeOK, Value
      <3> QED BY <1>1, <1>2, <1>3, <2>2, <3>1 DEF EvalLimit, TypeOK, Place
    <2>3. CASE BadHead
      BY <1>1, <1>3, <2>3 DEF BadHead, TypeOK, Place
    <2> QED BY <2>1, <2>2, <2>3
  <1>6. LoopInv' /\ RangeInv'
    BY <1>3 DEF LoopInv, RangeInv, Looping
  <1> QED BY <1>4, <1>5, <1>6 DEF ForInv

(* The third expression is evaluated: the loop starts at head.start.       *)
LEMMA IncrementStep ==
  ASSUME ForInv, EvalIncrement
  PROVE  ForInv'
  <1>1. /\ TypeOK /\ head' = head /\ rounds = 0 /\ rounds' = 0 /\ at' = "test" /\ limit' = limit
        /\ counter = head.start /\ IsNumber(head.start) /\ value = counter
        /\ limit = head.limit /\ IsNumber(head.limit) /\ head.step # Other
    BY DEF ForInv, HeadInv, EvalIncrement
  <1>2. /\ head.start \in Number /\ head.limit \in Number /\ head.step \in Value \cup {Absent}
        /\ head.start.half \in Int
    BY <1>1, HeadFacts, NumberFacts
  <1>3. GoodHead
    BY <1>1 DEF GoodHead
  <1>4. /\ increment' = IF head.step = Absent THEN IntNumber(1) ELSE head.step
        /\ value' = IF increment'.type = "double" THEN AsDouble(value) ELSE value
        /\ counter' = IF increment'.type = "double" THEN AsDouble(counter) ELSE counter
    BY DEF EvalIncrement
  <1>5. /\ increment' \in Number /\ increment'.half = StepHalf
        /\ increment'.type = "double" <=> head.step.type \notin {"int", "absent"}
    <2>1. CASE head.step = Absent
      BY <1>4, <2>1, NumberFacts DEF StepHalf
    <2>2. CASE head.step # Absent
      <3>1. head.step \in Number /\ head.step.type \in {"int", "double"}
        BY <1>1, <1>2, <2>2, NumberFacts
      <3> QED BY <1>4, <2>2, <3>1 DEF StepHalf
    <2> QED BY <2>1, <2>2
  <1>6. counter' \in Number /\ counter'.half = head.start.half /\ value' = counter'
    BY <1>1, <1>2, <1>4, NumberFacts
  <1>7. counter'.type = IF InInts THEN "int" ELSE "double"
    <2>1. head.start.type \in {"int", "double"}
      BY <1>2, NumberFacts
    <2>2. CASE increment'.type = "double"
      <3>1. ~ InInts
        BY <1>5, <2>2 DEF InInts
      <3> QED BY <1>1, <1>2, <1>4, <2>2, <3>1, NumberFacts
    <2>3. CASE increment'.type # "double"
      <3>1. InInts <=> head.start.type = "int"
        BY <1>5, <2>3 DEF InInts
      <3> QED BY <1>1, <1>4, <2>1, <2>3, <3>1
    <2> QED BY <2>2, <2>3
  <1>8. TypeOK'
    BY <1>1, <1>2, <1>5, <1>6 DEF TypeOK, Place, Value
  <1>9. Elapsed' = 0
    BY <1>1 DEF Elapsed
  <1>10. Reached(0) = head.start.half
    BY <1>1, ReachedFacts
  <1>11. LoopInv'
    BY <1>1, <1>3, <1>5, <1>6, <1>7, <1>9, <1>10, SameHead DEF LoopInv
  <1>12. HeadInv' /\ RangeInv'
    BY <1>1, <1>6 DEF HeadInv, RangeInv
  <1> QED BY <1>8, <1>11, <1>12 DEF ForInv

(* The steps that leave the loop for good.                                 *)
LEMMA LastSteps ==
  ASSUME ForInv, Break \/ CutRun
  PROVE  ForInv'
  <1>1. TypeOK'
    BY DEF ForInv, TypeOK, Break, CutRun, Place
  <1> QED BY <1>1 DEF ForInv, HeadInv, LoopInv, RangeInv, Looping, Break, CutRun

(* What every state of the loop knows.                                     *)
LEMMA LoopFacts ==
  ASSUME ForInv, at \in Looping
  PROVE  /\ TypeOK /\ rounds \in Nat /\ GoodHead /\ limit = head.limit /\ increment.half = StepHalf
         /\ counter \in Number /\ counter.type = (IF InInts THEN "int" ELSE "double")
         /\ counter.half \in Int /\ head.start.half \in Int /\ head.limit.half \in Int
         /\ StepHalf \in Int /\ IntBound \in Nat /\ Elapsed \in Nat
         /\ Straight(Elapsed) => counter.half = Reached(Elapsed)
         /\ Elapsed = 0 => counter.half = head.start.half
  <1>1. TypeOK /\ LoopInv
    BY DEF ForInv
  <1>2. counter \in Number
    BY <1>1 DEF LoopInv
  <1>3. counter.half \in Int
    BY <1>2, NumberFacts
  <1> QED BY <1>1, <1>2, <1>3, HeadFacts DEF LoopInv, TypeOK

LEMMA EnterStep ==
  ASSUME ForInv, Enter \/ Finish
  PROVE  ForInv'
  <1>1. /\ at = "test" /\ head' = head /\ counter' = counter /\ limit' = limit
        /\ increment' = increment /\ value' = value
    BY DEF Enter, Finish
  <1>2. at \in Looping
    BY <1>1 DEF Looping
  <1>3. /\ TypeOK /\ rounds \in Nat /\ GoodHead /\ limit = head.limit /\ increment.half = StepHalf
        /\ counter \in Number /\ counter.type = (IF InInts THEN "int" ELSE "double")
        /\ counter.half \in Int /\ head.start.half \in Int /\ head.limit.half \in Int
        /\ Elapsed \in Nat
        /\ Straight(Elapsed) => counter.half = Reached(Elapsed)
        /\ Elapsed = 0 => counter.half = head.start.half
    BY <1>2, LoopFacts
  <1>4. Elapsed = rounds /\ value = counter
    BY <1>1 DEF Elapsed, ForInv, RangeInv
  <1>5. Elapsed' = Elapsed
    <2>1. CASE Enter
      <3>1. rounds' - 1 = rounds /\ at' = "body"
        BY <1>3, <2>1 DEF Enter
      <3> QED BY <1>4, <3>1 DEF Elapsed
    <2>2. CASE Finish
      BY <1>4, <2>2 DEF Finish, Elapsed
    <2> QED BY <2>1, <2>2
  <1>6. TypeOK'
    BY <1>1, <1>3 DEF Enter, Finish, TypeOK, Place
  <1>7. LoopInv' /\ HeadInv'
    <2>1. Elapsed' \in Nat /\ (Elapsed' = 0 => counter'.half = head'.start.half)
      BY <1>1, <1>3, <1>5
    <2>2. Straight(Elapsed)' => counter'.half = Reached(Elapsed)'
      <3>1. Straight(Elapsed)' <=> Straight(Elapsed)
        BY <1>1, <1>5, SameHead DEF Straight, Reached, Fits, InInts
      <3>2. Reached(Elapsed)' = Reached(Elapsed)
        BY <1>1, <1>5, SameHead DEF Reached
      <3> QED BY <1>1, <1>3, <3>1, <3>2
    <2>3. /\ GoodHead' /\ limit' = head'.limit /\ increment'.half = StepHalf'
          /\ counter' \in Number /\ counter'.type = (IF InInts' THEN "int" ELSE "double")
      BY <1>1, <1>3, SameHead
    <2>4. LoopInv'
      BY <2>1, <2>2, <2>3 DEF LoopInv
    <2> QED BY <1>1, <2>4 DEF HeadInv, Enter, Finish
  <1>8. RangeInv'
    <2>1. CASE Enter
      <3>1. /\ rounds' = rounds + 1 /\ at' = "body" /\ counter.half =< limit.half
        BY <1>4, <2>1 DEF Enter, InRange
      <3>2. rounds' >= 1 /\ rounds' - 1 = rounds
        BY <1>3, <3>1
      <3>3. head.start.half =< head.limit.half
        <4>1. CASE rounds = 0
          BY <1>3, <1>4, <3>1, <4>1
        <4>2. CASE rounds # 0
          <5>1. rounds >= 1
            BY <1>3, <4>2
          <5> QED BY <1>2, <5>1 DEF ForInv, RangeInv
        <4> QED BY <4>1, <4>2
      <3>4. Straight(rounds) => Reached(rounds) =< head.limit.half
        BY <1>3, <1>4, <3>1
      <3>5. Reached(rounds - 1)' = Reached(rounds) /\ (Straight(rounds - 1)' <=> Straight(rounds))
        BY <1>1, <3>2 DEF Straight, Reached, Fits, InInts, StepHalf
      <3> QED BY <1>1, <1>4, <3>1, <3>2, <3>3, <3>4, <3>5 DEF RangeInv
    <2>2. CASE Finish
      <3>1. /\ rounds' = rounds /\ at' = "done" /\ ~ (value.half =< limit.half)
        BY <2>2 DEF Finish, InRange
      <3>2. Reached(rounds - 1)' = Reached(rounds - 1)
            /\ (Straight(rounds - 1)' <=> Straight(rounds - 1))
        BY <1>1, <3>1 DEF Straight, Reached, Fits, InInts, StepHalf
      <3>3. rounds >= 1 => /\ head.start.half =< head.limit.half
                           /\ Straight(rounds - 1) => Reached(rounds - 1) =< head.limit.half
        BY <1>2 DEF ForInv, RangeInv
      <3> QED BY <1>1, <1>4, <3>1, <3>2, <3>3 DEF RangeInv
    <2> QED BY <2>1, <2>2
  <1> QED BY <1>6, <1>7, <1>8 DEF ForInv

(* The body may assign the loop variable, not the counter.                 *)
LEMMA VisitStep ==
  ASSUME ForInv, Visit
  PROVE  ForInv'
  <1>1. /\ at = "body" /\ at' = "step" /\ head' = head /\ counter' = counter /\ limit' = limit
        /\ increment' = increment /\ rounds' = rounds /\ value' \in Assigned \cup {value}
    BY DEF Visit
  <1>2. at \in Looping
    BY <1>1 DEF Looping
  <1>3. Elapsed' = Elapsed
    BY <1>1 DEF Elapsed
  <1>4. TypeOK'
    <2>1. value' \in Value \cup {Absent}
      BY <1>1, ForAssumption DEF ForInv, TypeOK
    <2> QED BY <1>1, <2>1 DEF ForInv, TypeOK, Place
  <1>5. LoopInv'
    BY <1>1, <1>2, <1>3 DEF ForInv, LoopInv, Straight, Reached, Fits, InInts, StepHalf, GoodHead, IsNumber
  <1>6. HeadInv'
    BY <1>1 DEF HeadInv
  <1>7. RangeInv'
    <2>1. Reached(rounds - 1)' = Reached(rounds - 1)
          /\ (Straight(rounds - 1)' <=> Straight(rounds - 1))
      BY <1>1 DEF Straight, Reached, Fits, InInts, StepHalf
    <2>2. /\ rounds >= 1 /\ counter.half =< limit.half /\ head.start.half =< head.limit.half
          /\ Straight(rounds - 1) => Reached(rounds - 1) =< head.limit.half
      BY <1>1, <1>2 DEF ForInv, RangeInv
    <2> QED BY <1>1, <2>1, <2>2 DEF RangeInv
  <1> QED BY <1>4, <1>5, <1>6, <1>7 DEF ForInv

(* The counter moves on, from itself and not from the cell.                *)
LEMMA StepStep ==
  ASSUME ForInv, Step
  PROVE  ForInv'
  <1>1. /\ at = "step" /\ at' = "test" /\ head' = head /\ limit' = limit /\ increment' = increment
        /\ rounds' = rounds /\ value' = Sum(counter) /\ counter' = Sum(counter)
    BY DEF Step
  <1>2. at \in Looping
    BY <1>1 DEF Looping
  <1>3. /\ TypeOK /\ rounds \in Nat /\ GoodHead /\ limit = head.limit /\ increment.half = StepHalf
        /\ counter \in Number /\ counter.type = (IF InInts THEN "int" ELSE "double")
        /\ counter.half \in Int /\ head.start.half \in Int /\ head.limit.half \in Int
        /\ StepHalf \in Int /\ IntBound \in Nat /\ Elapsed \in Nat
        /\ Straight(Elapsed) => counter.half = Reached(Elapsed)
    BY <1>2, LoopFacts
  <1>4. /\ rounds >= 1 /\ counter.half =< limit.half /\ head.start.half =< head.limit.half
        /\ Straight(rounds - 1) => Reached(rounds - 1) =< head.limit.half
    BY <1>1, <1>2 DEF ForInv, RangeInv
  <1>5. Elapsed = rounds - 1 /\ Elapsed' = rounds /\ Elapsed + 1 = rounds /\ Elapsed' # 0
    BY <1>1, <1>3, <1>4 DEF Elapsed
  <1> DEFINE n == Elapsed
  <1>6. /\ Sum(counter) \in Number /\ Sum(counter).type = counter.type
        /\ \/ counter.type # "int"
           \/ /\ counter.half + StepHalf >= -(2 * IntBound)
              /\ counter.half + StepHalf < 2 * IntBound
           => Sum(counter).half = counter.half + StepHalf
    BY <1>3, SumFacts
  <1>7. /\ Reached(n) \in Int /\ Reached(n + 1) = Reached(n) + StepHalf
        /\ StepHalf =< 0 => Reached(n) =< head.start.half
        /\ StepHalf >= 0 => Reached(n) >= head.start.half
        /\ Straight(n + 1) => Straight(n)
    BY <1>3, ReachedFacts
  <1>8. Straight(n + 1) => Sum(counter).half = Reached(n + 1)
    <2> SUFFICES ASSUME Straight(n + 1) PROVE Sum(counter).half = Reached(n + 1)
      OBVIOUS
    <2>1. counter.half = Reached(n) /\ counter.half + StepHalf = Reached(n + 1)
      BY <1>3, <1>7
    <2>2. CASE ~ InInts
      <3>1. counter.type # "int"
        BY <1>3, <2>2
      <3> QED BY <1>6, <2>1, <3>1
    <2>3. CASE InInts
      <3>1. head.start.half >= -(2 * IntBound) /\ head.start.half < 2 * IntBound
        BY <1>3, <2>3, HeadFacts
      <3>2. StepHalf > 0 => head.limit.half + StepHalf < 2 * IntBound
        BY <2>3 DEF Straight, Fits
      <3>3. ~ (StepHalf > 0) => Reached(n + 1) >= -(2 * IntBound)
        BY <2>3 DEF Straight
      <3> DEFINE x == Reached(n)
                 y == Reached(n + 1)
                 b == StepHalf
                 c == counter.half
                 low == -(2 * IntBound)
                 high == 2 * IntBound
      <3>4. /\ x \in Int /\ b \in Int /\ low \in Int /\ high \in Int /\ c = x /\ y = x + b
            /\ head.start.half \in Int /\ head.limit.half \in Int
            /\ b =< 0 => x =< head.start.half
            /\ b >= 0 => x >= head.start.half
            /\ c =< head.limit.half
        BY <1>3, <1>4, <1>7, <2>1
      <3>5. /\ head.start.half >= low /\ head.start.half < high
            /\ b > 0 => head.limit.half + b < high
            /\ ~ (b > 0) => y >= low
        BY <3>1, <3>2, <3>3
      <3> HIDE DEF x, y, b, c, low, high
      <3>6. c + b >= low /\ c + b < high
        BY <3>4, <3>5
      <3> QED BY <1>6, <2>1, <3>6 DEF b, c, low, high
    <2> QED BY <2>2, <2>3
  <1>9. TypeOK'
    BY <1>1, <1>3, <1>6 DEF TypeOK, Place, Value
  <1>10. LoopInv'
    <2>1. Reached(Elapsed)' = Reached(n + 1) /\ (Straight(Elapsed)' <=> Straight(n + 1))
      BY <1>1, <1>5 DEF Straight, Reached, Fits, InInts, StepHalf
    <2>2. Straight(Elapsed)' => counter'.half = Reached(Elapsed)'
      BY <1>1, <1>8, <2>1
    <2>3. /\ GoodHead' /\ limit' = head'.limit /\ increment'.half = StepHalf'
          /\ counter' \in Number /\ counter'.type = (IF InInts' THEN "int" ELSE "double")
      BY <1>1, <1>3, <1>6, SameHead
    <2>4. Elapsed' \in Nat
      BY <1>3, <1>5
    <2> QED BY <1>5, <2>2, <2>3, <2>4 DEF LoopInv
  <1>11. HeadInv'
    BY <1>1 DEF HeadInv
  <1>12. RangeInv'
    <2>1. Reached(rounds - 1)' = Reached(rounds - 1)
          /\ (Straight(rounds - 1)' <=> Straight(rounds - 1))
      BY <1>1 DEF Straight, Reached, Fits, InInts, StepHalf
    <2> QED BY <1>1, <1>4, <2>1 DEF RangeInv
  <1> QED BY <1>9, <1>10, <1>11, <1>12 DEF ForInv

LEMMA ForNext == ForInv /\ [Next]_vars => ForInv'
  <1> SUFFICES ASSUME ForInv, [Next]_vars PROVE ForInv'
    OBVIOUS
  <1>1. CASE Ended \/ UNCHANGED vars
    BY <1>1 DEF Ended, vars, ForInv, TypeOK, HeadInv, LoopInv, RangeInv, Elapsed, Straight, Reached,
                Fits, InInts, StepHalf, GoodHead, IsNumber
  <1>2. CASE Move
    BY <1>2, HeadSteps, IncrementStep, LastSteps, EnterStep, VisitStep, StepStep DEF Move
  <1> QED BY <1>1, <1>2 DEF Next

LEMMA ForAlways == Spec => []ForInv
  BY ForInit, ForNext, PTL DEF Spec

-----------------------------------------------------------------------------
(* In every round the body finds the loop variable at start plus so many   *)
(* steps, in the type the head gives it: process_for_loop restores it from *)
(* its own counter, so that no assignment in a body outlives the round.    *)
THEOREM VariableFollowsTheHead == Spec => []CounterLaw
  <1>1. ForInv => CounterLaw
    <2> SUFFICES ASSUME ForInv, at = "body", Upwards \/ ~ InInts
                 PROVE  value = [type |-> IF InInts THEN "int" ELSE "double",
                                 half |-> head.start.half + (rounds - 1) * StepHalf]
      BY DEF ForInv, CounterLaw
    <2>1. at \in Looping
      BY DEF Looping
    <2>2. /\ counter \in Number /\ counter.type = (IF InInts THEN "int" ELSE "double")
          /\ Straight(Elapsed) => counter.half = Reached(Elapsed)
      BY <2>1, LoopFacts
    <2>3. Elapsed = rounds - 1 /\ value = counter
      BY DEF Elapsed, ForInv, RangeInv
    <2>4. Straight(Elapsed)
      BY DEF Straight, Upwards
    <2>5. counter = [type |-> counter.type, half |-> counter.half]
      BY <2>2, NumberFacts
    <2> QED BY <2>2, <2>3, <2>4, <2>5 DEF Reached
  <1> QED BY <1>1, ForAlways, PTL

(* A loop with a positive step that process_for_loop ends by itself has    *)
(* visited the body once per value from start to limit, both included.     *)
THEOREM RoundsAreTheValues == Spec => []RoundsReachTheLimit
  <1>1. ForInv => RoundsReachTheLimit
    <2> SUFFICES ASSUME ForInv, at = "done", Upwards
                 PROVE  rounds = IF head.limit.half < head.start.half
                                 THEN 0
                                 ELSE (head.limit.half - head.start.half) \div StepHalf + 1
      BY DEF RoundsReachTheLimit
    <2> DEFINE s == head.start.half
               l == head.limit.half
               b == StepHalf
               n == rounds - 1
    <2>1. at \in Looping
      BY DEF Looping
    <2>2. /\ TypeOK /\ rounds \in Nat /\ limit = head.limit /\ s \in Int /\ l \in Int /\ b \in Int
          /\ Straight(Elapsed) => counter.half = Reached(Elapsed)
      BY <2>1, LoopFacts
    <2>3. /\ Elapsed = rounds /\ value = counter /\ ~ (value.half =< limit.half)
          /\ rounds >= 1 => s =< l /\ (Straight(n) => Reached(n) =< l)
      BY <2>1 DEF Elapsed, ForInv, RangeInv
    <2>4. b > 0 /\ Straight(rounds) /\ Straight(n)
      BY DEF Straight, Upwards
    <2>5. Reached(rounds) \in Int /\ ~ (Reached(rounds) =< l)
      BY <2>2, <2>3, <2>4, ReachedFacts
    <2>6. Reached(rounds) = s + rounds * b /\ Reached(n) = s + n * b
      BY DEF Reached
    <2>7. CASE rounds = 0
      <3>1. Reached(rounds) = s
        BY <2>2, <2>7, ReachedFacts
      <3>2. l < s
        BY <2>2, <2>5, <3>1
      <3> QED BY <2>7, <3>2
    <2>8. CASE rounds # 0
      <3>1. n \in Nat /\ rounds = n + 1 /\ s =< l /\ ~ (l < s)
        BY <2>2, <2>3, <2>8
      <3> HIDE DEF s, l, b, n
      <3>2. n * b \in Int /\ rounds * b = n * b + b
        BY <2>2, <3>1, NextMultiple
      <3> DEFINE x == l - s
                 p == n * b
      <3>3. x \in Int /\ p =< x /\ x < p + b
        <4>1. Reached(n) =< l
          BY <2>3, <2>4, <3>1, <2>2
        <4>2. p \in Int /\ Reached(n) = s + p /\ Reached(rounds) = s + (p + b)
          BY <2>6, <3>2
        <4> HIDE DEF p
        <4> QED BY <2>2, <2>5, <4>1, <4>2
      <3>4. b \in Nat \ {0}
        BY <2>2, <2>4
      <3> HIDE DEF x
      <3>5. x \div b = n
        BY <3>1, <3>3, <3>4, DivOf
      <3>6. rounds = x \div b + 1
        BY <3>1, <3>5
      <3> QED BY <3>1, <3>6 DEF x, s, l, b
    <2> QED BY <2>7, <2>8
  <1> QED BY <1>1, ForAlways, PTL

(* A loop without a positive step whose body has been visited once is not  *)
(* ended by the comparison of process_for_loop, which is <= whatever the   *)
(* sign of the step, unless a sum of ints has wrapped around.              *)
THEOREM DownwardsLoopsGoOn == Spec => []DownwardsNeverEnds
  <1>1. ForInv => DownwardsNeverEnds
    <2> SUFFICES ASSUME ForInv, at = "done", GoodHead, StepHalf =< 0,
                        InInts => head.start.half + rounds * StepHalf >= -(2 * IntBound),
                        rounds # 0
                 PROVE  FALSE
      BY DEF DownwardsNeverEnds
    <2>1. at \in Looping
      BY DEF Looping
    <2>2. /\ TypeOK /\ rounds \in Nat /\ limit = head.limit /\ StepHalf \in Int
          /\ head.start.half \in Int /\ head.limit.half \in Int
          /\ Straight(Elapsed) => counter.half = Reached(Elapsed)
      BY <2>1, LoopFacts
    <2>3. Elapsed = rounds /\ value = counter /\ ~ (value.half =< limit.half) /\ rounds >= 1
      BY <2>2 DEF Elapsed, ForInv, RangeInv
    <2>4. head.start.half =< head.limit.half
      BY <2>1, <2>3 DEF ForInv, RangeInv
    <2>5. Straight(rounds)
      <3>1. ~ (StepHalf > 0)
        BY <2>2
      <3> QED BY <3>1 DEF Straight, Reached
    <2>6. Reached(rounds) \in Int /\ Reached(rounds) =< head.start.half
      BY <2>2, ReachedFacts
    <2>7. ~ (Reached(rounds) =< head.limit.half)
      BY <2>2, <2>3, <2>5
    <2> QED BY <2>2, <2>4, <2>6, <2>7
  <1> QED BY <1>1, ForAlways, PTL
=============================================================================
