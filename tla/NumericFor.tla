----------------------------- MODULE NumericFor -----------------------------
(***************************************************************************)
(* The numeric for of LuaPP (process_for_loop): its head is evaluated and  *)
(* checked, then the body is visited once per value of the counter.  The   *)
(* code keeps the counter twice, in a local of its own and in the cell of  *)
(* the loop variable, which the body may assign.                           *)
(*                                                                         *)
(* Numbers are counted in halves, so that ints are the even ones and a     *)
(* double may lie between two of them.  Sums of doubles are exact here;    *)
(* sums of ints wrap, which is what the build makes of an int overflow.    *)
(***************************************************************************)
EXTENDS Integers

CONSTANTS IntBound,   \* an int lies in -IntBound .. IntBound - 1
          Heads,      \* the heads under study: what the expressions yield
          Assigned,   \* what a body may assign to the loop variable
          MaxRounds   \* bound: a run is cut after so many rounds

Number == [type: {"int", "double"}, half: Int]
Other == [type |-> "other", half |-> 0]    \* a value that is no number
Absent == [type |-> "absent", half |-> 0]  \* no third expression
Value == Number \cup {Other}
IntNumber(n) == [type |-> "int", half |-> 2 * n]

ASSUME ForAssumption ==
  /\ IntBound \in Nat \ {0} /\ MaxRounds \in Nat
  /\ Heads \subseteq [start: Value, limit: Value, step: Value \cup {Absent}]
  /\ Assigned \subseteq Value
  /\ \A h \in Heads : \A v \in {h.start, h.limit, h.step} :
       v.type = "int" => v.half % 2 = 0 /\ v.half >= -(2 * IntBound) /\ v.half < 2 * IntBound

VARIABLES head,     \* the expressions of the head
          at,       \* where process_for_loop is
          counter, limit, increment,
          value,    \* the cell of the loop variable, Absent before it exists
          rounds    \* history: how often the body has been visited

vars == <<head, at, counter, limit, increment, value, rounds>>

Place == {"counter", "limit", "increment", "test", "body", "step", "done", "broken", "badtype", "cut"}

TypeOK ==
  /\ head \in Heads /\ at \in Place
  /\ counter \in Number \cup {Absent} /\ limit \in Number \cup {Absent}
  /\ increment \in Number \cup {Absent}
  /\ value \in Value \cup {Absent}
  /\ rounds \in Nat
  /\ at \in {"test", "body", "step"} => counter \in Number /\ limit \in Number /\ increment \in Number

Init ==
  /\ head \in Heads /\ at = "counter" /\ rounds = 0
  /\ counter = Absent /\ limit = Absent /\ increment = Absent /\ value = Absent

-----------------------------------------------------------------------------
IsNumber(v) == v.type \in {"int", "double"}
AsDouble(v) == [v EXCEPT !.type = "double"]

EvalCounter ==
  /\ at = "counter" /\ IsNumber(head.start)
  /\ counter' = head.start /\ at' = "limit"
  /\ UNCHANGED <<head, limit, increment, value, rounds>>

(* The cell of the variable is created before the third expression is      *)
(* evaluated.                                                              *)
EvalLimit ==
  /\ at = "limit" /\ IsNumber(head.limit)
  /\ limit' = head.limit /\ value' = counter /\ at' = "increment"
  /\ UNCHANGED <<head, counter, increment, rounds>>

(* A double step makes doubles of the cell and of the counter.             *)
EvalIncrement ==
  /\ at = "increment" /\ head.step # Other
  /\ increment' = IF head.step = Absent THEN IntNumber(1) ELSE head.step
  /\ value' = IF increment'.type = "double" THEN AsDouble(value) ELSE value
  /\ counter' = IF increment'.type = "double" THEN AsDouble(counter) ELSE counter
  /\ at' = "test"
  /\ UNCHANGED <<head, limit, rounds>>

BadHead ==
  /\ \/ at = "counter" /\ ~ IsNumber(head.start)
     \/ at = "limit" /\ ~ IsNumber(head.limit)
     \/ at = "increment" /\ head.step = Other
  /\ at' = "badtype"
  /\ UNCHANGED <<head, counter, limit, increment, value, rounds>>

(* Variant: the limit is excluded.                                         *)
InRangeStrictly == value.half < limit.half
(* The comparison, whatever the sign of the step.                          *)
InRange == value.half =< limit.half

Enter ==
  /\ at = "test" /\ InRange /\ rounds < MaxRounds
  /\ at' = "body" /\ rounds' = rounds + 1
  /\ UNCHANGED <<head, counter, limit, increment, value>>

Finish ==
  /\ at = "test" /\ ~ InRange
  /\ at' = "done"
  /\ UNCHANGED <<head, counter, limit, increment, value, rounds>>

(* The body, which may assign the loop variable, even another type.        *)
Visit ==
  /\ at = "body"
  /\ value' \in Assigned \cup {value}
  /\ at' = "step"
  /\ UNCHANGED <<head, counter, limit, increment, rounds>>

Break ==
  /\ at = "body"
  /\ at' = "broken"
  /\ UNCHANGED <<head, counter, limit, increment, value, rounds>>

Wrap(h) == ((h + 2 * IntBound) % (4 * IntBound)) - 2 * IntBound
(* Variant: the sign of the step is lost.                                  *)
SumUnsigned(v) ==
  LET by == IF increment.half < 0 THEN - increment.half ELSE increment.half
  IN  [v EXCEPT !.half = IF v.type = "int" THEN Wrap(@ + by) ELSE @ + by]
(* The cell and the counter move on from the counter, in int when the cell *)
(* held one at the start of the loop; an int counter has an int step.      *)
Sum(v) == [v EXCEPT !.half = IF v.type = "int" THEN Wrap(@ + increment.half) ELSE @ + increment.half]

(* Variant: the cell moves on from what the body left in it.               *)
StepFromCell ==
  /\ at = "step"
  /\ value' = IF IsNumber(value) THEN Sum(value) ELSE Sum(counter)
  /\ counter' = Sum(counter)
  /\ at' = "test"
  /\ UNCHANGED <<head, limit, increment, rounds>>

(* Variant: the counter is left behind.                                    *)
StepCellOnly ==
  /\ at = "step"
  /\ value' = Sum(counter)
  /\ at' = "test"
  /\ UNCHANGED <<head, counter, limit, increment, rounds>>

Step ==
  /\ at = "step"
  /\ value' = Sum(counter) /\ counter' = Sum(counter)
  /\ at' = "test"
  /\ UNCHANGED <<head, limit, increment, rounds>>

(* The bound on rounds.                                                    *)
CutRun ==
  /\ at = "test" /\ InRange /\ rounds = MaxRounds
  /\ at' = "cut"
  /\ UNCHANGED <<head, counter, limit, increment, value, rounds>>

Move == EvalCounter \/ EvalLimit \/ EvalIncrement \/ BadHead \/ Enter \/ Finish \/ Visit \/ Break \/ Step \/ CutRun

Ended == at \in {"done", "broken", "badtype", "cut"} /\ UNCHANGED vars

Next == Move \/ Ended

(* The interpreter never waits, and a body that ends lets the loop go on.  *)
Spec == Init /\ [][Next]_vars /\ WF_vars(Move)

-----------------------------------------------------------------------------
(* What the loop should do, read off its head alone.                       *)
StepHalf == IF head.step = Absent THEN 2 ELSE head.step.half
InInts == head.start.type = "int" /\ head.step.type \in {"int", "absent"}
GoodHead == IsNumber(head.start) /\ IsNumber(head.limit) /\ head.step # Other
(* The sums that leave the limit behind still fit in an int.               *)
Fits == InInts => head.limit.half + StepHalf < 2 * IntBound
Upwards == GoodHead /\ StepHalf > 0 /\ Fits

(* In every round the body finds the loop variable at start plus so many   *)
(* steps, a double as soon as start or step is one, whatever the bodies of *)
(* earlier rounds assigned to it: a test (num_for_reset_counter.lua)       *)
(* assigns it once and expects ten rounds.  Counter and step are numbers   *)
(* throughout.                                                             *)
CounterLaw ==
  /\ TypeOK
  /\ at = "body" /\ (Upwards \/ ~ InInts) =>
       value = [type |-> IF InInts THEN "int" ELSE "double",
                half |-> head.start.half + (rounds - 1) * StepHalf]

(* A loop with a positive step that ends by itself has visited the body    *)
(* once per value from start to limit, both included.                      *)
RoundsReachTheLimit ==
  at = "done" /\ Upwards =>
    rounds = IF head.limit.half < head.start.half
             THEN 0
             ELSE (head.limit.half - head.start.half) \div StepHalf + 1

(* A loop without a positive step that has entered its body once is never  *)
(* over by itself, unless the sum of ints wraps: the comparison is <=      *)
(* whatever the sign of the step.                                          *)
DownwardsNeverEnds ==
  /\ at = "done" /\ GoodHead /\ StepHalf =< 0
  /\ InInts => head.start.half + rounds * StepHalf >= -(2 * IntBound)
  => rounds = 0

(* A loop with a positive step whose sums stay within int ends, also when  *)
(* every body assigns a small value to the variable.                       *)
LoopEnds == Upwards ~> (at \in {"done", "broken"})
=============================================================================
