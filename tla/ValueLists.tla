----------------------------- MODULE ValueLists -----------------------------
(***************************************************************************)
(* The lists of values of LuaPP: how the results of an expression list     *)
(* reach the parameters of a function, how its return list comes back, and *)
(* how the values are adjusted to the variables of an assignment, a local  *)
(* statement or a for-in (interpreter.cpp).  One behaviour is one call:    *)
(* the expressions are evaluated, the function is called, returns, and its *)
(* results are stored.                                                     *)
(***************************************************************************)
EXTENDS Integers, SequencesExt

CONSTANTS Val,        \* plain Lua values other than nil
          Nil,        \* the Lua value nil
          Cell,       \* variables and table fields assigned to
          Exprs,      \* what the argument expressions may evaluate to
          MaxExprs,   \* bound on the length of an expression list
          MaxFormals, \* bound on named parameters
          MaxTargets  \* bound on the variables assigned to

(* Values: plain ones and Elipses of them.  Types::Var, the value of an    *)
(* expression: one value, the list a call returned, which is never empty,  *)
(* an Elipsis, or a pointer to a table field (vs holds the cell).          *)
Simple == Val \cup {Nil}
Dotted(V) == [kind: {"elipsis"}, vs: Seq(V)]
Value == Simple \cup Dotted(Simple)
Expr == [kind: {"value"}, vs: {<<x>> : x \in Simple}]
          \cup [kind: {"list"}, vs: Seq(Value) \ {<< >>}] \cup Dotted(Simple)
Pointer == [kind: {"lvalue"}, vs: {<<c>> : c \in Cell}]

ASSUME ListsAssumption ==
  Exprs \subseteq Expr /\ MaxExprs \in Nat /\ MaxFormals \in Nat /\ MaxTargets \in Nat

VARIABLES phase, site,
          exprs,      \* the expression list of the call or of the for-in
          args,       \* the values handed to call_function
          formals,    \* number of named parameters
          vararg,     \* whether "..." is the last formal parameter
          params,     \* values of the named parameters
          dots,       \* the value stored under "...": <<>> when there is none
          results,    \* what the function returned
          list,       \* the expression list that is stored, the call's value in it
          cells,      \* the assignable cells
          before,     \* history: the cells before the assignment
          targets,    \* history: the cells assigned to, in order
          bound       \* the values of the names of a local or a for-in

callVars == <<exprs, args, formals, vararg, params, dots>>
storeVars == <<list, cells, before, targets, bound>>
vars == <<phase, site, callVars, results, storeVars>>

-----------------------------------------------------------------------------
Plain(v) == [kind |-> "value", vs |-> <<v>>]
ListOf(vs) == [kind |-> "list", vs |-> vs]
Elipsis(vs) == [kind |-> "elipsis", vs |-> vs]
Field(c) == [kind |-> "lvalue", vs |-> <<c>>]

IsElipsis(v) == v \notin Simple

(* A variable's value as an expression: a variable that holds an Elipsis   *)
(* is one.                                                                 *)
VarOf(v) == IF IsElipsis(v) THEN v ELSE Plain(v)

(* Var::get of a value that is not a pointer: an Elipsis is handed on whole*)
Get(e) == IF e.kind = "elipsis" THEN e ELSE e.vs[1]
Gets(es) == [i \in DOMAIN es |-> Get(es[i])]

(* Var::morph of every expression that is a pointer.                       *)
Morph(e, store) == IF e.kind = "lvalue" THEN VarOf(store[e.vs[1]]) ELSE e

ValueOrNil(s, i) == IF i \in DOMAIN s THEN s[i] ELSE Nil

(* Var::is asks a list's first value: a list that starts with an Elipsis   *)
(* counts as that Elipsis.                                                 *)
Seen(e) == IF e.kind = "list" /\ IsElipsis(e.vs[1]) THEN e.vs[1] ELSE e
Multiple(e) == e.kind \in {"elipsis", "list"}

(* Variant: the first value of a list is used twice.                       *)
RemainsWithFirst(e) ==
  IF Seen(e).kind = "elipsis" THEN Seen(e).vs ELSE IF e.kind = "list" THEN e.vs ELSE << >>
(* The values a multi-valued last expression has left for the variables    *)
(* after the ones already served, and the first variable they go to.       *)
Remains(e) ==
  IF Seen(e).kind = "elipsis" THEN Seen(e).vs ELSE IF e.kind = "list" THEN Tail(e.vs) ELSE << >>
From(es) == IF Seen(Last(es)).kind = "elipsis" THEN Len(es) ELSE Len(es) + 1

(* "Adjust": n variables receive the values of es.                         *)
Adjust(es, n) ==
  IF n =< Len(es)
  THEN [i \in 1..n |-> Get(es[i])]
  ELSE [i \in 1..n |-> IF i < From(es)
                       THEN Get(es[i])
                       ELSE ValueOrNil(Remains(Last(es)), i - From(es) + 1)]

(* Variant: the values of a multi-valued last argument replace the list.   *)
ExpandedOnly(es) == IF es # << >> /\ Multiple(Last(es)) THEN Seen(Last(es)).vs ELSE Gets(es)
(* visitArgs appends the values of a multi-valued last argument to the     *)
(* list, in which that argument stays.                                     *)
Expanded(es) ==
  IF es # << >> /\ Multiple(Last(es)) THEN Gets(es) \o Seen(Last(es)).vs ELSE Gets(es)

(* The results of the expressions after `in`.                              *)
LoopValues(es) ==
  Gets(Front(es)) \o (IF Multiple(Last(es)) THEN Last(es).vs ELSE << >>)

-----------------------------------------------------------------------------
Init ==
  /\ phase = "exprs" /\ site \in {"call", "forin"}
  /\ exprs \in UNION {[1..m -> Exprs] : m \in 0..MaxExprs}
  /\ site = "forin" => exprs # << >>
  /\ args = << >> /\ formals = 0 /\ vararg = FALSE
  /\ params = << >> /\ dots = << >> /\ results = << >>
  /\ list = << >> /\ targets = << >> /\ bound = << >>
  /\ cells \in [Cell -> Val] /\ before = cells

(* visitArgs and ArgsVisitor.                                              *)
VisitArgs ==
  /\ phase = "exprs" /\ site = "call"
  /\ args' = Expanded(exprs)
  /\ phase' = "call"
  /\ UNCHANGED <<site, exprs, formals, vararg, params, dots, results, storeVars>>

(* The head of a for-in: iterator, state and first iteration value.  (That *)
(* the iterator is a function is checked next; Interpreter models it.)     *)
ForInHead ==
  /\ phase = "exprs" /\ site = "forin"
  /\ LoopValues(exprs) # << >>
  /\ args' = <<ValueOrNil(LoopValues(exprs), 2), ValueOrNil(LoopValues(exprs), 3)>>
  /\ phase' = "call"
  /\ UNCHANGED <<site, exprs, formals, vararg, params, dots, results, storeVars>>

BadForIn ==
  /\ phase = "exprs" /\ site = "forin"
  /\ LoopValues(exprs) = << >>
  /\ phase' = "error"
  /\ UNCHANGED <<site, callVars, results, storeVars>>

(* call_function: "..." is the last formal parameter and is bound like the *)
(* others; only arguments beyond it make an Elipsis, which replaces it.    *)
NFormals(k, dotted) == IF dotted THEN k + 1 ELSE k

BindParameters(k, dotted) ==
  LET nf == NFormals(k, dotted)
  IN  /\ formals' = k /\ vararg' = dotted
      /\ params' = [i \in 1..k |-> ValueOrNil(args, i)]
      /\ dots' = IF ~ dotted THEN << >>
                 ELSE IF Len(args) > nf THEN <<Elipsis(SubSeq(args, nf + 1, Len(args)))>>
                 ELSE <<ValueOrNil(args, nf)>>

CallFunction ==
  /\ phase = "call"
  /\ \E k \in 0..MaxFormals, dotted \in BOOLEAN : BindParameters(k, dotted)
  /\ phase' = "body"
  /\ UNCHANGED <<site, exprs, args, results, storeVars>>

(* formal_parameters().back() of a function that has none.                 *)
CallNoFormals ==
  /\ phase = "call" /\ args # << >>
  /\ formals' = 0 /\ vararg' = FALSE /\ params' = << >> /\ dots' = << >>
  /\ phase' = "undefined"
  /\ UNCHANGED <<site, exprs, args, results, storeVars>>

(* The frame, the arguments and the expressions are gone after the call.   *)
LeaveCall ==
  /\ phase' = "results"
  /\ exprs' = << >> /\ args' = << >> /\ params' = << >> /\ dots' = << >>
  /\ formals' = 0 /\ vararg' = FALSE

(* return with parameters, or with a call as its last expression.          *)
VisitRetstat ==
  /\ phase = "body"
  /\ \E k \in 1..2 : \E last \in {VarOf(params[i]) : i \in DOMAIN params}
                                   \cup {e \in Exprs : e.kind = "list"} \cup {Plain(Nil)} :
       \E front \in [1..(k - 1) -> {VarOf(params[i]) : i \in DOMAIN params}] :
          results' = Append(front, last)
  /\ LeaveCall
  /\ UNCHANGED <<site, storeVars>>

(* return ...: a pointer into the frame that call_function erases.         *)
ReturnElipsis ==
  /\ phase = "body" /\ dots # << >>
  /\ phase' = "dangling"
  /\ UNCHANGED <<site, callVars, results, storeVars>>

FinishCall ==
  /\ phase = "body"
  /\ results' = << >>
  /\ LeaveCall
  /\ UNCHANGED <<site, storeVars>>

(* process_names_and_args: what the call expression evaluates to.          *)
CallValue == IF results = << >> THEN Plain(Nil) ELSE ListOf(Gets(results))

(* Expression lists with the call in them, and table fields to swap.       *)
WithCall(other) == {<<CallValue>>, <<other, CallValue>>, <<CallValue, other>>}

(* Variant: the fields are read while the variables are written.           *)
AssignedInTurn(es, tg) ==
  LET s[k \in 0..Len(tg)] ==
        IF k = 0 THEN cells
        ELSE LET now == [i \in DOMAIN es |-> Morph(es[i], s[k-1])]
             IN  [s[k-1] EXCEPT ![tg[k]] = Adjust(now, Len(tg))[k]]
  IN  s[Len(tg)]
(* Every pointer is read before any variable is written; then left to      *)
(* right.                                                                  *)
Assigned(es, tg) ==
  LET values == Adjust([i \in DOMAIN es |-> Morph(es[i], cells)], Len(tg))
  IN  [c \in Cell |-> IF \E k \in DOMAIN tg : tg[k] = c
                      THEN values[Max({k \in DOMAIN tg : tg[k] = c})]
                      ELSE cells[c]]

ProcessStatVarList ==
  /\ phase = "results" /\ site = "call"
  /\ \E tg \in UNION {[1..n -> Cell] : n \in 1..MaxTargets}, c, d \in Cell, e \in Exprs :
     \E es \in WithCall(Field(c)) \cup {<<Field(c), Field(d)>>, <<Field(c), e>>} :
       /\ list' = es
       /\ targets' = tg
       /\ cells' = Assigned(es, tg)
  /\ before' = cells
  /\ phase' = "assigned"
  /\ UNCHANGED <<site, callVars, results, bound>>

ProcessLocalVariables ==
  /\ phase = "results" /\ site = "call"
  /\ \E n \in 1..MaxTargets, e \in Exprs : \E es \in WithCall(e) :
       /\ list' = es
       /\ bound' = [i \in 1..n |-> <<Adjust(es, n)[i]>>]
  /\ phase' = "declared"
  /\ UNCHANGED <<site, callVars, results, cells, before, targets>>

(* process_for_in binds its names in a store that starts empty.  When the  *)
(* results are too few and the last one is a plain value, the index from   *)
(* which nil is filled in was never set.  bound[i] is empty when the name  *)
(* has no cell.                                                            *)
ForInNames(n) ==
  IF Len(results) >= n \/ Multiple(Last(results))
  THEN {[i \in 1..n |-> <<Adjust(results, n)[i]>>]}
  ELSE {[i \in 1..n |-> IF i >= k THEN <<Nil>>
                        ELSE IF i =< Len(results) THEN <<Get(results[i])>> ELSE << >>] : k \in 1..(n + 1)}

ForInBind ==
  /\ phase = "results" /\ site = "forin"
  /\ results # << >> /\ Get(results[1]) # Nil
  /\ \E n \in 1..MaxTargets : bound' \in ForInNames(n)
  /\ list' = results
  /\ phase' = "declared"
  /\ UNCHANGED <<site, callVars, results, cells, before, targets>>

ForInBreak ==
  /\ phase = "results" /\ site = "forin"
  /\ ~ (results # << >> /\ Get(results[1]) # Nil)
  /\ phase' = "broken"
  /\ UNCHANGED <<site, callVars, results, storeVars>>

Final == {"assigned", "declared", "broken", "error", "undefined", "dangling"}
Ended == phase \in Final /\ UNCHANGED vars

Next ==
  \/ VisitArgs \/ ForInHead \/ BadForIn \/ CallFunction \/ CallNoFormals
  \/ VisitRetstat \/ ReturnElipsis \/ FinishCall
  \/ ProcessStatVarList \/ ProcessLocalVariables \/ ForInBind \/ ForInBreak
  \/ Ended

Spec == Init /\ [][Next]_vars

-----------------------------------------------------------------------------
TypeOK ==
  /\ phase \in {"exprs", "call", "body", "results"} \cup Final
  /\ site \in {"call", "forin"}
  /\ exprs \in Seq(Expr) /\ results \in Seq(Expr) /\ list \in Seq(Expr \cup Pointer)
  /\ args \in Seq(Value) /\ params \in Seq(Value) /\ dots \in Seq(Value \cup Dotted(Value))
  /\ formals \in 0..MaxFormals /\ vararg \in BOOLEAN
  /\ Len(params) = formals
  /\ cells \in [Cell -> Value] /\ before \in [Cell -> Value]
  /\ targets \in Seq(Cell)
  /\ bound \in Seq(Seq(Value)) /\ \A i \in DOMAIN bound : Len(bound[i]) =< 1

(* Lua's rule: every expression but the last gives one value, the last one *)
(* all of its values; then cut or filled up with nil.                      *)
LuaValues(es) ==
  IF es = << >> THEN << >>
  ELSE [i \in 1..(Len(es) - 1) |-> ValueOrNil(es[i].vs, 1)] \o Last(es).vs
LuaAdjust(es, n) == [i \in 1..n |-> ValueOrNil(LuaValues(es), i)]

(* No Elipsis is in a place where the code hands it on whole: only as the  *)
(* last expression, when there are variables left for its values.          *)
Handled(es, n) ==
  \A i \in DOMAIN es : /\ es[i].kind = "elipsis" => i = Len(es) /\ n > i
                       /\ \A j \in DOMAIN es[i].vs : es[i].vs[j] \in Val \cup {Nil}

(* An assignment is simultaneous: its expressions, table fields included,  *)
(* mean the values from before it, so that a, b = b, a swaps; the values   *)
(* are adjusted as in Lua, and nothing else is written.                    *)
AssignmentIsSimultaneous ==
  LET es == [i \in DOMAIN list |-> Morph(list[i], before)]
      n == Len(targets)
  IN  phase = "assigned" /\ Handled(es, n) =>
        \A c \in Cell :
          LET at == {k \in 1..n : targets[k] = c}
          IN  cells[c] = IF at = {} THEN before[c] ELSE LuaAdjust(es, n)[Max(at)]

(* The names of a local statement receive what Lua gives them, and so do   *)
(* those of a for-in whose iterator returns enough values.                 *)
NamesAreAdjusted ==
  phase = "declared" /\ Handled(list, Len(bound))
    /\ (site = "call" \/ Len(list) >= Len(bound) \/ Multiple(Last(list)))
    => \A i \in DOMAIN bound : bound[i] = <<LuaAdjust(list, Len(bound))[i]>>

(* Arguments reach the parameters: each one in front of a multi-valued     *)
(* last argument, and the first value of that, are bound as in Lua, and    *)
(* when there is none the missing parameters are nil; every parameter has  *)
(* a value.                                                                *)
ArgumentsReachParameters ==
  TypeOK /\ (phase = "body" /\ site = "call" =>
    \A i \in 1..formals :
      \/ i < Len(exprs) /\ exprs[i].kind = "elipsis"
      \/ i >= Len(exprs) /\ exprs # << >> /\ Multiple(Last(exprs))
           /\ (i > Len(exprs) \/ Last(exprs).kind = "elipsis")
      \/ params[i] = LuaAdjust(exprs, formals)[i])

-----------------------------------------------------------------------------
(* A statement of the sources the code does not live up to.                *)

(* "Immediately expand the last argument" (visitArgs): the arguments are   *)
(* the values of the expression list.                                      *)
ArgumentsAreExpanded == phase = "call" /\ site = "call" => args = LuaValues(exprs)
=============================================================================
