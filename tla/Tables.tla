------------------------------- MODULE Tables -------------------------------
(***************************************************************************)
(* Lua tables (Types::Table) and the evaluation of t[e] = r by the         *)
(* interpreter.  An assignment first resolves its left side to a pointer,  *)
(* in a mode kept in one member, _var__context, in which missing fields    *)
(* are created; then it evaluates the right side; then it stores through   *)
(* the pointer.  A function called on either side may run assignments of   *)
(* its own in between.                                                     *)
(***************************************************************************)
EXTENDS Integers, SequencesExt

CONSTANTS Table,       \* the tables
          IntKey,      \* integer keys; they are also the values stored
          OtherKey,    \* keys kept in the maps for other types
          BoolKey,     \* the two keys whose fields always exist
          Nil,
          FieldLists,  \* the table constructors that may be evaluated
          Exprs,       \* the expressions that may be evaluated
          MaxSteps     \* bound on assignments and constructors

Key == IntKey \cup OtherKey \cup BoolKey
Value == IntKey \cup {Nil}

(* A field of a constructor: key is <<>> for a positional one.             *)
FieldCtx == [key: {<< >>} \cup {<<k>> : k \in Key \cup {Nil}}, value: Value]

(* The expressions of a subscript or a right side: a constant, a field     *)
(* read, or the call of a function that assigns a field and returns.       *)
Expr == [op: {"const"}, value: Value]
          \cup [op: {"read"}, table: Table, key: Key]
          \cup [op: {"call"}, table: Table, key: Key, stores: Value, value: Value]

(* The ints have a greatest one, and positions in a constructor are ints.  *)
ASSUME TablesAssumption ==
  /\ IntKey \subseteq Int /\ \E top \in IntKey : \A k \in IntKey : k =< top
  /\ \A fl \in FieldLists : DOMAIN fl \subseteq IntKey
  /\ Nil \notin Key
  /\ FieldLists \subseteq Seq(FieldCtx) /\ Exprs \subseteq Expr
  /\ MaxSteps \in Nat

VARIABLES fields,       \* table -> the entries it has, nil values included
          shared_nil,   \* Value::_nil, one object for all missing fields
          var__context, \* _var__context
          pc,           \* where the assignment in progress is
          stat,         \* that assignment: table, subscript, right side
          key,          \* its subscript, once evaluated
          target,       \* its left side: a location, or none for an rvalue
          value,        \* its right side, once evaluated
          steps

work == <<pc, stat, key, target, value, steps>>
vars == <<fields, shared_nil, var__context, work>>

SharedNil == <<"nil">>
NoTarget == << >>
NoStat == << >>

-----------------------------------------------------------------------------
(* Table::border: the end of the first run of positive keys.  Variant: the *)
(* number of positive keys.                                                *)
Positive(f) == {k \in DOMAIN f \cap IntKey : k > 0}
BorderByCount(f) == Cardinality(Positive(f))
Border(f) ==
  IF Positive(f) = {} THEN 0 ELSE Min({k \in Positive(f) : (k + 1) \notin Positive(f)})

(* visitFieldlist and Table::Table: positional fields count on from 1 even *)
(* when they are nil and left out; later fields replace earlier ones.      *)
Positional(fl) == {k \in DOMAIN fl : fl[k].key = << >>}
KeyAt(fl, k) ==
  IF k \in Positional(fl) THEN Cardinality({j \in Positional(fl) : j =< k}) ELSE fl[k].key[1]
Kept(fl) == {k \in DOMAIN fl : IF k \in Positional(fl) THEN fl[k].value # Nil ELSE KeyAt(fl, k) # Nil}
MakeTable(fl) ==
  [x \in BoolKey \cup {KeyAt(fl, k) : k \in Kept(fl)} |->
     LET at == {k \in Kept(fl) : KeyAt(fl, k) = x}
     IN  IF at = {} THEN Nil ELSE fl[Max(at)].value]

(* FieldGetter: the location of a field.  A missing one is created when    *)
(* set_nil, and is the shared nil otherwise.                               *)
Has(t, k) == k \in DOMAIN fields[t]
SubscriptLocation(t, k, set_nil) == IF Has(t, k) \/ set_nil THEN <<t, k>> ELSE SharedNil
Put(f, k, v) == [x \in DOMAIN f \cup {k} |-> IF x = k THEN v ELSE f[x]]

(* Variant: set_nil resets a field that is there.                          *)
WithFieldReset(t, k, set_nil) ==
  IF set_nil THEN [fields EXCEPT ![t] = Put(@, k, Nil)] ELSE fields
WithField(t, k, set_nil) ==
  IF Has(t, k) \/ ~ set_nil THEN fields ELSE [fields EXCEPT ![t] = Put(@, k, Nil)]

(* Variants: missing fields are never created; storing nil removes them.   *)
NeverSetsNil == FALSE
StoreErasing(f, t, k, v) ==
  [f EXCEPT ![t] = IF v = Nil /\ k \notin BoolKey
                   THEN [x \in DOMAIN @ \ {k} |-> @[x]]
                   ELSE Put(@, k, v)]

(* visitVar_ passes _var__context == VARLIST.                              *)
SetsNil == var__context = "VARLIST"
Store(f, t, k, v) == [f EXCEPT ![t] = Put(@, k, v)]

-----------------------------------------------------------------------------
Init ==
  /\ fields = [t \in Table |-> [k \in BoolKey |-> Nil]]
  /\ shared_nil = Nil
  /\ var__context = "OTHER"
  /\ pc = "idle" /\ stat = NoStat /\ key = Nil /\ target = NoTarget /\ value = Nil
  /\ steps = 0

Begin == pc = "idle" /\ steps < MaxSteps /\ steps' = steps + 1

(* t = { ... }                                                             *)
Construct ==
  /\ Begin
  /\ \E t \in Table, fl \in FieldLists : fields' = [fields EXCEPT ![t] = MakeTable(fl)]
  /\ UNCHANGED <<shared_nil, var__context, pc, stat, key, target, value>>

(* visitVarlist, up to the evaluation of the subscript.                    *)
VisitVarlist ==
  /\ Begin
  /\ \E t \in Table, e, r \in Exprs : stat' = [table |-> t, sub |-> e, rhs |-> r]
  /\ var__context' = "VARLIST"
  /\ pc' = "subscript"
  /\ UNCHANGED <<fields, shared_nil, key, target, value>>

(* What an expression evaluates to, and what its evaluation changes in the *)
(* mode that happens to be set.                                            *)
ValueOf(e) ==
  IF e.op # "read" THEN e.value
  ELSE IF Has(e.table, e.key) THEN fields[e.table][e.key] ELSE shared_nil
Evaluate(e) ==
  \/ e.op = "const" /\ UNCHANGED <<fields, var__context>>
  \/ /\ e.op = "read"
     /\ fields' = WithField(e.table, e.key, SetsNil)
     /\ UNCHANGED var__context
  \/ (* The assignment inside the function leaves the mode at OTHER.       *)
     /\ e.op = "call"
     /\ fields' = Store(fields, e.table, e.key, e.stores)
     /\ var__context' = "OTHER"

EvalSubscript ==
  /\ pc = "subscript"
  /\ Evaluate(stat.sub) /\ key' = ValueOf(stat.sub)
  /\ pc' = "resolve"
  /\ UNCHANGED <<shared_nil, stat, target, value, steps>>

(* visitVar_: the field's location; the shared nil is never handed out as  *)
(* a location when the mode is OTHER.  visitVarlist then resets the mode.  *)
Resolve ==
  /\ pc = "resolve" /\ key # Nil
  /\ LET loc == SubscriptLocation(stat.table, key, SetsNil)
     IN  target' = IF loc = SharedNil /\ var__context = "OTHER" THEN NoTarget ELSE loc
  /\ fields' = WithField(stat.table, key, SetsNil)
  /\ var__context' = "OTHER"
  /\ pc' = "rhs"
  /\ UNCHANGED <<shared_nil, stat, key, value, steps>>

(* "No nil allowed in table"                                               *)
NilKey ==
  /\ pc = "resolve" /\ key = Nil
  /\ pc' = "error"
  /\ UNCHANGED <<fields, shared_nil, var__context, stat, key, target, value, steps>>

EvalRhs ==
  /\ pc = "rhs"
  /\ Evaluate(stat.rhs) /\ value' = ValueOf(stat.rhs)
  /\ pc' = "store"
  /\ UNCHANGED <<shared_nil, stat, key, target, steps>>

Assign ==
  /\ pc = "store" /\ target # NoTarget
  /\ IF target = SharedNil
     THEN shared_nil' = value /\ UNCHANGED fields
     ELSE fields' = Store(fields, target[1], target[2], value) /\ UNCHANGED shared_nil
  /\ pc' = "idle" /\ stat' = NoStat /\ key' = Nil /\ target' = NoTarget /\ value' = Nil
  /\ UNCHANGED <<var__context, steps>>

(* "How the hell did you arrive here ?"                                    *)
NotAnLvalue ==
  /\ pc = "store" /\ target = NoTarget
  /\ pc' = "not_lvalue"
  /\ UNCHANGED <<fields, shared_nil, var__context, stat, key, target, value, steps>>

Ended == (pc \in {"error", "not_lvalue"} \/ (pc = "idle" /\ steps = MaxSteps)) /\ UNCHANGED vars

Next ==
  \/ Construct \/ VisitVarlist \/ EvalSubscript \/ Resolve \/ NilKey
  \/ EvalRhs \/ Assign \/ NotAnLvalue \/ Ended

Spec == Init /\ [][Next]_vars

-----------------------------------------------------------------------------
(* The type of every variable; boolean fields always exist.                *)
TypeOK ==
  /\ \A t \in Table : /\ BoolKey \subseteq DOMAIN fields[t] /\ DOMAIN fields[t] \subseteq Key
                      /\ \A k \in DOMAIN fields[t] : fields[t][k] \in Value
  /\ shared_nil \in Value
  /\ var__context \in {"OTHER", "VARLIST"}
  /\ pc \in {"idle", "subscript", "resolve", "rhs", "store", "error", "not_lvalue"}
  /\ stat = NoStat \/ (stat.table \in Table /\ stat.sub \in Expr /\ stat.rhs \in Expr)
  /\ key \in Value \cup Key /\ value \in Value \cup Key
  /\ target \in {NoTarget, SharedNil} \cup (Table \X Key)
  /\ steps \in 0..MaxSteps

(* What a program reads from a field.                                      *)
Reads(f, t, k) == IF k \in DOMAIN f[t] THEN f[t][k] ELSE Nil

(* Value::_nil stands for every missing field of every table and is never  *)
(* written, although stores go through value() and so past the check of    *)
(* Value::operator=.                                                       *)
NilStaysNil == shared_nil = Nil

(* Creating fields is invisible to reads: a field created for a left side, *)
(* or for a read made in the wrong mode, still reads as before; only       *)
(* stores, constructors and calls change what a field reads as.            *)
CreationIsInvisible ==
  [][(pc \in {"resolve", "rhs", "subscript"}) =>
       \A t \in Table, k \in Key :
         Reads(fields', t, k) # Reads(fields, t, k) =>
           \E e \in {stat.sub, stat.rhs} : e.op = "call" /\ e.table = t /\ e.key = k]_vars

(* The pointer an assignment holds while its right side is evaluated stays *)
(* the address of a field, whatever a function called there does.          *)
TargetStaysValid ==
  pc \in {"rhs", "store"} /\ target \notin {NoTarget, SharedNil} =>
    target[2] \in DOMAIN fields[target[1]]

(* Tables stay well typed, and the length operator returns a border of the *)
(* entries: 0 or a positive key that is there, followed by one that is     *)
(* not.                                                                    *)
BorderIsABorder ==
  TypeOK /\ \A t \in Table :
    LET n == Border(fields[t])
    IN  /\ n = 0 \/ n \in Positive(fields[t])
        /\ n + 1 \notin Positive(fields[t])

-----------------------------------------------------------------------------
(* A statement of the sources the code does not live up to.                *)

(* "How the hell did you arrive here ?" (process_stat_var_list): every     *)
(* left side is an lvalue.                                                 *)
LeftSidesAreLvalues == pc # "not_lvalue"
=============================================================================
