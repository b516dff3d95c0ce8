---------------------------- MODULE TablesProofs ----------------------------
(***************************************************************************)
(* Assignments to table fields, for all tables, keys, constructors and     *)
(* expressions: the shared nil is never written, the pointer held while    *)
(* the right side is evaluated stays valid, creating fields is invisible,  *)
(* and the length of a table is a border of its entries.                   *)
(***************************************************************************)
EXTENDS Tables, FiniteSetTheorems, WellFoundedInduction, TLAPS

(* A left side is never the shared nil: in the mode VARLIST a missing      *)
(* field is created, and in the other it yields no location.               *)
LeftSides ==
  /\ var__context \in {"OTHER", "VARLIST"}
  /\ target = NoTarget \/ (target = <<target[1], target[2]>> /\ target[1] \in Table)
  /\ pc \notin {"rhs", "store"} => target = NoTarget

(* The assignment in progress.                                             *)
InProgress ==
  /\ DOMAIN fields = Table
  /\ pc \in {"subscript", "resolve", "rhs", "store"} =>
       stat.table \in Table /\ stat.sub \in Expr /\ stat.rhs \in Expr

Inv == NilStaysNil /\ LeftSides /\ InProgress /\ TargetStaysValid

-----------------------------------------------------------------------------
(* The locations of fields, and the two that are not fields.               *)
LEMMA Locations ==
  /\ NoTarget # SharedNil
  /\ \A t, k : /\ <<t, k>> # NoTarget /\ <<t, k>> # SharedNil
               /\ <<t, k>>[1] = t /\ <<t, k>>[2] = k
  <1>1. Len(SharedNil) = 1 /\ Len(NoTarget) = 0
    BY DEF SharedNil, NoTarget
  <1>2. \A t, k : Len(<<t, k>>) = 2 /\ <<t, k>>[1] = t /\ <<t, k>>[2] = k
    OBVIOUS
  <1>3. ASSUME NEW t, NEW k PROVE <<t, k>> # NoTarget /\ <<t, k>> # SharedNil
    <2>1. Len(<<t, k>>) # Len(NoTarget) /\ Len(<<t, k>>) # Len(SharedNil)
      BY <1>1, <1>2
    <2> QED BY <2>1, Zenon
  <1>4. NoTarget # SharedNil
    BY DEF SharedNil, NoTarget
  <1> QED BY <1>2, <1>3, <1>4, Zenon

(* Store and WithField never remove an entry, and a created field is nil.  *)
LEMMA StoreFacts ==
  ASSUME DOMAIN fields = Table, NEW t \in Table, NEW k, NEW v
  PROVE  /\ DOMAIN Store(fields, t, k, v) = Table
         /\ Store(fields, t, k, v)[t] = Put(fields[t], k, v)
         /\ \A u \in Table : u # t => Store(fields, t, k, v)[u] = fields[u]
         /\ \A u \in Table : DOMAIN fields[u] \subseteq DOMAIN Store(fields, t, k, v)[u]
  <1>1. /\ DOMAIN Store(fields, t, k, v) = Table
        /\ Store(fields, t, k, v)[t] = Put(fields[t], k, v)
        /\ \A u \in Table : u # t => Store(fields, t, k, v)[u] = fields[u]
    BY DEF Store
  <1>2. ASSUME NEW u \in Table
        PROVE  DOMAIN fields[u] \subseteq DOMAIN Store(fields, t, k, v)[u]
    <2>1. CASE u = t
      <3>1. DOMAIN Put(fields[t], k, v) = DOMAIN fields[t] \cup {k}
        BY DEF Put
      <3> QED BY <1>1, <2>1, <3>1
    <2>2. CASE u # t
      BY <1>1, <2>2
    <2> QED BY <2>1, <2>2
  <1> QED BY <1>1, <1>2

LEMMA WithFieldFacts ==
  ASSUME DOMAIN fields = Table, NEW t \in Table, NEW k, NEW set_nil \in BOOLEAN
  PROVE  /\ DOMAIN WithField(t, k, set_nil) = Table
         /\ \A u \in Table : DOMAIN fields[u] \subseteq DOMAIN WithField(t, k, set_nil)[u]
         /\ set_nil => k \in DOMAIN WithField(t, k, set_nil)[t]
         /\ \A u \in Table : \A x : Reads(WithField(t, k, set_nil), u, x) = Reads(fields, u, x)
  <1>1. CASE Has(t, k) \/ ~ set_nil
    <2>1. WithField(t, k, set_nil) = fields
      BY <1>1 DEF WithField
    <2>2. set_nil => k \in DOMAIN fields[t]
      BY <1>1 DEF Has
    <2> QED BY <2>1, <2>2 DEF Reads
  <1>2. CASE ~ (Has(t, k) \/ ~ set_nil)
    <2> DEFINE w == Store(fields, t, k, Nil)
    <2>1. WithField(t, k, set_nil) = w
      BY <1>2 DEF WithField, Store
    <2>2. k \notin DOMAIN fields[t]
      BY <1>2 DEF Has
    <2>3. /\ DOMAIN w = Table /\ w[t] = Put(fields[t], k, Nil)
          /\ \A u \in Table : u # t => w[u] = fields[u]
          /\ \A u \in Table : DOMAIN fields[u] \subseteq DOMAIN w[u]
      BY StoreFacts
    <2>4. /\ DOMAIN w[t] = DOMAIN fields[t] \cup {k} /\ w[t][k] = Nil
          /\ \A x \in DOMAIN fields[t] : w[t][x] = fields[t][x]
      BY <2>2, <2>3 DEF Put
    <2> HIDE DEF w
    <2>5. \A u \in Table : \A x : Reads(w, u, x) = Reads(fields, u, x)
      <3> TAKE u \in Table
      <3> TAKE x
      <3>1. CASE u # t
        BY <2>3, <3>1 DEF Reads
      <3>2. CASE u = t
        BY <2>2, <2>4, <3>2 DEF Reads
      <3> QED BY <3>1, <3>2
    <2> QED BY <2>1, <2>3, <2>4, <2>5
  <1> QED BY <1>1, <1>2

(* Evaluating an expression removes no field, whichever mode it runs in,   *)
(* and changes what a field reads as only when it calls a function that    *)
(* assigns that field.                                                     *)
LEMMA EvaluateFacts ==
  ASSUME DOMAIN fields = Table, var__context \in {"OTHER", "VARLIST"}, NEW e \in Expr, Evaluate(e)
  PROVE  /\ DOMAIN fields' = Table
         /\ \A u \in Table : DOMAIN fields[u] \subseteq DOMAIN fields'[u]
         /\ var__context' \in {"OTHER", "VARLIST"}
         /\ \A u \in Table : \A x : Reads(fields', u, x) # Reads(fields, u, x) =>
               e.op = "call" /\ e.table = u /\ e.key = x
  <1>1. CASE e.op = "const"
    BY <1>1 DEF Evaluate
  <1>2. CASE e.op = "read"
    <2>1. fields' = WithField(e.table, e.key, SetsNil) /\ var__context' = var__context
      BY <1>2 DEF Evaluate
    <2>2. e.table \in Table /\ SetsNil \in BOOLEAN
      BY <1>2 DEF Expr, SetsNil
    <2> QED BY <2>1, <2>2, WithFieldFacts
  <1>3. CASE e.op = "call"
    <2>1. fields' = Store(fields, e.table, e.key, e.stores) /\ var__context' = "OTHER"
      BY <1>3 DEF Evaluate
    <2>2. e.table \in Table
      BY <1>3 DEF Expr
    <2>3. /\ DOMAIN fields' = Table /\ fields'[e.table] = Put(fields[e.table], e.key, e.stores)
          /\ \A u \in Table : u # e.table => fields'[u] = fields[u]
          /\ \A u \in Table : DOMAIN fields[u] \subseteq DOMAIN fields'[u]
      BY <2>1, <2>2, StoreFacts
    <2>4. ASSUME NEW u \in Table, NEW x, ~ (u = e.table /\ x = e.key)
          PROVE  Reads(fields', u, x) = Reads(fields, u, x)
      <3>1. CASE u # e.table
        BY <2>3, <3>1 DEF Reads
      <3>2. CASE u = e.table
        <4>1. x # e.key
          BY <2>4, <3>2
        <4> QED BY <2>3, <3>2, <4>1 DEF Reads, Put
      <3> QED BY <3>1, <3>2
    <2> QED BY <1>3, <2>1, <2>3, <2>4
  <1> QED BY <1>1, <1>2, <1>3 DEF Expr

-----------------------------------------------------------------------------
LEMMA InvInit == Init => Inv
  BY DEF Init, Inv, NilStaysNil, LeftSides, InProgress, TargetStaysValid

LEMMA InvNext == Inv /\ [Next]_vars => Inv'
  <1> SUFFICES ASSUME Inv, [Next]_vars PROVE Inv'
    OBVIOUS
  <1>1. /\ shared_nil = Nil /\ LeftSides /\ InProgress /\ TargetStaysValid
        /\ DOMAIN fields = Table /\ var__context \in {"OTHER", "VARLIST"}
    BY DEF Inv, NilStaysNil, LeftSides, InProgress
  <1>2. CASE Construct
    <2>1. /\ DOMAIN fields' = Table /\ pc = "idle" /\ pc' = "idle"
          /\ UNCHANGED <<shared_nil, var__context, target, stat>>
      BY <1>1, <1>2 DEF Construct, Begin
    <2> QED BY <1>1, <2>1 DEF Inv, NilStaysNil, LeftSides, InProgress, TargetStaysValid
  <1>3. CASE VisitVarlist
    <2>1. PICK t \in Table, e \in Exprs, r \in Exprs : stat' = [table |-> t, sub |-> e, rhs |-> r]
      BY <1>3 DEF VisitVarlist
    <2>2. stat'.table \in Table /\ stat'.sub \in Expr /\ stat'.rhs \in Expr
      BY <2>1, TablesAssumption
    <2>3. /\ pc = "idle" /\ pc' = "subscript" /\ var__context' = "VARLIST"
          /\ UNCHANGED <<fields, shared_nil, target>>
      BY <1>3 DEF VisitVarlist, Begin
    <2> QED BY <1>1, <2>2, <2>3 DEF Inv, NilStaysNil, LeftSides, InProgress, TargetStaysValid
  <1>4. CASE EvalSubscript
    <2>1. /\ pc = "subscript" /\ pc' = "resolve" /\ Evaluate(stat.sub)
          /\ UNCHANGED <<shared_nil, stat, target>>
      BY <1>4 DEF EvalSubscript
    <2>2. stat.sub \in Expr
      BY <1>1, <2>1 DEF InProgress
    <2>3. DOMAIN fields' = Table /\ var__context' \in {"OTHER", "VARLIST"}
      BY <1>1, <2>1, <2>2, EvaluateFacts
    <2> QED BY <1>1, <2>1, <2>3 DEF Inv, NilStaysNil, LeftSides, InProgress, TargetStaysValid
  <1>5. CASE Resolve
    <2>1. /\ pc = "resolve" /\ pc' = "rhs" /\ var__context' = "OTHER"
          /\ fields' = WithField(stat.table, key, SetsNil)
          /\ UNCHANGED <<shared_nil, stat>>
      BY <1>5 DEF Resolve
    <2>2. stat.table \in Table /\ SetsNil \in BOOLEAN
      BY <1>1, <2>1 DEF InProgress, SetsNil
    <2>3. /\ DOMAIN fields' = Table
          /\ \A u \in Table : DOMAIN fields[u] \subseteq DOMAIN fields'[u]
          /\ SetsNil => key \in DOMAIN fields'[stat.table]
      BY <1>1, <2>1, <2>2, WithFieldFacts
    <2>4. \/ target' = NoTarget
          \/ target' = <<stat.table, key>> /\ key \in DOMAIN fields'[stat.table]
      <3>1. CASE Has(stat.table, key) \/ SetsNil
        <4>1. SubscriptLocation(stat.table, key, SetsNil) = <<stat.table, key>>
          BY <3>1 DEF SubscriptLocation
        <4>2. key \in DOMAIN fields'[stat.table]
          BY <2>2, <2>3, <3>1 DEF Has
        <4> QED BY <1>5, <4>1, <4>2, Locations DEF Resolve
      <3>2. CASE ~ (Has(stat.table, key) \/ SetsNil)
        <4>1. SubscriptLocation(stat.table, key, SetsNil) = SharedNil /\ var__context = "OTHER"
          BY <1>1, <3>2 DEF SubscriptLocation, SetsNil
        <4> QED BY <1>5, <4>1 DEF Resolve
      <3> QED BY <3>1, <3>2
    <2>5. LeftSides' /\ TargetStaysValid'
      BY <2>1, <2>2, <2>4, Locations DEF LeftSides, TargetStaysValid
    <2> QED BY <1>1, <2>1, <2>3, <2>5 DEF Inv, NilStaysNil, InProgress
  <1>6. CASE EvalRhs
    <2>1. /\ pc = "rhs" /\ pc' = "store" /\ Evaluate(stat.rhs)
          /\ UNCHANGED <<shared_nil, stat, target>>
      BY <1>6 DEF EvalRhs
    <2>2. stat.rhs \in Expr
      BY <1>1, <2>1 DEF InProgress
    <2>3. /\ DOMAIN fields' = Table /\ var__context' \in {"OTHER", "VARLIST"}
          /\ \A u \in Table : DOMAIN fields[u] \subseteq DOMAIN fields'[u]
      BY <1>1, <2>1, <2>2, EvaluateFacts
    <2>4. TargetStaysValid'
      BY <1>1, <2>1, <2>3 DEF LeftSides, TargetStaysValid
    <2> QED BY <1>1, <2>1, <2>3, <2>4 DEF Inv, NilStaysNil, LeftSides, InProgress
  <1>7. CASE Assign
    <2>1. pc = "store" /\ pc' = "idle" /\ target # NoTarget /\ target' = NoTarget /\ UNCHANGED var__context
      BY <1>7 DEF Assign
    <2>2. target # SharedNil /\ target[1] \in Table
      BY <1>1, <2>1, Locations DEF LeftSides
    <2>3. fields' = Store(fields, target[1], target[2], value) /\ UNCHANGED shared_nil
      BY <1>7, <2>2 DEF Assign
    <2>4. DOMAIN fields' = Table
      BY <1>1, <2>2, <2>3, StoreFacts
    <2> QED BY <1>1, <2>1, <2>3, <2>4 DEF Inv, NilStaysNil, LeftSides, InProgress, TargetStaysValid
  <1>8. CASE NilKey \/ NotAnLvalue
    BY <1>1, <1>8 DEF NilKey, NotAnLvalue, Inv, NilStaysNil, LeftSides, InProgress, TargetStaysValid
  <1>9. CASE Ended \/ UNCHANGED vars
    BY <1>1, <1>9 DEF Ended, vars, work, Inv, NilStaysNil, LeftSides, InProgress, TargetStaysValid
  <1> QED BY <1>2, <1>3, <1>4, <1>5, <1>6, <1>7, <1>8, <1>9 DEF Next

(* Value::_nil, which every missing field of every table shares, is never  *)
(* written by an assignment, also when a call inside the left side has     *)
(* changed the mode.                                                       *)
THEOREM NilIsNeverWritten == Spec => []NilStaysNil
  <1>1. Inv => NilStaysNil
    BY DEF Inv
  <1> QED BY <1>1, InvInit, InvNext, PTL DEF Spec

(* The pointer process_stat_var_list stores through is still the address   *)
(* of a field after the right side has run.                                *)
THEOREM TargetsStayValid == Spec => []TargetStaysValid
  <1>1. Inv => TargetStaysValid
    BY DEF Inv
  <1> QED BY <1>1, InvInit, InvNext, PTL DEF Spec

(* Fields created for a left side, or for a read made in the wrong mode,   *)
(* read as nil, as they did before; while an assignment is evaluated only  *)
(* the functions it calls change what a field reads as.                    *)
THEOREM CreatedFieldsAreInvisible == Spec => CreationIsInvisible
  <1> DEFINE Called(t, k) == \E e \in {stat.sub, stat.rhs} : e.op = "call" /\ e.table = t /\ e.key = k
             Quiet == pc \in {"resolve", "rhs", "subscript"} =>
                        \A t \in Table, k \in Key :
                          Reads(fields', t, k) # Reads(fields, t, k) => Called(t, k)
  <1>1. Inv /\ [Next]_vars => [Quiet]_vars
    <2> SUFFICES ASSUME Inv, Next, pc \in {"resolve", "rhs", "subscript"},
                        NEW t \in Table, NEW k \in Key, Reads(fields', t, k) # Reads(fields, t, k)
                 PROVE  Called(t, k)
      OBVIOUS
    <2>1. DOMAIN fields = Table /\ var__context \in {"OTHER", "VARLIST"}
      BY DEF Inv, InProgress, LeftSides
    <2>2. stat.table \in Table /\ stat.sub \in Expr /\ stat.rhs \in Expr
      BY DEF Inv, InProgress
    <2>3. fields' # fields
      OBVIOUS
    <2>4. CASE EvalSubscript
      BY <2>1, <2>2, <2>4, EvaluateFacts DEF EvalSubscript
    <2>5. CASE EvalRhs
      BY <2>1, <2>2, <2>5, EvaluateFacts DEF EvalRhs
    <2>6. CASE Resolve
      <3>1. fields' = WithField(stat.table, key, SetsNil) /\ SetsNil \in BOOLEAN
        BY <2>6 DEF Resolve, SetsNil
      <3> QED BY <2>1, <2>2, <3>1, WithFieldFacts
    <2>7. CASE NilKey \/ NotAnLvalue \/ Ended
      BY <2>3, <2>7 DEF NilKey, NotAnLvalue, Ended, vars
    <2>8. CASE Construct \/ VisitVarlist \/ Assign
      BY <2>8 DEF Construct, VisitVarlist, Begin, Assign
    <2> QED BY <2>4, <2>5, <2>6, <2>7, <2>8 DEF Next
  <1> QED BY <1>1, InvInit, InvNext, PTL DEF Spec, CreationIsInvisible

-----------------------------------------------------------------------------
(* Least and greatest keys.                                                *)
LEMMA LeastNat ==
  ASSUME NEW T, T \subseteq Nat, T # {}
  PROVE  \E x \in T : \A y \in T : x =< y
  <1> DEFINE R == {p \in Nat \X Nat : p[1] < p[2]}
  <1>1. IsWellFoundedOn(R, Nat)
    BY NatLessThanWellFounded DEF OpToRel
  <1>2. \A y, x \in Nat : y < x => <<y, x>> \in R
    OBVIOUS
  <1> HIDE DEF R
  <1>3. PICK x \in T : \A y \in T : ~ (<<y, x>> \in R)
    BY <1>1, WFMin
  <1>4. ASSUME NEW y \in T PROVE x =< y
    <2>1. x \in Nat /\ y \in Nat /\ ~ (y < x)
      BY <1>2, <1>3
    <2> QED BY <2>1
  <1> QED BY <1>4

LEMMA GreatestInt ==
  ASSUME NEW T, T \subseteq Int, T # {}, NEW top \in Int, \A k \in T : k =< top
  PROVE  \E x \in T : \A y \in T : x >= y
  <1> DEFINE U == {top - k : k \in T}
  <1>1. U \subseteq Nat /\ U # {}
    <2>1. \A k \in T : top - k \in Nat
      OBVIOUS
    <2> QED BY <2>1
  <1>2. PICK u \in U : \A w \in U : u =< w
    <2> HIDE DEF U
    <2> QED BY <1>1, LeastNat
  <1>3. PICK x \in T : u = top - x
    OBVIOUS
  <1>4. \A y \in T : top - y \in U
    OBVIOUS
  <1>5. \A y \in T : x >= y
    <2> HIDE DEF U
    <2> QED BY <1>2, <1>3, <1>4
  <1> QED BY <1>5

LEMMA MinFacts ==
  ASSUME NEW T, T \subseteq Nat, T # {}
  PROVE  Min(T) \in T
  <1>1. \E x \in T : \A y \in T : x =< y
    BY LeastNat
  <1> QED BY <1>1 DEF Min

LEMMA MaxFacts ==
  ASSUME NEW T, T \subseteq Int, T # {}, NEW top \in Int, \A k \in T : k =< top
  PROVE  Max(T) \in T
  <1>1. \E x \in T : \A y \in T : x >= y
    BY GreatestInt
  <1> QED BY <1>1 DEF Max

(* Table::border returns the end of a run of positive keys.                *)
LEMMA BorderFacts ==
  ASSUME NEW f
  PROVE  /\ Border(f) = 0 \/ Border(f) \in Positive(f)
         /\ Border(f) + 1 \notin Positive(f)
  <1> DEFINE P == Positive(f)
             E == {k \in P : (k + 1) \notin P}
  <1>1. P \subseteq IntKey /\ P \subseteq Nat /\ 0 \notin P
    BY TablesAssumption DEF Positive
  <1>2. CASE P = {}
    BY <1>2 DEF Border
  <1>3. CASE P # {}
    <2>1. PICK top \in IntKey : \A k \in IntKey : k =< top
      BY TablesAssumption
    <2>2. top \in Int /\ P \subseteq Int /\ \A k \in P : k =< top
      BY <1>1, <2>1, TablesAssumption
    <2> HIDE DEF P
    <2>3. PICK x \in P : \A y \in P : x >= y
      BY <1>3, <2>2, GreatestInt
    <2>4. x \in Int /\ x + 1 \notin P
      BY <2>2, <2>3
    <2>5. E # {} /\ E \subseteq Nat
      BY <1>1, <2>3, <2>4
    <2> HIDE DEF E
    <2>6. Min(E) \in E
      BY <2>5, MinFacts
    <2>7. Border(f) = Min(E)
      BY <1>3 DEF Border, P, E
    <2> QED BY <2>6, <2>7 DEF P, E
  <1> QED BY <1>2, <1>3

-----------------------------------------------------------------------------
(* An entry list is well formed: the boolean fields are there and all the  *)
(* others are keys and values.                                             *)
Entries(f) ==
  /\ BoolKey \subseteq DOMAIN f /\ DOMAIN f \subseteq Key
  /\ \A k \in DOMAIN f : f[k] \in Value

(* The strengthening of TypeOK: subscripts and right sides are values, and *)
(* a subscript that resolved is a key.                                     *)
Typed ==
  /\ TypeOK /\ key \in Value /\ value \in Value

(* The k-th field of a constructor, when it is positional, is at one of    *)
(* the positions up to k.                                                  *)
LEMMA PositionFacts ==
  ASSUME NEW fl \in FieldLists, NEW k \in Positional(fl)
  PROVE  KeyAt(fl, k) \in IntKey
  <1> DEFINE Before == {j \in Positional(fl) : j =< k}
  <1>1. fl \in Seq(FieldCtx) /\ DOMAIN fl = 1..Len(fl) /\ Len(fl) \in Nat /\ DOMAIN fl \subseteq IntKey
    BY TablesAssumption
  <1>2. k \in 1..Len(fl) /\ Before \subseteq 1..k /\ k \in Before
    BY <1>1 DEF Positional
  <1>3. IsFiniteSet(1..k) /\ Cardinality(1..k) = k
    BY <1>2, FS_Interval
  <1> HIDE DEF Before
  <1>4. /\ IsFiniteSet(Before) /\ Cardinality(Before) =< k /\ Cardinality(Before) \in Nat
        /\ Cardinality(Before) # 0
    <2>1. IsFiniteSet(Before) /\ Cardinality(Before) =< Cardinality(1..k)
      BY <1>2, <1>3, FS_Subset
    <2>2. Cardinality(Before) \in Nat
      BY <2>1, FS_CardinalityType
    <2>3. Cardinality(Before) # 0
      BY <1>2, <2>1, FS_EmptySet
    <2> QED BY <1>3, <2>1, <2>2, <2>3
  <1>5. Cardinality(Before) \in 1..Len(fl)
    BY <1>1, <1>2, <1>4
  <1> QED BY <1>1, <1>5 DEF KeyAt, Before

(* What visitFieldlist builds is well formed.                              *)
LEMMA MakeTableFacts ==
  ASSUME NEW fl \in FieldLists
  PROVE  Entries(MakeTable(fl))
  <1>1. fl \in Seq(FieldCtx) /\ DOMAIN fl = 1..Len(fl) /\ Len(fl) \in Nat
    BY TablesAssumption
  <1>2. ASSUME NEW k \in DOMAIN fl PROVE fl[k] \in FieldCtx
    BY <1>1
  <1>3. ASSUME NEW k \in Kept(fl) PROVE KeyAt(fl, k) \in Key
    <2>1. CASE k \in Positional(fl)
      BY <2>1, PositionFacts DEF Key
    <2>2. CASE k \notin Positional(fl)
      <3>1. k \in DOMAIN fl /\ fl[k].key # << >> /\ KeyAt(fl, k) # Nil
        BY <2>2 DEF Kept, Positional
      <3>2. fl[k].key \in {<<x>> : x \in Key \cup {Nil}}
        BY <1>2, <3>1 DEF FieldCtx
      <3>3. PICK x \in Key \cup {Nil} : fl[k].key = <<x>>
        BY <3>2
      <3> QED BY <2>2, <3>1, <3>3 DEF KeyAt
    <2> QED BY <2>1, <2>2
  <1> DEFINE At(x) == {k \in Kept(fl) : KeyAt(fl, k) = x}
  <1>4. ASSUME NEW x, At(x) # {} PROVE fl[Max(At(x))].value \in Value
    <2>1. At(x) \subseteq DOMAIN fl
      BY DEF Kept
    <2> DEFINE S == At(x)
    <2>2. S # {} /\ S \subseteq DOMAIN fl
      BY <1>4, <2>1
    <2> HIDE DEF S
    <2>3. S \subseteq Int /\ \A k \in S : k =< Len(fl)
      BY <1>1, <2>2
    <2>5. Max(S) \in S
      BY <1>1, <2>2, <2>3, MaxFacts
    <2>6. fl[Max(S)] \in FieldCtx
      BY <1>2, <2>2, <2>5
    <2>7. fl[Max(S)].value \in Value
      BY <2>6 DEF FieldCtx
    <2> QED BY <2>7 DEF S
  <1>5. /\ DOMAIN MakeTable(fl) = BoolKey \cup {KeyAt(fl, k) : k \in Kept(fl)}
        /\ \A x \in DOMAIN MakeTable(fl) :
             MakeTable(fl)[x] = IF At(x) = {} THEN Nil ELSE fl[Max(At(x))].value
    BY DEF MakeTable
  <1> HIDE DEF At
  <1>6. DOMAIN MakeTable(fl) \subseteq Key
    BY <1>3, <1>5 DEF Key
  <1>7. \A x \in DOMAIN MakeTable(fl) : MakeTable(fl)[x] \in Value
    BY <1>4, <1>5 DEF Value
  <1> QED BY <1>5, <1>6, <1>7 DEF Entries

(* Storing and creating fields keep tables well formed, and so does the    *)
(* evaluation of an expression, whose value is a value of Lua.             *)
LEMMA StoreEntries ==
  ASSUME DOMAIN fields = Table, \A u \in Table : Entries(fields[u]),
         NEW t \in Table, NEW k \in Key, NEW v \in Value
  PROVE  \A u \in Table : Entries(Store(fields, t, k, v)[u])
  <1>1. Entries(Put(fields[t], k, v))
    <2> DEFINE p == Put(fields[t], k, v)
    <2>1. /\ DOMAIN p = DOMAIN fields[t] \cup {k}
          /\ \A x \in DOMAIN p : p[x] = IF x = k THEN v ELSE fields[t][x]
      BY DEF Put
    <2> HIDE DEF p
    <2>2. Entries(fields[t])
      OBVIOUS
    <2>3. Entries(p)
      BY <2>1, <2>2 DEF Entries
    <2> QED BY <2>3 DEF p
  <1> QED BY <1>1, StoreFacts

LEMMA WithFieldEntries ==
  ASSUME DOMAIN fields = Table, \A u \in Table : Entries(fields[u]),
         NEW t \in Table, NEW k \in Key, NEW set_nil \in BOOLEAN
  PROVE  \A u \in Table : Entries(WithField(t, k, set_nil)[u])
  <1>1. WithField(t, k, set_nil) \in {fields, Store(fields, t, k, Nil)}
    BY DEF WithField, Store
  <1>2. \A u \in Table : Entries(Store(fields, t, k, Nil)[u])
    BY StoreEntries DEF Value
  <1> QED BY <1>1, <1>2

LEMMA EvaluateEntries ==
  ASSUME DOMAIN fields = Table, \A u \in Table : Entries(fields[u]), shared_nil \in Value,
         NEW e \in Expr, Evaluate(e)
  PROVE  (\A u \in Table : Entries(fields'[u])) /\ ValueOf(e) \in Value
  <1>1. CASE e.op = "const"
    <2>1. e.value \in Value
      BY <1>1 DEF Expr
    <2> QED BY <1>1, <2>1 DEF Evaluate, ValueOf
  <1>2. CASE e.op = "read"
    <2>1. e.table \in Table /\ e.key \in Key /\ SetsNil \in BOOLEAN
      BY <1>2 DEF Expr, SetsNil
    <2>2. fields' = WithField(e.table, e.key, SetsNil)
      BY <1>2 DEF Evaluate
    <2>3. ValueOf(e) \in Value
      BY <1>2, <2>1 DEF ValueOf, Has, Entries
    <2> QED BY <2>1, <2>2, <2>3, WithFieldEntries
  <1>3. CASE e.op = "call"
    <2>1. e.table \in Table /\ e.key \in Key /\ e.stores \in Value /\ e.value \in Value
      BY <1>3 DEF Expr
    <2>2. fields' = Store(fields, e.table, e.key, e.stores)
      BY <1>3 DEF Evaluate
    <2>3. ValueOf(e) \in Value
      BY <1>3, <2>1 DEF ValueOf
    <2> QED BY <2>1, <2>2, <2>3, StoreEntries
  <1> QED BY <1>1, <1>2, <1>3 DEF Expr

LEMMA TypedInit == Init => Typed
  <1> SUFFICES ASSUME Init PROVE Typed
    OBVIOUS
  <1>1. ASSUME NEW t \in Table PROVE Entries(fields[t])
    <2>1. fields[t] = [k \in BoolKey |-> Nil]
      BY DEF Init
    <2> QED BY <2>1 DEF Entries, Key, Value
  <1> QED BY <1>1, TablesAssumption DEF Init, Typed, TypeOK, Entries, Value

LEMMA TypedNext == Typed /\ Inv /\ [Next]_vars => Typed'
  <1> SUFFICES ASSUME Typed, Inv, [Next]_vars PROVE Typed'
    OBVIOUS
  <1> DEFINE Rest == /\ shared_nil \in Value
                     /\ var__context \in {"OTHER", "VARLIST"}
                     /\ pc \in {"idle", "subscript", "resolve", "rhs", "store", "error", "not_lvalue"}
                     /\ stat = NoStat \/ (stat.table \in Table /\ stat.sub \in Expr /\ stat.rhs \in Expr)
                     /\ key \in Value /\ value \in Value
                     /\ target \in {NoTarget, SharedNil} \cup (Table \X Key)
                     /\ steps \in 0..MaxSteps
  <1>1. (\A t \in Table : Entries(fields[t])) /\ Rest
    BY DEF Typed, TypeOK, Entries
  <1>2. DOMAIN fields = Table
    BY DEF Inv, InProgress
  <1>3. pc \in {"subscript", "resolve", "rhs", "store"} =>
          stat.table \in Table /\ stat.sub \in Expr /\ stat.rhs \in Expr
    BY DEF Inv, InProgress
  <1>4. SUFFICES (\A t \in Table : Entries(fields'[t])) /\ Rest'
    BY <1>4 DEF Typed, TypeOK, Entries
  <1>5. MaxSteps \in Nat /\ Nil \in Value
    BY TablesAssumption DEF Value
  <1>6. CASE Construct
    <2>1. PICK t \in Table, fl \in FieldLists : fields' = [fields EXCEPT ![t] = MakeTable(fl)]
      BY <1>6 DEF Construct
    <2>2. \A u \in Table : Entries(fields'[u])
      BY <1>1, <1>2, <2>1, MakeTableFacts
    <2>3. Rest'
      BY <1>1, <1>5, <1>6 DEF Construct, Begin
    <2> QED BY <2>2, <2>3
  <1>7. CASE VisitVarlist
    <2>1. PICK t \in Table, e \in Exprs, r \in Exprs : stat' = [table |-> t, sub |-> e, rhs |-> r]
      BY <1>7 DEF VisitVarlist
    <2>2. stat'.table \in Table /\ stat'.sub \in Expr /\ stat'.rhs \in Expr
      BY <2>1, TablesAssumption
    <2> QED BY <1>1, <1>5, <1>7, <2>2 DEF VisitVarlist, Begin
  <1>8. CASE EvalSubscript
    <2>1. stat.sub \in Expr /\ Evaluate(stat.sub) /\ key' = ValueOf(stat.sub)
      BY <1>3, <1>8 DEF EvalSubscript
    <2>2. (\A u \in Table : Entries(fields'[u])) /\ key' \in Value
      BY <1>1, <1>2, <2>1, EvaluateEntries
    <2>3. var__context' \in {"OTHER", "VARLIST"}
      BY <1>1, <2>1 DEF Evaluate
    <2> QED BY <1>1, <1>8, <2>2, <2>3 DEF EvalSubscript
  <1>9. CASE Resolve
    <2>1. stat.table \in Table /\ key \in Key /\ SetsNil \in BOOLEAN
      BY <1>1, <1>3, <1>9 DEF Resolve, Key, Value, SetsNil
    <2>2. \A u \in Table : Entries(fields'[u])
      BY <1>1, <1>2, <1>9, <2>1, WithFieldEntries DEF Resolve
    <2>3. target' \in {NoTarget, SharedNil} \cup (Table \X Key)
      <3>1. <<stat.table, key>> \in Table \X Key
        BY <2>1
      <3> QED BY <1>9, <3>1 DEF Resolve, SubscriptLocation
    <2> QED BY <1>1, <1>9, <2>2, <2>3 DEF Resolve
  <1>10. CASE EvalRhs
    <2>1. stat.rhs \in Expr /\ Evaluate(stat.rhs) /\ value' = ValueOf(stat.rhs)
      BY <1>3, <1>10 DEF EvalRhs
    <2>2. (\A u \in Table : Entries(fields'[u])) /\ value' \in Value
      BY <1>1, <1>2, <2>1, EvaluateEntries
    <2>3. var__context' \in {"OTHER", "VARLIST"}
      BY <1>1, <2>1 DEF Evaluate
    <2> QED BY <1>1, <1>10, <2>2, <2>3 DEF EvalRhs
  <1>11. CASE Assign
    <2>1. CASE target = SharedNil
      BY <1>1, <1>5, <1>11, <2>1 DEF Assign
    <2>2. CASE target # SharedNil
      <3>1. target \in Table \X Key
        BY <1>1, <1>11, <2>2 DEF Assign
      <3>2. target[1] \in Table /\ target[2] \in Key
        BY <3>1
      <3>3. \A u \in Table : Entries(fields'[u])
        BY <1>1, <1>2, <1>11, <2>2, <3>2, StoreEntries DEF Assign
      <3> QED BY <1>1, <1>5, <1>11, <2>2, <3>3 DEF Assign
    <2> QED BY <2>1, <2>2
  <1>12. CASE NilKey \/ NotAnLvalue
    BY <1>1, <1>12 DEF NilKey, NotAnLvalue
  <1>13. CASE Ended \/ UNCHANGED vars
    BY <1>1, <1>13 DEF Ended, vars, work
  <1> QED
    BY <1>6, <1>7, <1>8, <1>9, <1>10, <1>11, <1>12, <1>13 DEF Next

(* Whatever constructors, assignments and calls have done to a table, its  *)
(* entries are keys and values, its boolean fields exist, and              *)
(* Table::border, the length operator, returns a border: 0 or a positive   *)
(* key that is there, whose successor is not.                              *)
THEOREM LengthIsABorder == Spec => []BorderIsABorder
  <1>1. Typed => BorderIsABorder
    BY BorderFacts DEF Typed, BorderIsABorder
  <1> QED BY <1>1, InvInit, InvNext, TypedInit, TypedNext, PTL DEF Spec
=============================================================================
