--------------------------- MODULE ClosuresProofs ---------------------------
(***************************************************************************)
(* Proofs about the names, stacks and pointers of the interpreter, for     *)
(* every program and every sequence of files: what the activations say of  *)
(* _blocks, _local_values and _functions, and that every pointer is to     *)
(* something that was allocated.                                           *)
(***************************************************************************)
EXTENDS Closures, FiniteSetTheorems, SequenceTheorems, WellFoundedInduction, TLAPS

-----------------------------------------------------------------------------
(* Sequences.                                                              *)

LEMMA LenFacts ==
  ASSUME NEW A, NEW s \in Seq(A)
  PROVE  /\ Len(s) \in Nat
         /\ DOMAIN s = 1 .. Len(s)
         /\ s # << >> <=> Len(s) >= 1
         /\ \A k \in DOMAIN s : s[k] \in A
         /\ s # << >> => Last(s) \in A /\ Last(s) = s[Len(s)]
  <1>1. Len(s) \in Nat /\ DOMAIN s = 1 .. Len(s) /\ \A k \in DOMAIN s : s[k] \in A
    OBVIOUS
  <1>2. s # << >> <=> Len(s) >= 1
    OBVIOUS
  <1>3. s # << >> => Last(s) \in A /\ Last(s) = s[Len(s)]
    BY <1>1, <1>2 DEF Last
  <1> QED BY <1>1, <1>2, <1>3

LEMMA AppendFacts ==
  ASSUME NEW A, NEW s \in Seq(A), NEW a \in A
  PROVE  /\ Append(s, a) \in Seq(A)
         /\ Len(Append(s, a)) = Len(s) + 1
         /\ DOMAIN Append(s, a) = 1 .. (Len(s) + 1)
         /\ \A k \in 1 .. Len(s) : Append(s, a)[k] = s[k]
         /\ Append(s, a)[Len(s) + 1] = a
  OBVIOUS

LEMMA PrefixFacts ==
  ASSUME NEW A, NEW s \in Seq(A), NEW n \in 0 .. Len(s)
  PROVE  /\ SubSeq(s, 1, n) \in Seq(A)
         /\ Len(SubSeq(s, 1, n)) = n
         /\ DOMAIN SubSeq(s, 1, n) = 1 .. n
         /\ \A k \in 1 .. n : SubSeq(s, 1, n)[k] = s[k]
  OBVIOUS

LEMMA FrontFacts ==
  ASSUME NEW A, NEW s \in Seq(A), s # << >>
  PROVE  /\ Front(s) = SubSeq(s, 1, Len(s) - 1)
         /\ Len(s) - 1 \in 0 .. Len(s)
         /\ Front(s) \in Seq(A)
         /\ Len(Front(s)) = Len(s) - 1
         /\ DOMAIN Front(s) = 1 .. (Len(s) - 1)
         /\ \A k \in 1 .. (Len(s) - 1) : Front(s)[k] = s[k]
  <1>1. Len(s) >= 1 /\ Len(s) \in Nat
    BY LenFacts
  <1>2. Len(s) - 1 \in 0 .. Len(s)
    BY <1>1
  <1> QED BY <1>2, PrefixFacts DEF Front

LEMMA TailFacts ==
  ASSUME NEW A, NEW s \in Seq(A), s # << >>
  PROVE  /\ Tail(s) \in Seq(A)
         /\ Head(s) \in A /\ Head(s) = s[1]
         /\ Len(Tail(s)) = Len(s) - 1
         /\ DOMAIN Tail(s) = 1 .. (Len(s) - 1)
         /\ \A k \in 1 .. (Len(s) - 1) : Tail(s)[k] = s[k + 1]
  OBVIOUS

LEMMA ConcatFacts ==
  ASSUME NEW A, NEW s \in Seq(A), NEW t \in Seq(A)
  PROVE  /\ s \o t \in Seq(A)
         /\ Len(s \o t) = Len(s) + Len(t)
         /\ DOMAIN (s \o t) = 1 .. (Len(s) + Len(t))
         /\ \A k \in 1 .. Len(s) : (s \o t)[k] = s[k]
         /\ \A k \in 1 .. Len(t) : (s \o t)[Len(s) + k] = t[k]
  OBVIOUS

(* Replacing one element, the last one in particular.                      *)
LEMMA ReplaceFacts ==
  ASSUME NEW A, NEW s \in Seq(A), NEW j \in DOMAIN s, NEW a \in A
  PROVE  LET t == [s EXCEPT ![j] = a]
         IN  /\ t \in Seq(A)
             /\ Len(t) = Len(s)
             /\ DOMAIN t = DOMAIN s
             /\ t[j] = a
             /\ \A k \in DOMAIN s : k # j => t[k] = s[k]
  OBVIOUS

LEMMA NotLast ==
  ASSUME NEW n \in Nat, NEW k \in 1 .. (n + 1), k # n + 1
  PROVE  k \in 1 .. n
  OBVIOUS

(* A set of positions that is not empty has a last one.                    *)
LEMMA LastPosition ==
  ASSUME NEW n \in Nat, NEW T, T \subseteq 1 .. n, T # {}
  PROVE  \E x \in T : \A y \in T : y =< x
  <1> DEFINE R == {ss \in Nat \X Nat : ss[1] < ss[2]}
             U == {n - t : t \in T}
  <1>1. U \subseteq Nat /\ U # {}
    <2>1. \A t \in T : t \in 1 .. n
      OBVIOUS
    <2>2. \A t \in 1 .. n : n - t \in Nat
      OBVIOUS
    <2> QED BY <2>1, <2>2
  <1>2. IsWellFoundedOn(R, Nat)
    BY NatLessThanWellFounded DEF OpToRel
  <1> HIDE DEF R
  <1>3. \E u \in U : \A v \in U : ~ (<<v, u>> \in R)
    BY <1>1, <1>2, WFMin
  <1>4. PICK u \in U : \A v \in U : ~ (v < u)
    BY <1>1, <1>3 DEF R
  <1>5. PICK x \in T : u = n - x
    BY <1>4
  <1>6. \A y \in T : ~ (n - y < n - x)
    BY <1>4, <1>5
  <1> QED BY <1>5, <1>6

-----------------------------------------------------------------------------
(* Counting.                                                               *)

B(p) == IF p THEN 1 ELSE 0

(* Where x occurs in s, and how often.                                     *)
Places(s, x) == {i \in DOMAIN s : s[i] = x}
Count(s, x) == Cardinality(Places(s, x))

LEMMA CountType ==
  ASSUME NEW A, NEW s \in Seq(A), NEW x
  PROVE  IsFiniteSet(Places(s, x)) /\ Count(s, x) \in Nat
  <1>1. DOMAIN s = 1 .. Len(s) /\ Len(s) \in Nat
    BY LenFacts
  <1>2. Places(s, x) \subseteq 1 .. Len(s)
    BY <1>1 DEF Places
  <1>3. IsFiniteSet(1 .. Len(s))
    BY <1>1, FS_Interval
  <1>4. IsFiniteSet(Places(s, x))
    BY <1>2, <1>3, FS_Subset
  <1> QED BY <1>4, FS_CardinalityType DEF Count

LEMMA CountNone ==
  ASSUME NEW s, NEW x, \A i \in DOMAIN s : s[i] # x
  PROVE  Count(s, x) = 0
  <1>1. Places(s, x) = {}
    BY DEF Places
  <1> QED BY <1>1, FS_EmptySet DEF Count

LEMMA CountSome ==
  ASSUME NEW A, NEW s \in Seq(A), NEW i \in DOMAIN s
  PROVE  Count(s, s[i]) >= 1
  <1>1. IsFiniteSet(Places(s, s[i])) /\ Count(s, s[i]) \in Nat
    BY CountType
  <1>2. Places(s, s[i]) # {}
    BY DEF Places
  <1>3. Count(s, s[i]) # 0
    BY <1>1, <1>2, FS_EmptySet DEF Count
  <1> QED BY <1>1, <1>3

LEMMA CountEmpty ==
  ASSUME NEW x
  PROVE  Count(<< >>, x) = 0
  BY CountNone

(* A set of positions keeps its size when it is moved.                     *)
Shifted(T, d) == {t + d : t \in T}

LEMMA ShiftCardinality ==
  ASSUME NEW n \in Nat, NEW T, T \subseteq 1 .. n, NEW d \in Nat
  PROVE  IsFiniteSet(Shifted(T, d)) /\ Cardinality(Shifted(T, d)) = Cardinality(T)
  <1> DEFINE f == [t \in T |-> t + d]
  <1>1. IsFiniteSet(T)
    <2>1. IsFiniteSet(1 .. n) /\ T \in SUBSET (1 .. n)
      BY FS_Interval
    <2> QED BY <2>1, FS_Subset
  <1>2. \A t \in T : t \in Nat
    <2>1. \A t \in 1 .. n : t \in Nat
      OBVIOUS
    <2> QED BY <2>1
  <1>3. f \in [T -> Shifted(T, d)]
    BY DEF Shifted
  <1>4. \A a, b \in T : f[a] = f[b] => a = b
    BY <1>2
  <1>5. \A y \in Shifted(T, d) : \E t \in T : f[t] = y
    BY DEF Shifted
  <1>6. f \in Bijection(T, Shifted(T, d))
    BY <1>3, <1>4, <1>5 DEF Bijection, Injection, Surjection, IsInjective
  <1>7. ExistsBijection(T, Shifted(T, d))
    BY <1>6 DEF ExistsBijection
  <1> QED BY <1>1, <1>7, FS_Bijection

LEMMA CountConcat ==
  ASSUME NEW A, NEW s \in Seq(A), NEW t \in Seq(A), NEW x
  PROVE  Count(s \o t, x) = Count(s, x) + Count(t, x)
  <1> DEFINE P == Places(s, x)
             Q == Shifted(Places(t, x), Len(s))
  <1>1. Len(s) \in Nat /\ DOMAIN s = 1 .. Len(s) /\ Len(t) \in Nat /\ DOMAIN t = 1 .. Len(t)
    BY LenFacts
  <1>2. /\ DOMAIN (s \o t) = 1 .. (Len(s) + Len(t))
        /\ \A k \in 1 .. Len(s) : (s \o t)[k] = s[k]
        /\ \A k \in 1 .. Len(t) : (s \o t)[Len(s) + k] = t[k]
    BY ConcatFacts
  <1>3. Places(t, x) \subseteq 1 .. Len(t)
    BY <1>1 DEF Places
  <1>4. IsFiniteSet(Q) /\ Cardinality(Q) = Count(t, x)
    BY <1>1, <1>3, ShiftCardinality DEF Count
  <1>5. IsFiniteSet(P) /\ Count(s, x) \in Nat /\ Count(t, x) \in Nat
    BY CountType
  <1>6. P \cap Q = {}
    <2>1. \A q \in Q : q > Len(s)
      BY <1>1, <1>3 DEF Shifted
    <2>2. \A p \in P : p =< Len(s) /\ p \in Nat
      BY <1>1 DEF Places
    <2>3. \A q \in Q : q \in Nat
      BY <1>1, <1>3 DEF Shifted
    <2> QED BY <1>1, <2>1, <2>2, <2>3
  <1>7. Places(s \o t, x) = P \cup Q
    <2>1. ASSUME NEW i \in Places(s \o t, x) PROVE i \in P \cup Q
      <3>1. i \in 1 .. (Len(s) + Len(t)) /\ (s \o t)[i] = x
        BY <1>2, <2>1 DEF Places
      <3>2. CASE i =< Len(s)
        <4>1. i \in 1 .. Len(s)
          BY <1>1, <3>1, <3>2
        <4> QED BY <1>1, <1>2, <3>1, <4>1 DEF Places
      <3>3. CASE i > Len(s)
        <4>1. i - Len(s) \in 1 .. Len(t) /\ i = Len(s) + (i - Len(s)) /\ i = (i - Len(s)) + Len(s)
          BY <1>1, <3>1, <3>3
        <4>2. t[i - Len(s)] = x
          BY <1>2, <3>1, <4>1
        <4>3. i - Len(s) \in Places(t, x)
          BY <1>1, <4>1, <4>2 DEF Places
        <4> QED BY <4>1, <4>3 DEF Shifted
      <3> QED BY <1>1, <3>1, <3>2, <3>3
    <2>2. ASSUME NEW i \in P PROVE i \in Places(s \o t, x)
      <3>1. i \in 1 .. Len(s) /\ s[i] = x
        BY <1>1 DEF Places
      <3> QED BY <1>1, <1>2, <3>1 DEF Places
    <2>3. ASSUME NEW i \in Q PROVE i \in Places(s \o t, x)
      <3>1. PICK j \in Places(t, x) : i = j + Len(s)
        BY DEF Shifted
      <3>2. j \in 1 .. Len(t) /\ t[j] = x
        BY <1>1 DEF Places
      <3>3. i = Len(s) + j /\ i \in 1 .. (Len(s) + Len(t))
        BY <1>1, <3>1, <3>2
      <3> QED BY <1>2, <3>2, <3>3 DEF Places
    <2> QED BY <2>1, <2>2, <2>3
  <1> HIDE DEF P, Q
  <1>8. Cardinality(P \cup Q) = Cardinality(P) + Cardinality(Q)
    <2>1. Cardinality(P \cup Q) = Cardinality(P) + Cardinality(Q) - Cardinality(P \cap Q)
      BY <1>4, <1>5, FS_Union
    <2>2. Cardinality(P) \in Nat /\ Cardinality(Q) \in Nat /\ Cardinality(P \cap Q) = 0
      BY <1>4, <1>5, <1>6, FS_CardinalityType, FS_EmptySet
    <2> QED BY <2>1, <2>2
  <1> QED BY <1>4, <1>7, <1>8 DEF Count, P

LEMMA CountOne ==
  ASSUME NEW y, NEW x
  PROVE  Count(<<y>>, x) = B(y = x)
  <1>1. CASE y = x
    <2>1. Places(<<y>>, x) = {1}
      BY <1>1 DEF Places
    <2> QED BY <1>1, <2>1, FS_Singleton DEF Count, B
  <1>2. CASE y # x
    <2>1. Count(<<y>>, x) = 0
      BY <1>2, CountNone
    <2> QED BY <1>2, <2>1 DEF B
  <1> QED BY <1>1, <1>2

LEMMA CountAppend ==
  ASSUME NEW A, NEW s \in Seq(A), NEW y \in A, NEW x
  PROVE  Count(Append(s, y), x) = Count(s, x) + B(y = x)
  <1>1. Append(s, y) = s \o <<y>> /\ <<y>> \in Seq(A)
    OBVIOUS
  <1>2. Count(s \o <<y>>, x) = Count(s, x) + Count(<<y>>, x)
    BY <1>1, CountConcat
  <1> QED BY <1>1, <1>2, CountOne

LEMMA CountTail ==
  ASSUME NEW A, NEW s \in Seq(A), s # << >>, NEW x
  PROVE  Count(s, x) = B(Head(s) = x) + Count(Tail(s), x)
  <1>1. /\ Tail(s) \in Seq(A) /\ Head(s) \in A /\ Head(s) = s[1] /\ Len(s) >= 1 /\ Len(s) \in Nat
        /\ Len(Tail(s)) = Len(s) - 1 /\ DOMAIN s = 1 .. Len(s)
        /\ \A k \in 1 .. (Len(s) - 1) : Tail(s)[k] = s[k + 1]
    BY TailFacts, LenFacts
  <1> DEFINE h == <<Head(s)>>
  <1>2. h \in Seq(A) /\ Len(h) = 1 /\ h[1] = Head(s)
    BY <1>1
  <1> HIDE DEF h
  <1>3. /\ h \o Tail(s) \in Seq(A)
        /\ Len(h \o Tail(s)) = Len(s)
        /\ (h \o Tail(s))[1] = s[1]
        /\ \A k \in 1 .. (Len(s) - 1) : (h \o Tail(s))[1 + k] = s[k + 1]
    BY <1>1, <1>2, ConcatFacts, SMTT(60)
  <1>4. \A k \in 1 .. Len(s) : (h \o Tail(s))[k] = s[k]
    <2> SUFFICES ASSUME NEW k \in 1 .. Len(s) PROVE (h \o Tail(s))[k] = s[k]
      OBVIOUS
    <2>1. CASE k = 1
      BY <1>3, <2>1
    <2>2. CASE k > 1
      <3>1. k - 1 \in 1 .. (Len(s) - 1) /\ 1 + (k - 1) = k /\ (k - 1) + 1 = k
        BY <1>1, <2>2
      <3>2. (h \o Tail(s))[1 + (k - 1)] = s[(k - 1) + 1]
        BY <1>3, <3>1
      <3> QED BY <3>1, <3>2
    <2>3. k = 1 \/ k > 1
      BY <1>1
    <2> QED BY <2>1, <2>2, <2>3
  <1>5. h \o Tail(s) = s
    BY <1>3, <1>4, SeqEqual
  <1>6. Count(h \o Tail(s), x) = Count(h, x) + Count(Tail(s), x)
    BY <1>1, <1>2, CountConcat, ZenonT(60)
  <1>7. Count(h, x) = B(Head(s) = x)
    BY CountOne DEF h
  <1> QED BY <1>5, <1>6, <1>7

-----------------------------------------------------------------------------
(* Types that do not depend on what has been allocated.                    *)

AnyValue == Nat \cup {Nil}
AnyStore == [Block -> [Name -> Nat]]
AnyCell == [value: AnyValue, refs: Nat]
AnyObj == [body: Body, file: Nat, closure: [Name -> Nat], env: [Name -> Nat],
           own: SUBSET Nat, count: Nat, live: BOOLEAN, leaked: Nat]
AnyAct == [op: {"chunk", "block", "forblock", "for", "call"}, ctx: Block, i: Nat, name: Name \cup {Nil},
           at: {"stat", "store", "fill", "body"}, cur: Block \cup {Nil}, val: AnyValue, held: Seq(AnyValue),
           cell: Nat, fill: Nat, env: [Name -> Nat], base: Nat, level: Nat]
AnyUpdate == [op: {"add", "drop", "dropold", "unref", "write"}, x: AnyValue, v: AnyValue]

LEMMA UpdatesTyped ==
  ASSUME NEW v \in AnyValue, NEW w \in AnyValue
  PROVE  /\ Add(v) \in AnyUpdate /\ Drop(v) \in AnyUpdate /\ DropOld(v) \in AnyUpdate
         /\ Unref(v) \in AnyUpdate /\ Write(v, w) \in AnyUpdate
         /\ Add(v).op = "add" /\ Drop(v).op = "drop" /\ DropOld(v).op = "dropold"
         /\ Unref(v).op = "unref" /\ Write(v, w).op = "write"
         /\ Add(v).x = v /\ Drop(v).x = v /\ DropOld(v).x = v /\ Unref(v).x = v /\ Write(v, w).x = v
         /\ Add(v).v = Nil /\ Drop(v).v = Nil /\ DropOld(v).v = Nil /\ Unref(v).v = Nil /\ Write(v, w).v = w
  BY DEF Add, Drop, DropOld, Unref, Write, AnyUpdate, AnyValue

(* Two updates of one kind are the same when they are of the same thing.   *)
LEMMA UpdatesDiffer ==
  ASSUME NEW v, NEW w
  PROVE  /\ Add(v) = Add(w) <=> v = w
         /\ Drop(v) = Drop(w) <=> v = w
         /\ Unref(v) = Unref(w) <=> v = w
         /\ Add(v) # Drop(w) /\ Add(v) # Unref(w) /\ Drop(v) # Unref(w)
  BY DEF Add, Drop, Unref

(* An update is one of the five.                                           *)
LEMMA UpdateForms ==
  ASSUME NEW u \in AnyUpdate
  PROVE  /\ u.op = "write" => u = Write(u.x, u.v)
         /\ u.v = Nil => /\ u.op = "add" => u = Add(u.x)
                         /\ u.op = "drop" => u = Drop(u.x)
                         /\ u.op = "dropold" => u = DropOld(u.x)
                         /\ u.op = "unref" => u = Unref(u.x)
  BY DEF AnyUpdate, Add, Drop, DropOld, Unref, Write

LEMMA SetToSeqFacts ==
  ASSUME NEW cs, IsFiniteSet(cs)
  PROVE  /\ Cardinality(cs) \in Nat
         /\ SetToSeq(cs) \in [1 .. Cardinality(cs) -> cs]
         /\ \A i, j \in 1 .. Cardinality(cs) : SetToSeq(cs)[i] = SetToSeq(cs)[j] => i = j
         /\ \A c \in cs : \E i \in 1 .. Cardinality(cs) : SetToSeq(cs)[i] = c
  <1> DEFINE n == Cardinality(cs)
             q == SetToSeq(cs)
  <1>1. n \in Nat /\ ExistsBijection(1 .. n, cs)
    BY FS_CardinalityType
  <1>2. PICK f \in Bijection(1 .. n, cs) : TRUE
    BY <1>1 DEF ExistsBijection
  <1>3. f \in [1 .. n -> cs] /\ IsInjective(f)
    BY <1>2 DEF Bijection, Injection
  <1>4. q \in [1 .. n -> cs] /\ IsInjective(q)
    BY <1>3 DEF SetToSeq
  <1>5. q \in Injection(1 .. n, cs)
    BY <1>4 DEF Injection
  <1>6. Cardinality(1 .. n) = n
    <2>1. Cardinality(1 .. n) = IF 1 > n THEN 0 ELSE n - 1 + 1
      BY <1>1, FS_Interval
    <2> QED BY <1>1, <2>1
  <1>7. q \in Surjection(1 .. n, cs)
    <2> HIDE DEF q, n
    <2>1. Cardinality(1 .. n) = Cardinality(cs) <=> q \in Surjection(1 .. n, cs)
      BY <1>5, FS_Injection
    <2> QED BY <1>6, <2>1 DEF n
  <1>8. \A i, j \in 1 .. n : q[i] = q[j] => i = j
    BY <1>4 DEF IsInjective
  <1>9. \A c \in cs : \E i \in 1 .. n : q[i] = c
    BY <1>7 DEF Surjection
  <1> QED BY <1>1, <1>4, <1>8, <1>9

(* Unrefs releases every cell of a set once.                               *)
LEMMA UnrefsFacts ==
  ASSUME NEW cs, IsFiniteSet(cs), cs \subseteq Nat
  PROVE  /\ Unrefs(cs) \in Seq(AnyUpdate)
         /\ \A k \in DOMAIN Unrefs(cs) : \E c \in cs : Unrefs(cs)[k] = Unref(c)
         /\ \A c : Count(Unrefs(cs), Unref(c)) = B(c \in cs)
         /\ \A v : Count(Unrefs(cs), Add(v)) = 0 /\ Count(Unrefs(cs), Drop(v)) = 0
  <1> DEFINE n == Cardinality(cs)
             q == SetToSeq(cs)
             u == Unrefs(cs)
  <1>1. /\ n \in Nat /\ q \in [1 .. n -> cs]
        /\ \A i, j \in 1 .. n : q[i] = q[j] => i = j
        /\ \A c \in cs : \E i \in 1 .. n : q[i] = c
    BY SetToSeqFacts
  <1>2. u = [k \in 1 .. n |-> Unref(q[k])]
    BY <1>1 DEF Unrefs
  <1> HIDE DEF n, q, u
  <1>3. \A k \in 1 .. n : q[k] \in cs /\ q[k] \in AnyValue
    BY <1>1 DEF AnyValue
  <1>4. \A k \in 1 .. n : Unref(q[k]) \in AnyUpdate
    BY <1>3, UpdatesTyped
  <1>5. u \in Seq(AnyUpdate) /\ DOMAIN u = 1 .. n
    BY <1>1, <1>2, <1>4
  <1>6. \A k \in DOMAIN u : \E c \in cs : u[k] = Unref(c)
    BY <1>2, <1>3
  <1>7. ASSUME NEW c PROVE Count(u, Unref(c)) = B(c \in cs)
    <2>1. \A k \in DOMAIN u : u[k] = Unref(c) <=> q[k] = c
      BY <1>2, UpdatesDiffer
    <2>2. CASE c \in cs
      <3>1. PICK i \in 1 .. n : q[i] = c
        BY <1>1, <2>2
      <3>2. Places(u, Unref(c)) = {i}
        BY <1>1, <1>5, <2>1, <3>1 DEF Places
      <3> QED BY <2>2, <3>2, FS_Singleton DEF Count, B
    <2>3. CASE c \notin cs
      <3>1. \A k \in DOMAIN u : u[k] # Unref(c)
        BY <1>3, <1>5, <2>1, <2>3
      <3> QED BY <2>3, <3>1, CountNone DEF B
    <2> QED BY <2>2, <2>3
  <1>8. ASSUME NEW v PROVE Count(u, Add(v)) = 0 /\ Count(u, Drop(v)) = 0
    <2>1. \A k \in DOMAIN u : u[k] # Add(v) /\ u[k] # Drop(v)
      BY <1>6, UpdatesDiffer
    <2> QED BY <2>1, CountNone
  <1> QED BY <1>5, <1>6, <1>7, <1>8 DEF u

LEMMA DropsFacts ==
  ASSUME NEW vs \in Seq(AnyValue)
  PROVE  /\ Drops(vs) \in Seq(AnyUpdate)
         /\ DOMAIN Drops(vs) = DOMAIN vs
         /\ \A k \in DOMAIN vs : Drops(vs)[k] = Drop(vs[k])
         /\ \A v : Count(Drops(vs), Drop(v)) = Count(vs, v)
         /\ \A c : Count(Drops(vs), Unref(c)) = 0
         /\ \A v : Count(Drops(vs), Add(v)) = 0
  <1> DEFINE u == Drops(vs)
  <1>1. DOMAIN u = DOMAIN vs /\ \A k \in DOMAIN vs : u[k] = Drop(vs[k])
    BY DEF Drops
  <1>2. Len(vs) \in Nat /\ DOMAIN vs = 1 .. Len(vs) /\ \A k \in DOMAIN vs : vs[k] \in AnyValue
    BY LenFacts
  <1>3. \A k \in DOMAIN vs : Drop(vs[k]) \in AnyUpdate
    BY <1>2, UpdatesTyped
  <1>4. u \in Seq(AnyUpdate)
    BY <1>2, <1>3 DEF Drops
  <1> HIDE DEF u
  <1>5. ASSUME NEW v PROVE Count(u, Drop(v)) = Count(vs, v)
    <2>1. \A k \in DOMAIN vs : Drop(vs[k]) = Drop(v) <=> vs[k] = v
      BY UpdatesDiffer
    <2>2. Places(u, Drop(v)) = Places(vs, v)
      BY <1>1, <2>1 DEF Places
    <2> QED BY <2>2 DEF Count
  <1>6. ASSUME NEW c PROVE Count(u, Unref(c)) = 0 /\ Count(u, Add(c)) = 0
    <2>1. \A k \in DOMAIN u : u[k] # Unref(c) /\ u[k] # Add(c)
      BY <1>1, UpdatesDiffer
    <2> QED BY <2>1, CountNone
  <1> QED BY <1>1, <1>4, <1>5, <1>6 DEF u

-----------------------------------------------------------------------------
(* The C++ stack.  base and level, the heights of _blocks and of           *)
(* _local_values once an activation has begun, say which of their entries  *)
(* are its own.                                                            *)

Blocky == {"block", "forblock"}
Owner == {"block", "for"}
InBlock == {"block", "forblock", "for"}

(* How an activation b lies on the one below it: the body of a chunk or of *)
(* a call, a nested block or loop, a round, a call.                        *)
Link(a, b) ==
  \/ /\ b.op = "block" /\ a.op \in {"chunk", "call"} /\ a.at = "body"
     /\ b.ctx = a.ctx /\ b.base = a.base + 1 /\ b.level = a.level
  \/ /\ b.op \in Owner /\ a.op \in Blocky /\ a.at = "stat" /\ a.fill = 0
     /\ Parent[b.ctx] = a.ctx /\ b.ctx \notin Body /\ b.base = a.base + 1 /\ b.level = a.level
  \/ /\ b.op = "forblock" /\ a.op = "for" /\ a.at = "stat"
     /\ b.ctx = a.ctx /\ b.base = a.base /\ b.level = a.level
  \/ /\ b.op = "call" /\ a.op \in Blocky /\ a.at = "store"
     /\ b.cur = a.ctx /\ b.base = a.base /\ b.level = a.level + 1

Kind(a) ==
  /\ a.op \in Blocky => a.at \in {"stat", "store", "fill"}
  /\ a.op = "for" => a.at \in {"stat", "store"} /\ a.cell # 0 /\ a.name # Nil
  /\ a.op = "call" => a.ctx \in Body /\ Len(a.held) = 4
  /\ a.op # "call" => a.held = << >>
  /\ a.op \notin Blocky => a.val = Nil

(* What holds of an activation a below b.  Calls lie in different          *)
(* functions, as no function is active twice.                              *)
Nested(a, b) ==
  /\ a.level =< b.level /\ a.base =< b.base
  /\ b.op \in Owner => a.base < b.base
  /\ b.op = "call" => a.level < b.level
  /\ a.op \in Blocky /\ (a.at = "store" \/ a.fill # 0) => a.level < b.level
  /\ a.level = b.level => Fun[a.ctx] = Fun[b.ctx] /\ Depth[a.ctx] =< Depth[b.ctx]
  /\ a.level = b.level /\ a.op \in InBlock /\ b.op \in Owner => Depth[a.ctx] < Depth[b.ctx]
  /\ a.level < b.level => Fun[a.ctx] # Fun[b.ctx]
  /\ a.val = Nil

Called(st, k) == \E j \in 1 .. k : st[j].op = "call" /\ st[j].ctx = Fun[st[k].ctx]

Shape(st) ==
  /\ st # << >> /\ st[1].op = "chunk" /\ st[1].ctx \notin Body /\ Parent[st[1].ctx] = Nil
  /\ \A k \in 2 .. Len(st) : st[k].op # "chunk" /\ Link(st[k - 1], st[k])
  /\ \A k \in DOMAIN st : Kind(st[k])
  /\ \A j, k \in DOMAIN st : j < k => Nested(st[j], st[k])
  /\ \A k \in DOMAIN st : Fun[st[k].ctx] \in Body => Called(st, k)

LEMMA TreeFacts ==
  ASSUME NEW b \in Block
  PROVE  /\ Fun[b] \in Block /\ Depth[b] \in Nat /\ Parent[b] \in Block \cup {Nil}
         /\ Nil \notin Block
         /\ b \in Body => Fun[b] = b
         /\ b \notin Body /\ Parent[b] = Nil => Fun[b] = b
         /\ b \notin Body /\ Parent[b] # Nil => Fun[b] = Fun[Parent[b]]
         /\ Parent[b] # Nil => Parent[b] \in Block /\ Depth[b] = Depth[Parent[b]] + 1
  BY ScenarioAssumption

LEMMA ActFacts ==
  ASSUME NEW a \in AnyAct
  PROVE  /\ a.op \in {"chunk", "block", "forblock", "for", "call"} /\ a.ctx \in Block
         /\ a.i \in Nat /\ a.at \in {"stat", "store", "fill", "body"} /\ a.cur \in Block \cup {Nil}
         /\ a.val \in AnyValue /\ a.held \in Seq(AnyValue) /\ a.cell \in Nat /\ a.fill \in Nat /\ a.name \in Name \cup {Nil}
         /\ a.env \in [Name -> Nat] /\ a.base \in Nat /\ a.level \in Nat
  BY DEF AnyAct

(* The part of an activation the shape depends on.                         *)
SamePlace(a, b) ==
  /\ a.op = b.op /\ a.ctx = b.ctx /\ a.cur = b.cur /\ a.base = b.base /\ a.level = b.level /\ a.held = b.held

LEMMA ShapePrefix ==
  ASSUME NEW st \in Seq(AnyAct), Shape(st), NEW n \in 1 .. Len(st)
  PROVE  Shape(SubSeq(st, 1, n))
  <1> DEFINE t == SubSeq(st, 1, n)
  <1>1. Len(st) \in Nat /\ DOMAIN st = 1 .. Len(st) /\ n \in 0 .. Len(st) /\ n >= 1 /\ n \in Nat
    BY LenFacts
  <1>2. t \in Seq(AnyAct) /\ Len(t) = n /\ DOMAIN t = 1 .. n /\ \A k \in 1 .. n : t[k] = st[k]
    BY <1>1, PrefixFacts
  <1> HIDE DEF t
  <1>3. \A k \in 1 .. n : k \in DOMAIN st
    BY <1>1
  <1>4. t # << >> /\ t[1] = st[1]
    BY <1>1, <1>2
  <1>5. \A k \in 2 .. Len(t) : t[k].op # "chunk" /\ Link(t[k - 1], t[k])
    <2> SUFFICES ASSUME NEW k \in 2 .. Len(t) PROVE t[k].op # "chunk" /\ Link(t[k - 1], t[k])
      OBVIOUS
    <2>1. k \in 2 .. Len(st) /\ t[k] = st[k] /\ t[k - 1] = st[k - 1]
      BY <1>1, <1>2
    <2> QED BY <2>1 DEF Shape
  <1>6. \A k \in DOMAIN t : Kind(t[k])
    BY <1>2, <1>3 DEF Shape
  <1>7. \A j, k \in DOMAIN t : j < k => Nested(t[j], t[k])
    BY <1>2, <1>3 DEF Shape
  <1>8. \A k \in DOMAIN t : Fun[t[k].ctx] \in Body => Called(t, k)
    <2> SUFFICES ASSUME NEW k \in 1 .. n, Fun[t[k].ctx] \in Body PROVE Called(t, k)
      BY <1>2
    <2>1. k \in DOMAIN st /\ t[k] = st[k]
      BY <1>2, <1>3
    <2>2. Called(st, k)
      BY <2>1 DEF Shape
    <2>3. PICK j \in 1 .. k : st[j].op = "call" /\ st[j].ctx = Fun[st[k].ctx]
      BY <2>2 DEF Called
    <2>4. t[j] = st[j]
      BY <1>1, <1>2
    <2> QED BY <2>1, <2>3, <2>4 DEF Called
  <1> QED BY <1>4, <1>5, <1>6, <1>7, <1>8 DEF Shape, t

LEMMA ShapeReplace ==
  ASSUME NEW st \in Seq(AnyAct), Shape(st), NEW a \in AnyAct, SamePlace(a, st[Len(st)]), Kind(a)
  PROVE  Shape([st EXCEPT ![Len(st)] = a])
  <1> DEFINE n == Len(st)
             t == [st EXCEPT ![n] = a]
  <1>1. n \in Nat /\ DOMAIN st = 1 .. n /\ n >= 1 /\ n \in DOMAIN st
    BY LenFacts DEF Shape
  <1>2. /\ t \in Seq(AnyAct) /\ Len(t) = n /\ DOMAIN t = 1 .. n
        /\ t[n] = a /\ \A k \in 1 .. n : k # n => t[k] = st[k]
    BY <1>1, ReplaceFacts
  <1>0. SamePlace(a, st[n])
    OBVIOUS
  <1> HIDE DEF t, n
  <1>3. \A k \in 1 .. n : SamePlace(t[k], st[k]) /\ (k < n => t[k] = st[k])
    <2> SUFFICES ASSUME NEW k \in 1 .. n PROVE SamePlace(t[k], st[k]) /\ (k < n => t[k] = st[k])
      OBVIOUS
    <2>1. CASE k = n
      BY <1>0, <1>1, <1>2, <2>1
    <2>2. CASE k # n
      BY <1>2, <2>2 DEF SamePlace
    <2> QED BY <2>1, <2>2
  <1>4. t # << >> /\ t[1].op = "chunk" /\ t[1].ctx \notin Body /\ Parent[t[1].ctx] = Nil
    <2>1. 1 \in 1 .. n /\ t # << >>
      BY <1>1, <1>2
    <2>2. SamePlace(t[1], st[1])
      BY <1>3, <2>1
    <2> QED BY <2>1, <2>2 DEF Shape, SamePlace
  <1>5. \A k \in 2 .. Len(t) : t[k].op # "chunk" /\ Link(t[k - 1], t[k])
    <2> SUFFICES ASSUME NEW k \in 2 .. n PROVE t[k].op # "chunk" /\ Link(t[k - 1], t[k])
      BY <1>2
    <2>1. k \in 1 .. n /\ k - 1 \in 1 .. n /\ k - 1 < n
      BY <1>1
    <2>2. t[k - 1] = st[k - 1] /\ SamePlace(t[k], st[k])
      BY <1>3, <2>1
    <2>3. st[k].op # "chunk" /\ Link(st[k - 1], st[k])
      BY DEF Shape, n
    <2> QED BY <2>2, <2>3 DEF Link, SamePlace
  <1>6. \A k \in DOMAIN t : Kind(t[k])
    BY <1>1, <1>2 DEF Shape
  <1>7. \A j, k \in DOMAIN t : j < k => Nested(t[j], t[k])
    <2> SUFFICES ASSUME NEW j \in 1 .. n, NEW k \in 1 .. n, j < k PROVE Nested(t[j], t[k])
      BY <1>2
    <2>1. Nested(st[j], st[k])
      BY <1>1 DEF Shape
    <2>2. t[j] = st[j] /\ SamePlace(t[k], st[k])
      BY <1>1, <1>3
    <2> QED BY <2>1, <2>2 DEF Nested, SamePlace
  <1>8. \A k \in DOMAIN t : Fun[t[k].ctx] \in Body => Called(t, k)
    <2> SUFFICES ASSUME NEW k \in 1 .. n, Fun[t[k].ctx] \in Body PROVE Called(t, k)
      BY <1>2
    <2>1. t[k].ctx = st[k].ctx
      BY <1>3 DEF SamePlace
    <2>2. Called(st, k)
      BY <1>1, <2>1 DEF Shape
    <2>3. PICK j \in 1 .. k : st[j].op = "call" /\ st[j].ctx = Fun[st[k].ctx]
      BY <2>2 DEF Called
    <2>4. j \in 1 .. n
      BY <1>1
    <2>5. t[j].op = st[j].op /\ t[j].ctx = st[j].ctx
      BY <1>3, <2>4 DEF SamePlace
    <2> QED BY <2>1, <2>3, <2>5 DEF Called
  <1> QED BY <1>4, <1>5, <1>6, <1>7, <1>8 DEF Shape, t, n

(* One activation on another.                                              *)
LEMMA LinkNests ==
  ASSUME NEW a \in AnyAct, NEW b \in AnyAct, Link(a, b), Kind(b), a.val = Nil,
         b.op = "call" => Fun[a.ctx] # Fun[b.ctx]
  PROVE  Nested(a, b) /\ (b.op # "call" => Fun[b.ctx] = Fun[a.ctx])
  <1>1. /\ a.ctx \in Block /\ a.base \in Nat /\ a.level \in Nat
        /\ b.ctx \in Block /\ b.base \in Nat /\ b.level \in Nat
    BY ActFacts
  <1>2. /\ Depth[a.ctx] \in Nat /\ Depth[b.ctx] \in Nat /\ Nil \notin Block
        /\ b.ctx \notin Body /\ Parent[b.ctx] # Nil =>
             Fun[b.ctx] = Fun[Parent[b.ctx]] /\ Depth[b.ctx] = Depth[Parent[b.ctx]] + 1
    BY <1>1, TreeFacts
  <1>3. a.ctx # Nil
    BY <1>1, <1>2
  <1>4. CASE b.op = "call"
    BY <1>1, <1>4 DEF Link, Nested, Owner
  <1>5. CASE b.op # "call" /\ Parent[b.ctx] = a.ctx /\ b.ctx \notin Body /\ b.op \in Owner
    <2>1. b.level = a.level /\ b.base = a.base + 1 /\ ~ (a.op \in Blocky /\ (a.at = "store" \/ a.fill # 0))
      BY <1>5 DEF Link, Owner, Blocky
    <2> QED BY <1>1, <1>2, <1>3, <1>5, <2>1 DEF Nested
  <1>6. CASE b.op # "call" /\ b.ctx = a.ctx
    <2>1. /\ b.level = a.level /\ ~ (a.op \in Blocky /\ (a.at = "store" \/ a.fill # 0))
          /\ a.base =< b.base /\ (b.op \in Owner => b.base = a.base + 1 /\ a.op \notin InBlock)
      BY <1>1, <1>2, <1>6 DEF Link, Owner, Blocky, InBlock
    <2> QED BY <1>1, <1>2, <1>6, <2>1 DEF Nested
  <1> QED BY <1>4, <1>5, <1>6 DEF Link

LEMMA NestedStep ==
  ASSUME NEW a \in AnyAct, NEW b \in AnyAct, NEW c \in AnyAct, Nested(a, b), Nested(b, c), Link(b, c),
         b.op # "chunk",
         c.op = "call" => Fun[a.ctx] # Fun[c.ctx],
         c.op # "call" => Fun[c.ctx] = Fun[b.ctx]
  PROVE  Nested(a, c)
  <1>1. /\ a.ctx \in Block /\ a.base \in Nat /\ a.level \in Nat
        /\ b.ctx \in Block /\ b.base \in Nat /\ b.level \in Nat
        /\ c.ctx \in Block /\ c.base \in Nat /\ c.level \in Nat
    BY ActFacts
  <1>2. Depth[a.ctx] \in Nat /\ Depth[b.ctx] \in Nat /\ Depth[c.ctx] \in Nat
    BY <1>1, TreeFacts
  <1>3. CASE c.op = "call"
    <2>1. c.level = b.level + 1 /\ c.base = b.base
      BY <1>3 DEF Link, Owner
    <2> QED BY <1>1, <1>3, <2>1 DEF Nested, Owner
  <1>4. CASE c.op # "call"
    <2>1. c.level = b.level /\ b.base =< c.base
      BY <1>1, <1>4 DEF Link
    <2>2. /\ a.level =< c.level /\ a.base =< c.base /\ a.val = Nil
          /\ c.op \in Owner => a.base < c.base
          /\ a.op \in Blocky /\ (a.at = "store" \/ a.fill # 0) => a.level < c.level
      BY <1>1, <2>1 DEF Nested
    <2>3. a.level < c.level => Fun[a.ctx] # Fun[c.ctx]
      BY <1>4, <2>1 DEF Nested
    <2>4. a.level = c.level => Fun[a.ctx] = Fun[c.ctx] /\ Depth[a.ctx] =< Depth[c.ctx]
      BY <1>1, <1>2, <1>4, <2>1 DEF Nested
    <2>5. ASSUME a.level = c.level, a.op \in InBlock, c.op \in Owner PROVE Depth[a.ctx] < Depth[c.ctx]
      <3>1. b.op # "call"
        BY <1>1, <2>1, <2>5 DEF Nested
      <3>2. b.op \in Blocky
        BY <2>5, <3>1 DEF Link, Blocky, Owner
      <3>3. Depth[b.ctx] < Depth[c.ctx]
        BY <2>1, <2>5, <3>2 DEF Nested, InBlock, Blocky
      <3> QED BY <1>2, <2>1, <2>5, <3>3 DEF Nested
    <2> QED BY <1>4, <2>2, <2>3, <2>4, <2>5 DEF Nested
  <1> QED BY <1>3, <1>4

LEMMA ShapePush ==
  ASSUME NEW st \in Seq(AnyAct), Shape(st), NEW a \in AnyAct, Link(st[Len(st)], a), Kind(a), a.op # "chunk",
         st[Len(st)].val = Nil,
         a.op = "call" => \A k \in DOMAIN st : Fun[st[k].ctx] # Fun[a.ctx]
  PROVE  Shape(Append(st, a))
  <1> DEFINE n == Len(st)
             t == Append(st, a)
  <1>1. n \in Nat /\ DOMAIN st = 1 .. n /\ n >= 1 /\ n \in DOMAIN st /\ \A k \in DOMAIN st : st[k] \in AnyAct
    BY LenFacts DEF Shape
  <1>2. /\ t \in Seq(AnyAct) /\ Len(t) = n + 1 /\ DOMAIN t = 1 .. (n + 1)
        /\ \A k \in 1 .. n : t[k] = st[k]
        /\ t[n + 1] = a
    BY AppendFacts
  <1> HIDE DEF t
  <1>3. \A k \in 1 .. (n + 1) : k \in 1 .. n \/ k = n + 1
    BY <1>1
  <1>4. t # << >> /\ t[1] = st[1]
    BY <1>1, <1>2
  <1>5. \A k \in 2 .. Len(t) : t[k].op # "chunk" /\ Link(t[k - 1], t[k])
    <2> SUFFICES ASSUME NEW k \in 2 .. (n + 1) PROVE t[k].op # "chunk" /\ Link(t[k - 1], t[k])
      BY <1>2
    <2>1. CASE k = n + 1
      <3>1. t[k] = a /\ t[k - 1] = st[n]
        BY <1>1, <1>2, <2>1
      <3> QED BY <3>1
    <2>2. CASE k # n + 1
      <3>1. k \in 2 .. n /\ t[k] = st[k] /\ t[k - 1] = st[k - 1]
        BY <1>1, <1>2, <2>2
      <3> QED BY <3>1 DEF Shape
    <2> QED BY <2>1, <2>2
  <1>6. \A k \in DOMAIN t : Kind(t[k])
    BY <1>1, <1>2, <1>3 DEF Shape
  <1>7. Nested(st[n], a) /\ (a.op # "call" => Fun[a.ctx] = Fun[st[n].ctx])
    BY <1>1, LinkNests
  <1>8. \A j \in 1 .. n : Nested(st[j], a)
    <2> SUFFICES ASSUME NEW j \in 1 .. n, j < n PROVE Nested(st[j], a)
      BY <1>1, <1>7
    <2>1. Nested(st[j], st[n]) /\ st[n].op # "chunk"
      BY <1>1 DEF Shape
    <2> QED BY <1>1, <1>7, <2>1, NestedStep
  <1>9. \A j, k \in DOMAIN t : j < k => Nested(t[j], t[k])
    <2> SUFFICES ASSUME NEW j \in 1 .. (n + 1), NEW k \in 1 .. (n + 1), j < k PROVE Nested(t[j], t[k])
      BY <1>2
    <2>1. j \in 1 .. n /\ t[j] = st[j]
      BY <1>1, <1>2
    <2>2. CASE k = n + 1
      BY <1>2, <1>8, <2>1, <2>2
    <2>3. CASE k \in 1 .. n
      BY <1>1, <1>2, <2>1, <2>3 DEF Shape
    <2> QED BY <1>3, <2>2, <2>3
  <1>10. \A k \in DOMAIN t : Fun[t[k].ctx] \in Body => Called(t, k)
    <2> SUFFICES ASSUME NEW k \in 1 .. (n + 1), Fun[t[k].ctx] \in Body PROVE Called(t, k)
      BY <1>2
    <2>1. ASSUME NEW m \in 1 .. n, Fun[st[m].ctx] = Fun[t[k].ctx], m =< k PROVE Called(t, k)
      <3>1. Called(st, m)
        BY <1>1, <2>1 DEF Shape
      <3>2. PICK j \in 1 .. m : st[j].op = "call" /\ st[j].ctx = Fun[st[m].ctx]
        BY <3>1 DEF Called
      <3>3. j \in 1 .. k /\ j \in 1 .. n
        BY <1>1, <2>1
      <3> QED BY <1>2, <2>1, <3>2, <3>3 DEF Called
    <2>2. CASE k \in 1 .. n
      BY <1>1, <1>2, <2>1, <2>2
    <2>3. CASE k = n + 1 /\ a.op # "call"
      BY <1>1, <1>2, <1>7, <2>1, <2>3
    <2>4. CASE k = n + 1 /\ a.op = "call"
      <3>1. a.ctx \in Body /\ a.ctx \in Block
        BY <2>4, ActFacts DEF Kind
      <3>2. Fun[a.ctx] = a.ctx
        BY <3>1, TreeFacts
      <3>3. k \in 1 .. k
        BY <1>1, <2>4
      <3> QED BY <1>2, <2>4, <3>2, <3>3 DEF Called
    <2> QED BY <1>3, <2>2, <2>3, <2>4
  <1> QED BY <1>4, <1>5, <1>6, <1>9, <1>10 DEF Shape, t

(* The blocks above the chunk's are those of the activations, and every    *)
(* frame above the chunk's is that of a call.                              *)
OnBlocks(st, bl) ==
  /\ \A k \in DOMAIN st : st[k].op \in InBlock => st[k].base \in DOMAIN bl /\ bl[st[k].base] = st[k].ctx
  /\ \A m \in (st[1].base + 1) .. st[Len(st)].base : \E k \in DOMAIN st : st[k].op \in Owner /\ st[k].base = m

OnFrames(st) ==
  \A l \in (st[1].level + 1) .. st[Len(st)].level : \E k \in DOMAIN st : st[k].op = "call" /\ st[k].level = l

Stack(st, bl) == Shape(st) /\ OnBlocks(st, bl) /\ OnFrames(st)

(* The activations of a stack, by position.                                *)
LEMMA StackFacts ==
  ASSUME NEW st \in Seq(AnyAct), Shape(st)
  PROVE  /\ Len(st) \in Nat /\ Len(st) >= 1 /\ DOMAIN st = 1 .. Len(st) /\ Len(st) \in DOMAIN st /\ 1 \in DOMAIN st
         /\ \A k \in DOMAIN st : st[k] \in AnyAct /\ st[k].base \in Nat /\ st[k].level \in Nat /\ st[k].ctx \in Block
         /\ \A k \in DOMAIN st : /\ st[1].level =< st[k].level /\ st[k].level =< st[Len(st)].level
                                 /\ st[1].base =< st[k].base /\ st[k].base =< st[Len(st)].base
         /\ \A k \in DOMAIN st : st[k].op = "chunk" <=> k = 1
         /\ \A k \in DOMAIN st : k < Len(st) => st[k].val = Nil
  <1>1. Len(st) \in Nat /\ DOMAIN st = 1 .. Len(st) /\ Len(st) >= 1 /\ \A k \in DOMAIN st : st[k] \in AnyAct
    BY LenFacts DEF Shape
  <1>2. Len(st) \in DOMAIN st /\ 1 \in DOMAIN st
    BY <1>1
  <1>3. \A k \in DOMAIN st : st[k].base \in Nat /\ st[k].level \in Nat /\ st[k].ctx \in Block
    BY <1>1, ActFacts
  <1>4. ASSUME NEW j \in DOMAIN st, NEW k \in DOMAIN st, j =< k
        PROVE  st[j].level =< st[k].level /\ st[j].base =< st[k].base
    <2>1. CASE j = k
      BY <1>3, <2>1
    <2>2. CASE j < k
      BY <2>2 DEF Shape, Nested
    <2> QED BY <1>1, <1>4, <2>1, <2>2
  <1>5. \A k \in DOMAIN st : 1 =< k /\ k =< Len(st)
    BY <1>1
  <1>6. \A k \in DOMAIN st : /\ st[1].level =< st[k].level /\ st[k].level =< st[Len(st)].level
                             /\ st[1].base =< st[k].base /\ st[k].base =< st[Len(st)].base
    BY <1>2, <1>4, <1>5
  <1>7. \A k \in DOMAIN st : st[k].op = "chunk" <=> k = 1
    <2>1. \A k \in DOMAIN st : k = 1 \/ k \in 2 .. Len(st)
      BY <1>1
    <2> QED BY <1>1, <2>1 DEF Shape
  <1>8. \A k \in DOMAIN st : k < Len(st) => st[k].val = Nil
    BY <1>2 DEF Shape, Nested
  <1> QED BY <1>1, <1>2, <1>3, <1>6, <1>7, <1>8

LEMMA StackReplace ==
  ASSUME NEW st \in Seq(AnyAct), NEW bl, Stack(st, bl), NEW a \in AnyAct, SamePlace(a, st[Len(st)]), Kind(a)
  PROVE  LET t == [st EXCEPT ![Len(st)] = a]
         IN  /\ Stack(t, bl) /\ t \in Seq(AnyAct) /\ Len(t) = Len(st) /\ DOMAIN t = DOMAIN st
             /\ t[Len(t)] = a /\ \A k \in DOMAIN st : SamePlace(t[k], st[k]) /\ (k # Len(st) => t[k] = st[k])
  <1> DEFINE n == Len(st)
             t == [st EXCEPT ![n] = a]
  <1>1. n \in Nat /\ n >= 1 /\ DOMAIN st = 1 .. n /\ n \in DOMAIN st /\ 1 \in DOMAIN st /\ SamePlace(a, st[n])
    BY StackFacts DEF Stack
  <1>2. t \in Seq(AnyAct) /\ Len(t) = n /\ DOMAIN t = DOMAIN st /\ t[n] = a /\ \A k \in DOMAIN st : k # n => t[k] = st[k]
    BY <1>1, ReplaceFacts
  <1>3. Shape(t)
    BY ShapeReplace DEF Stack
  <1>4. st[Len(st)] = st[n]
    OBVIOUS
  <1> HIDE DEF t, n
  <1>5. \A k \in DOMAIN st : SamePlace(t[k], st[k])
    <2> SUFFICES ASSUME NEW k \in DOMAIN st PROVE SamePlace(t[k], st[k])
      OBVIOUS
    <2>1. CASE k = n
      BY <1>1, <1>2, <2>1
    <2>2. CASE k # n
      BY <1>2, <2>2 DEF SamePlace
    <2> QED BY <2>1, <2>2
  <1>6. \A k \in DOMAIN st : /\ t[k].op = st[k].op /\ t[k].base = st[k].base
                             /\ t[k].level = st[k].level /\ t[k].ctx = st[k].ctx
    BY <1>5 DEF SamePlace
  <1>7. OnBlocks(t, bl)
    BY <1>1, <1>2, <1>4, <1>6 DEF Stack, OnBlocks
  <1>8. OnFrames(t)
    BY <1>1, <1>2, <1>4, <1>6 DEF Stack, OnFrames
  <1> QED BY <1>1, <1>2, <1>3, <1>5, <1>7, <1>8 DEF Stack, t, n

LEMMA StackPush ==
  ASSUME NEW st \in Seq(AnyAct), NEW bl, Stack(st, bl), NEW a \in AnyAct, NEW bl2,
         Link(st[Len(st)], a), Kind(a), a.op # "chunk", st[Len(st)].val = Nil,
         a.op = "call" => \A k \in DOMAIN st : Fun[st[k].ctx] # Fun[a.ctx],
         \A m \in DOMAIN bl : m \in DOMAIN bl2 /\ bl2[m] = bl[m],
         a.op \in InBlock => a.base \in DOMAIN bl2 /\ bl2[a.base] = a.ctx
  PROVE  LET t == Append(st, a)
         IN  /\ Stack(t, bl2) /\ t \in Seq(AnyAct) /\ Len(t) = Len(st) + 1 /\ DOMAIN t = 1 .. (Len(st) + 1)
             /\ t[Len(t)] = a /\ \A k \in DOMAIN st : t[k] = st[k]
  <1> DEFINE n == Len(st)
             t == Append(st, a)
  <1>1. /\ n \in Nat /\ n >= 1 /\ DOMAIN st = 1 .. n /\ n \in DOMAIN st /\ 1 \in DOMAIN st
        /\ \A k \in DOMAIN st : st[k].base \in Nat /\ st[k].level \in Nat
        /\ a.base \in Nat /\ a.level \in Nat
    BY StackFacts, ActFacts DEF Stack
  <1>2. /\ t \in Seq(AnyAct) /\ Len(t) = n + 1 /\ DOMAIN t = 1 .. (n + 1) /\ t[n + 1] = a
        /\ \A k \in 1 .. n : t[k] = st[k]
    BY AppendFacts
  <1>3. Shape(t)
    BY ShapePush DEF Stack
  <1>4. Link(st[n], a)
    OBVIOUS
  <1>5. OnBlocks(st, bl) /\ OnFrames(st)
    BY DEF Stack
  <1>6. st[Len(st)] = st[n]
    OBVIOUS
  <1> HIDE DEF t, n
  <1>7. \A k \in DOMAIN t : k \in DOMAIN st \/ k = n + 1
    BY <1>1, <1>2
  <1>8. \A k \in DOMAIN st : k \in DOMAIN t /\ t[k] = st[k]
    BY <1>1, <1>2
  <1>9. t[1] = st[1] /\ t[Len(t)] = a /\ n + 1 \in DOMAIN t
    BY <1>1, <1>2
  <1>10. OnBlocks(t, bl2)
    <2>1. \A k \in DOMAIN t : t[k].op \in InBlock => t[k].base \in DOMAIN bl2 /\ bl2[t[k].base] = t[k].ctx
      BY <1>2, <1>5, <1>7, <1>8 DEF OnBlocks
    <2>2. ASSUME NEW m \in (t[1].base + 1) .. t[Len(t)].base
          PROVE  \E k \in DOMAIN t : t[k].op \in Owner /\ t[k].base = m
      <3>1. CASE m \in (st[1].base + 1) .. st[n].base
        <4>1. PICK k \in DOMAIN st : st[k].op \in Owner /\ st[k].base = m
          BY <1>5, <1>6, <3>1 DEF OnBlocks
        <4> QED BY <1>8, <4>1
      <3>2. CASE m \notin (st[1].base + 1) .. st[n].base
        <4>1. a.op \in Owner /\ a.base = m
          <5>1. a.base = st[n].base \/ (a.op \in Owner /\ a.base = st[n].base + 1)
            BY <1>4 DEF Link, Owner
          <5>2. m \in (st[1].base + 1) .. a.base
            BY <1>9
          <5> QED BY <1>1, <3>2, <5>1, <5>2
        <4> QED BY <1>2, <1>9, <4>1
      <3> QED BY <3>1, <3>2
    <2> QED BY <2>1, <2>2 DEF OnBlocks
  <1>11. OnFrames(t)
    <2> SUFFICES ASSUME NEW l \in (t[1].level + 1) .. t[Len(t)].level
                 PROVE  \E k \in DOMAIN t : t[k].op = "call" /\ t[k].level = l
      BY DEF OnFrames
    <2>1. CASE l \in (st[1].level + 1) .. st[n].level
      <3>1. PICK k \in DOMAIN st : st[k].op = "call" /\ st[k].level = l
        BY <1>5, <1>6, <2>1 DEF OnFrames
      <3> QED BY <1>8, <3>1
    <2>2. CASE l \notin (st[1].level + 1) .. st[n].level
      <3>1. a.op = "call" /\ a.level = l
        <4>1. a.level = st[n].level \/ (a.op = "call" /\ a.level = st[n].level + 1)
          BY <1>4 DEF Link, Owner
        <4>2. l \in (st[1].level + 1) .. a.level
          BY <1>9
        <4> QED BY <1>1, <2>2, <4>1, <4>2
      <3> QED BY <1>2, <1>9, <3>1
    <2> QED BY <2>1, <2>2
  <1> QED BY <1>2, <1>3, <1>8, <1>9, <1>10, <1>11 DEF Stack, t, n

LEMMA StackPrefix ==
  ASSUME NEW st \in Seq(AnyAct), NEW bl, Stack(st, bl), NEW n \in 1 .. Len(st), NEW bl2,
         \A m \in DOMAIN bl : m =< st[n].base => m \in DOMAIN bl2 /\ bl2[m] = bl[m]
  PROVE  LET t == SubSeq(st, 1, n)
         IN  /\ Stack(t, bl2) /\ t \in Seq(AnyAct) /\ Len(t) = n /\ DOMAIN t = 1 .. n
             /\ \A k \in 1 .. n : t[k] = st[k] /\ k \in DOMAIN st
  <1> DEFINE t == SubSeq(st, 1, n)
  <1>1. /\ Len(st) \in Nat /\ DOMAIN st = 1 .. Len(st) /\ Len(st) \in DOMAIN st /\ 1 \in DOMAIN st
        /\ n \in Nat /\ n \in 0 .. Len(st) /\ n >= 1
        /\ \A k \in DOMAIN st : st[k].base \in Nat /\ st[k].level \in Nat
        /\ st[n].base =< st[Len(st)].base /\ st[n].level =< st[Len(st)].level
    BY StackFacts DEF Stack
  <1>2. t \in Seq(AnyAct) /\ Len(t) = n /\ DOMAIN t = 1 .. n /\ \A k \in 1 .. n : t[k] = st[k]
    BY <1>1, PrefixFacts
  <1>3. Shape(t)
    BY ShapePrefix DEF Stack
  <1>4. OnBlocks(st, bl) /\ OnFrames(st) /\ Shape(st)
    BY DEF Stack
  <1> HIDE DEF t
  <1>5. \A k \in 1 .. n : k \in DOMAIN st
    BY <1>1
  <1>6. t[1] = st[1] /\ t[Len(t)] = st[n] /\ n \in DOMAIN st
    BY <1>1, <1>2
  <1>7. \A k \in DOMAIN st : k > n => Nested(st[n], st[k])
    BY <1>4, <1>6 DEF Shape
  <1>8. \A k \in 1 .. n : st[k].base =< st[n].base
    <2> SUFFICES ASSUME NEW k \in 1 .. n PROVE st[k].base =< st[n].base
      OBVIOUS
    <2>1. CASE k = n
      BY <1>1, <1>6, <2>1
    <2>2. CASE k < n
      BY <1>4, <1>5, <1>6, <2>2 DEF Shape, Nested
    <2> QED BY <1>1, <2>1, <2>2
  <1>9. OnBlocks(t, bl2)
    <2>1. \A k \in DOMAIN t : t[k].op \in InBlock => t[k].base \in DOMAIN bl2 /\ bl2[t[k].base] = t[k].ctx
      BY <1>2, <1>4, <1>5, <1>8 DEF OnBlocks
    <2>2. ASSUME NEW m \in (t[1].base + 1) .. t[Len(t)].base
          PROVE  \E k \in DOMAIN t : t[k].op \in Owner /\ t[k].base = m
      <3>1. m \in (st[1].base + 1) .. st[Len(st)].base /\ m =< st[n].base /\ m \in Nat
        BY <1>1, <1>6, SMTT(60)
      <3>2. PICK k \in DOMAIN st : st[k].op \in Owner /\ st[k].base = m
        BY <1>4, <3>1 DEF OnBlocks
      <3>3. ~ k > n
        <4> SUFFICES ASSUME k > n PROVE FALSE
          OBVIOUS
        <4>1. st[n].base < st[k].base
          BY <1>7, <3>2 DEF Nested
        <4> QED BY <1>1, <1>6, <3>1, <3>2, <4>1
      <3>4. k \in 1 .. n
        BY <1>1, <3>3
      <3> QED BY <1>2, <3>2, <3>4
    <2> QED BY <2>1, <2>2 DEF OnBlocks
  <1>10. OnFrames(t)
    <2> SUFFICES ASSUME NEW l \in (t[1].level + 1) .. t[Len(t)].level
                 PROVE  \E k \in DOMAIN t : t[k].op = "call" /\ t[k].level = l
      BY DEF OnFrames
    <2>1. l \in (st[1].level + 1) .. st[Len(st)].level /\ l =< st[n].level /\ l \in Nat
      BY <1>1, <1>6, SMTT(60)
    <2>2. PICK k \in DOMAIN st : st[k].op = "call" /\ st[k].level = l
      BY <1>4, <2>1 DEF OnFrames
    <2>3. ~ k > n
      <3> SUFFICES ASSUME k > n PROVE FALSE
        OBVIOUS
      <3>1. st[n].level < st[k].level
        BY <1>7, <2>2 DEF Nested
      <3> QED BY <1>1, <1>6, <2>1, <2>2, <3>1
    <2>4. k \in 1 .. n
      BY <1>1, <2>3
    <2> QED BY <1>2, <2>2, <2>4
  <1> QED BY <1>2, <1>3, <1>5, <1>9, <1>10 DEF Stack, t

-----------------------------------------------------------------------------
(* The invariant, part 1: types, and the stacks.                           *)

Loose ==
  /\ scenario \in Scenarios /\ file \in 0 .. Len(scenario.files)
  /\ status \in {"idle", "run", "failing", "over", "dangling", "stale", "crash", "cut"} /\ failed \in BOOLEAN
  /\ acts \in Seq(AnyAct) /\ blocks \in Seq(Block)
  /\ frames \in Seq(AnyStore) /\ globals \in [Name -> Nat]
  /\ functions \in Seq(Nat)
  /\ cells \in Seq(AnyCell) /\ objs \in Seq(AnyObj)
  /\ lost \subseteq Nat
  /\ work \in Seq(AnyUpdate)

(* Pointers are to the first c cells and the first o functions.            *)
ValueIn(v, o) == v # Nil => v \in 1 .. o
NamesIn(g, c) == \A n \in Name : g[n] =< c
StoreIn(f, c) == \A b \in Block : NamesIn(f[b], c)
ActIn(a, c, o) ==
  /\ a.cell =< c /\ a.fill =< c /\ NamesIn(a.env, c) /\ ValueIn(a.val, o)
  /\ \A i \in DOMAIN a.held : ValueIn(a.held[i], o)
ObjIn(x, c) == NamesIn(x.closure, c) /\ NamesIn(x.env, c)
UpdateIn(u, c, o) ==
  /\ u.op \in {"add", "drop"} => ValueIn(u.x, o) /\ u.v = Nil
  /\ u.op \in {"dropold", "unref"} => u.x \in 1 .. c /\ u.v = Nil
  /\ u.op = "write" => u.x \in 1 .. c /\ ValueIn(u.v, o)

ActsIn(st, c, o) == \A k \in DOMAIN st : ActIn(st[k], c, o)
FramesIn(fr, c) == \A k \in DOMAIN fr : StoreIn(fr[k], c)
FunctionsIn(fs, o) == \A k \in DOMAIN fs : fs[k] \in 1 .. o
CellsIn(cs, o) == \A k \in DOMAIN cs : ValueIn(cs[k].value, o)
ObjsIn(os, c) == \A k \in DOMAIN os : ObjIn(os[k], c)
UpdatesIn(w, c, o) == \A k \in DOMAIN w : UpdateIn(w[k], c, o)

Bounded ==
  LET c == Len(cells)
      o == Len(objs)
  IN  /\ ActsIn(acts, c, o) /\ FramesIn(frames, c) /\ NamesIn(globals, c)
      /\ FunctionsIn(functions, o)
      /\ CellsIn(cells, o) /\ ObjsIn(objs, c)
      /\ lost \subseteq 1 .. c
      /\ UpdatesIn(work, c, o)

LEMMA BoundsGrow ==
  ASSUME NEW c \in Nat, NEW o \in Nat, NEW c2 \in Nat, NEW o2 \in Nat, c =< c2, o =< o2
  PROVE  /\ \A v : ValueIn(v, o) => ValueIn(v, o2)
         /\ \A g \in [Name -> Nat] : NamesIn(g, c) => NamesIn(g, c2)
         /\ \A f \in AnyStore : StoreIn(f, c) => StoreIn(f, c2)
         /\ \A a \in AnyAct : ActIn(a, c, o) => ActIn(a, c2, o2)
         /\ \A x \in AnyObj : ObjIn(x, c) => ObjIn(x, c2)
         /\ \A u \in AnyUpdate : UpdateIn(u, c, o) => UpdateIn(u, c2, o2)
  <1>1. \A v : ValueIn(v, o) => ValueIn(v, o2)
    BY DEF ValueIn
  <1>2. \A g \in [Name -> Nat] : NamesIn(g, c) => NamesIn(g, c2)
    BY DEF NamesIn
  <1>3. \A f \in AnyStore : StoreIn(f, c) => StoreIn(f, c2)
    BY <1>2 DEF AnyStore, StoreIn
  <1>4. \A a \in AnyAct : ActIn(a, c, o) => ActIn(a, c2, o2)
    <2> SUFFICES ASSUME NEW a \in AnyAct, ActIn(a, c, o) PROVE ActIn(a, c2, o2)
      OBVIOUS
    <2>1. a.cell \in Nat /\ a.fill \in Nat /\ a.env \in [Name -> Nat]
      BY ActFacts
    <2>2. a.cell =< c2 /\ a.fill =< c2
      BY <2>1 DEF ActIn
    <2> QED BY <1>1, <1>2, <2>1, <2>2 DEF ActIn
  <1>5. \A x \in AnyObj : ObjIn(x, c) => ObjIn(x, c2)
    BY <1>2 DEF AnyObj, ObjIn
  <1>6. \A u \in AnyUpdate : UpdateIn(u, c, o) => UpdateIn(u, c2, o2)
    BY <1>1 DEF UpdateIn
  <1> QED BY <1>1, <1>2, <1>3, <1>4, <1>5, <1>6

LEMMA BoundsGrowSeq ==
  ASSUME NEW c \in Nat, NEW o \in Nat, NEW c2 \in Nat, NEW o2 \in Nat, c =< c2, o =< o2
  PROVE  /\ \A st \in Seq(AnyAct) : ActsIn(st, c, o) => ActsIn(st, c2, o2)
         /\ \A fr \in Seq(AnyStore) : FramesIn(fr, c) => FramesIn(fr, c2)
         /\ \A fs \in Seq(Nat) : FunctionsIn(fs, o) => FunctionsIn(fs, o2)
         /\ \A cs \in Seq(AnyCell) : CellsIn(cs, o) => CellsIn(cs, o2)
         /\ \A os \in Seq(AnyObj) : ObjsIn(os, c) => ObjsIn(os, c2)
         /\ \A w \in Seq(AnyUpdate) : UpdatesIn(w, c, o) => UpdatesIn(w, c2, o2)
  <1>1. \A fs \in Seq(Nat) : FunctionsIn(fs, o) => FunctionsIn(fs, o2)
    BY DEF FunctionsIn
  <1>2. \A st \in Seq(AnyAct) : \A k \in DOMAIN st : st[k] \in AnyAct
    BY LenFacts
  <1>3. \A fr \in Seq(AnyStore) : \A k \in DOMAIN fr : fr[k] \in AnyStore
    BY LenFacts
  <1>4. \A os \in Seq(AnyObj) : \A k \in DOMAIN os : os[k] \in AnyObj
    BY LenFacts
  <1>5. \A w \in Seq(AnyUpdate) : \A k \in DOMAIN w : w[k] \in AnyUpdate
    BY LenFacts
  <1>6. \A st \in Seq(AnyAct) : ActsIn(st, c, o) => ActsIn(st, c2, o2)
    BY <1>2, BoundsGrow DEF ActsIn
  <1>7. \A fr \in Seq(AnyStore) : FramesIn(fr, c) => FramesIn(fr, c2)
    BY <1>3, BoundsGrow DEF FramesIn
  <1>8. \A cs \in Seq(AnyCell) : CellsIn(cs, o) => CellsIn(cs, o2)
    BY BoundsGrow DEF CellsIn
  <1>9. \A os \in Seq(AnyObj) : ObjsIn(os, c) => ObjsIn(os, c2)
    BY <1>4, BoundsGrow DEF ObjsIn
  <1>10. \A w \in Seq(AnyUpdate) : UpdatesIn(w, c, o) => UpdatesIn(w, c2, o2)
    BY <1>5, BoundsGrow DEF UpdatesIn
  <1> QED BY <1>1, <1>6, <1>7, <1>8, <1>9, <1>10

(* The statement an activation is at, whose result it stores; and the      *)
(* variables it has found.                                                 *)
Fits(a, s) ==
  /\ s.op = "assign" /\ a.at = "store" => a.cell # 0
  /\ a.fill # 0 => s.op = "assign"
  /\ s.op = "assign" /\ s.id2 # Nil /\ a.at # "stat" => a.fill # 0
  /\ a.at = "fill" => s.id2 # Nil
Placed(a, code) ==
  a.op \in Blocky /\ (a.at # "stat" \/ a.fill # 0) =>
    a.i \in DOMAIN code[a.ctx].stats /\ Fits(a, code[a.ctx].stats[a.i])

(* The function of a call, if it is held, is on _functions, next to the    *)
(* frame.                                                                  *)
Matched(a, f, fs) == a.op = "call" => a.level > f /\ a.held[1] \in {Nil, fs[a.level - f]}

(* Entries of a frame belong to blocks that are being executed there.      *)
Owned(st, fr) ==
  \A l \in DOMAIN fr : l >= st[1].level =>
    \A b \in Block, n \in Name : fr[l][b][n] # 0 =>
      \E k \in DOMAIN st : st[k].op \in Owner /\ st[k].level = l /\ st[k].ctx = b

(* The stacks while file f runs: code is the program, bad tells that an    *)
(* exception has left frames behind.                                       *)
StructOf(code, f, bad, st, bl, fr, fs) ==
  /\ Stack(st, bl)
  /\ st[Len(st)].at = "store" \/ st[Len(st)].val = Nil
  /\ \A k \in DOMAIN st : Placed(st[k], code) /\ Matched(st[k], f, fs)
  /\ Len(st) > 1 => st[Len(st)].base = Len(bl) /\ Owned(st, fr)
  /\ st[Len(st)].level = Len(fr) /\ st[1].level >= f /\ st[1].level >= 1
  /\ ~ bad => st[1].level = f

Struct == StructOf(scenario.code, file, failed, acts, blocks, frames, functions)

(* _local_values holds a frame per file and one per function.              *)
Heights == status \in {"idle", "run", "failing"} => Len(frames) = Len(functions) + file

Quiet ==
  /\ status \in {"idle", "over"} => acts = << >>
  /\ status \in {"idle", "over"} /\ ~ failed => functions = << >>
  /\ status = "failing" => failed
  /\ status = "over" => globals = NoNames
  /\ \A k \in DOMAIN acts : Len(acts[k].held) =< 4

Inv1 == Loose /\ Bounded /\ (status = "run" => Struct) /\ Heights /\ Quiet

-----------------------------------------------------------------------------
(* Finite sets.                                                            *)

(* A set of numbers that is not empty has a least one.                     *)
LEMMA LeastNat ==
  ASSUME NEW T, T \subseteq Nat, T # {}
  PROVE  \E x \in T : \A y \in T : x =< y
  <1> DEFINE R == {ss \in Nat \X Nat : ss[1] < ss[2]}
  <1>1. IsWellFoundedOn(R, Nat)
    BY NatLessThanWellFounded DEF OpToRel
  <1> HIDE DEF R
  <1>2. \E u \in T : \A v \in T : ~ (<<v, u>> \in R)
    BY <1>1, WFMin
  <1>3. PICK u \in T : \A v \in T : ~ (v < u)
    BY <1>2 DEF R
  <1>4. \A v \in T : u =< v
    BY <1>3
  <1> QED BY <1>4

(* A finite one that is not empty has a greatest.                          *)
LEMMA FiniteBounded ==
  ASSUME NEW T, T \subseteq Nat, IsFiniteSet(T)
  PROVE  \E u \in Nat : \A y \in T : y =< u
  <1> DEFINE Bad == {n \in Nat : \E U : /\ U \subseteq Nat /\ IsFiniteSet(U) /\ Cardinality(U) = n
                                        /\ ~ \E u \in Nat : \A y \in U : y =< u}
  <1> SUFFICES ASSUME ~ \E u \in Nat : \A y \in T : y =< u PROVE FALSE
    OBVIOUS
  <1>1. Cardinality(T) \in Bad
    BY FS_CardinalityType
  <1>2. PICK n \in Bad : \A m \in Bad : n =< m
    <2>1. Bad \subseteq Nat /\ Bad # {}
      BY <1>1
    <2> HIDE DEF Bad
    <2> QED BY <2>1, LeastNat
  <1>3. PICK U : /\ U \subseteq Nat /\ IsFiniteSet(U) /\ Cardinality(U) = n
                 /\ ~ \E u \in Nat : \A y \in U : y =< u
    BY <1>2
  <1>4. U # {}
    BY <1>3
  <1>5. PICK x \in U : TRUE
    BY <1>4
  <1>6. IsFiniteSet(U \ {x}) /\ Cardinality(U \ {x}) = n - 1 /\ n \in Nat
    BY <1>3, <1>5, FS_RemoveElement
  <1>7. n - 1 \in Nat
    BY <1>6, FS_CardinalityType
  <1>8. n - 1 \notin Bad
    BY <1>2, <1>6, <1>7
  <1>9. PICK u \in Nat : \A y \in U \ {x} : y =< u
    BY <1>3, <1>6, <1>7, <1>8
  <1>10. x \in Nat
    BY <1>3, <1>5
  <1>11. \A y \in U : y =< u + x
    BY <1>3, <1>9, <1>10
  <1>12. u + x \in Nat
    BY <1>10
  <1> QED BY <1>3, <1>11, <1>12

LEMMA GreatestNat ==
  ASSUME NEW T, T \subseteq Nat, IsFiniteSet(T), T # {}
  PROVE  \E x \in T : \A y \in T : y =< x
  <1>1. PICK u \in Nat : \A y \in T : y =< u
    BY FiniteBounded
  <1> DEFINE n == u + 1
             V == {t + 1 : t \in T}
  <1>2. \A t \in T : t \in Nat /\ t + 1 \in 1 .. n
    BY <1>1
  <1> HIDE DEF n
  <1>3. V \subseteq 1 .. n /\ V # {} /\ n \in Nat
    <2>1. n \in Nat
      BY DEF n
    <2>2. \A v \in V : v \in 1 .. n
      BY <1>2
    <2> QED BY <2>1, <2>2
  <1>4. PICK x \in V : \A y \in V : y =< x
    <2> HIDE DEF V
    <2> QED BY <1>3, LastPosition
  <1>5. PICK t \in T : x = t + 1
    BY <1>4
  <1>6. \A y \in T : y + 1 =< t + 1
    BY <1>4, <1>5
  <1>7. \A y \in T : y =< t
    BY <1>2, <1>6
  <1> QED BY <1>7

LEMMA BlockDepths ==
  ASSUME NEW T, T \subseteq Block, T # {}
  PROVE  /\ \E b \in T : \A x \in T : Depth[b] =< Depth[x]
         /\ \E b \in T : \A x \in T : Depth[b] >= Depth[x]
  <1> DEFINE D == {Depth[b] : b \in T}
             f == [b \in T |-> Depth[b]]
  <1>1. IsFiniteSet(T) /\ \A b \in T : Depth[b] \in Nat
    <2>1. IsFiniteSet(Block) /\ T \in SUBSET Block /\ \A b \in Block : Depth[b] \in Nat
      BY ScenarioAssumption
    <2> QED BY <2>1, FS_Subset
  <1>2. D \subseteq Nat /\ D # {}
    BY <1>1
  <1>3. f \in Surjection(T, D)
    BY DEF Surjection
  <1>4. IsFiniteSet(D)
    <2> HIDE DEF D, f
    <2> QED BY <1>1, <1>3, FS_Surjection
  <1>5. PICK x \in D : \A y \in D : x =< y
    <2> HIDE DEF D
    <2> QED BY <1>2, LeastNat
  <1>6. PICK z \in D : \A y \in D : y =< z
    <2> HIDE DEF D
    <2> QED BY <1>2, <1>4, GreatestNat
  <1>7. \E b \in T : \A y \in T : Depth[b] =< Depth[y]
    BY <1>5
  <1>8. PICK b \in T : z = Depth[b]
    BY <1>6
  <1>9. \A y \in T : Depth[y] =< Depth[b]
    BY <1>6, <1>8
  <1>10. \A y \in T : Depth[b] >= Depth[y]
    BY <1>1, <1>9
  <1> QED BY <1>7, <1>10

(* The cells of a store.                                                   *)
LEMMA CellsOfFacts ==
  ASSUME NEW f \in AnyStore, NEW bs, bs \subseteq Block
  PROVE  /\ IsFiniteSet(CellsOf(f, bs)) /\ CellsOf(f, bs) \subseteq Nat
         /\ \A c : c \in CellsOf(f, bs) <=> c # 0 /\ \E b \in bs, n \in Name : f[b][n] = c
  <1> DEFINE D == bs \X Name
             R == {f[b][n] : b \in bs, n \in Name}
             g == [p \in D |-> f[p[1]][p[2]]]
  <1>1. IsFiniteSet(bs) /\ IsFiniteSet(Name)
    <2>1. IsFiniteSet(Block) /\ bs \in SUBSET Block /\ IsFiniteSet(Name)
      BY ScenarioAssumption
    <2> QED BY <2>1, FS_Subset
  <1>2. IsFiniteSet(D)
    BY <1>1, FS_Product
  <1>3. g \in Surjection(D, R)
    <2>1. \A p \in D : p[1] \in bs /\ p[2] \in Name
      OBVIOUS
    <2>2. g \in [D -> R]
      BY <2>1
    <2>3. ASSUME NEW r \in R PROVE \E p \in D : g[p] = r
      <3>1. PICK b \in bs, n \in Name : r = f[b][n]
        OBVIOUS
      <3>2. <<b, n>> \in D
        OBVIOUS
      <3>3. g[<<b, n>>] = r
        BY <3>1, <3>2
      <3> HIDE DEF g, D, R
      <3> WITNESS <<b, n>> \in D
      <3> QED BY <3>3
    <2> HIDE DEF g, D, R
    <2> QED BY <2>2, <2>3 DEF Surjection
  <1>4. IsFiniteSet(R)
    <2> HIDE DEF D, R, g
    <2> QED BY <1>2, <1>3, FS_Surjection
  <1>5. CellsOf(f, bs) \subseteq R /\ IsFiniteSet(CellsOf(f, bs))
    <2>1. CellsOf(f, bs) = R \ {0}
      BY DEF CellsOf
    <2> HIDE DEF R
    <2> QED BY <1>4, <2>1, FS_Difference
  <1>6. \A b \in Block, n \in Name : f[b][n] \in Nat
    BY DEF AnyStore
  <1>7. CellsOf(f, bs) \subseteq Nat
    BY <1>6 DEF CellsOf
  <1> QED BY <1>5, <1>7 DEF CellsOf

(* The cells a table of names holds.                                       *)
NamesOf(g) == {g[n] : n \in Name} \ {0}

LEMMA NamesOfFacts ==
  ASSUME NEW g \in [Name -> Nat]
  PROVE  /\ IsFiniteSet(NamesOf(g)) /\ NamesOf(g) \subseteq Nat
         /\ \A c : c \in NamesOf(g) <=> c # 0 /\ \E n \in Name : g[n] = c
  <1> DEFINE R == {g[n] : n \in Name}
  <1>1. IsFiniteSet(Name)
    BY ScenarioAssumption
  <1>2. g \in Surjection(Name, R)
    BY DEF Surjection
  <1>3. IsFiniteSet(R)
    <2> HIDE DEF R
    <2> QED BY <1>1, <1>2, FS_Surjection
  <1>4. IsFiniteSet(NamesOf(g))
    BY <1>3, FS_Difference DEF NamesOf
  <1> QED BY <1>4 DEF NamesOf

-----------------------------------------------------------------------------
(* What the operators of the model return in such states.                  *)

LEMMA StateFacts ==
  ASSUME Inv1
  PROVE  /\ Len(cells) \in Nat /\ DOMAIN cells = 1 .. Len(cells) /\ \A c \in DOMAIN cells : cells[c] \in AnyCell
         /\ \A c \in DOMAIN cells : cells[c].value \in AnyValue /\ cells[c].refs \in Nat /\ ValueIn(cells[c].value, Len(objs))
         /\ Len(objs) \in Nat /\ DOMAIN objs = 1 .. Len(objs) /\ \A o \in DOMAIN objs : objs[o] \in AnyObj
         /\ \A o \in DOMAIN objs : objs[o].closure \in [Name -> Nat] /\ NamesIn(objs[o].closure, Len(cells))
         /\ Len(work) \in Nat /\ DOMAIN work = 1 .. Len(work)
         /\ Len(frames) \in Nat /\ DOMAIN frames = 1 .. Len(frames) /\ \A l \in DOMAIN frames : frames[l] \in AnyStore
         /\ Len(functions) \in Nat /\ DOMAIN functions = 1 .. Len(functions)
         /\ Len(blocks) \in Nat /\ DOMAIN blocks = 1 .. Len(blocks)
         /\ file \in Nat /\ Nil \notin Nat /\ scenario \in Scenarios
  <1>1. Loose /\ Bounded
    BY DEF Inv1
  <1>2. /\ Len(cells) \in Nat /\ DOMAIN cells = 1 .. Len(cells) /\ \A c \in DOMAIN cells : cells[c] \in AnyCell
        /\ Len(objs) \in Nat /\ DOMAIN objs = 1 .. Len(objs) /\ \A o \in DOMAIN objs : objs[o] \in AnyObj
        /\ Len(work) \in Nat /\ DOMAIN work = 1 .. Len(work)
        /\ Len(frames) \in Nat /\ DOMAIN frames = 1 .. Len(frames) /\ \A l \in DOMAIN frames : frames[l] \in AnyStore
        /\ Len(functions) \in Nat /\ DOMAIN functions = 1 .. Len(functions)
        /\ Len(blocks) \in Nat /\ DOMAIN blocks = 1 .. Len(blocks)
    BY <1>1, LenFacts DEF Loose
  <1>3. \A c \in DOMAIN cells : cells[c].value \in AnyValue /\ cells[c].refs \in Nat /\ ValueIn(cells[c].value, Len(objs))
    BY <1>1, <1>2 DEF Bounded, CellsIn, AnyCell
  <1>4. \A o \in DOMAIN objs : objs[o].closure \in [Name -> Nat] /\ NamesIn(objs[o].closure, Len(cells))
    BY <1>1, <1>2 DEF Bounded, ObjsIn, ObjIn, AnyObj
  <1>5. file \in Nat /\ Nil \notin Nat /\ scenario \in Scenarios
    <2>1. scenario \in Scenarios /\ file \in 0 .. Len(scenario.files)
      BY <1>1 DEF Loose
    <2>2. scenario.files \in Seq(Block) /\ Nil \notin Nat
      BY <2>1, ScenarioAssumption
    <2> QED BY <2>1, <2>2
  <1> QED BY <1>2, <1>3, <1>4, <1>5

(* The innermost activation of a run, its frame and its block.             *)
LEMMA RunFacts ==
  ASSUME Inv1, status = "run"
  PROVE  /\ Struct /\ Stack(acts, blocks) /\ Shape(acts) /\ acts \in Seq(AnyAct)
         /\ Len(acts) \in Nat /\ Len(acts) >= 1 /\ DOMAIN acts = 1 .. Len(acts) /\ Len(acts) \in DOMAIN acts
         /\ Top \in AnyAct /\ Top = acts[Len(acts)] /\ ActIn(Top, Len(cells), Len(objs)) /\ Kind(Top)
         /\ Len(frames) \in Nat /\ Len(frames) >= 1 /\ DOMAIN frames = 1 .. Len(frames) /\ frames # << >>
         /\ Frame \in AnyStore /\ Frame = frames[Len(frames)] /\ StoreIn(Frame, Len(cells)) /\ Len(frames) \in DOMAIN frames
         /\ Top.op # "chunk" => /\ Len(acts) > 1 /\ Top.base = Len(blocks) /\ Owned(acts, frames)
         /\ Top.op \in InBlock => /\ blocks # << >> /\ Len(blocks) \in DOMAIN blocks /\ Len(blocks) >= 1
                                  /\ Current = Top.ctx /\ blocks[Len(blocks)] = Top.ctx
         /\ Top.level = Len(frames)
  <1>1. Struct /\ Stack(acts, blocks) /\ Shape(acts) /\ acts \in Seq(AnyAct)
    BY DEF Inv1, Struct, StructOf, Stack, Loose
  <1>2. /\ Len(acts) \in Nat /\ Len(acts) >= 1 /\ DOMAIN acts = 1 .. Len(acts) /\ Len(acts) \in DOMAIN acts
        /\ Top \in AnyAct /\ Top = acts[Len(acts)] /\ \A k \in DOMAIN acts : acts[k].op = "chunk" <=> k = 1
        /\ acts[1].level \in Nat /\ acts[1].level =< Top.level /\ Top.level \in Nat /\ 1 \in DOMAIN acts
    BY <1>1, StackFacts DEF Top
  <1>3. ActIn(Top, Len(cells), Len(objs)) /\ Kind(Top)
    BY <1>1, <1>2 DEF Inv1, Bounded, ActsIn, Shape
  <1>4. /\ Len(frames) \in Nat /\ DOMAIN frames = 1 .. Len(frames) /\ \A l \in DOMAIN frames : frames[l] \in AnyStore
        /\ Len(blocks) \in Nat /\ DOMAIN blocks = 1 .. Len(blocks) /\ blocks \in Seq(Block) /\ frames \in Seq(AnyStore)
    BY StateFacts DEF Inv1, Loose
  <1>5. Len(frames) >= 1 /\ frames # << >> /\ Len(frames) \in DOMAIN frames
    <2>1. Top.level = Len(frames) /\ acts[1].level >= 1
      BY <1>1 DEF Struct, StructOf, Top
    <2> QED BY <1>2, <1>4, <2>1
  <1>6. Frame = frames[Len(frames)] /\ Frame \in AnyStore
    BY <1>4, <1>5 DEF Frame, Last
  <1>7. StoreIn(Frame, Len(cells))
    BY <1>5, <1>6 DEF Inv1, Bounded, FramesIn
  <1>8. Top.op # "chunk" => Len(acts) > 1 /\ Top.base = Len(blocks) /\ Owned(acts, frames)
    BY <1>1, <1>2 DEF Struct, StructOf
  <1>9. ASSUME Top.op \in InBlock
        PROVE  /\ blocks # << >> /\ Len(blocks) \in DOMAIN blocks /\ Len(blocks) >= 1
               /\ Current = Top.ctx /\ blocks[Len(blocks)] = Top.ctx
    <2>1. Top.base \in DOMAIN blocks /\ blocks[Top.base] = Top.ctx
      BY <1>1, <1>2, <1>9 DEF Stack, OnBlocks
    <2>2. Top.base = Len(blocks)
      BY <1>8, <1>9 DEF InBlock
    <2>3. Len(blocks) >= 1 /\ blocks # << >>
      BY <1>4, <2>1, <2>2
    <2> QED BY <2>1, <2>2, <2>3 DEF Current, Last
  <1>10. Top.level = Len(frames)
    BY <1>1 DEF Struct, StructOf, Top
  <1> QED BY <1>1, <1>2, <1>3, <1>4, <1>5, <1>6, <1>7, <1>8, <1>9, <1>10

(* A statement of the program is well formed.                              *)
LEMMA CodeFacts ==
  ASSUME Inv1, NEW b \in Block
  PROVE  /\ Code_(b).stats \in Seq(Stat) /\ Code_(b).param \in Name \cup {Nil}
         /\ \A i \in DOMAIN Code_(b).stats : Code_(b).stats[i] \in Stat /\ WellFormedStat(b, Code_(b).stats[i])
  <1>1. scenario \in Scenarios
    BY StateFacts
  <1>2. scenario.code \in [Block -> Code] /\ \A i \in DOMAIN scenario.code[b].stats : WellFormedStat(b, scenario.code[b].stats[i])
    BY <1>1, ScenarioAssumption
  <1>3. Code_(b) \in Code
    BY <1>2 DEF Code_
  <1>4. Code_(b).stats \in Seq(Stat) /\ Code_(b).param \in Name \cup {Nil}
    BY <1>3, SMTT(60) DEF Code
  <1> QED BY <1>2, <1>4, LenFacts DEF Code_

LEMMA StatFacts ==
  ASSUME Inv1, NEW ops, AtStat(ops)
  PROVE  /\ status = "run" /\ work = << >> /\ Top.op \in Blocky /\ Top.op \in InBlock /\ Top.op # "chunk"
         /\ Top.at = "stat" /\ Top.val = Nil /\ Top.held = << >>
         /\ Top.ctx \in Block /\ Top.i \in Nat /\ Current = Top.ctx
         /\ Top.i \in DOMAIN Code_(Top.ctx).stats
         /\ S \in Stat /\ S.op \in ops /\ WellFormedStat(Top.ctx, S) /\ S = Code_(Top.ctx).stats[Top.i]
         /\ S.id \in Name \cup {Nil} /\ S.e \in Exp /\ S.blk \in Block \cup {Nil} /\ S.id2 \in Name \cup {Nil}
         /\ S.e.n \in Name \cup {Nil} /\ S.e.arg \in Name \cup {Nil} /\ S.e.f \in Body \cup {Nil}
         /\ Top.fill # 0 => S.op = "assign"
         /\ S.op \in {"local", "assign", "function", "localfunction", "for"} => S.id \in Name
         /\ S.op \in {"function", "localfunction"} => S.e.f \in Body
         /\ S.e.k = "fun" => S.e.f \in Body
         /\ S.e.k \in CallKinds /\ S.e.n = Nil => S.e.f \in Body
         /\ S.e.k = "name" => S.e.n \in Name
         /\ S.op \in {"do", "for"} => S.blk \in Block /\ Parent[S.blk] = Top.ctx /\ S.blk \notin Body
  <1>1. status = "run" /\ work = << >> /\ Top.op \in {"block", "forblock"} /\ Top.at = "stat"
        /\ Top.i \in DOMAIN Code_(Top.ctx).stats /\ S.op \in ops
    BY DEF AtStat, AtBlock, Running
  <1>2. Top \in AnyAct /\ Kind(Top) /\ Struct /\ (Top.op \in InBlock => Current = Top.ctx)
    BY <1>1, RunFacts
  <1>3. Top.op \in Blocky /\ Top.op \in InBlock /\ Top.op # "chunk" /\ Top.op # "call"
    BY <1>1 DEF Blocky, InBlock
  <1>4. Top.val = Nil /\ Top.held = << >> /\ Top.ctx \in Block /\ Top.i \in Nat
    BY <1>1, <1>2, <1>3, ActFacts DEF Struct, StructOf, Kind, Top
  <1>5. S \in Stat /\ WellFormedStat(Top.ctx, S)
    BY <1>1, <1>4, CodeFacts DEF S
  <1>6. S = Code_(Top.ctx).stats[Top.i]
    BY DEF S
  <1>7. S.id \in Name \cup {Nil} /\ S.e \in Exp /\ S.blk \in Block \cup {Nil} /\ S.id2 \in Name \cup {Nil}
    BY <1>5 DEF Stat
  <1>8. S.e.n \in Name \cup {Nil} /\ S.e.arg \in Name \cup {Nil} /\ S.e.f \in Body \cup {Nil}
    BY <1>7 DEF Exp
  <1>9. /\ S.op \in {"local", "assign", "function", "localfunction", "for"} => S.id \in Name
        /\ S.op \in {"do", "for"} => S.blk \in Block /\ Parent[S.blk] = Top.ctx /\ S.blk \notin Body
        /\ S.op \in {"function", "localfunction"} => S.e.k = "fun"
    BY <1>5, <1>7 DEF WellFormedStat
  <1>10. /\ S.e.k = "fun" => S.e.f \in Body
         /\ S.e.k \in CallKinds /\ S.e.n = Nil => S.e.f \in Body
         /\ S.e.k = "name" => S.e.n \in Name
    BY <1>5, <1>8 DEF WellFormedStat, WellFormedExp, CallKinds
  <1>11. Top.fill # 0 => S.op = "assign"
    <2>1. Placed(Top, scenario.code)
      BY <1>1, RunFacts DEF Struct, StructOf
    <2> QED BY <1>3, <1>6, <2>1 DEF Placed, Fits, Code_
  <1> QED BY <1>1, <1>2, <1>3, <1>4, <1>5, <1>6, <1>7, <1>8, <1>9, <1>10, <1>11

LEMMA StoreFacts ==
  ASSUME Inv1, NEW ops, AtStore(ops)
  PROVE  /\ status = "run" /\ work = << >> /\ Top.op \in Blocky /\ Top.op \in InBlock /\ Top.op # "chunk"
         /\ Top.at = "store" /\ Top.held = << >>
         /\ Top.ctx \in Block /\ Top.i \in Nat /\ Current = Top.ctx
         /\ Top.i \in DOMAIN Code_(Top.ctx).stats
         /\ S \in Stat /\ S.op \in ops /\ WellFormedStat(Top.ctx, S) /\ S = Code_(Top.ctx).stats[Top.i]
         /\ S.op \in {"local", "assign"} => S.id \in Name
         /\ S.op = "assign" => Top.cell # 0
         /\ S.id2 \in Name \cup {Nil} /\ (S.id2 # Nil => S.op \in {"local", "assign"})
         /\ (Top.fill # 0 => S.op = "assign") /\ (S.op = "assign" /\ S.id2 # Nil => Top.fill # 0)
  <1>1. status = "run" /\ work = << >> /\ Top.op \in {"block", "forblock"} /\ Top.at = "store" /\ S.op \in ops
    BY DEF AtStore, AtBlock, Running
  <1>2. Top \in AnyAct /\ Kind(Top) /\ Struct /\ (Top.op \in InBlock => Current = Top.ctx)
        /\ Len(acts) \in DOMAIN acts /\ Top = acts[Len(acts)]
    BY <1>1, RunFacts
  <1>3. Top.op \in Blocky /\ Top.op \in InBlock /\ Top.op # "chunk" /\ Top.op # "call"
    BY <1>1 DEF Blocky, InBlock
  <1>4. Top.held = << >> /\ Top.ctx \in Block /\ Top.i \in Nat
    BY <1>1, <1>2, <1>3, ActFacts DEF Kind
  <1>5. S = Code_(Top.ctx).stats[Top.i]
    BY DEF S
  <1>6. Placed(Top, scenario.code)
    BY <1>2 DEF Struct, StructOf
  <1>7. /\ Top.i \in DOMAIN Code_(Top.ctx).stats /\ (S.op = "assign" => Top.cell # 0)
        /\ (Top.fill # 0 => S.op = "assign") /\ (S.op = "assign" /\ S.id2 # Nil => Top.fill # 0)
    BY <1>1, <1>3, <1>5, <1>6 DEF Placed, Fits, Code_
  <1>8. S \in Stat /\ WellFormedStat(Top.ctx, S)
    BY <1>4, <1>7, CodeFacts DEF S
  <1>9. S.op \in {"local", "assign"} => S.id \in Name
    BY <1>8 DEF WellFormedStat, Stat
  <1>10. S.id2 \in Name \cup {Nil} /\ (S.id2 # Nil => S.op \in {"local", "assign"})
    BY <1>8 DEF WellFormedStat, Stat
  <1> QED BY <1>1, <1>2, <1>3, <1>4, <1>5, <1>7, <1>8, <1>9, <1>10

(* The same for the variable without a value.                              *)
LEMMA FillFacts ==
  ASSUME Inv1, NEW ops, AtFill(ops)
  PROVE  /\ status = "run" /\ work = << >> /\ Top.op \in Blocky /\ Top.op \in InBlock /\ Top.op # "chunk"
         /\ Top.at = "fill" /\ Top.val = Nil /\ Top.held = << >> /\ Top \in AnyAct
         /\ Top.ctx \in Block /\ Top.i \in Nat /\ Current = Top.ctx
         /\ S.op \in ops /\ S.id2 \in Name
         /\ S.op = "assign" => Top.fill # 0
  <1>1. status = "run" /\ work = << >> /\ Top.op \in {"block", "forblock"} /\ Top.at = "fill" /\ S.op \in ops
    BY DEF AtFill, AtBlock, Running
  <1>2. Top \in AnyAct /\ Kind(Top) /\ Struct /\ (Top.op \in InBlock => Current = Top.ctx)
        /\ Len(acts) \in DOMAIN acts /\ Top = acts[Len(acts)]
    BY <1>1, RunFacts
  <1>3. Top.op \in Blocky /\ Top.op \in InBlock /\ Top.op # "chunk" /\ Top.op # "call"
    BY <1>1 DEF Blocky, InBlock
  <1>4. Top.held = << >> /\ Top.ctx \in Block /\ Top.i \in Nat /\ Top.val = Nil
    BY <1>1, <1>2, <1>3, ActFacts DEF Kind, Struct, StructOf
  <1>5. S = Code_(Top.ctx).stats[Top.i]
    BY DEF S
  <1>6. Placed(Top, scenario.code)
    BY <1>2 DEF Struct, StructOf
  <1>7. Top.i \in DOMAIN Code_(Top.ctx).stats /\ S.id2 # Nil /\ (S.op = "assign" => Top.fill # 0)
    BY <1>1, <1>3, <1>5, <1>6 DEF Placed, Fits, Code_
  <1>8. S \in Stat
    BY <1>4, <1>7, CodeFacts DEF S
  <1>9. S.id2 \in Name
    BY <1>7, <1>8 DEF Stat
  <1> QED BY <1>1, <1>2, <1>3, <1>4, <1>7, <1>9

(* What lookup_name finds was allocated: an entry of this frame, a capture *)
(* of the running function or a global.                                    *)
LEMMA FoundFacts ==
  ASSUME Inv1, status = "run", NEW n \in Name
  PROVE  /\ Found(n) \in 0 .. Len(cells)
         /\ Found(n) # 0 => \E b \in Block : Frame[b][n] = Found(n)
  <1> DEFINE with  == {b \in Chain(Current) : Frame[b][n] # 0}
             local == {b \in with : n \in LocalsOf(b)}
  <1>1. Frame \in AnyStore /\ StoreIn(Frame, Len(cells)) /\ Len(cells) \in Nat
    BY RunFacts, StateFacts
  <1>2. Chain(Current) \subseteq Block
    BY DEF Chain
  <1>3. with \subseteq Block /\ local \subseteq Block
    BY <1>2
  <1>4. \A b \in Block : Frame[b][n] \in 0 .. Len(cells)
    BY <1>1 DEF AnyStore, StoreIn, NamesIn
  <1>5. local # {} => (CHOOSE b \in local : \A x \in local : Depth[b] >= Depth[x]) \in Block
    <2> HIDE DEF local
    <2>1. local # {} => \E b \in local : \A x \in local : Depth[b] >= Depth[x]
      BY <1>3, BlockDepths
    <2> QED BY <1>3, <2>1
  <1>6. with # {} => (CHOOSE b \in with : \A x \in with : Depth[b] =< Depth[x]) \in Block
    <2> HIDE DEF with
    <2>1. with # {} => \E b \in with : \A x \in with : Depth[b] =< Depth[x]
      BY <1>3, BlockDepths
    <2> QED BY <1>3, <2>1
  <1>7. Found(n) = IF with = {} THEN 0
                   ELSE IF local # {}
                        THEN Frame[CHOOSE b \in local : \A x \in local : Depth[b] >= Depth[x]][n]
                        ELSE Frame[CHOOSE b \in with : \A x \in with : Depth[b] =< Depth[x]][n]
    BY DEF Found
  <1> HIDE DEF with, local
  <1>8. Found(n) = 0 \/ \E b \in Block : Frame[b][n] = Found(n)
    BY <1>5, <1>6, <1>7
  <1> QED BY <1>1, <1>4, <1>8

LEMMA LookupFacts ==
  ASSUME Inv1, status = "run", NEW n \in Name
  PROVE  /\ Lookup(n) \in 0 .. Len(cells)
         /\ Lookup(n) # 0 => \/ \E b \in Block : Frame[b][n] = Lookup(n)
                             \/ functions # << >> /\ objs[Last(functions)].closure[n] = Lookup(n) /\ Found(n) = 0
                             \/ globals[n] = Lookup(n)
         /\ Lookup(n) = 0 => globals[n] = 0
         /\ ValueOf(n) \in AnyValue /\ ValueIn(ValueOf(n), Len(objs))
  <1>1. /\ Found(n) \in 0 .. Len(cells) /\ Len(cells) \in Nat
        /\ Found(n) # 0 => \E b \in Block : Frame[b][n] = Found(n)
    BY FoundFacts, StateFacts
  <1>2. globals[n] \in 0 .. Len(cells)
    BY <1>1 DEF Inv1, Loose, Bounded, NamesIn
  <1>3. Captured(n) \in 0 .. Len(cells)
    <2>1. CASE functions = << >>
      BY <1>1, <2>1 DEF Captured
    <2>2. CASE functions # << >>
      <3>1. functions \in Seq(Nat) /\ FunctionsIn(functions, Len(objs))
        BY DEF Inv1, Loose, Bounded
      <3>2. Last(functions) = functions[Len(functions)] /\ Len(functions) \in DOMAIN functions
        <4>1. Len(functions) \in Nat /\ DOMAIN functions = 1 .. Len(functions) /\ Len(functions) >= 1
          BY <2>2, <3>1, LenFacts
        <4> QED BY <2>2, <3>1, <4>1, LenFacts
      <3>3. Last(functions) \in DOMAIN objs
        BY <3>1, <3>2, StateFacts DEF FunctionsIn
      <3>4. objs[Last(functions)].closure \in [Name -> Nat] /\ NamesIn(objs[Last(functions)].closure, Len(cells))
        BY <3>3, StateFacts
      <3> QED BY <1>1, <2>2, <3>4 DEF Captured, NamesIn
    <2> QED BY <2>1, <2>2
  <1>4. Lookup(n) \in 0 .. Len(cells)
    BY <1>1, <1>2, <1>3 DEF Lookup
  <1>5. Lookup(n) # 0 => \/ \E b \in Block : Frame[b][n] = Lookup(n)
                         \/ functions # << >> /\ objs[Last(functions)].closure[n] = Lookup(n) /\ Found(n) = 0
                         \/ globals[n] = Lookup(n)
    BY <1>1 DEF Lookup, Captured
  <1>6. Lookup(n) = 0 => globals[n] = 0
    BY DEF Lookup
  <1>7. ValueOf(n) \in AnyValue /\ ValueIn(ValueOf(n), Len(objs))
    <2>1. CASE n = Nil \/ Lookup(n) = 0
      BY <2>1 DEF ValueOf, AnyValue, ValueIn
    <2>2. CASE ~ (n = Nil \/ Lookup(n) = 0)
      <3>1. Lookup(n) \in DOMAIN cells /\ ValueOf(n) = cells[Lookup(n)].value
        BY <1>1, <1>4, <2>2, StateFacts DEF ValueOf
      <3> QED BY <3>1, StateFacts
    <2> QED BY <2>1, <2>2
  <1> QED BY <1>4, <1>5, <1>6, <1>7

(* The value of no name.                                                   *)
LEMMA ValueFacts ==
  ASSUME Inv1, status = "run", NEW n \in Name \cup {Nil}
  PROVE  ValueOf(n) \in AnyValue /\ ValueIn(ValueOf(n), Len(objs))
  <1>1. CASE n = Nil
    BY <1>1 DEF ValueOf, AnyValue, ValueIn
  <1>2. CASE n \in Name
    BY <1>2, LookupFacts
  <1> QED BY <1>1, <1>2

(* What a new function captures is in the frame that defines it.           *)
LEMMA ClosureFacts ==
  ASSUME Inv1, status = "run", NEW body
  PROVE  /\ Closure(body) \in [Name -> Nat] /\ NamesIn(Closure(body), Len(cells))
         /\ \A n \in Name : Closure(body)[n] # 0 => \E b \in Block : Frame[b][n] = Closure(body)[n]
  <1>1. Frame \in AnyStore /\ StoreIn(Frame, Len(cells)) /\ Len(cells) \in Nat
    BY RunFacts, StateFacts
  <1>2. \A b \in Block, n \in Name : Frame[b][n] \in 0 .. Len(cells)
    BY <1>1 DEF AnyStore, StoreIn, NamesIn
  <1>3. ASSUME NEW n \in Name
        PROVE  Closure(body)[n] = 0 \/ \E b \in Block : Frame[b][n] = Closure(body)[n]
    <2> DEFINE with == {b \in Around(body) : Frame[b][n] # 0}
    <2>1. with \subseteq Block
      BY DEF Around, Chain
    <2>2. with # {} => (CHOOSE b \in with : \A x \in with : Depth[b] =< Depth[x]) \in Block
      <3> HIDE DEF with
      <3>1. with # {} => \E b \in with : \A x \in with : Depth[b] =< Depth[x]
        BY <2>1, BlockDepths
      <3> QED BY <2>1, <3>1
    <2>3. Closure(body)[n] = IF with = {} THEN 0
                             ELSE Frame[CHOOSE b \in with : \A x \in with : Depth[b] =< Depth[x]][n]
      BY DEF Closure
    <2> HIDE DEF with
    <2> QED BY <2>2, <2>3
  <1>4. \A n \in Name : Closure(body)[n] \in 0 .. Len(cells)
    BY <1>1, <1>2, <1>3
  <1>5. Closure(body) = [n \in Name |-> Closure(body)[n]]
    BY DEF Closure
  <1>6. Closure(body) \in [Name -> Nat]
    BY <1>1, <1>4, <1>5
  <1>7. NamesIn(Closure(body), Len(cells))
    BY <1>1, <1>4 DEF NamesIn
  <1> QED BY <1>3, <1>6, <1>7

(* Counting captures changes nothing but references.                       *)
CapturesOf(closure, c) == {n \in Name : closure[n] = c}

LEMMA ReferencedFacts ==
  ASSUME Inv1, NEW closure
  PROVE  /\ Referenced(closure) \in Seq(AnyCell) /\ Len(Referenced(closure)) = Len(cells)
         /\ DOMAIN Referenced(closure) = DOMAIN cells
         /\ \A c \in DOMAIN cells :
              /\ Referenced(closure)[c].value = cells[c].value
              /\ Cardinality(CapturesOf(closure, c)) \in Nat
              /\ Referenced(closure)[c].refs = cells[c].refs + Cardinality(CapturesOf(closure, c))
         /\ CellsIn(Referenced(closure), Len(objs))
  <1> DEFINE r == Referenced(closure)
  <1>1. Len(cells) \in Nat /\ DOMAIN cells = 1 .. Len(cells) /\ \A c \in DOMAIN cells : cells[c] \in AnyCell
    BY StateFacts
  <1>2. \A c : IsFiniteSet(CapturesOf(closure, c)) /\ Cardinality(CapturesOf(closure, c)) \in Nat
    <2>1. \A c : CapturesOf(closure, c) \in SUBSET Name
      BY DEF CapturesOf
    <2>2. IsFiniteSet(Name)
      BY ScenarioAssumption
    <2>3. \A c : IsFiniteSet(CapturesOf(closure, c))
      BY <2>1, <2>2, FS_Subset
    <2> QED BY <2>3, FS_CardinalityType
  <1>3. r = [c \in DOMAIN cells |-> [cells[c] EXCEPT !.refs = cells[c].refs + Cardinality(CapturesOf(closure, c))]]
    BY DEF Referenced, CapturesOf
  <1>4. \A c \in DOMAIN cells : /\ r[c] \in AnyCell /\ r[c].value = cells[c].value
                                /\ r[c].refs = cells[c].refs + Cardinality(CapturesOf(closure, c))
    <2> SUFFICES ASSUME NEW c \in DOMAIN cells
                 PROVE  /\ r[c] \in AnyCell /\ r[c].value = cells[c].value
                        /\ r[c].refs = cells[c].refs + Cardinality(CapturesOf(closure, c))
      OBVIOUS
    <2> DEFINE m == Cardinality(CapturesOf(closure, c))
    <2>1. m \in Nat /\ cells[c] \in AnyCell
      BY <1>1, <1>2
    <2>2. r[c] = [cells[c] EXCEPT !.refs = cells[c].refs + m]
      BY <1>3
    <2> HIDE DEF m, r
    <2>3. r[c] \in AnyCell /\ r[c].value = cells[c].value /\ r[c].refs = cells[c].refs + m
      BY <2>1, <2>2 DEF AnyCell
    <2> QED BY <2>3 DEF m
  <1>5. DOMAIN r = DOMAIN cells
    BY <1>3
  <1> HIDE DEF r
  <1>6. r \in Seq(AnyCell) /\ Len(r) = Len(cells)
    <2>1. r = [c \in 1 .. Len(cells) |-> r[c]]
      BY <1>1, <1>3, <1>5
    <2>2. \A c \in 1 .. Len(cells) : r[c] \in AnyCell
      BY <1>1, <1>4
    <2> QED BY <1>1, <2>1, <2>2
  <1>7. CellsIn(r, Len(objs))
    BY <1>4, <1>5 DEF CellsIn, Inv1, Bounded
  <1> QED BY <1>2, <1>4, <1>5, <1>6, <1>7 DEF r

LEMMA NewObjFacts ==
  ASSUME Inv1, status = "run", NEW body \in Body, NEW count \in Nat
  PROVE  /\ NewObj(body, Top.env, count) \in AnyObj /\ ObjIn(NewObj(body, Top.env, count), Len(cells))
         /\ NewObj(body, Top.env, count).closure = Closure(body) /\ NewObj(body, Top.env, count).count = count
         /\ NewObj(body, Top.env, count).live /\ NewObj(body, Top.env, count).leaked = 0
         /\ NewObj(body, Top.env, count).env = Top.env /\ NewObj(body, Top.env, count).body = body
  <1>1. Closure(body) \in [Name -> Nat] /\ NamesIn(Closure(body), Len(cells))
    BY ClosureFacts
  <1>2. Top.env \in [Name -> Nat] /\ NamesIn(Top.env, Len(cells))
    BY RunFacts, ActFacts DEF ActIn
  <1>3. CellsOf(Frame, Block) \subseteq Nat
    BY RunFacts, CellsOfFacts
  <1>4. file \in Nat
    BY StateFacts
  <1> DEFINE own == CellsOf(Frame, Block)
             closure == Closure(body)
             env == Top.env
  <1>5. NewObj(body, Top.env, count) =
          [body |-> body, file |-> file, closure |-> closure, env |-> env,
           own |-> own, count |-> count, live |-> TRUE, leaked |-> 0]
    BY DEF NewObj
  <1> HIDE DEF own, closure, env
  <1>6. own \in SUBSET Nat /\ closure \in [Name -> Nat] /\ env \in [Name -> Nat]
        /\ NamesIn(closure, Len(cells)) /\ NamesIn(env, Len(cells))
    BY <1>1, <1>2, <1>3 DEF own, closure, env
  <1>7. /\ NewObj(body, Top.env, count) \in AnyObj /\ ObjIn(NewObj(body, Top.env, count), Len(cells))
        /\ NewObj(body, Top.env, count).closure = closure /\ NewObj(body, Top.env, count).count = count
        /\ NewObj(body, Top.env, count).live /\ NewObj(body, Top.env, count).leaked = 0
        /\ NewObj(body, Top.env, count).env = env /\ NewObj(body, Top.env, count).body = body
    BY <1>4, <1>5, <1>6 DEF AnyObj, ObjIn
  <1> QED BY <1>7 DEF closure, env

-----------------------------------------------------------------------------
(* How the steps of the interpreter act on the stacks.                     *)

LEMMA StructReplace ==
  ASSUME NEW code, NEW f, NEW bad, NEW st \in Seq(AnyAct), NEW bl, NEW fr, NEW fs,
         StructOf(code, f, bad, st, bl, fr, fs),
         NEW a \in AnyAct, SamePlace(a, st[Len(st)]), Kind(a), a.at = "store" \/ a.val = Nil, Placed(a, code)
  PROVE  LET t == [st EXCEPT ![Len(st)] = a]
         IN  /\ StructOf(code, f, bad, t, bl, fr, fs)
             /\ t \in Seq(AnyAct) /\ Len(t) = Len(st) /\ DOMAIN t = DOMAIN st /\ t[Len(t)] = a
             /\ \A k \in DOMAIN st : SamePlace(t[k], st[k]) /\ (k # Len(st) => t[k] = st[k])
  <1> DEFINE t == [st EXCEPT ![Len(st)] = a]
             n == Len(st)
  <1>1. Stack(st, bl) /\ Shape(st)
    BY DEF StructOf, Stack
  <1>2. /\ Stack(t, bl) /\ t \in Seq(AnyAct) /\ Len(t) = n /\ DOMAIN t = DOMAIN st
        /\ t[Len(t)] = a /\ \A k \in DOMAIN st : SamePlace(t[k], st[k]) /\ (k # n => t[k] = st[k])
    BY <1>1, StackReplace
  <1>3. n \in Nat /\ n >= 1 /\ DOMAIN st = 1 .. n /\ n \in DOMAIN st /\ 1 \in DOMAIN st /\ st[Len(st)] = st[n]
    BY <1>1, StackFacts
  <1> HIDE DEF t, n
  <1>4. \A k \in DOMAIN st : /\ t[k].op = st[k].op /\ t[k].base = st[k].base /\ t[k].held = st[k].held
                             /\ t[k].level = st[k].level /\ t[k].ctx = st[k].ctx
    BY <1>2 DEF SamePlace
  <1>5. \A k \in DOMAIN t : Placed(t[k], code) /\ Matched(t[k], f, fs)
    <2> SUFFICES ASSUME NEW k \in DOMAIN st PROVE Placed(t[k], code) /\ Matched(t[k], f, fs)
      BY <1>2
    <2>1. Matched(t[k], f, fs)
      BY <1>4 DEF StructOf, Matched
    <2>2. CASE k = n
      BY <1>2, <2>1, <2>2
    <2>3. CASE k # n
      BY <1>2, <2>1, <2>3 DEF StructOf
    <2> QED BY <2>2, <2>3
  <1>6. Len(t) > 1 => t[Len(t)].base = Len(bl) /\ Owned(t, fr)
    <2>1. Owned(st, fr) => Owned(t, fr)
      BY <1>2, <1>3, <1>4 DEF Owned
    <2> QED BY <1>2, <1>3, <1>4, <2>1 DEF StructOf, n
  <1>7. t[Len(t)].level = Len(fr) /\ t[1].level >= f /\ t[1].level >= 1 /\ (~ bad => t[1].level = f)
    BY <1>2, <1>3, <1>4 DEF StructOf
  <1>8. StructOf(code, f, bad, t, bl, fr, fs)
    BY <1>2, <1>5, <1>6, <1>7 DEF StructOf
  <1> QED BY <1>2, <1>8 DEF t, n

(* Another set of entries, of the same frames.                             *)
(* Every entry of fr2 is one of fr or of a block that is executed.         *)
Covered(st, fr, fr2) ==
  \A l \in DOMAIN fr : \A b \in Block, n \in Name : fr2[l][b][n] # 0 =>
    \/ fr[l][b][n] # 0
    \/ \E k \in DOMAIN st : st[k].op \in Owner /\ st[k].level = l /\ st[k].ctx = b

LEMMA StructFrames ==
  ASSUME NEW code, NEW f, NEW bad, NEW st, NEW bl, NEW fr \in Seq(AnyStore), NEW fs, NEW fr2 \in Seq(AnyStore),
         StructOf(code, f, bad, st, bl, fr, fs),
         Len(fr2) = Len(fr), Covered(st, fr, fr2)
  PROVE  StructOf(code, f, bad, st, bl, fr2, fs)
  <1>1. DOMAIN fr2 = DOMAIN fr
    BY LenFacts
  <1>2. Owned(st, fr) => Owned(st, fr2)
    BY <1>1 DEF Owned, Covered
  <1> QED BY <1>2 DEF StructOf

LEMMA StructPush ==
  ASSUME NEW code, NEW f \in Nat, NEW bad, NEW st \in Seq(AnyAct), NEW bl, NEW fr \in Seq(AnyStore), NEW fs,
         StructOf(code, f, bad, st, bl, fr, fs), Len(st) > 1 \/ \A b \in Block, n \in Name : fr[Len(fr)][b][n] = 0,
         NEW a \in AnyAct, NEW bl2, a.op \in InBlock,
         Link(st[Len(st)], a), Kind(a), a.val = Nil, a.at = "stat", a.fill = 0, st[Len(st)].val = Nil,
         \A m \in DOMAIN bl : m \in DOMAIN bl2 /\ bl2[m] = bl[m],
         a.base = Len(bl2) /\ a.base \in DOMAIN bl2 /\ bl2[a.base] = a.ctx
  PROVE  LET t == Append(st, a)
         IN  /\ StructOf(code, f, bad, t, bl2, fr, fs)
             /\ t \in Seq(AnyAct) /\ Len(t) = Len(st) + 1 /\ DOMAIN t = 1 .. (Len(st) + 1)
             /\ t[Len(t)] = a /\ \A k \in DOMAIN st : t[k] = st[k]
  <1> DEFINE t == Append(st, a)
             n == Len(st)
  <1>1. Stack(st, bl) /\ Shape(st)
    BY DEF StructOf, Stack
  <1>2. a.op # "chunk" /\ a.op # "call"
    BY DEF InBlock
  <1>3. /\ Stack(t, bl2) /\ t \in Seq(AnyAct) /\ Len(t) = n + 1 /\ DOMAIN t = 1 .. (n + 1)
        /\ t[Len(t)] = a /\ \A k \in DOMAIN st : t[k] = st[k]
    BY <1>1, <1>2, StackPush
  <1>4. /\ n \in Nat /\ n >= 1 /\ DOMAIN st = 1 .. n /\ n \in DOMAIN st /\ 1 \in DOMAIN st /\ st[Len(st)] = st[n]
        /\ st[1].level \in Nat /\ st[n].level \in Nat /\ a.level \in Nat
    BY <1>1, StackFacts, ActFacts
  <1>5. a.level = st[n].level
    BY <1>2 DEF Link
  <1> HIDE DEF t, n
  <1>6. \A k \in DOMAIN t : k \in DOMAIN st \/ k = n + 1
    BY <1>3, <1>4
  <1>7. \A k \in DOMAIN st : k \in DOMAIN t
    BY <1>3, <1>4
  <1>8. t[1] = st[1] /\ t[n + 1] = a
    BY <1>3, <1>4
  <1>9. \A k \in DOMAIN t : Placed(t[k], code) /\ Matched(t[k], f, fs)
    BY <1>2, <1>3, <1>6, <1>8 DEF StructOf, Placed, Matched
  <1>10. Owned(t, fr)
    <2> SUFFICES ASSUME NEW l \in DOMAIN fr, l >= t[1].level, NEW b \in Block, NEW m \in Name, fr[l][b][m] # 0
                 PROVE  \E k \in DOMAIN t : t[k].op \in Owner /\ t[k].level = l /\ t[k].ctx = b
      BY DEF Owned
    <2>1. Owned(st, fr)
      <3>1. CASE n > 1
        BY <3>1 DEF StructOf, n
      <3>2. CASE ~ n > 1
        <4>1. n = 1
          BY <1>4, <3>2
        <4>2. st[1].level = Len(fr) /\ DOMAIN fr = 1 .. Len(fr) /\ Len(fr) \in Nat
          BY <1>4, <4>1, LenFacts DEF StructOf
        <4>3. l = Len(fr)
          BY <1>8, <4>2
        <4> QED BY <3>2, <4>3 DEF n
      <3> QED BY <3>1, <3>2
    <2>2. PICK k \in DOMAIN st : st[k].op \in Owner /\ st[k].level = l /\ st[k].ctx = b
      BY <1>8, <2>1 DEF Owned
    <2> QED BY <1>3, <1>7, <2>2
  <1>11. t[Len(t)].level = Len(fr) /\ t[1].level >= f /\ t[1].level >= 1 /\ (~ bad => t[1].level = f)
    BY <1>3, <1>4, <1>5, <1>8 DEF StructOf
  <1>12. StructOf(code, f, bad, t, bl2, fr, fs)
    BY <1>3, <1>9, <1>10, <1>11 DEF StructOf
  <1> QED BY <1>3, <1>12 DEF t, n

(* A call, with a frame that is still empty.                               *)
LEMMA StructCall ==
  ASSUME NEW code, NEW f \in Nat, NEW bad, NEW st \in Seq(AnyAct), NEW bl, NEW fr \in Seq(AnyStore), NEW fs \in Seq(Nat),
         StructOf(code, f, bad, st, bl, fr, fs), Len(st) > 1,
         NEW a \in AnyAct, a.op = "call",
         Link(st[Len(st)], a), Kind(a), st[Len(st)].val = Nil,
         \A k \in DOMAIN st : Fun[st[k].ctx] # Fun[a.ctx],
         NEW g \in Nat, a.held[1] \in {Nil, g}, Len(fr) = Len(fs) + f
  PROVE  LET t == Append(st, a)
         IN  /\ StructOf(code, f, bad, t, bl, Append(fr, NoStore), Append(fs, g))
             /\ t \in Seq(AnyAct) /\ Len(t) = Len(st) + 1 /\ DOMAIN t = 1 .. (Len(st) + 1)
             /\ t[Len(t)] = a /\ \A k \in DOMAIN st : t[k] = st[k]
  <1> DEFINE t == Append(st, a)
             n == Len(st)
             r == Append(fr, NoStore)
             h == Append(fs, g)
  <1>1. Stack(st, bl) /\ Shape(st)
    BY DEF StructOf, Stack
  <1>2. /\ Stack(t, bl) /\ t \in Seq(AnyAct) /\ Len(t) = n + 1 /\ DOMAIN t = 1 .. (n + 1)
        /\ t[Len(t)] = a /\ \A k \in DOMAIN st : t[k] = st[k]
    <2>1. a.op \notin InBlock /\ a.op # "chunk"
      BY DEF InBlock
    <2> QED BY <1>1, <2>1, StackPush
  <1>3. /\ n \in Nat /\ n >= 1 /\ DOMAIN st = 1 .. n /\ n \in DOMAIN st /\ 1 \in DOMAIN st /\ st[Len(st)] = st[n]
        /\ st[1].level \in Nat /\ st[n].level \in Nat /\ a.level \in Nat
        /\ \A k \in DOMAIN st : st[k].level \in Nat /\ st[k].level =< st[n].level
    BY <1>1, StackFacts, ActFacts
  <1>4. a.level = st[n].level + 1 /\ a.base = st[n].base
    BY DEF Link, Owner
  <1>5. NoStore \in AnyStore /\ \A b \in Block, m \in Name : NoStore[b][m] = 0
    BY DEF NoStore, AnyStore
  <1>6. /\ r \in Seq(AnyStore) /\ Len(r) = Len(fr) + 1 /\ DOMAIN r = 1 .. (Len(fr) + 1)
        /\ \A l \in 1 .. Len(fr) : r[l] = fr[l]
        /\ r[Len(fr) + 1] = NoStore /\ Len(fr) \in Nat /\ DOMAIN fr = 1 .. Len(fr)
    <2>1. fr \in Seq(AnyStore) /\ NoStore \in AnyStore
      BY <1>5
    <2> QED BY ONLY <2>1, AppendFacts, LenFacts
  <1>7. /\ Len(fs) \in Nat /\ h[Len(fs) + 1] = g /\ \A k \in 1 .. Len(fs) : h[k] = fs[k]
    BY AppendFacts, LenFacts
  <1>8. st[n].level = Len(fr) /\ Owned(st, fr) /\ st[n].base = Len(bl)
    BY <1>3 DEF StructOf
  <1> HIDE DEF t, n, r, h
  <1>9. \A k \in DOMAIN t : k \in DOMAIN st \/ k = n + 1
    BY <1>2, <1>3
  <1>10. \A k \in DOMAIN st : k \in DOMAIN t
    BY <1>2, <1>3
  <1>11. t[1] = st[1] /\ t[n + 1] = a
    BY <1>2, <1>3
  <1>12. \A k \in DOMAIN t : Placed(t[k], code) /\ Matched(t[k], f, h)
    <2>1. ASSUME NEW k \in DOMAIN st PROVE Placed(st[k], code) /\ Matched(st[k], f, h)
      <3>1. Placed(st[k], code) /\ Matched(st[k], f, fs)
        BY DEF StructOf
      <3>2. ASSUME st[k].op = "call" PROVE st[k].level - f \in 1 .. Len(fs)
        <4>1. st[k].level \in Nat /\ st[k].level =< Len(fr) /\ st[k].level > f
          BY <1>3, <1>8, <3>1, <3>2 DEF Matched
        <4>2. Len(fr) \in Nat /\ Len(fs) \in Nat
          BY <1>6, <1>7
        <4> QED BY <4>1, <4>2, SMTT(60)
      <3> QED BY <1>7, <3>1, <3>2 DEF Matched
    <2>2. Placed(a, code)
      BY DEF Placed, Blocky
    <2>3. Matched(a, f, h)
      <3>1. a.level - f = Len(fs) + 1 /\ a.level > f
        BY <1>3, <1>4, <1>7, <1>8
      <3> QED BY <1>7, <3>1 DEF Matched
    <2> QED BY <1>2, <1>9, <1>11, <2>1, <2>2, <2>3
  <1>13. Owned(t, r)
    <2> SUFFICES ASSUME NEW l \in DOMAIN r, l >= t[1].level, NEW b \in Block, NEW m \in Name, r[l][b][m] # 0
                 PROVE  \E k \in DOMAIN t : t[k].op \in Owner /\ t[k].level = l /\ t[k].ctx = b
      BY DEF Owned
    <2>1. l \in DOMAIN fr /\ r[l] = fr[l]
      <3>1. l # Len(fr) + 1
        BY <1>5, <1>6
      <3>2. l \in 1 .. Len(fr)
        <4>1. l \in 1 .. (Len(fr) + 1) /\ Len(fr) \in Nat
          BY <1>6
        <4> QED BY <3>1, <4>1, NotLast
      <3> QED BY <1>6, <3>2
    <2>2. PICK k \in DOMAIN st : st[k].op \in Owner /\ st[k].level = l /\ st[k].ctx = b
      BY <1>8, <1>11, <2>1 DEF Owned
    <2> QED BY <1>2, <1>10, <2>2
  <1>14. t[Len(t)].level = Len(r) /\ t[1].level >= f /\ t[1].level >= 1 /\ (~ bad => t[1].level = f)
    BY <1>2, <1>3, <1>4, <1>6, <1>8, <1>11 DEF StructOf
  <1>15. t[Len(t)].val = Nil
    BY <1>2 DEF Kind, Blocky
  <1>16. StructOf(code, f, bad, t, bl, r, h)
    BY <1>2, <1>4, <1>8, <1>12, <1>13, <1>14, <1>15 DEF StructOf
  <1> QED BY <1>2, <1>16 DEF t, n, r, h

(* The blocks below a height stay.                                         *)
Agrees(bl, bl2, h) == \A m \in DOMAIN bl : m =< h => m \in DOMAIN bl2 /\ bl2[m] = bl[m]
(* Entries of frames from level e on belong to one of the first n.         *)
OwnedBy(st, n, fr) ==
  \A l \in DOMAIN fr : l >= st[1].level => \A b \in Block, m \in Name : fr[l][b][m] # 0 =>
    \E k \in 1 .. n : st[k].op \in Owner /\ st[k].level = l /\ st[k].ctx = b
(* The calls among the first n find their function where it was.           *)
SameCalls(st, n, f, fs, fs2) == \A k \in 1 .. n : st[k].op = "call" => fs2[st[k].level - f] = fs[st[k].level - f]

(* Back to the first n activations.                                        *)
LEMMA StructPrefix ==
  ASSUME NEW code, NEW f \in Nat, NEW bad, NEW st \in Seq(AnyAct), NEW bl, NEW fr, NEW fs,
         StructOf(code, f, bad, st, bl, fr, fs),
         NEW n \in 1 .. Len(st), n < Len(st), NEW bl2, NEW fr2, NEW fs2,
         Agrees(bl, bl2, st[n].base), n > 1 => Len(bl2) = st[n].base, Len(fr2) = st[n].level,
         OwnedBy(st, n, fr2), SameCalls(st, n, f, fs, fs2)
  PROVE  LET t == SubSeq(st, 1, n)
         IN  /\ StructOf(code, f, bad, t, bl2, fr2, fs2)
             /\ t \in Seq(AnyAct) /\ Len(t) = n /\ DOMAIN t = 1 .. n
             /\ \A k \in 1 .. n : t[k] = st[k] /\ k \in DOMAIN st
             /\ t[Len(t)] = st[n] /\ st[n].val = Nil
  <1> DEFINE t == SubSeq(st, 1, n)
  <1>1. Stack(st, bl) /\ Shape(st)
    BY DEF StructOf, Stack
  <1>2. /\ Stack(t, bl2) /\ t \in Seq(AnyAct) /\ Len(t) = n /\ DOMAIN t = 1 .. n
        /\ \A k \in 1 .. n : t[k] = st[k] /\ k \in DOMAIN st
    <2>1. \A m \in DOMAIN bl : m =< st[n].base => m \in DOMAIN bl2 /\ bl2[m] = bl[m]
      BY DEF Agrees
    <2> QED BY <1>1, <2>1, StackPrefix
  <1>3. n \in Nat /\ n >= 1 /\ Len(st) \in Nat /\ DOMAIN st = 1 .. Len(st)
    BY <1>1, StackFacts
  <1> HIDE DEF t
  <1>4. t[1] = st[1] /\ t[Len(t)] = st[n] /\ n \in DOMAIN st
    BY <1>2, <1>3
  <1>5. st[n].val = Nil
    BY <1>1, <1>3, <1>4, StackFacts
  <1>6. \A k \in DOMAIN t : Placed(t[k], code) /\ Matched(t[k], f, fs2)
    <2> SUFFICES ASSUME NEW k \in DOMAIN t PROVE Placed(t[k], code) /\ Matched(t[k], f, fs2)
      OBVIOUS
    <2>1. t[k] = st[k] /\ k \in DOMAIN st /\ k \in 1 .. n
      BY <1>2
    <2>2. Placed(st[k], code) /\ Matched(st[k], f, fs)
      BY <2>1 DEF StructOf
    <2>3. Matched(st[k], f, fs2)
      BY <2>1, <2>2 DEF Matched, SameCalls
    <2> QED BY <2>1, <2>2, <2>3
  <1>7. Owned(t, fr2)
    <2>1. ASSUME NEW l \in DOMAIN fr2, l >= t[1].level, NEW b \in Block, NEW m \in Name, fr2[l][b][m] # 0
          PROVE  \E k \in DOMAIN t : t[k].op \in Owner /\ t[k].level = l /\ t[k].ctx = b
      <3>1. PICK k \in 1 .. n : st[k].op \in Owner /\ st[k].level = l /\ st[k].ctx = b
        BY <1>4, <2>1 DEF OwnedBy
      <3> QED BY <1>2, <3>1
    <2> QED BY <2>1 DEF Owned
  <1>8. t[1].level >= f /\ t[1].level >= 1 /\ (~ bad => t[1].level = f)
    BY <1>4 DEF StructOf
  <1>9. Len(t) > 1 => t[Len(t)].base = Len(bl2)
    BY <1>2, <1>4
  <1>10. StructOf(code, f, bad, t, bl2, fr2, fs2)
    BY <1>2, <1>4, <1>5, <1>6, <1>7, <1>8, <1>9 DEF StructOf
  <1> QED BY <1>2, <1>4, <1>5, <1>10 DEF t

(* What is not touched stays within bounds when more is allocated.         *)
LEMMA KeptFacts ==
  ASSUME Inv1, NEW c \in Nat, NEW o \in Nat, Len(cells) =< c, Len(objs) =< o
  PROVE  /\ ActsIn(acts, c, o) /\ FramesIn(frames, c) /\ NamesIn(globals, c)
         /\ FunctionsIn(functions, o)
         /\ CellsIn(cells, o) /\ ObjsIn(objs, c)
         /\ lost \subseteq 1 .. c
         /\ UpdatesIn(work, c, o)
  <1>1. Len(cells) \in Nat /\ Len(objs) \in Nat
    BY StateFacts
  <1>2. Loose /\ Bounded
    BY DEF Inv1
  <1>3. NamesIn(globals, c)
    BY <1>1, <1>2, BoundsGrow DEF Loose, Bounded
  <1>4. lost \subseteq 1 .. c
    BY <1>1, <1>2 DEF Bounded
  <1> QED BY <1>1, <1>2, <1>3, <1>4, BoundsGrowSeq, SMTT(60) DEF Loose, Bounded

LEMMA TypedStep ==
  ASSUME Inv1,
         scenario' = scenario, file' \in 0 .. Len(scenario.files),
         status' \in {"idle", "run", "failing", "over", "dangling", "stale", "crash", "cut"}, failed' \in BOOLEAN,
         acts' \in Seq(AnyAct), ActsIn(acts', Len(cells'), Len(objs')),
         blocks' \in Seq(Block),
         frames' \in Seq(AnyStore), FramesIn(frames', Len(cells')),
         globals' \in [Name -> Nat], NamesIn(globals', Len(cells')),
         functions' \in Seq(Nat), FunctionsIn(functions', Len(objs')),
         cells' \in Seq(AnyCell), CellsIn(cells', Len(objs')),
         objs' \in Seq(AnyObj), ObjsIn(objs', Len(cells')),
         lost' \subseteq 1 .. Len(cells'),
         work' \in Seq(AnyUpdate), UpdatesIn(work', Len(cells'), Len(objs'))
  PROVE  Loose' /\ Bounded'
  <1>1. Len(cells') \in Nat
    BY LenFacts
  <1>2. lost' \subseteq Nat
    BY <1>1
  <1>3. Loose'
    BY <1>2 DEF Inv1, Loose
  <1>4. Bounded'
    BY DEF Bounded
  <1> QED BY <1>3, <1>4

LEMMA OwnerOfTop ==
  ASSUME Inv1, status = "run", Top.op \in InBlock
  PROVE  \E k \in DOMAIN acts : acts[k].op \in Owner /\ acts[k].level = Len(frames) /\ acts[k].ctx = Top.ctx
  <1>1. /\ Shape(acts) /\ Len(acts) \in Nat /\ DOMAIN acts = 1 .. Len(acts) /\ Top = acts[Len(acts)]
        /\ Len(acts) > 1 /\ Len(acts) \in DOMAIN acts /\ Top.level = Len(frames)
    BY RunFacts DEF InBlock
  <1>2. CASE Top.op \in Owner
    BY <1>1, <1>2
  <1>3. CASE Top.op = "forblock"
    <2>1. Len(acts) \in 2 .. Len(acts) /\ Len(acts) - 1 \in DOMAIN acts
      BY <1>1
    <2>2. Link(acts[Len(acts) - 1], Top)
      BY <1>1, <2>1 DEF Shape
    <2>3. acts[Len(acts) - 1].op = "for" /\ acts[Len(acts) - 1].ctx = Top.ctx /\ acts[Len(acts) - 1].level = Top.level
      BY <1>3, <2>2 DEF Link, Owner
    <2> QED BY <1>1, <2>1, <2>3 DEF Owner
  <1> QED BY <1>2, <1>3 DEF InBlock, Owner

(* A step that only moves the innermost activation along.                  *)
LEMMA TopStep ==
  ASSUME Inv1, status = "run", Top.op \in InBlock, NEW a \in AnyAct, SamePlace(a, Top), Kind(a),
         a.at = "store" \/ a.val = Nil, Placed(a, scenario.code),
         acts' = SetTop(a), ActIn(a, Len(cells'), Len(objs')),
         UNCHANGED <<scenario, file, status, failed, blocks, functions>>,
         frames' \in Seq(AnyStore), FramesIn(frames', Len(cells')), Len(frames') = Len(frames),
         \A l \in DOMAIN frames : \A b \in Block, n \in Name : frames'[l][b][n] # 0 =>
            frames[l][b][n] # 0 \/ (l = Len(frames) /\ b = Top.ctx),
         globals' \in [Name -> Nat], NamesIn(globals', Len(cells')),
         cells' \in Seq(AnyCell), CellsIn(cells', Len(objs')), Len(cells) =< Len(cells'),
         objs' \in Seq(AnyObj), ObjsIn(objs', Len(cells')), Len(objs) =< Len(objs'),
         lost' \subseteq 1 .. Len(cells'),
         work' \in Seq(AnyUpdate), UpdatesIn(work', Len(cells'), Len(objs'))
  PROVE  Inv1'
  <1>1. /\ Struct /\ acts \in Seq(AnyAct) /\ Len(acts) \in Nat /\ Len(acts) >= 1 /\ DOMAIN acts = 1 .. Len(acts)
        /\ Len(acts) \in DOMAIN acts /\ Top = acts[Len(acts)] /\ Len(frames) \in Nat
    BY RunFacts
  <1>2. Len(cells') \in Nat /\ Len(objs') \in Nat
    BY LenFacts
  <1>3. ActsIn(acts, Len(cells'), Len(objs')) /\ FunctionsIn(functions, Len(objs'))
    BY <1>2, KeptFacts
  <1>4. acts' = [acts EXCEPT ![Len(acts)] = a]
    BY DEF SetTop
  <1>5. /\ StructOf(scenario.code, file, failed, acts', blocks, frames, functions)
        /\ acts' \in Seq(AnyAct) /\ Len(acts') = Len(acts) /\ DOMAIN acts' = DOMAIN acts /\ acts'[Len(acts')] = a
        /\ \A k \in DOMAIN acts : SamePlace(acts'[k], acts[k]) /\ (k # Len(acts) => acts'[k] = acts[k])
    <2>1. StructOf(scenario.code, file, failed, acts, blocks, frames, functions) /\ SamePlace(a, acts[Len(acts)])
      BY <1>1 DEF Struct
    <2> DEFINE t == [acts EXCEPT ![Len(acts)] = a]
    <2>2. acts \in Seq(AnyAct)
      BY <1>1
    <2>3. /\ StructOf(scenario.code, file, failed, t, blocks, frames, functions)
          /\ t \in Seq(AnyAct) /\ Len(t) = Len(acts) /\ DOMAIN t = DOMAIN acts /\ t[Len(t)] = a
          /\ \A k \in DOMAIN acts : SamePlace(t[k], acts[k]) /\ (k # Len(acts) => t[k] = acts[k])
      BY <2>1, <2>2, StructReplace
    <2> HIDE DEF t
    <2>4. acts' = t
      BY <1>4 DEF t
    <2> QED BY <2>3, <2>4
  <1>6. \A k \in DOMAIN acts' : acts'[k] = a \/ acts'[k] = acts[k]
    BY <1>5
  <1>7. ActsIn(acts', Len(cells'), Len(objs'))
    BY <1>3, <1>5, <1>6 DEF ActsIn
  <1>8. PICK j \in DOMAIN acts : acts[j].op \in Owner /\ acts[j].level = Len(frames) /\ acts[j].ctx = Top.ctx
    BY OwnerOfTop
  <1>9. j \in DOMAIN acts' /\ acts'[j].op \in Owner /\ acts'[j].level = Len(frames) /\ acts'[j].ctx = Top.ctx
    BY <1>5, <1>8 DEF SamePlace
  <1>10. frames \in Seq(AnyStore)
    BY DEF Inv1, Loose
  <1>11. \A l \in DOMAIN frames : \A b \in Block, n \in Name : frames'[l][b][n] # 0 =>
           \/ frames[l][b][n] # 0
           \/ \E k \in DOMAIN acts' : acts'[k].op \in Owner /\ acts'[k].level = l /\ acts'[k].ctx = b
    BY <1>9
  <1>12. StructOf(scenario.code, file, failed, acts', blocks, frames', functions)
    <2> DEFINE fr2 == frames'
               st  == acts'
    <2>1. fr2 \in Seq(AnyStore) /\ Len(fr2) = Len(frames)
      OBVIOUS
    <2>2. StructOf(scenario.code, file, failed, st, blocks, frames, functions)
      BY <1>5
    <2>3. Covered(st, frames, fr2)
      BY <1>11 DEF Covered
    <2> HIDE DEF fr2, st
    <2>4. StructOf(scenario.code, file, failed, st, blocks, fr2, functions)
      BY <1>10, <2>1, <2>2, <2>3, StructFrames
    <2> QED BY <2>4 DEF fr2, st
  <1>13. Struct'
    BY <1>12 DEF Struct
  <1>14. Loose' /\ Bounded'
    <2>1. file' \in 0 .. Len(scenario.files) /\ status' = "run" /\ failed' \in BOOLEAN /\ blocks' \in Seq(Block)
          /\ functions' \in Seq(Nat)
      BY DEF Inv1, Loose
    <2> QED BY <1>3, <1>5, <1>7, <2>1, TypedStep
  <1>15. Heights'
    BY DEF Inv1, Heights
  <1>16. Quiet'
    <2>1. \A k \in DOMAIN acts' : Len(acts'[k].held) =< 4
      BY <1>5 DEF Inv1, Quiet, SamePlace
    <2> QED BY <2>1 DEF Quiet
  <1> QED BY <1>13, <1>14, <1>15, <1>16 DEF Inv1

(* The variable an assignment creates.                                     *)
LEMMA TargetFacts ==
  ASSUME Inv1, NEW ops, AtStat(ops), NEW cs \in Seq(AnyCell), Len(cs) = Len(cells), CellsIn(cs, Len(objs))
  PROVE  /\ WithTarget(cs) \in Seq(AnyCell) /\ CellsIn(WithTarget(cs), Len(objs))
         /\ Len(WithTarget(cs)) = IF NewGlobal THEN Len(cells) + 1 ELSE Len(cells)
         /\ \A k \in 1 .. Len(cells) : WithTarget(cs)[k] = cs[k]
         /\ NewGlobal => WithTarget(cs)[Len(cells) + 1] = NewCell(Nil) /\ S.id \in Name
         /\ Target \in 0 .. Len(WithTarget(cs)) /\ (S.op = "assign" => Target # 0)
         /\ GlobalsWithTarget \in [Name -> Nat] /\ NamesIn(GlobalsWithTarget, Len(WithTarget(cs)))
         /\ \A n \in Name : GlobalsWithTarget[n] = IF NewGlobal /\ n = S.id THEN NextCell ELSE globals[n]
  <1>1. status = "run" /\ (S.op = "assign" => S.id \in Name)
    BY StatFacts
  <1>2. Len(cells) \in Nat /\ globals \in [Name -> Nat] /\ NamesIn(globals, Len(cells))
    BY StateFacts DEF Inv1, Loose, Bounded
  <1>3. NewCell(Nil) \in AnyCell /\ NewCell(Nil).value = Nil
    BY DEF NewCell, AnyCell, AnyValue
  <1>4. NewGlobal => S.op = "assign" /\ S.id \in Name
    BY <1>1 DEF NewGlobal
  <1>5. S.op = "assign" => Lookup(S.id) \in 0 .. Len(cells)
    BY <1>1, LookupFacts
  <1>6. CASE NewGlobal
    <2>1. WithTarget(cs) = Append(cs, NewCell(Nil)) /\ Target = Len(cells) + 1
          /\ GlobalsWithTarget = [globals EXCEPT ![S.id] = NextCell] /\ NextCell = Len(cells) + 1
      BY <1>4, <1>6 DEF WithTarget, Target, GlobalsWithTarget, NextCell
    <2>2. /\ WithTarget(cs) \in Seq(AnyCell) /\ Len(WithTarget(cs)) = Len(cells) + 1
          /\ DOMAIN WithTarget(cs) = 1 .. (Len(cells) + 1)
          /\ \A k \in 1 .. Len(cells) : WithTarget(cs)[k] = cs[k]
          /\ WithTarget(cs)[Len(cells) + 1] = NewCell(Nil)
      BY <1>3, <2>1, AppendFacts
    <2>3. CellsIn(WithTarget(cs), Len(objs))
      <3>1. DOMAIN cs = 1 .. Len(cells)
        BY LenFacts
      <3>2. \A k \in DOMAIN WithTarget(cs) : k \in DOMAIN cs \/ k = Len(cells) + 1
        BY <1>2, <2>2, <3>1
      <3> QED BY <1>3, <2>2, <3>1, <3>2 DEF CellsIn, ValueIn
    <2>4. GlobalsWithTarget \in [Name -> Nat] /\ NamesIn(GlobalsWithTarget, Len(cells) + 1)
          /\ \A n \in Name : GlobalsWithTarget[n] = IF n = S.id THEN NextCell ELSE globals[n]
      BY <1>2, <1>4, <1>6, <2>1 DEF NamesIn
    <2> QED BY <1>2, <1>4, <1>6, <2>1, <2>2, <2>3, <2>4
  <1>7. CASE ~ NewGlobal
    <2>1. WithTarget(cs) = cs /\ GlobalsWithTarget = globals
      BY <1>7 DEF WithTarget, GlobalsWithTarget
    <2>2. Target \in 0 .. Len(cells) /\ (S.op = "assign" => Target # 0)
      BY <1>2, <1>5, <1>7 DEF Target, NewGlobal
    <2> QED BY <1>2, <1>7, <2>1, <2>2
  <1> QED BY <1>6, <1>7

-----------------------------------------------------------------------------
(* The actions keep the first part of the invariant: expressions and       *)
(* stores.                                                                 *)

LEMMA UpdatesBounded ==
  ASSUME NEW c \in Nat, NEW o \in Nat, NEW v \in AnyValue, ValueIn(v, o), NEW x \in 1 .. c
  PROVE  /\ UpdateIn(Add(v), c, o) /\ UpdateIn(Drop(v), c, o) /\ UpdateIn(DropOld(x), c, o)
         /\ UpdateIn(Unref(x), c, o) /\ UpdateIn(Write(x, v), c, o)
         /\ Add(v) \in AnyUpdate /\ Drop(v) \in AnyUpdate /\ DropOld(x) \in AnyUpdate
         /\ Unref(x) \in AnyUpdate /\ Write(x, v) \in AnyUpdate
  BY DEF UpdateIn, Add, Drop, DropOld, Unref, Write, AnyUpdate, AnyValue

LEMMA ValueUpdatesBounded ==
  ASSUME NEW c \in Nat, NEW o \in Nat, NEW v \in AnyValue, ValueIn(v, o)
  PROVE  /\ UpdateIn(Add(v), c, o) /\ UpdateIn(Drop(v), c, o)
         /\ Add(v) \in AnyUpdate /\ Drop(v) \in AnyUpdate
  BY DEF UpdateIn, Add, Drop, AnyUpdate, AnyValue

(* Another function.                                                       *)
LEMMA ObjsAppend ==
  ASSUME Inv1, NEW x \in AnyObj, ObjIn(x, Len(cells)), NEW c \in Nat, Len(cells) =< c
  PROVE  /\ Append(objs, x) \in Seq(AnyObj) /\ Len(Append(objs, x)) = Len(objs) + 1
         /\ ObjsIn(Append(objs, x), c)
         /\ \A k \in DOMAIN objs : k \in DOMAIN Append(objs, x) /\ Append(objs, x)[k] = objs[k]
         /\ Append(objs, x)[Len(objs) + 1] = x /\ DOMAIN Append(objs, x) = 1 .. (Len(objs) + 1)
  <1>1. objs \in Seq(AnyObj) /\ Len(objs) \in Nat /\ DOMAIN objs = 1 .. Len(objs) /\ Len(cells) \in Nat
    BY StateFacts DEF Inv1, Loose
  <1>2. /\ Append(objs, x) \in Seq(AnyObj) /\ Len(Append(objs, x)) = Len(objs) + 1
        /\ DOMAIN Append(objs, x) = 1 .. (Len(objs) + 1)
        /\ \A k \in 1 .. Len(objs) : Append(objs, x)[k] = objs[k]
        /\ Append(objs, x)[Len(objs) + 1] = x
    BY <1>1, AppendFacts
  <1>3. ObjsIn(objs, c)
    BY <1>1, KeptFacts
  <1>4. ObjIn(x, c)
    BY <1>1, BoundsGrow
  <1>5. \A k \in DOMAIN objs : k \in DOMAIN Append(objs, x)
    BY <1>1, <1>2
  <1>6. \A k \in DOMAIN Append(objs, x) : k \in DOMAIN objs \/ k = Len(objs) + 1
    BY <1>1, <1>2
  <1>7. ObjsIn(Append(objs, x), c)
    BY <1>1, <1>2, <1>3, <1>4, <1>6 DEF ObjsIn
  <1> QED BY <1>1, <1>2, <1>5, <1>7

(* The activation that has evaluated v.                                    *)
LEMMA Evaluated ==
  ASSUME Inv1, NEW ops, AtStat(ops), NEW v \in AnyValue, NEW c \in Nat, NEW o \in Nat,
         Len(cells) =< c, Len(objs) =< o, ValueIn(v, o), Target \in 0 .. c, S.op = "assign" => Target # 0, Visited
  PROVE  LET a == [Top EXCEPT !.at = "store", !.val = v, !.cell = Target]
         IN  /\ a \in AnyAct /\ SamePlace(a, Top) /\ Kind(a) /\ a.at = "store" /\ Placed(a, scenario.code)
             /\ ActIn(a, c, o) /\ a.val = v /\ a.env = Top.env /\ a.cell = Target /\ a.i = Top.i /\ a.fill = Top.fill
  <1> DEFINE a == [Top EXCEPT !.at = "store", !.val = v, !.cell = Target]
             tg == Target
  <1>1. /\ status = "run" /\ Top.op \in Blocky /\ Top.i \in DOMAIN Code_(Top.ctx).stats
        /\ S = Code_(Top.ctx).stats[Top.i] /\ Top.held = << >> /\ Top.op \in InBlock /\ (Top.fill # 0 => S.op = "assign")
    BY StatFacts
  <1>2. Top \in AnyAct /\ Kind(Top) /\ ActIn(Top, Len(cells), Len(objs))
    BY <1>1, RunFacts
  <1>3. ActIn(Top, c, o)
    BY <1>2, StateFacts, BoundsGrow
  <1>4. tg \in Nat /\ tg =< c
    OBVIOUS
  <1> HIDE DEF tg
  <1>5. /\ a \in AnyAct /\ a.at = "store" /\ a.val = v /\ a.cell = tg /\ a.i = Top.i /\ a.env = Top.env /\ a.fill = Top.fill
        /\ a.op = Top.op /\ a.ctx = Top.ctx /\ a.cur = Top.cur /\ a.base = Top.base /\ a.level = Top.level /\ a.held = Top.held
    BY <1>2, <1>4 DEF AnyAct, tg
  <1> HIDE DEF a
  <1>6. SamePlace(a, Top)
    BY <1>5 DEF SamePlace
  <1>7. Kind(a)
    BY <1>1, <1>5 DEF Kind, Blocky
  <1>8. Placed(a, scenario.code)
    BY <1>1, <1>5 DEF Placed, Fits, Visited, Code_, tg
  <1>9. ActIn(a, c, o)
    BY <1>1, <1>3, <1>4, <1>5 DEF ActIn
  <1> QED BY <1>5, <1>6, <1>7, <1>8, <1>9 DEF a, tg

LEMMA EvalValueInv ==
  ASSUME Inv1, EvalValue
  PROVE  Inv1'
  <1> DEFINE v == IF S.e.k = "nil" THEN Nil ELSE ValueOf(S.e.n)
             a == [Top EXCEPT !.at = "store", !.val = v, !.cell = Target]
             ops == {"local", "assign", "return"}
  <1>1. /\ AtStat(ops) /\ Visited /\ acts' = SetTop(a) /\ work' = <<Add(v)>>
        /\ globals' = GlobalsWithTarget /\ cells' = WithTarget(cells)
        /\ UNCHANGED <<scenario, file, status, failed, blocks, functions, frames, objs, lost>>
    BY DEF EvalValue
  <1> HIDE DEF ops
  <1>2. status = "run" /\ Top.op \in InBlock /\ S.e.n \in Name \cup {Nil}
    BY <1>1, StatFacts
  <1>3. v \in AnyValue /\ ValueIn(v, Len(objs))
    <2>1. CASE S.e.k = "nil"
      BY <2>1 DEF AnyValue, ValueIn
    <2>2. CASE S.e.k # "nil"
      <3>1. v = ValueOf(S.e.n)
        BY <2>2
      <3> HIDE DEF v
      <3> QED BY <1>2, <3>1, ValueFacts
    <2> QED BY <2>1, <2>2
  <1>4. cells \in Seq(AnyCell) /\ CellsIn(cells, Len(objs)) /\ Len(cells) \in Nat /\ Len(objs) \in Nat
    BY StateFacts DEF Inv1, Loose, Bounded
  <1>5. /\ cells' \in Seq(AnyCell) /\ CellsIn(cells', Len(objs)) /\ Len(cells') \in Nat /\ Len(cells) =< Len(cells')
        /\ Target \in 0 .. Len(cells') /\ (S.op = "assign" => Target # 0)
        /\ globals' \in [Name -> Nat] /\ NamesIn(globals', Len(cells'))
    BY <1>1, <1>4, TargetFacts
  <1> HIDE DEF v
  <1>6. /\ a \in AnyAct /\ SamePlace(a, Top) /\ Kind(a) /\ a.at = "store" /\ Placed(a, scenario.code)
        /\ ActIn(a, Len(cells'), Len(objs))
    <2>1. Len(objs) =< Len(objs)
      BY <1>4
    <2> QED BY <1>1, <1>3, <1>4, <1>5, <2>1, Evaluated
  <1>7. work' \in Seq(AnyUpdate) /\ UpdatesIn(work', Len(cells'), Len(objs))
    <2>1. Add(v) \in AnyUpdate /\ UpdateIn(Add(v), Len(cells'), Len(objs))
      BY <1>3, <1>4, <1>5, ValueUpdatesBounded
    <2> QED BY <1>1, <2>1 DEF UpdatesIn
  <1>8. /\ FramesIn(frames, Len(cells')) /\ ObjsIn(objs, Len(cells')) /\ lost \subseteq 1 .. Len(cells')
        /\ frames \in Seq(AnyStore) /\ objs \in Seq(AnyObj)
    BY <1>4, <1>5, KeptFacts DEF Inv1, Loose
  <1> HIDE DEF a
  <1>9. \A l \in DOMAIN frames : \A b \in Block, n \in Name : frames'[l][b][n] # 0 =>
          frames[l][b][n] # 0 \/ (l = Len(frames) /\ b = Top.ctx)
    BY <1>1
  <1> QED BY <1>1, <1>2, <1>4, <1>5, <1>6, <1>7, <1>8, <1>9, TopStep, SMTT(60)

LEMMA EvalFunctionInv ==
  ASSUME Inv1, EvalFunction
  PROVE  Inv1'
  <1> DEFINE a == [Top EXCEPT !.at = "store", !.val = NextObj, !.cell = Target]
             ops == {"local", "assign", "return"}
             x == NewObj(S.e.f, Top.env, 1)
             r == Referenced(Closure(S.e.f))
  <1>1. /\ AtStat(ops) /\ Visited /\ S.e.k = "fun" /\ acts' = SetTop(a) /\ objs' = Append(objs, x)
        /\ globals' = GlobalsWithTarget /\ cells' = WithTarget(r)
        /\ UNCHANGED <<scenario, file, status, failed, blocks, functions, frames, work, lost>>
    BY DEF EvalFunction
  <1> HIDE DEF ops
  <1>2. status = "run" /\ Top.op \in InBlock /\ S.e.f \in Body /\ work = << >>
    BY <1>1, StatFacts
  <1>3. r \in Seq(AnyCell) /\ Len(r) = Len(cells) /\ CellsIn(r, Len(objs)) /\ Len(cells) \in Nat /\ Len(objs) \in Nat
    BY ReferencedFacts, StateFacts
  <1>4. x \in AnyObj /\ ObjIn(x, Len(cells))
    BY <1>2, NewObjFacts
  <1> HIDE DEF r, x
  <1>5. /\ cells' \in Seq(AnyCell) /\ CellsIn(cells', Len(objs)) /\ Len(cells') \in Nat /\ Len(cells) =< Len(cells')
        /\ Target \in 0 .. Len(cells') /\ (S.op = "assign" => Target # 0)
        /\ globals' \in [Name -> Nat] /\ NamesIn(globals', Len(cells'))
    BY <1>1, <1>3, TargetFacts
  <1>6. objs' \in Seq(AnyObj) /\ Len(objs') = Len(objs) + 1 /\ ObjsIn(objs', Len(cells'))
    BY <1>1, <1>4, <1>5, ObjsAppend
  <1>7. Len(objs') \in Nat /\ Len(objs) =< Len(objs') /\ NextObj \in AnyValue /\ ValueIn(NextObj, Len(objs'))
    BY <1>3, <1>6 DEF NextObj, AnyValue, ValueIn
  <1>8. /\ a \in AnyAct /\ SamePlace(a, Top) /\ Kind(a) /\ a.at = "store" /\ Placed(a, scenario.code)
        /\ ActIn(a, Len(cells'), Len(objs'))
    BY <1>1, <1>5, <1>7, Evaluated
  <1>9. /\ FramesIn(frames, Len(cells')) /\ lost \subseteq 1 .. Len(cells') /\ UpdatesIn(work, Len(cells'), Len(objs'))
        /\ frames \in Seq(AnyStore) /\ work \in Seq(AnyUpdate)
    BY <1>5, <1>7, KeptFacts DEF Inv1, Loose
  <1>10. CellsIn(cells', Len(objs'))
    BY <1>3, <1>5, <1>7, BoundsGrowSeq
  <1> HIDE DEF a
  <1>11. \A l \in DOMAIN frames : \A b \in Block, n \in Name : frames'[l][b][n] # 0 =>
          frames[l][b][n] # 0 \/ (l = Len(frames) /\ b = Top.ctx)
    BY <1>1
  <1> QED BY <1>1, <1>2, <1>5, <1>6, <1>7, <1>8, <1>9, <1>10, <1>11, TopStep

-----------------------------------------------------------------------------
(* A statement that is done: the activation goes on to the next one.       *)
LEMMA AdvancedFacts ==
  ASSUME Inv1, status = "run", Top.op \in Blocky, NEW env \in [Name -> Nat],
         NEW a, a = [Advanced EXCEPT !.env = env] \/ (a = Advanced /\ env = Top.env)
  PROVE  /\ a \in AnyAct /\ SamePlace(a, Top) /\ Kind(a) /\ a.val = Nil /\ a.at = "stat" /\ a.fill = 0 /\ a.cell = 0
         /\ Placed(a, scenario.code) /\ a.held = << >> /\ a.env = env
         /\ \A c \in Nat, o \in Nat : NamesIn(env, c) => ActIn(a, c, o)
  <1>1. Top \in AnyAct /\ Kind(Top) /\ Top.held = << >> /\ Top.i \in Nat
    BY RunFacts, ActFacts DEF Kind, Blocky
  <1>2. Advanced = [Top EXCEPT !.i = Top.i + 1, !.at = "stat", !.val = Nil, !.held = << >>, !.cell = 0, !.fill = 0]
    BY DEF Advanced
  <1>2a. Top.i + 1 \in Nat /\ << >> \in Seq(AnyValue) /\ Nil \in AnyValue
    BY <1>1 DEF AnyValue
  <1>2b. Advanced \in AnyAct
    BY <1>1, <1>2, <1>2a DEF AnyAct
  <1>2c. /\ Advanced.op = Top.op /\ Advanced.ctx = Top.ctx /\ Advanced.cur = Top.cur
         /\ Advanced.base = Top.base /\ Advanced.level = Top.level
         /\ Advanced.held = << >> /\ Advanced.val = Nil /\ Advanced.at = "stat" /\ Advanced.cell = 0 /\ Advanced.fill = 0
         /\ Advanced.env = Top.env
    BY <1>1, <1>2 DEF AnyAct
  <1>3. /\ a \in AnyAct /\ a.op = Top.op /\ a.ctx = Top.ctx /\ a.cur = Top.cur /\ a.base = Top.base /\ a.level = Top.level
        /\ a.held = << >> /\ a.val = Nil /\ a.at = "stat" /\ a.cell = 0 /\ a.fill = 0 /\ a.env = env
    BY <1>2b, <1>2c DEF AnyAct
  <1>4. SamePlace(a, Top)
    BY <1>1, <1>3 DEF SamePlace
  <1>5. Kind(a)
    BY <1>1, <1>3 DEF Kind, Blocky
  <1>6. Placed(a, scenario.code)
    BY <1>3 DEF Placed
  <1>7. \A c \in Nat, o \in Nat : NamesIn(env, c) => ActIn(a, c, o)
    <2>1. DOMAIN a.held = {}
      BY <1>3
    <2> QED BY <1>3, <2>1 DEF ActIn, ValueIn
  <1> QED BY <1>3, <1>4, <1>5, <1>6, <1>7

(* A value that is stored: there may be a variable left without one.       *)
LEMMA StoredFacts ==
  ASSUME Inv1, NEW ops, AtStore(ops), NEW env \in [Name -> Nat],
         NEW a, a = [Stored EXCEPT !.env = env] \/ (a = Stored /\ env = Top.env)
  PROVE  /\ a \in AnyAct /\ SamePlace(a, Top) /\ Kind(a) /\ a.val = Nil /\ a.at \in {"stat", "fill"} /\ a.fill \in {0, Top.fill} /\ a.cell = 0
         /\ Placed(a, scenario.code) /\ a.held = << >> /\ a.env = env /\ (S.id2 # Nil => a.fill = Top.fill)
         /\ \A c \in Nat, o \in Nat : NamesIn(env, c) /\ Top.fill =< c => ActIn(a, c, o)
  <1>1. /\ status = "run" /\ Top.op \in Blocky /\ Top.i \in DOMAIN Code_(Top.ctx).stats /\ Top.i \in Nat
        /\ S = Code_(Top.ctx).stats[Top.i] /\ Top.held = << >>
        /\ (Top.fill # 0 => S.op = "assign") /\ (S.op = "assign" /\ S.id2 # Nil => Top.fill # 0)
    BY StoreFacts
  <1>2. CASE S.id2 = Nil
    <2>1. a = [Advanced EXCEPT !.env = env] \/ (a = Advanced /\ env = Top.env)
      BY <1>2 DEF Stored
    <2> QED BY <1>1, <1>2, <2>1, AdvancedFacts
  <1>3. CASE S.id2 # Nil
    <2> DEFINE d == [Advanced EXCEPT !.i = Top.i, !.at = "fill", !.fill = Top.fill]
    <2>1. Top \in AnyAct /\ Kind(Top) /\ Top.fill \in Nat /\ Top.env \in [Name -> Nat]
      BY <1>1, RunFacts, ActFacts
    <2>2. /\ Advanced \in AnyAct /\ SamePlace(Advanced, Top) /\ Advanced.val = Nil /\ Advanced.cell = 0
          /\ Advanced.held = << >> /\ Advanced.env = Top.env
      BY <1>1, <2>1, AdvancedFacts
    <2>3. /\ d \in AnyAct /\ d.op = Advanced.op /\ d.ctx = Advanced.ctx /\ d.cur = Advanced.cur /\ d.base = Advanced.base
          /\ d.level = Advanced.level /\ d.held = << >> /\ d.val = Nil /\ d.at = "fill" /\ d.cell = 0 /\ d.fill = Top.fill
          /\ d.env = Top.env /\ d.i = Top.i
      BY <1>1, <2>1, <2>2 DEF AnyAct
    <2>4. d = Stored
      BY <1>3 DEF Stored
    <2> HIDE DEF d
    <2>5. /\ a \in AnyAct /\ a.op = Top.op /\ a.ctx = Top.ctx /\ a.cur = Top.cur /\ a.base = Top.base
          /\ a.level = Top.level /\ a.held = << >> /\ a.val = Nil /\ a.at = "fill" /\ a.cell = 0 /\ a.fill = Top.fill
          /\ a.env = env /\ a.i = Top.i
      BY <2>2, <2>3, <2>4 DEF AnyAct, SamePlace
    <2>6. SamePlace(a, Top) /\ Kind(a)
      BY <1>1, <2>1, <2>5 DEF SamePlace, Kind, Blocky
    <2>7. Placed(a, scenario.code)
      BY <1>1, <1>3, <2>5 DEF Placed, Fits, Code_
    <2>8. ASSUME NEW c \in Nat, NEW o \in Nat, NamesIn(env, c), Top.fill =< c PROVE ActIn(a, c, o)
      <3>1. DOMAIN a.held = {}
        BY <2>5
      <3> QED BY <2>5, <2>8, <3>1 DEF ActIn, ValueIn
    <2> QED BY <2>5, <2>6, <2>7, <2>8
  <1> QED BY <1>2, <1>3

LEMMA StoreAssignInv ==
  ASSUME Inv1, StoreAssign
  PROVE  Inv1'
  <1> DEFINE ops == {"assign"}
             c == Len(cells)
             o == Len(objs)
  <1>1. /\ AtStore(ops) /\ work' = AssignOps(Top.cell, Top.val) /\ acts' = SetTop(Stored)
        /\ UNCHANGED <<scenario, file, status, failed, blocks, functions, frames, globals, cells, objs, lost>>
    BY DEF StoreAssign, stores, memory
  <1> HIDE DEF ops
  <1>2. status = "run" /\ Top.op \in InBlock /\ Top.op \in Blocky
    BY <1>1, StoreFacts
  <1>2a. S.op = "assign" /\ Top.cell # 0
    BY <1>1, StoreFacts DEF ops
  <1>3. Top \in AnyAct /\ ActIn(Top, c, o) /\ c \in Nat /\ o \in Nat
    BY <1>2, RunFacts, StateFacts
  <1>4. /\ Top.env \in [Name -> Nat] /\ NamesIn(Top.env, c) /\ Top.val \in AnyValue /\ ValueIn(Top.val, o) /\ Top.cell \in 1 .. c
        /\ Top.fill =< c
    BY <1>2a, <1>3, ActFacts DEF ActIn
  <1>5. /\ Stored \in AnyAct /\ SamePlace(Stored, Top) /\ Kind(Stored) /\ Stored.val = Nil
        /\ Placed(Stored, scenario.code) /\ ActIn(Stored, c, o)
    BY <1>1, <1>3, <1>4, StoredFacts
  <1>6. work' \in Seq(AnyUpdate) /\ UpdatesIn(work', c, o)
    <2> DEFINE x == Top.cell
               v == Top.val
    <2>1. /\ UpdateIn(DropOld(x), c, o) /\ UpdateIn(Write(x, v), c, o) /\ UpdateIn(Add(v), c, o) /\ UpdateIn(Drop(v), c, o)
          /\ DropOld(x) \in AnyUpdate /\ Write(x, v) \in AnyUpdate /\ Add(v) \in AnyUpdate /\ Drop(v) \in AnyUpdate
      BY <1>3, <1>4, UpdatesBounded
    <2>2. work' = <<DropOld(x), Write(x, v), Add(v), Drop(v)>>
      BY <1>1 DEF AssignOps
    <2> HIDE DEF x, v
    <2> QED BY <2>1, <2>2 DEF UpdatesIn
  <1>7. /\ FramesIn(frames, c) /\ NamesIn(globals, c) /\ CellsIn(cells, o) /\ ObjsIn(objs, c) /\ lost \subseteq 1 .. c
        /\ frames \in Seq(AnyStore) /\ objs \in Seq(AnyObj) /\ cells \in Seq(AnyCell) /\ globals \in [Name -> Nat]
    BY DEF Inv1, Loose, Bounded
  <1>8. \A l \in DOMAIN frames : \A b \in Block, n \in Name : frames'[l][b][n] # 0 =>
          frames[l][b][n] # 0 \/ (l = Len(frames) /\ b = Top.ctx)
    BY <1>1
  <1>9. c =< c /\ o =< o /\ c = Len(cells) /\ c = Len(cells') /\ o = Len(objs) /\ o = Len(objs')
    BY <1>1, <1>3
  <1> HIDE DEF c, o
  <1> QED BY <1>1, <1>2, <1>5, <1>6, <1>7, <1>8, <1>9, TopStep

LEMMA DiscardInv ==
  ASSUME Inv1, Discard
  PROVE  Inv1'
  <1> DEFINE ops == {"call"}
             c == Len(cells)
             o == Len(objs)
  <1>1. /\ AtStore(ops) /\ work' = <<Drop(Top.val)>> /\ acts' = SetTop(Advanced)
        /\ UNCHANGED <<scenario, file, status, failed, blocks, functions, frames, globals, cells, objs, lost>>
    BY DEF Discard, stores, memory
  <1> HIDE DEF ops
  <1>2. status = "run" /\ Top.op \in InBlock /\ Top.op \in Blocky
    BY <1>1, StoreFacts
  <1>3. Top \in AnyAct /\ ActIn(Top, c, o) /\ c \in Nat /\ o \in Nat
    BY <1>2, RunFacts, StateFacts
  <1>4. Top.env \in [Name -> Nat] /\ NamesIn(Top.env, c) /\ Top.val \in AnyValue /\ ValueIn(Top.val, o)
    BY <1>3, ActFacts DEF ActIn
  <1>5. /\ Advanced \in AnyAct /\ SamePlace(Advanced, Top) /\ Kind(Advanced) /\ Advanced.val = Nil
        /\ Placed(Advanced, scenario.code) /\ ActIn(Advanced, c, o)
    BY <1>2, <1>3, <1>4, AdvancedFacts
  <1>6. work' \in Seq(AnyUpdate) /\ UpdatesIn(work', c, o)
    <2>1. UpdateIn(Drop(Top.val), c, o) /\ Drop(Top.val) \in AnyUpdate
      BY <1>3, <1>4, ValueUpdatesBounded
    <2> QED BY <1>1, <2>1 DEF UpdatesIn
  <1>7. /\ FramesIn(frames, c) /\ NamesIn(globals, c) /\ CellsIn(cells, o) /\ ObjsIn(objs, c) /\ lost \subseteq 1 .. c
        /\ frames \in Seq(AnyStore) /\ objs \in Seq(AnyObj) /\ cells \in Seq(AnyCell) /\ globals \in [Name -> Nat]
    BY DEF Inv1, Loose, Bounded
  <1>8. \A l \in DOMAIN frames : \A b \in Block, n \in Name : frames'[l][b][n] # 0 =>
          frames[l][b][n] # 0 \/ (l = Len(frames) /\ b = Top.ctx)
    BY <1>1
  <1>9. c =< c /\ o =< o /\ c = Len(cells) /\ c = Len(cells') /\ o = Len(objs) /\ o = Len(objs')
    BY <1>1, <1>3
  <1> HIDE DEF c, o
  <1> QED BY <1>1, <1>2, <1>5, <1>6, <1>7, <1>8, <1>9, TopStep

-----------------------------------------------------------------------------
(* A frame that is replaced, one entry that is set, a cell that is added   *)
(* and a reference that is forgotten.                                      *)
LEMMA FramePut ==
  ASSUME NEW fr \in Seq(AnyStore), fr # << >>, NEW f \in AnyStore, NEW m \in Nat, FramesIn(fr, m), StoreIn(f, m)
  PROVE  LET t == [fr EXCEPT ![Len(fr)] = f]
         IN  /\ t \in Seq(AnyStore) /\ Len(t) = Len(fr) /\ DOMAIN t = DOMAIN fr /\ FramesIn(t, m)
             /\ t[Len(fr)] = f /\ \A l \in DOMAIN fr : l # Len(fr) => t[l] = fr[l]
  <1> DEFINE t == [fr EXCEPT ![Len(fr)] = f]
             j == Len(fr)
  <1>1. Len(fr) \in DOMAIN fr
    BY LenFacts
  <1>2. /\ t \in Seq(AnyStore) /\ Len(t) = Len(fr) /\ DOMAIN t = DOMAIN fr
        /\ t[j] = f /\ \A l \in DOMAIN fr : l # j => t[l] = fr[l]
    <2> HIDE DEF j
    <2>1. j \in DOMAIN fr
      BY <1>1 DEF j
    <2>2. t = [fr EXCEPT ![j] = f]
      BY DEF j
    <2> QED BY <2>1, <2>2, ReplaceFacts
  <1> HIDE DEF t
  <1>3. FramesIn(t, m)
    BY <1>2 DEF FramesIn
  <1> QED BY <1>2, <1>3 DEF t

Put(f, b, n, c) == [f EXCEPT ![b][n] = c]

LEMMA EntryPut ==
  ASSUME NEW f \in AnyStore, NEW b \in Block, NEW n \in Name, NEW c \in Nat, NEW t, t = Put(f, b, n, c)
  PROVE  /\ t \in AnyStore
         /\ \A x \in Block, k \in Name : t[x][k] = IF x = b /\ k = n THEN c ELSE f[x][k]
         /\ \A m \in Nat : StoreIn(f, m) /\ c =< m => StoreIn(t, m)
  <1>1. t \in AnyStore
    BY DEF AnyStore, Put
  <1>2. \A x \in Block, k \in Name : t[x][k] = IF x = b /\ k = n THEN c ELSE f[x][k]
    BY DEF AnyStore, Put
  <1>3. \A m \in Nat : StoreIn(f, m) /\ c =< m => StoreIn(t, m)
    <2> SUFFICES ASSUME NEW m \in Nat, StoreIn(f, m), c =< m, NEW x \in Block, NEW k \in Name PROVE t[x][k] =< m
      BY DEF StoreIn, NamesIn
    <2>1. f[x][k] =< m
      BY DEF StoreIn, NamesIn
    <2>2. t[x][k] = c \/ t[x][k] = f[x][k]
      BY <1>2
    <2> QED BY <2>1, <2>2
  <1> QED BY <1>1, <1>2, <1>3

LEMMA CellsAppend ==
  ASSUME NEW cs \in Seq(AnyCell), NEW o \in Nat, CellsIn(cs, o), NEW v \in AnyValue, ValueIn(v, o)
  PROVE  LET t == Append(cs, NewCell(v))
         IN  /\ t \in Seq(AnyCell) /\ Len(t) = Len(cs) + 1 /\ DOMAIN t = 1 .. (Len(cs) + 1) /\ CellsIn(t, o)
             /\ \A k \in 1 .. Len(cs) : t[k] = cs[k]
             /\ t[Len(cs) + 1] = NewCell(v) /\ NewCell(v).value = v /\ NewCell(v).refs = 1
  <1> DEFINE t == Append(cs, NewCell(v))
  <1>1. NewCell(v) \in AnyCell /\ NewCell(v).value = v /\ NewCell(v).refs = 1
    BY DEF NewCell, AnyCell
  <1>2. /\ t \in Seq(AnyCell) /\ Len(t) = Len(cs) + 1 /\ DOMAIN t = 1 .. (Len(cs) + 1)
        /\ (\A k \in 1 .. Len(cs) : t[k] = cs[k]) /\ t[Len(cs) + 1] = NewCell(v)
    BY <1>1, AppendFacts
  <1>3. Len(cs) \in Nat /\ DOMAIN cs = 1 .. Len(cs)
    BY LenFacts
  <1> HIDE DEF t
  <1>4. CellsIn(t, o)
    <2> SUFFICES ASSUME NEW k \in DOMAIN t PROVE ValueIn(t[k].value, o)
      BY DEF CellsIn
    <2>1. CASE k = Len(cs) + 1
      BY <1>1, <1>2, <2>1
    <2>2. CASE k # Len(cs) + 1
      <3>1. k \in 1 .. Len(cs)
        BY <1>2, <1>3, <2>2, NotLast
      <3> QED BY <1>2, <1>3, <3>1 DEF CellsIn
    <2> QED BY <2>1, <2>2
  <1> QED BY <1>1, <1>2, <1>4 DEF t

LEMMA OverwriteFacts ==
  ASSUME Inv1, NEW o \in DOMAIN objs
  PROVE  /\ Overwrite(o) \in Seq(AnyObj) /\ Len(Overwrite(o)) = Len(objs) /\ DOMAIN Overwrite(o) = DOMAIN objs
         /\ \A c : ObjsIn(objs, c) => ObjsIn(Overwrite(o), c)
         /\ \A x \in DOMAIN objs : /\ Overwrite(o)[x].closure = objs[x].closure /\ Overwrite(o)[x].live = objs[x].live
                                   /\ Overwrite(o)[x].count = objs[x].count
                                   /\ Overwrite(o)[x].leaked = objs[x].leaked + B(x = o)
  <1> DEFINE y == [objs[o] EXCEPT !.leaked = objs[o].leaked + 1]
             t == [objs EXCEPT ![o] = y]
  <1>1. objs[o] \in AnyObj /\ objs \in Seq(AnyObj) /\ \A x \in DOMAIN objs : objs[x] \in AnyObj
    BY StateFacts DEF Inv1, Loose
  <1>2. /\ y \in AnyObj /\ y.closure = objs[o].closure /\ y.env = objs[o].env /\ y.live = objs[o].live
        /\ y.count = objs[o].count /\ y.leaked = objs[o].leaked + 1
    <2>1. objs[o].leaked \in Nat /\ objs[o].leaked + 1 \in Nat
      BY <1>1 DEF AnyObj
    <2> DEFINE q == objs[o].leaked + 1
    <2>2. q \in Nat
      BY <2>1
    <2> HIDE DEF q
    <2>3. y = [objs[o] EXCEPT !.leaked = q]
      BY DEF q
    <2>4. y \in AnyObj /\ y.closure = objs[o].closure /\ y.env = objs[o].env
      BY <1>1, <2>2, <2>3 DEF AnyObj
    <2>5. y.live = objs[o].live /\ y.count = objs[o].count /\ y.leaked = q
      BY <1>1, <2>2, <2>3 DEF AnyObj
    <2> QED BY <2>4, <2>5 DEF q
  <1>3. Overwrite(o) = t
    BY DEF Overwrite
  <1> HIDE DEF y
  <1>4. t \in Seq(AnyObj) /\ Len(t) = Len(objs) /\ DOMAIN t = DOMAIN objs /\ t[o] = y /\ \A k \in DOMAIN objs : k # o => t[k] = objs[k]
    BY <1>1, <1>2, ReplaceFacts
  <1> HIDE DEF t
  <1>5. \A c : ObjsIn(objs, c) => ObjsIn(t, c)
    BY <1>2, <1>4 DEF ObjsIn, ObjIn
  <1>6. \A x \in DOMAIN objs : objs[x].leaked \in Nat
    BY <1>1 DEF AnyObj
  <1>7. \A x \in DOMAIN objs : /\ t[x].closure = objs[x].closure /\ t[x].live = objs[x].live
                               /\ t[x].count = objs[x].count
                               /\ t[x].leaked = objs[x].leaked + B(x = o)
    BY <1>2, <1>4, <1>6 DEF B
  <1> QED BY <1>3, <1>4, <1>5, <1>7

(* What the step that stores a local does, by whether the local exists.    *)
LEMMA StoreLocalForm ==
  ASSUME Inv1, StoreLocal,
         NEW old, old = Frame[Top.ctx][S.id], NEW c, c = IF old = 0 THEN Len(cells) + 1 ELSE old
  PROVE  /\ AtStore({"local"}) /\ status = "run" /\ work = << >>
         /\ Top.op \in Blocky /\ Top.ctx \in Block /\ S.id \in Name /\ Current = Top.ctx
         /\ old \in 0 .. Len(cells) /\ c \in 1 .. Len(cells') /\ Len(cells) =< Len(cells')
         /\ cells' = IF old = 0 THEN Append(cells, NewCell(Nil)) ELSE cells
         /\ frames' = SetFrame([Frame EXCEPT ![Top.ctx][S.id] = c])
         /\ objs' = IF old # 0 /\ cells[old].value # Nil THEN Overwrite(cells[old].value) ELSE objs
         /\ work' = <<Write(c, Top.val), Add(Top.val), Drop(Top.val)>>
         /\ acts' = SetTop([Stored EXCEPT !.env = [Top.env EXCEPT ![S.id] = c]])
         /\ UNCHANGED <<scenario, file, status, failed, blocks, functions, globals, lost>>
         /\ old = 0 => Len(cells') = Len(cells) + 1
  <1>1. AtStore({"local"})
    BY DEF StoreLocal
  <1>2. status = "run" /\ work = << >> /\ Top.op \in Blocky /\ Top.ctx \in Block /\ Current = Top.ctx
    BY <1>1, StoreFacts
  <1>3. S.id \in Name
    <2> DEFINE ops == {"local"}
    <2>1. AtStore(ops)
      BY <1>1
    <2>2. S.op = "local"
      BY <1>1 DEF AtStore
    <2> HIDE DEF ops
    <2> QED BY <2>1, <2>2, StoreFacts
  <1>4. Frame \in AnyStore /\ StoreIn(Frame, Len(cells)) /\ Len(cells) \in Nat /\ cells \in Seq(AnyCell)
    BY <1>2, RunFacts, StateFacts DEF Inv1, Loose
  <1>5. old \in 0 .. Len(cells)
    BY <1>2, <1>3, <1>4 DEF AnyStore, StoreIn, NamesIn
  <1>6. Top \in AnyAct
    BY <1>2, RunFacts
  <1>7. /\ cells' = IF old = 0 THEN Append(cells, NewCell(Nil)) ELSE cells
        /\ frames' = SetFrame([Frame EXCEPT ![Top.ctx][S.id] = c])
        /\ objs' = IF old # 0 /\ cells[old].value # Nil THEN Overwrite(cells[old].value) ELSE objs
        /\ work' = <<Write(c, Top.val), Add(Top.val), Drop(Top.val)>>
        /\ acts' = SetTop([Stored EXCEPT !.env = [@ EXCEPT ![S.id] = c]])
        /\ UNCHANGED <<scenario, file, status, failed, blocks, functions, globals, lost>>
    BY <1>2 DEF StoreLocal, NextCell, Forget
  <1>8. [Stored EXCEPT !.env = [@ EXCEPT ![S.id] = c]] = [Stored EXCEPT !.env = [Top.env EXCEPT ![S.id] = c]]
    <2>1. Stored.env = Top.env
      BY <1>1, <1>6, ActFacts, StoredFacts
    <2> QED BY <2>1
  <1>9. old = 0 => Len(cells') = Len(cells) + 1
    <2>1. NewCell(Nil) \in AnyCell
      BY DEF NewCell, AnyCell, AnyValue
    <2> QED BY <1>4, <1>7, <2>1, AppendFacts
  <1>10. c \in 1 .. Len(cells') /\ Len(cells) =< Len(cells')
    BY <1>4, <1>5, <1>7, <1>9
  <1> QED BY <1>1, <1>2, <1>3, <1>5, <1>7, <1>8, <1>9, <1>10

LEMMA StoreLocalInv ==
  ASSUME Inv1, StoreLocal
  PROVE  Inv1'
  <1> DEFINE b == Top.ctx
             n == S.id
             old == Frame[b][n]
             c == IF old = 0 THEN Len(cells) + 1 ELSE old
             e == [Top.env EXCEPT ![n] = c]
             a == [Stored EXCEPT !.env = e]
             f == [Frame EXCEPT ![b][n] = c]
             m == Len(cells')
             o == Len(objs)
             fr == SetFrame(f)
  <1>1. /\ AtStore({"local"}) /\ status = "run" /\ work = << >>
        /\ Top.op \in Blocky /\ b \in Block /\ n \in Name
        /\ old \in 0 .. Len(cells) /\ c \in 1 .. Len(cells') /\ Len(cells) =< Len(cells')
        /\ cells' = IF old = 0 THEN Append(cells, NewCell(Nil)) ELSE cells
        /\ frames' = fr
        /\ objs' = IF old # 0 /\ cells[old].value # Nil THEN Overwrite(cells[old].value) ELSE objs
        /\ work' = <<Write(c, Top.val), Add(Top.val), Drop(Top.val)>>
        /\ acts' = SetTop(a)
        /\ UNCHANGED <<scenario, file, status, failed, blocks, functions, globals, lost>>
    BY StoreLocalForm
  <1>2. /\ Top \in AnyAct /\ ActIn(Top, Len(cells), o) /\ Len(cells) \in Nat /\ o \in Nat
        /\ Frame \in AnyStore /\ StoreIn(Frame, Len(cells)) /\ frames # << >>
    BY <1>1, RunFacts, StateFacts
  <1>2a. cells \in Seq(AnyCell) /\ CellsIn(cells, o) /\ frames \in Seq(AnyStore) /\ objs \in Seq(AnyObj) /\ ObjsIn(objs, Len(cells))
    BY DEF Inv1, Loose, Bounded
  <1>3. Top.env \in [Name -> Nat] /\ NamesIn(Top.env, Len(cells)) /\ Top.val \in AnyValue /\ ValueIn(Top.val, o)
    BY <1>2, ActFacts DEF ActIn
  <1>4. cells' \in Seq(AnyCell) /\ CellsIn(cells', o) /\ m \in Nat
    <2>1. CASE old = 0
      <3>1. Nil \in AnyValue /\ ValueIn(Nil, o)
        BY DEF AnyValue, ValueIn
      <3> HIDE DEF o
      <3>2. /\ Append(cells, NewCell(Nil)) \in Seq(AnyCell) /\ CellsIn(Append(cells, NewCell(Nil)), o)
            /\ Len(Append(cells, NewCell(Nil))) = Len(cells) + 1
        BY <1>2, <1>2a, <3>1, CellsAppend
      <3> QED BY <1>1, <1>2, <2>1, <3>2
    <2>2. CASE old # 0
      BY <1>1, <1>2, <1>2a, <2>2
    <2> QED BY <2>1, <2>2
  <1>5. objs' \in Seq(AnyObj) /\ ObjsIn(objs', m) /\ Len(objs') = o
    <2>1. ObjsIn(objs, m)
      BY <1>1, <1>2, <1>4, KeptFacts
    <2>2. CASE old # 0 /\ cells[old].value # Nil
      <3>1. cells[old].value \in DOMAIN objs
        BY <1>1, <2>2, StateFacts, SMTT(60) DEF ValueIn
      <3>2. objs' = Overwrite(cells[old].value)
        BY <1>1, <2>2, SMTT(60)
      <3> HIDE DEF m
      <3> QED BY <2>1, <3>1, <3>2, OverwriteFacts, SMTT(60)
    <2>3. CASE ~ (old # 0 /\ cells[old].value # Nil)
      BY <1>1, <1>2a, <2>1, <2>3
    <2> QED BY <2>2, <2>3
  <1> HIDE DEF old, c, b, n
  <1>6. e \in [Name -> Nat] /\ NamesIn(e, m)
    BY <1>1, <1>2, <1>3, <1>4 DEF NamesIn
  <1> HIDE DEF e
  <1>7. /\ a \in AnyAct /\ SamePlace(a, Top) /\ Kind(a) /\ a.val = Nil
        /\ Placed(a, scenario.code) /\ ActIn(a, m, o)
    <2> DEFINE ops == {"local"}
    <2>1. AtStore(ops) /\ Top.fill =< m
      BY <1>1, <1>2, <1>4, ActFacts DEF ActIn
    <2> HIDE DEF ops
    <2> QED BY <1>2, <1>4, <1>6, <2>1, StoredFacts
  <1> HIDE DEF a
  <1>8. f \in AnyStore /\ StoreIn(f, m) /\ \A x \in Block, k \in Name : f[x][k] = IF x = b /\ k = n THEN c ELSE Frame[x][k]
    <2>1. StoreIn(Frame, m)
      BY <1>1, <1>2, <1>4, BoundsGrow
    <2>2. c \in Nat /\ c =< m
      BY <1>1, <1>4
    <2> HIDE DEF m
    <2>3. /\ f \in AnyStore /\ \A x \in Block, k \in Name : f[x][k] = IF x = b /\ k = n THEN c ELSE Frame[x][k]
          /\ \A q \in Nat : StoreIn(Frame, q) /\ c =< q => StoreIn(f, q)
      <3>1. b \in Block /\ n \in Name /\ c \in Nat /\ Frame \in AnyStore
        BY <1>1, <1>2, <2>2
      <3>2. f = Put(Frame, b, n, c)
        BY DEF Put
      <3> HIDE DEF f
      <3> QED BY <3>1, <3>2, EntryPut
    <2> QED BY <1>4, <2>1, <2>2, <2>3
  <1> HIDE DEF f
  <1>9. /\ fr \in Seq(AnyStore) /\ Len(fr) = Len(frames) /\ FramesIn(fr, m)
        /\ fr[Len(frames)] = f /\ \A l \in DOMAIN frames : l # Len(frames) => fr[l] = frames[l]
    <2>1. FramesIn(frames, m)
      BY <1>1, <1>2, <1>4, KeptFacts
    <2>2. fr = [frames EXCEPT ![Len(frames)] = f]
      BY DEF SetFrame
    <2> HIDE DEF m, fr
    <2> QED BY <1>2, <1>2a, <1>4, <1>8, <2>1, <2>2, FramePut
  <1>10. work' \in Seq(AnyUpdate) /\ UpdatesIn(work', m, o)
    <2> DEFINE v == Top.val
    <2>1. /\ UpdateIn(Write(c, v), m, o) /\ UpdateIn(Add(v), m, o) /\ UpdateIn(Drop(v), m, o)
          /\ Write(c, v) \in AnyUpdate /\ Add(v) \in AnyUpdate /\ Drop(v) \in AnyUpdate
      BY <1>1, <1>2, <1>3, <1>4, UpdatesBounded
    <2>2. work' = <<Write(c, v), Add(v), Drop(v)>>
      BY <1>1
    <2> HIDE DEF v
    <2> QED BY <2>1, <2>2 DEF UpdatesIn
  <1>11. \A l \in DOMAIN frames : \A x \in Block, k \in Name : frames'[l][x][k] # 0 =>
          frames[l][x][k] # 0 \/ (l = Len(frames) /\ x = Top.ctx)
    <2>1. Frame = frames[Len(frames)]
      BY <1>1, RunFacts
    <2> HIDE DEF fr
    <2> QED BY <1>1, <1>8, <1>9, <2>1 DEF b
  <1>12. NamesIn(globals', m) /\ globals' \in [Name -> Nat] /\ lost' \subseteq 1 .. m
    <2>1. globals' = globals /\ lost' = lost /\ o =< o /\ Len(cells) =< m
      BY <1>1, <1>2
    <2>2. globals \in [Name -> Nat]
      BY DEF Inv1, Loose
    <2> QED BY <1>2, <1>4, <2>1, <2>2, KeptFacts
  <1>13. o =< o /\ o = Len(objs) /\ o = Len(objs') /\ m = Len(cells') /\ Len(cells) =< m
    BY <1>1, <1>2, <1>5
  <1>14. status = "run" /\ Top.op \in InBlock
    BY <1>1 DEF Blocky, InBlock
  <1> HIDE DEF m, o, fr
  <1> QED BY <1>1, <1>4, <1>5, <1>7, <1>9, <1>10, <1>11, <1>12, <1>13, <1>14, TopStep

(* One name of a map.                                                      *)
PutName(g, n, c) == [g EXCEPT ![n] = c]

LEMMA NamePut ==
  ASSUME NEW g \in [Name -> Nat], NEW n \in Name, NEW c \in Nat, NEW t, t = PutName(g, n, c)
  PROVE  /\ t \in [Name -> Nat]
         /\ \A k \in Name : t[k] = IF k = n THEN c ELSE g[k]
         /\ \A m \in Nat : NamesIn(g, m) /\ c =< m => NamesIn(t, m)
  BY DEF PutName, NamesIn

(* The entry that a function statement overwrites.                         *)
OldEntry == IF S.op = "function" THEN globals[S.id] ELSE Frame[Top.ctx][S.id]

LEMMA DefineFunctionForm ==
  ASSUME Inv1, DefineFunction
  PROVE  /\ status = "run" /\ work = << >> /\ Top.op \in Blocky /\ Top.val = Nil /\ Top.held = << >>
         /\ Top.ctx \in Block /\ S.id \in Name /\ Current = Top.ctx
         /\ S.e.f \in Body /\ ~ ClosesTwice(S.e.f)
         /\ S.op \in {"function", "localfunction"}
         /\ OldEntry \in 0 .. Len(cells)
         /\ objs' = Append(objs, NewObj(S.e.f, Top.env, 1))
         /\ cells' = Append(Referenced(Closure(S.e.f)), NewCell(Len(objs) + 1))
         /\ lost' = lost \cup ({OldEntry} \ {0})
         /\ S.op = "function" => globals' = PutName(globals, S.id, Len(cells) + 1) /\ frames' = frames /\ acts' = SetTop([Advanced EXCEPT !.env = Top.env])
         /\ S.op = "localfunction" => /\ frames' = SetFrame(Put(Frame, Top.ctx, S.id, Len(cells) + 1)) /\ globals' = globals
                                      /\ acts' = SetTop([Advanced EXCEPT !.env = PutName(Top.env, S.id, Len(cells) + 1)])
         /\ UNCHANGED <<scenario, file, status, failed, blocks, functions, work>>
  <1> DEFINE ops == {"function", "localfunction"}
             b == Top.ctx
             n == S.id
             c == Len(cells) + 1
             old == OldEntry
  <1>1. AtStat(ops) /\ ~ ClosesTwice(S.e.f)
    BY DEF DefineFunction
  <1>2. S.op \in ops
    BY <1>1 DEF AtStat
  <1>3. /\ status = "run" /\ work = << >> /\ Top.op \in Blocky /\ Top.val = Nil /\ Top.held = << >>
        /\ b \in Block /\ n \in Name /\ S.e.f \in Body /\ Current = b
    <2> HIDE DEF ops
    <2>1. /\ status = "run" /\ work = << >> /\ Top.op \in Blocky /\ Top.val = Nil /\ Top.held = << >> /\ Top.ctx \in Block
          /\ (S.op \in {"local", "assign", "function", "localfunction", "for"} => S.id \in Name)
          /\ (S.op \in {"function", "localfunction"} => S.e.f \in Body) /\ Current = Top.ctx
      BY <1>1, StatFacts
    <2> QED BY <1>2, <2>1 DEF ops
  <1>4. old \in 0 .. Len(cells)
    <2>1. Frame \in AnyStore /\ StoreIn(Frame, Len(cells)) /\ Len(cells) \in Nat
      BY <1>3, RunFacts, StateFacts
    <2>2. globals \in [Name -> Nat] /\ NamesIn(globals, Len(cells))
      BY DEF Inv1, Loose, Bounded
    <2>3. globals[n] \in 0 .. Len(cells)
      BY <1>3, <2>1, <2>2 DEF NamesIn
    <2>4. Frame[b][n] \in 0 .. Len(cells)
      BY <1>3, <2>1 DEF AnyStore, StoreIn, NamesIn
    <2> QED BY <2>3, <2>4 DEF OldEntry
  <1>5. /\ objs' = Append(objs, NewObj(S.e.f, Top.env, 1))
        /\ cells' = Append(Referenced(Closure(S.e.f)), NewCell(Len(objs) + 1))
        /\ lost' = lost \cup ({old} \ {0})
        /\ S.op = "function" => globals' = [globals EXCEPT ![n] = c] /\ frames' = frames /\ acts' = SetTop([Advanced EXCEPT !.env = Top.env])
        /\ S.op = "localfunction" => /\ frames' = SetFrame([Frame EXCEPT ![b][n] = c]) /\ globals' = globals
                                     /\ acts' = SetTop([Advanced EXCEPT !.env = [Top.env EXCEPT ![n] = c]])
        /\ UNCHANGED <<scenario, file, status, failed, blocks, functions, work>>
    BY <1>3 DEF DefineFunction, NextObj, NextCell, OldEntry
  <1>6. S.op \in {"function", "localfunction"}
    BY <1>2
  <1>7. ~ ClosesTwice(S.e.f)
    BY <1>1
  <1>8. [Frame EXCEPT ![b][n] = c] = Put(Frame, b, n, c)
    BY DEF Put
  <1>9. [globals EXCEPT ![n] = c] = PutName(globals, n, c) /\ [Top.env EXCEPT ![n] = c] = PutName(Top.env, n, c)
    BY DEF PutName
  <1> HIDE DEF ops
  <1> QED BY <1>3, <1>4, <1>5, <1>6, <1>7, <1>8, <1>9

LEMMA DefineFunctionInv ==
  ASSUME Inv1, DefineFunction
  PROVE  Inv1'
  <1> DEFINE b == Top.ctx
             n == S.id
             c == Len(cells) + 1
             old == IF S.op = "function" THEN globals[n] ELSE Frame[b][n]
             e == IF S.op = "function" THEN Top.env ELSE PutName(Top.env, n, c)
             a == [Advanced EXCEPT !.env = e]
             f == Put(Frame, b, n, c)
             fr == SetFrame(f)
             x == NewObj(S.e.f, Top.env, 1)
             r == Referenced(Closure(S.e.f))
             o == Len(objs) + 1
  <1>1. /\ status = "run" /\ work = << >> /\ Top.op \in Blocky
        /\ b \in Block /\ n \in Name /\ S.e.f \in Body
        /\ S.op \in {"function", "localfunction"}
        /\ old \in 0 .. Len(cells)
        /\ objs' = Append(objs, x) /\ cells' = Append(r, NewCell(o))
        /\ lost' = lost \cup ({old} \ {0})
        /\ S.op = "function" => globals' = PutName(globals, n, c) /\ frames' = frames
        /\ S.op = "localfunction" => frames' = fr /\ globals' = globals
        /\ acts' = SetTop(a)
        /\ UNCHANGED <<scenario, file, status, failed, blocks, functions, work>>
    <2>1. /\ status = "run" /\ work = << >> /\ Top.op \in Blocky
          /\ b \in Block /\ n \in Name /\ S.e.f \in Body
          /\ S.op \in {"function", "localfunction"}
          /\ old \in 0 .. Len(cells)
          /\ objs' = Append(objs, NewObj(S.e.f, Top.env, 1))
          /\ cells' = Append(Referenced(Closure(S.e.f)), NewCell(Len(objs) + 1))
          /\ lost' = lost \cup ({old} \ {0})
      BY DefineFunctionForm DEF OldEntry
    <2>2. /\ S.op = "function" => globals' = PutName(globals, n, c) /\ frames' = frames /\ acts' = SetTop([Advanced EXCEPT !.env = Top.env])
          /\ S.op = "localfunction" => /\ frames' = SetFrame(Put(Frame, b, n, c)) /\ globals' = globals
                                       /\ acts' = SetTop([Advanced EXCEPT !.env = PutName(Top.env, n, c)])
          /\ UNCHANGED <<scenario, file, status, failed, blocks, functions, work>>
      BY DefineFunctionForm DEF OldEntry
    <2>3. acts' = SetTop(a)
      <3>1. CASE S.op = "function"
        BY <2>2, <3>1
      <3>2. CASE S.op = "localfunction"
        BY <2>2, <3>2
      <3> QED BY <2>1, <3>1, <3>2
    <2>4. objs' = Append(objs, x) /\ cells' = Append(r, NewCell(o))
      BY <2>1
    <2> HIDE DEF x, r, a, b, n, c, old, o
    <2> QED BY <2>1, <2>2, <2>3, <2>4 DEF fr
  <1> HIDE DEF old
  <1>2. /\ Top \in AnyAct /\ ActIn(Top, Len(cells), Len(objs)) /\ Len(cells) \in Nat /\ Len(objs) \in Nat
        /\ Frame \in AnyStore /\ StoreIn(Frame, Len(cells)) /\ frames # << >>
    BY <1>1, RunFacts, StateFacts
  <1>2a. frames \in Seq(AnyStore) /\ objs \in Seq(AnyObj) /\ globals \in [Name -> Nat] /\ work \in Seq(AnyUpdate)
    BY DEF Inv1, Loose, Bounded
  <1>3. Top.env \in [Name -> Nat] /\ NamesIn(Top.env, Len(cells))
    BY <1>2, ActFacts DEF ActIn
  <1>4. r \in Seq(AnyCell) /\ Len(r) = Len(cells) /\ CellsIn(r, Len(objs)) /\ x \in AnyObj /\ ObjIn(x, Len(cells))
    BY <1>1, ReferencedFacts, NewObjFacts
  <1> HIDE DEF r, x
  <1>5. c \in Nat /\ o \in Nat /\ Len(cells) =< c /\ Len(objs) =< o
    BY <1>2
  <1>6. cells' \in Seq(AnyCell) /\ CellsIn(cells', o) /\ Len(cells') = c
    <2>1. CellsIn(r, o)
      BY <1>2, <1>4, <1>5, BoundsGrowSeq
    <2>2. o \in AnyValue /\ ValueIn(o, o)
      BY <1>2 DEF AnyValue, ValueIn
    <2>3. c = Len(r) + 1
      BY <1>4
    <2> HIDE DEF o, c
    <2> QED BY <1>1, <1>4, <1>5, <2>1, <2>2, <2>3, CellsAppend
  <1>7. objs' \in Seq(AnyObj) /\ ObjsIn(objs', c) /\ Len(objs') = o
    <2> HIDE DEF c
    <2> QED BY <1>1, <1>4, <1>5, ObjsAppend
  <1>8. e \in [Name -> Nat] /\ NamesIn(e, c)
    <2>1. NamesIn(Top.env, c)
      BY <1>2, <1>3, <1>5, BoundsGrow
    <2>2. PutName(Top.env, n, c) \in [Name -> Nat] /\ NamesIn(PutName(Top.env, n, c), c)
      <3>1. c =< c
        BY <1>5
      <3> HIDE DEF c, n
      <3> QED BY <1>1, <1>3, <1>5, <2>1, <3>1, NamePut
    <2> QED BY <1>3, <2>1, <2>2
  <1> HIDE DEF e
  <1>9. /\ a \in AnyAct /\ SamePlace(a, Top) /\ Kind(a) /\ a.val = Nil
        /\ Placed(a, scenario.code) /\ ActIn(a, c, o)
    <2> HIDE DEF c, o
    <2> QED BY <1>1, <1>2, <1>5, <1>8, AdvancedFacts
  <1> HIDE DEF a
  <1>10. f \in AnyStore /\ StoreIn(f, c) /\ \A y \in Block, k \in Name : f[y][k] = IF y = b /\ k = n THEN c ELSE Frame[y][k]
    <2>1. StoreIn(Frame, c) /\ c =< c
      BY <1>2, <1>5, BoundsGrow
    <2> HIDE DEF c, b, n
    <2>2. /\ f \in AnyStore /\ \A y \in Block, k \in Name : f[y][k] = IF y = b /\ k = n THEN c ELSE Frame[y][k]
          /\ \A q \in Nat : StoreIn(Frame, q) /\ c =< q => StoreIn(f, q)
      BY <1>1, <1>2, <1>5, EntryPut
    <2> QED BY <1>5, <2>1, <2>2
  <1> HIDE DEF f
  <1>11. FramesIn(frames, c) /\ NamesIn(globals, c) /\ lost \subseteq 1 .. c /\ UpdatesIn(work, c, o)
    <2> HIDE DEF c, o
    <2> QED BY <1>5, KeptFacts
  <1>12. /\ fr \in Seq(AnyStore) /\ Len(fr) = Len(frames) /\ FramesIn(fr, c)
         /\ fr[Len(frames)] = f /\ \A l \in DOMAIN frames : l # Len(frames) => fr[l] = frames[l]
    <2>2. fr = [frames EXCEPT ![Len(frames)] = f]
      BY DEF SetFrame
    <2> HIDE DEF c, fr
    <2> QED BY <1>2, <1>2a, <1>5, <1>10, <1>11, <2>2, FramePut
  <1>13. Frame = frames[Len(frames)]
    BY <1>1, RunFacts
  <1> HIDE DEF fr
  <1>14. /\ frames' \in Seq(AnyStore) /\ Len(frames') = Len(frames) /\ FramesIn(frames', c)
         /\ \A l \in DOMAIN frames : \A y \in Block, k \in Name : frames'[l][y][k] # 0 =>
              frames[l][y][k] # 0 \/ (l = Len(frames) /\ y = Top.ctx)
    <2>1. CASE S.op = "function"
      BY <1>1, <1>2a, <1>11, <2>1
    <2>2. CASE S.op = "localfunction"
      <3>1. frames' = fr
        BY <1>1, <2>2
      <3> QED BY <1>10, <1>12, <1>13, <3>1
    <2> QED BY <1>1, <2>1, <2>2
  <1>15. globals' \in [Name -> Nat] /\ NamesIn(globals', c)
    <2>1. CASE S.op = "function"
      <3>1. c =< c /\ globals' = PutName(globals, n, c)
        BY <1>1, <1>5, <2>1
      <3> HIDE DEF c, n
      <3> QED BY <1>1, <1>2a, <1>5, <1>11, <3>1, NamePut
    <2>2. CASE S.op = "localfunction"
      BY <1>1, <1>2a, <1>11, <2>2
    <2> QED BY <1>1, <2>1, <2>2
  <1>16. lost' \subseteq 1 .. c
    <2>1. {old} \ {0} \subseteq 1 .. c
      BY <1>1, <1>2
    <2> QED BY <1>1, <1>11, <2>1
  <1>17. work' \in Seq(AnyUpdate) /\ UpdatesIn(work', c, o)
    BY <1>1, <1>2a, <1>11
  <1>18. c = Len(cells') /\ o = Len(objs') /\ Top.op \in InBlock
    BY <1>1, <1>6, <1>7 DEF Blocky, InBlock
  <1> HIDE DEF c, o, b, n
  <1> QED BY <1>1, <1>5, <1>6, <1>7, <1>9, <1>14, <1>15, <1>16, <1>17, <1>18, TopStep

-----------------------------------------------------------------------------
(* Releases of cells, and the sequences of updates built from them.        *)
LEMMA UnrefsBounded ==
  ASSUME NEW cs, IsFiniteSet(cs), NEW c \in Nat, NEW o \in Nat, cs \subseteq 1 .. c
  PROVE  Unrefs(cs) \in Seq(AnyUpdate) /\ UpdatesIn(Unrefs(cs), c, o)
  <1>1. cs \subseteq Nat
    OBVIOUS
  <1>2. Unrefs(cs) \in Seq(AnyUpdate) /\ \A k \in DOMAIN Unrefs(cs) : \E x \in cs : Unrefs(cs)[k] = Unref(x)
    BY <1>1, UnrefsFacts
  <1>3. \A x \in cs : UpdateIn(Unref(x), c, o)
    BY DEF Unref, UpdateIn
  <1> QED BY <1>2, <1>3 DEF UpdatesIn

LEMMA DropsBounded ==
  ASSUME NEW vs \in Seq(AnyValue), NEW c \in Nat, NEW o \in Nat, \A i \in DOMAIN vs : ValueIn(vs[i], o)
  PROVE  Drops(vs) \in Seq(AnyUpdate) /\ UpdatesIn(Drops(vs), c, o)
  <1>1. Drops(vs) \in Seq(AnyUpdate) /\ DOMAIN Drops(vs) = DOMAIN vs /\ \A k \in DOMAIN vs : Drops(vs)[k] = Drop(vs[k])
    BY DropsFacts
  <1>2. \A i \in DOMAIN vs : UpdateIn(Drop(vs[i]), c, o)
    BY DEF Drop, UpdateIn
  <1> QED BY <1>1, <1>2 DEF UpdatesIn

LEMMA UpdatesConcat ==
  ASSUME NEW s \in Seq(AnyUpdate), NEW t \in Seq(AnyUpdate), NEW c, NEW o, UpdatesIn(s, c, o), UpdatesIn(t, c, o)
  PROVE  s \o t \in Seq(AnyUpdate) /\ UpdatesIn(s \o t, c, o)
  <1> DEFINE u == s \o t
             m == Len(s)
             n == Len(t)
  <1>1. /\ u \in Seq(AnyUpdate) /\ DOMAIN u = 1 .. (m + n)
        /\ (\A k \in 1 .. m : u[k] = s[k]) /\ (\A k \in 1 .. n : u[m + k] = t[k])
    BY ConcatFacts
  <1>2. m \in Nat /\ n \in Nat /\ DOMAIN s = 1 .. m /\ DOMAIN t = 1 .. n
    BY LenFacts
  <1> HIDE DEF u, m, n
  <1>3. ASSUME NEW k \in DOMAIN u PROVE UpdateIn(u[k], c, o)
    <2>1. CASE k =< m
      <3>1. k \in DOMAIN s
        BY <1>1, <1>2, <2>1
      <3> QED BY <1>1, <1>2, <3>1 DEF UpdatesIn
    <2>2. CASE ~ k =< m
      <3>1. k - m \in DOMAIN t /\ k = m + (k - m)
        BY <1>1, <1>2, <2>2
      <3>2. u[m + (k - m)] = t[k - m]
        BY <1>1, <1>2, <3>1
      <3> QED BY <3>1, <3>2 DEF UpdatesIn
    <2> QED BY <2>1, <2>2
  <1> QED BY <1>1, <1>3 DEF UpdatesIn, u

LEMMA FrameCells ==
  ASSUME Inv1, status = "run", NEW bs, bs \subseteq Block
  PROVE  /\ IsFiniteSet(CellsOf(Frame, bs)) /\ CellsOf(Frame, bs) \subseteq 1 .. Len(cells)
         /\ \A c : c \in CellsOf(Frame, bs) <=> c # 0 /\ \E b \in bs, n \in Name : Frame[b][n] = c
  <1>1. Frame \in AnyStore /\ StoreIn(Frame, Len(cells)) /\ Len(cells) \in Nat
    BY RunFacts, StateFacts
  <1>2. /\ IsFiniteSet(CellsOf(Frame, bs)) /\ CellsOf(Frame, bs) \subseteq Nat
        /\ \A c : c \in CellsOf(Frame, bs) <=> c # 0 /\ \E b \in bs, n \in Name : Frame[b][n] = c
    BY <1>1, CellsOfFacts
  <1>3. \A b \in Block, n \in Name : Frame[b][n] \in 0 .. Len(cells)
    BY <1>1 DEF AnyStore, StoreIn, NamesIn
  <1>4. CellsOf(Frame, bs) \subseteq 1 .. Len(cells)
    BY <1>1, <1>2, <1>3
  <1> QED BY <1>2, <1>4

(* A block that keeps its entry of one name, and only that.                *)
Keep(f, b, m) == [f EXCEPT ![b] = [n \in Name |-> IF n = m THEN f[b][n] ELSE 0]]

LEMMA KeepFacts ==
  ASSUME NEW f \in AnyStore, NEW b \in Block, NEW v
  PROVE  /\ Keep(f, b, v) \in AnyStore
         /\ \A x \in Block, n \in Name : Keep(f, b, v)[x][n] = IF x = b /\ n # v THEN 0 ELSE f[x][n]
         /\ \A m \in Nat : StoreIn(f, m) => StoreIn(Keep(f, b, v), m)
  <1> DEFINE t == Keep(f, b, v)
  <1>1. t \in AnyStore
    BY DEF AnyStore, Keep
  <1>2. \A x \in Block, n \in Name : t[x][n] = IF x = b /\ n # v THEN 0 ELSE f[x][n]
    BY DEF AnyStore, Keep
  <1> HIDE DEF t
  <1>3. ASSUME NEW m \in Nat, StoreIn(f, m), NEW x \in Block, NEW n \in Name PROVE t[x][n] =< m
    <2>1. f[x][n] =< m
      BY <1>3 DEF StoreIn, NamesIn
    <2>2. t[x][n] = 0 \/ t[x][n] = f[x][n]
      BY <1>2
    <2> QED BY <2>1, <2>2
  <1>4. \A m \in Nat : StoreIn(f, m) => StoreIn(t, m)
    BY <1>3 DEF StoreIn, NamesIn
  <1> QED BY <1>1, <1>2, <1>4 DEF t

LEMMA EraseFacts ==
  ASSUME NEW f \in AnyStore, NEW bs
  PROVE  /\ Erase(f, bs) \in AnyStore
         /\ \A x \in Block, n \in Name : Erase(f, bs)[x][n] = IF x \in bs THEN 0 ELSE f[x][n]
         /\ \A m \in Nat : StoreIn(f, m) => StoreIn(Erase(f, bs), m)
  <1> DEFINE t == Erase(f, bs)
  <1>1. t \in AnyStore
    BY DEF AnyStore, Erase, NoNames
  <1>2. \A x \in Block, n \in Name : t[x][n] = IF x \in bs THEN 0 ELSE f[x][n]
    BY DEF AnyStore, Erase, NoNames
  <1> HIDE DEF t
  <1>3. ASSUME NEW m \in Nat, StoreIn(f, m), NEW x \in Block, NEW n \in Name PROVE t[x][n] =< m
    <2>1. f[x][n] =< m
      BY <1>3 DEF StoreIn, NamesIn
    <2>2. t[x][n] = 0 \/ t[x][n] = f[x][n]
      BY <1>2
    <2> QED BY <2>1, <2>2
  <1>4. \A m \in Nat : StoreIn(f, m) => StoreIn(t, m)
    BY <1>3 DEF StoreIn, NamesIn
  <1> QED BY <1>1, <1>2, <1>4 DEF t

(* The cells of a loop's block that go between two rounds.                 *)
Others == {Frame[Top.ctx][n] : n \in Name \ {Top.name}} \ {0}

LEMMA OthersFacts ==
  ASSUME Inv1, status = "run"
  PROVE  /\ IsFiniteSet(Others) /\ Others \subseteq 1 .. Len(cells)
         /\ \A c : c \in Others <=> c # 0 /\ \E n \in Name : n # Top.name /\ Frame[Top.ctx][n] = c
  <1> DEFINE bs == {Top.ctx}
  <1>1. Top.ctx \in Block
    BY RunFacts, ActFacts
  <1>2. bs \subseteq Block /\ \A b : b \in bs <=> b = Top.ctx
    BY <1>1
  <1> HIDE DEF bs
  <1>3. /\ IsFiniteSet(CellsOf(Frame, bs)) /\ CellsOf(Frame, bs) \subseteq 1 .. Len(cells)
        /\ \A c : c \in CellsOf(Frame, bs) <=> c # 0 /\ \E b \in bs, n \in Name : Frame[b][n] = c
    BY <1>2, FrameCells
  <1>4. \A c : c \in Others <=> c # 0 /\ \E n \in Name : n # Top.name /\ Frame[Top.ctx][n] = c
    BY DEF Others
  <1>5. Others \in SUBSET CellsOf(Frame, bs)
    BY <1>2, <1>3, <1>4
  <1> QED BY <1>3, <1>4, <1>5, FS_Subset

LEMMA NextRoundForm ==
  ASSUME Inv1, NextRound
  PROVE  /\ status = "run" /\ work = << >> /\ Top.op = "for" /\ Top.op \in InBlock /\ Top.ctx \in Block /\ Top.val = Nil
         /\ Top.cell \in DOMAIN cells /\ Top.name \in Name
         /\ frames' = SetFrame(Keep(Frame, Top.ctx, Top.name))
         /\ objs' = Forget(cells[Top.cell].value)
         /\ work' = Append(Unrefs(Others), Write(Top.cell, Nil))
         /\ acts' = SetTop([Top EXCEPT !.at = "stat"])
         /\ UNCHANGED <<scenario, file, status, failed, blocks, functions, globals, cells, lost>>
  <1>1. status = "run" /\ work = << >> /\ Top.op = "for" /\ Top.at = "store"
    BY DEF NextRound, AtFor, Running
  <1>2. Top \in AnyAct /\ Kind(Top) /\ ActIn(Top, Len(cells), Len(objs)) /\ DOMAIN cells = 1 .. Len(cells)
    BY <1>1, RunFacts, StateFacts
  <1>3. Top.op \in InBlock /\ Top.ctx \in Block /\ Top.cell \in DOMAIN cells /\ Top.val = Nil /\ Top.name \in Name
    BY <1>1, <1>2, ActFacts DEF InBlock, Kind, ActIn, Blocky
  <1>4. /\ frames' = SetFrame([Frame EXCEPT ![Top.ctx] =
                                 [n \in Name |-> IF n = Top.name THEN @[n] ELSE 0]])
        /\ objs' = Forget(cells[Top.cell].value)
        /\ work' = Append(Unrefs(Others), Write(Top.cell, Nil))
        /\ acts' = SetTop([Top EXCEPT !.at = "stat"])
        /\ UNCHANGED <<scenario, file, status, failed, blocks, functions, globals, cells, lost>>
    BY DEF NextRound, Others
  <1>5. [Frame EXCEPT ![Top.ctx] = [n \in Name |-> IF n = Top.name THEN @[n] ELSE 0]]
        = Keep(Frame, Top.ctx, Top.name)
    BY DEF Keep
  <1> QED BY <1>1, <1>3, <1>4, <1>5

LEMMA NextRoundInv ==
  ASSUME Inv1, NextRound
  PROVE  Inv1'
  <1> DEFINE b == Top.ctx
             x == Top.cell
             f == Keep(Frame, b, Top.name)
             fr == SetFrame(f)
             cs == Others
             a == [Top EXCEPT !.at = "stat"]
             c == Len(cells)
             o == Len(objs)
  <1>1. /\ status = "run" /\ work = << >> /\ Top.op = "for" /\ Top.op \in InBlock /\ b \in Block /\ Top.val = Nil
        /\ x \in DOMAIN cells
        /\ frames' = fr
        /\ objs' = Forget(cells[x].value)
        /\ work' = Append(Unrefs(cs), Write(x, Nil))
        /\ acts' = SetTop(a)
        /\ UNCHANGED <<scenario, file, status, failed, blocks, functions, globals, cells, lost>>
    BY NextRoundForm
  <1>2. /\ Top \in AnyAct /\ ActIn(Top, c, o) /\ Kind(Top) /\ c \in Nat /\ o \in Nat /\ DOMAIN cells = 1 .. c
        /\ Frame \in AnyStore /\ StoreIn(Frame, c) /\ frames # << >> /\ Frame = frames[Len(frames)]
    BY <1>1, RunFacts, StateFacts
  <1>3. /\ FramesIn(frames, c) /\ NamesIn(globals, c) /\ CellsIn(cells, o) /\ ObjsIn(objs, c) /\ lost \subseteq 1 .. c
        /\ frames \in Seq(AnyStore) /\ objs \in Seq(AnyObj) /\ cells \in Seq(AnyCell) /\ globals \in [Name -> Nat]
    BY DEF Inv1, Loose, Bounded
  <1>4. objs' \in Seq(AnyObj) /\ ObjsIn(objs', c) /\ Len(objs') = o
    <2>1. CASE cells[x].value = Nil
      BY <1>1, <1>3, <2>1 DEF Forget
    <2>2. CASE cells[x].value # Nil
      <3>1. cells[x].value \in DOMAIN objs /\ objs' = Overwrite(cells[x].value)
        BY <1>1, <2>2, StateFacts DEF ValueIn, Forget
      <3> HIDE DEF c
      <3> QED BY <1>3, <3>1, OverwriteFacts
    <2> QED BY <2>1, <2>2
  <1>5. /\ a \in AnyAct /\ SamePlace(a, Top) /\ Kind(a) /\ a.val = Nil /\ Placed(a, scenario.code) /\ ActIn(a, c, o)
    <2>1. /\ a \in AnyAct /\ a.at = "stat" /\ a.op = "for" /\ a.val = Nil /\ a.ctx = Top.ctx /\ a.cur = Top.cur
          /\ a.base = Top.base /\ a.level = Top.level /\ a.held = Top.held /\ a.cell = Top.cell /\ a.env = Top.env
          /\ a.fill = Top.fill /\ a.name = Top.name
      BY <1>1, <1>2 DEF AnyAct
    <2> HIDE DEF a
    <2>2. SamePlace(a, Top)
      BY <1>1, <2>1 DEF SamePlace
    <2>3. Kind(a)
      BY <1>1, <1>2, <2>1 DEF Kind, Blocky
    <2>4. Placed(a, scenario.code)
      BY <2>1 DEF Placed, Blocky
    <2>5. ActIn(a, c, o)
      BY <1>1, <1>2, <2>1 DEF ActIn
    <2> QED BY <2>1, <2>2, <2>3, <2>4, <2>5
  <1> HIDE DEF a
  <1>6. f \in AnyStore /\ StoreIn(f, c) /\ \A y \in Block, n \in Name : f[y][n] = IF y = b /\ n # Top.name THEN 0 ELSE Frame[y][n]
    BY <1>1, <1>2, KeepFacts
  <1> HIDE DEF f
  <1>7. /\ fr \in Seq(AnyStore) /\ Len(fr) = Len(frames) /\ FramesIn(fr, c)
        /\ fr[Len(frames)] = f /\ \A l \in DOMAIN frames : l # Len(frames) => fr[l] = frames[l]
    <2>2. fr = [frames EXCEPT ![Len(frames)] = f]
      BY DEF SetFrame
    <2> HIDE DEF c, fr
    <2> QED BY <1>2, <1>3, <1>6, <2>2, FramePut
  <1> HIDE DEF fr
  <1>8. work' \in Seq(AnyUpdate) /\ UpdatesIn(work', c, o)
    <2>1. IsFiniteSet(cs) /\ cs \subseteq 1 .. c
      BY <1>1, OthersFacts
    <2> HIDE DEF cs
    <2>2. Unrefs(cs) \in Seq(AnyUpdate) /\ UpdatesIn(Unrefs(cs), c, o)
      BY <1>2, <2>1, UnrefsBounded
    <2>3. <<Write(x, Nil)>> \in Seq(AnyUpdate) /\ UpdatesIn(<<Write(x, Nil)>>, c, o)
      <3>1. Nil \in AnyValue /\ ValueIn(Nil, o) /\ x \in 1 .. c
        BY <1>1, <1>2 DEF AnyValue, ValueIn
      <3>2. Write(x, Nil) \in AnyUpdate /\ UpdateIn(Write(x, Nil), c, o)
        BY <1>2, <3>1, UpdatesBounded
      <3> QED BY <3>2 DEF UpdatesIn
    <2>4. work' = Unrefs(cs) \o <<Write(x, Nil)>>
      <3>1. Write(x, Nil) \in AnyUpdate
        <4>1. x \in AnyValue /\ Nil \in AnyValue
          BY <1>1, <1>2 DEF AnyValue
        <4> HIDE DEF x
        <4> QED BY <4>1, UpdatesTyped
      <3> HIDE DEF x
      <3>2. Append(Unrefs(cs), Write(x, Nil)) = Unrefs(cs) \o <<Write(x, Nil)>>
        BY <2>2, <3>1
      <3> QED BY <1>1, <3>2
    <2> QED BY <2>2, <2>3, <2>4, UpdatesConcat
  <1>9. \A l \in DOMAIN frames : \A y \in Block, n \in Name : frames'[l][y][n] # 0 =>
          frames[l][y][n] # 0 \/ (l = Len(frames) /\ y = Top.ctx)
    BY <1>1, <1>2, <1>6, <1>7
  <1>10. c =< c /\ o =< o /\ c = Len(cells) /\ c = Len(cells') /\ o = Len(objs) /\ o = Len(objs')
    BY <1>1, <1>2, <1>4
  <1> HIDE DEF c, o, b, x
  <1> QED BY <1>1, <1>3, <1>4, <1>5, <1>7, <1>8, <1>9, <1>10, TopStep

-----------------------------------------------------------------------------
(* Steps that push and pop activations.                                    *)
Extends(bl, bl2) == \A m \in DOMAIN bl : m \in DOMAIN bl2 /\ bl2[m] = bl[m]

LEMMA StructPushed ==
  ASSUME NEW code, NEW f \in Nat, NEW bad, NEW st \in Seq(AnyAct), NEW bl, NEW fr \in Seq(AnyStore), NEW fs,
         StructOf(code, f, bad, st, bl, fr, fs), Len(st) > 1,
         NEW a \in AnyAct, NEW bl2, a.op \in InBlock,
         Link(st[Len(st)], a), Kind(a), a.val = Nil, a.at = "stat", a.fill = 0, st[Len(st)].val = Nil,
         Extends(bl, bl2), a.base = Len(bl2), a.base \in DOMAIN bl2, bl2[a.base] = a.ctx
  PROVE  StructOf(code, f, bad, Append(st, a), bl2, fr, fs)
  <1>1. \A m \in DOMAIN bl : m \in DOMAIN bl2 /\ bl2[m] = bl[m]
    BY DEF Extends
  <1>2. Len(st) > 1 \/ \A b \in Block, n \in Name : fr[Len(fr)][b][n] = 0
    OBVIOUS
  <1> QED BY <1>1, <1>2, StructPush

LEMMA RunStep ==
  ASSUME Inv1, status = "run", UNCHANGED <<scenario, file, status, failed>>,
         acts' \in Seq(AnyAct), ActsIn(acts', Len(cells'), Len(objs')),
         blocks' \in Seq(Block),
         frames' \in Seq(AnyStore), FramesIn(frames', Len(cells')),
         globals' \in [Name -> Nat], NamesIn(globals', Len(cells')),
         functions' \in Seq(Nat), FunctionsIn(functions', Len(objs')),
         cells' \in Seq(AnyCell), CellsIn(cells', Len(objs')),
         objs' \in Seq(AnyObj), ObjsIn(objs', Len(cells')),
         lost' \subseteq 1 .. Len(cells'),
         work' \in Seq(AnyUpdate), UpdatesIn(work', Len(cells'), Len(objs')),
         StructOf(scenario.code, file, failed, acts', blocks', frames', functions'),
         Len(frames') = Len(functions') + file
  PROVE  Inv1'
  <1>1. Loose' /\ Bounded'
    <2>1. /\ scenario' = scenario /\ file' \in 0 .. Len(scenario.files) /\ failed' \in BOOLEAN
          /\ status' \in {"idle", "run", "failing", "over", "dangling", "stale", "crash", "cut"}
      BY DEF Inv1, Loose
    <2> QED BY <2>1, TypedStep
  <1>2. (status = "run" => Struct)'
    BY DEF Struct
  <1>3. Heights'
    BY DEF Heights
  <1>4. Quiet'
    <2> DEFINE st == acts'
    <2>1. Shape(st)
      BY DEF StructOf, Stack
    <2> HIDE DEF st
    <2>2. \A k \in DOMAIN st : Len(st[k].held) =< 4
      <3> SUFFICES ASSUME NEW k \in DOMAIN st PROVE Len(st[k].held) =< 4
        OBVIOUS
      <3>1. Kind(st[k])
        BY <2>1 DEF Shape
      <3>2. CASE st[k].op = "call"
        <4>1. Len(st[k].held) = 4
          BY <3>1, <3>2 DEF Kind
        <4> QED BY <4>1
      <3>3. CASE st[k].op # "call"
        <4>1. st[k].held = << >>
          BY <3>1, <3>3 DEF Kind
        <4>2. Len(st[k].held) = 0
          BY <4>1
        <4> QED BY <4>2
      <3> QED BY <3>2, <3>3
    <2>3. \A k \in DOMAIN acts' : Len(acts'[k].held) =< 4
      BY <2>2 DEF st
    <2> QED BY <2>3 DEF Quiet
  <1> QED BY <1>1, <1>2, <1>3, <1>4 DEF Inv1

Fresh(a, op, b, at, env, base, level) ==
  /\ a \in AnyAct
  /\ a.op = op /\ a.ctx = b /\ a.i = 1 /\ a.at = at /\ a.cur = Nil /\ a.val = Nil /\ a.held = << >> /\ a.cell = 0
  /\ a.fill = 0 /\ a.name = Nil
  /\ a.env = env /\ a.base = base /\ a.level = level

LEMMA NewActFacts ==
  ASSUME NEW op \in {"chunk", "block", "forblock", "for", "call"}, NEW b \in Block, NEW at \in {"stat", "store", "body"},
         NEW env \in [Name -> Nat], NEW base \in Nat, NEW level \in Nat
  PROVE  Fresh(NewAct(op, b, at, env, base, level), op, b, at, env, base, level)
  <1>1. << >> \in Seq(AnyValue) /\ Nil \in AnyValue
    BY DEF AnyValue
  <1> QED BY <1>1 DEF NewAct, AnyAct, Fresh

LEMMA FreshIn ==
  ASSUME NEW a \in AnyAct, a.val = Nil, a.held = << >>, NEW c \in Nat, NEW o \in Nat, a.cell =< c, a.fill = 0,
         NamesIn(a.env, c)
  PROVE  ActIn(a, c, o)
  <1>1. DOMAIN a.held = {}
    OBVIOUS
  <1> QED BY <1>1 DEF ActIn, ValueIn

LEMMA ActsAppend ==
  ASSUME NEW st \in Seq(AnyAct), NEW c, NEW o, ActsIn(st, c, o), NEW a \in AnyAct, ActIn(a, c, o)
  PROVE  Append(st, a) \in Seq(AnyAct) /\ ActsIn(Append(st, a), c, o)
  <1> DEFINE t == Append(st, a)
             n == Len(st)
  <1>1. t \in Seq(AnyAct) /\ DOMAIN t = 1 .. (n + 1) /\ (\A k \in 1 .. n : t[k] = st[k]) /\ t[n + 1] = a
    BY AppendFacts
  <1>2. n \in Nat /\ DOMAIN st = 1 .. n
    BY LenFacts
  <1> HIDE DEF t, n
  <1>3. ASSUME NEW k \in DOMAIN t PROVE ActIn(t[k], c, o)
    <2>1. CASE k = n + 1
      BY <1>1, <2>1
    <2>2. CASE k # n + 1
      <3>1. k \in 1 .. n
        BY <1>1, <1>2, <2>2, NotLast
      <3> QED BY <1>1, <1>2, <3>1 DEF ActsIn
    <2> QED BY <2>1, <2>2
  <1> QED BY <1>1, <1>3 DEF ActsIn, t

LEMMA ActsPut ==
  ASSUME NEW st \in Seq(AnyAct), st # << >>, NEW c, NEW o, ActsIn(st, c, o), NEW a \in AnyAct, ActIn(a, c, o)
  PROVE  [st EXCEPT ![Len(st)] = a] \in Seq(AnyAct) /\ ActsIn([st EXCEPT ![Len(st)] = a], c, o)
  <1> DEFINE t == [st EXCEPT ![Len(st)] = a]
  <1>1. Len(st) \in DOMAIN st
    BY LenFacts
  <1>2. /\ t \in Seq(AnyAct) /\ DOMAIN t = DOMAIN st
        /\ t[Len(st)] = a /\ \A k \in DOMAIN st : k # Len(st) => t[k] = st[k]
    BY <1>1, ReplaceFacts
  <1> HIDE DEF t
  <1>3. ActsIn(t, c, o)
    BY <1>2 DEF ActsIn
  <1> QED BY <1>2, <1>3 DEF t

LEMMA TopReplaced ==
  ASSUME Inv1, status = "run", NEW a \in AnyAct, SamePlace(a, Top), Kind(a),
         a.at = "store" \/ a.val = Nil, Placed(a, scenario.code), NEW c, NEW o, ActsIn(acts, c, o), ActIn(a, c, o),
         NEW s, s = SetTop(a)
  PROVE  /\ StructOf(scenario.code, file, failed, s, blocks, frames, functions)
         /\ s \in Seq(AnyAct) /\ Len(s) = Len(acts) /\ DOMAIN s = DOMAIN acts /\ s[Len(s)] = a
         /\ \A k \in DOMAIN acts : SamePlace(s[k], acts[k]) /\ (k # Len(acts) => s[k] = acts[k])
         /\ ActsIn(s, c, o)
  <1>1. Struct /\ acts \in Seq(AnyAct) /\ Top = acts[Len(acts)] /\ Len(acts) >= 1
    BY RunFacts
  <1>2. StructOf(scenario.code, file, failed, acts, blocks, frames, functions) /\ SamePlace(a, acts[Len(acts)])
    BY <1>1 DEF Struct
  <1> DEFINE t == [acts EXCEPT ![Len(acts)] = a]
  <1>3. /\ StructOf(scenario.code, file, failed, t, blocks, frames, functions)
        /\ t \in Seq(AnyAct) /\ Len(t) = Len(acts) /\ DOMAIN t = DOMAIN acts /\ t[Len(t)] = a
        /\ \A k \in DOMAIN acts : SamePlace(t[k], acts[k]) /\ (k # Len(acts) => t[k] = acts[k])
    BY <1>1, <1>2, StructReplace
  <1>4. ActsIn(t, c, o)
    <2>1. acts # << >>
      BY <1>1, LenFacts
    <2> QED BY <1>1, <2>1, ActsPut
  <1>5. s = t
    BY DEF SetTop
  <1> HIDE DEF t
  <1> QED BY <1>3, <1>4, <1>5

LEMMA EnterInv ==
  ASSUME Inv1, Enter
  PROVE  Inv1'
  <1> DEFINE a == NewAct("block", S.blk, "stat", Top.env, Len(blocks) + 1, Len(frames))
             bl == Append(blocks, S.blk)
             st == Append(acts, a)
             c == Len(cells)
             o == Len(objs)
             ops == {"do"}
  <1>1. /\ AtStat(ops) /\ acts' = st /\ blocks' = bl
        /\ UNCHANGED <<scenario, file, status, failed, functions, frames, globals, cells, objs, lost, work>>
    BY DEF Enter, stores, memory
  <1>2. S.op = "do"
    BY <1>1 DEF AtStat
  <1> HIDE DEF ops
  <1>3. status = "run" /\ Top.op \in Blocky /\ Top.op # "chunk" /\ Top.op \in InBlock /\ Top.at = "stat" /\ Top.val = Nil /\ Top.ctx \in Block /\ Top.fill = 0
    BY <1>1, <1>2, StatFacts
  <1>4. S.blk \in Block /\ Parent[S.blk] = Top.ctx /\ S.blk \notin Body
    BY <1>1, <1>2, StatFacts
  <1>5. /\ Top \in AnyAct /\ Top = acts[Len(acts)] /\ ActIn(Top, c, o) /\ Top.level = Len(frames) /\ Len(frames) \in Nat
        /\ Len(acts) > 1 /\ Top.base = Len(blocks) /\ acts \in Seq(AnyAct) /\ Struct
    BY <1>3, RunFacts
  <1>6. c \in Nat /\ o \in Nat /\ file \in Nat /\ Len(blocks) \in Nat /\ DOMAIN blocks = 1 .. Len(blocks)
    BY StateFacts
  <1>7. /\ ActsIn(acts, c, o) /\ FramesIn(frames, c) /\ NamesIn(globals, c) /\ FunctionsIn(functions, o)
        /\ CellsIn(cells, o) /\ ObjsIn(objs, c) /\ lost \subseteq 1 .. c /\ UpdatesIn(work, c, o)
        /\ frames \in Seq(AnyStore) /\ objs \in Seq(AnyObj) /\ cells \in Seq(AnyCell) /\ globals \in [Name -> Nat]
        /\ functions \in Seq(Nat) /\ work \in Seq(AnyUpdate) /\ blocks \in Seq(Block)
    BY DEF Inv1, Loose, Bounded
  <1>8. Top.env \in [Name -> Nat] /\ NamesIn(Top.env, c)
    BY <1>5, ActFacts DEF ActIn
  <1>9. /\ a \in AnyAct /\ a.op = "block" /\ a.ctx = S.blk /\ a.at = "stat" /\ a.val = Nil /\ a.held = << >> /\ a.fill = 0
        /\ a.base = Len(blocks) + 1 /\ a.level = Len(frames) /\ ActIn(a, c, o)
    <2>1. Len(blocks) + 1 \in Nat
      BY <1>6
    <2> DEFINE h == Len(blocks) + 1
    <2>2. a = NewAct("block", S.blk, "stat", Top.env, h, Len(frames)) /\ h \in Nat
      BY <2>1
    <2>3. "block" \in {"chunk", "block", "forblock", "for", "call"} /\ "stat" \in {"stat", "store", "body"}
      OBVIOUS
    <2> HIDE DEF c, o, h, a
    <2>4. Fresh(a, "block", S.blk, "stat", Top.env, h, Len(frames))
      BY <1>4, <1>5, <1>8, <2>2, <2>3, NewActFacts
    <2>5. /\ a \in AnyAct /\ a.op = "block" /\ a.ctx = S.blk /\ a.at = "stat" /\ a.val = Nil /\ a.held = << >>
          /\ a.base = h /\ a.level = Len(frames) /\ a.cell = 0 /\ a.fill = 0 /\ a.env = Top.env
      BY <2>4 DEF Fresh
    <2>6. a.cell =< c
      BY <1>6, <2>5
    <2> QED BY <1>6, <1>8, <2>5, <2>6, FreshIn DEF h
  <1> HIDE DEF a
  <1>10. /\ bl \in Seq(Block) /\ Len(bl) = Len(blocks) + 1 /\ DOMAIN bl = 1 .. (Len(blocks) + 1)
         /\ (\A m \in 1 .. Len(blocks) : bl[m] = blocks[m]) /\ bl[Len(blocks) + 1] = S.blk
    BY <1>4, <1>7, AppendFacts
  <1> HIDE DEF bl
  <1>11. Link(acts[Len(acts)], a) /\ Kind(a) /\ a.op \in InBlock
    BY <1>3, <1>4, <1>5, <1>9 DEF Link, Kind, Blocky, Owner, InBlock
  <1>12. StructOf(scenario.code, file, failed, st, bl, frames, functions)
    <2>1. StructOf(scenario.code, file, failed, acts, blocks, frames, functions) /\ acts[Len(acts)].val = Nil /\ a.at = "stat" /\ a.fill = 0
      BY <1>3, <1>5, <1>9 DEF Struct
    <2>2. /\ \A m \in DOMAIN blocks : m \in DOMAIN bl /\ bl[m] = blocks[m]
          /\ a.base = Len(bl) /\ a.base \in DOMAIN bl /\ bl[a.base] = a.ctx
      BY <1>6, <1>9, <1>10
    <2>3. st = Append(acts, a)
      OBVIOUS
    <2>4. Len(acts) > 1 \/ \A b \in Block, n \in Name : frames[Len(frames)][b][n] = 0
      BY <1>5
    <2>5. /\ acts \in Seq(AnyAct) /\ a \in AnyAct /\ a.val = Nil /\ file \in Nat /\ frames \in Seq(AnyStore)
      BY <1>5, <1>6, <1>7, <1>9
    <2> HIDE DEF st
    <2> QED BY <1>11, <2>1, <2>2, <2>3, <2>4, <2>5, StructPush, SMTT(60)
  <1>13. st \in Seq(AnyAct) /\ ActsIn(st, c, o)
    <2> HIDE DEF c, o
    <2> QED BY <1>5, <1>7, <1>9, ActsAppend
  <1>14. Len(frames) = Len(functions) + file
    BY <1>3 DEF Inv1, Heights
  <1> HIDE DEF st
  <1> QED BY <1>1, <1>3, <1>7, <1>10, <1>12, <1>13, <1>14, RunStep

LEMMA RoundInv ==
  ASSUME Inv1, Round
  PROVE  Inv1'
  <1> DEFINE d == [Top EXCEPT !.i = Top.i + 1]
             s2 == SetTop(d)
             a == NewAct("forblock", Top.ctx, "stat", Top.env, Len(blocks), Len(frames))
             st == Append(s2, a)
             c == Len(cells)
             o == Len(objs)
  <1>1. /\ status = "run" /\ Top.op = "for" /\ Top.at = "stat" /\ acts' = st
        /\ UNCHANGED <<scenario, file, status, failed, blocks, functions, frames, globals, cells, objs, lost, work>>
    BY DEF Round, stores, memory, AtFor, Running
  <1>2. Top.op # "chunk" /\ Top.op \in InBlock
    BY <1>1 DEF InBlock
  <1>3. /\ Top \in AnyAct /\ Top = acts[Len(acts)] /\ ActIn(Top, c, o) /\ Top.level = Len(frames) /\ Len(frames) \in Nat
        /\ Len(acts) > 1 /\ Top.base = Len(blocks) /\ acts \in Seq(AnyAct) /\ Struct /\ Kind(Top)
        /\ blocks[Len(blocks)] = Top.ctx /\ Len(blocks) \in DOMAIN blocks
    BY <1>1, <1>2, RunFacts
  <1>4. c \in Nat /\ o \in Nat /\ file \in Nat /\ Len(blocks) \in Nat
    BY StateFacts
  <1>5. /\ ActsIn(acts, c, o) /\ FramesIn(frames, c) /\ NamesIn(globals, c) /\ FunctionsIn(functions, o)
        /\ CellsIn(cells, o) /\ ObjsIn(objs, c) /\ lost \subseteq 1 .. c /\ UpdatesIn(work, c, o)
        /\ frames \in Seq(AnyStore) /\ objs \in Seq(AnyObj) /\ cells \in Seq(AnyCell) /\ globals \in [Name -> Nat]
        /\ functions \in Seq(Nat) /\ work \in Seq(AnyUpdate) /\ blocks \in Seq(Block)
    BY DEF Inv1, Loose, Bounded
  <1>6. Top.env \in [Name -> Nat] /\ NamesIn(Top.env, c) /\ Top.ctx \in Block /\ Top.val = Nil /\ Top.held = << >> /\ Top.i \in Nat
    BY <1>1, <1>3, ActFacts DEF ActIn, Kind, Blocky
  <1>7. /\ a \in AnyAct /\ a.op = "forblock" /\ a.ctx = Top.ctx /\ a.at = "stat" /\ a.val = Nil /\ a.held = << >> /\ a.fill = 0
        /\ a.base = Len(blocks) /\ a.level = Len(frames) /\ ActIn(a, c, o)
    <2>1. a = NewAct("forblock", Top.ctx, "stat", Top.env, Len(blocks), Len(frames))
      OBVIOUS
    <2>2. "forblock" \in {"chunk", "block", "forblock", "for", "call"} /\ "stat" \in {"stat", "store", "body"}
      OBVIOUS
    <2> HIDE DEF c, o, a
    <2>3. Fresh(a, "forblock", Top.ctx, "stat", Top.env, Len(blocks), Len(frames))
      BY <1>3, <1>4, <1>6, <2>1, <2>2, NewActFacts
    <2>4. /\ a \in AnyAct /\ a.op = "forblock" /\ a.ctx = Top.ctx /\ a.at = "stat" /\ a.val = Nil /\ a.held = << >>
          /\ a.base = Len(blocks) /\ a.level = Len(frames) /\ a.cell = 0 /\ a.fill = 0 /\ a.env = Top.env
      BY <2>3 DEF Fresh
    <2>5. a.cell =< c
      BY <1>4, <2>4
    <2> QED BY <1>4, <1>6, <2>4, <2>5, FreshIn
  <1> HIDE DEF a
  <1>8. /\ d \in AnyAct /\ d.op = "for" /\ d.at = "stat" /\ d.val = Nil /\ d.ctx = Top.ctx /\ d.cur = Top.cur
        /\ d.base = Top.base /\ d.level = Top.level /\ d.held = Top.held /\ d.cell = Top.cell /\ d.env = Top.env
        /\ d.name = Top.name /\ d.fill = Top.fill
    <2> DEFINE q == Top.i + 1
    <2>1. q \in Nat
      BY <1>6
    <2>2. d = [Top EXCEPT !.i = q]
      OBVIOUS
    <2> HIDE DEF q, d
    <2>3. d \in AnyAct /\ d.op = Top.op /\ d.at = Top.at /\ d.val = Top.val /\ d.ctx = Top.ctx /\ d.cur = Top.cur
      BY <1>3, <2>1, <2>2 DEF AnyAct
    <2>4. d.base = Top.base /\ d.level = Top.level /\ d.held = Top.held /\ d.cell = Top.cell /\ d.env = Top.env
        /\ d.name = Top.name /\ d.fill = Top.fill
      BY <1>3, <2>1, <2>2 DEF AnyAct
    <2> QED BY <1>1, <1>6, <2>3, <2>4
  <1> HIDE DEF d
  <1>9. SamePlace(d, Top) /\ Kind(d) /\ Placed(d, scenario.code) /\ ActIn(d, c, o)
    <2>1. SamePlace(d, Top)
      BY <1>1, <1>8 DEF SamePlace
    <2>2. Kind(d)
      BY <1>1, <1>3, <1>6, <1>8 DEF Kind, Blocky
    <2>3. Placed(d, scenario.code)
      BY <1>8 DEF Placed, Blocky
    <2>4. ActIn(d, c, o)
      BY <1>3, <1>6, <1>8 DEF ActIn
    <2> QED BY <2>1, <2>2, <2>3, <2>4
  <1>10. s2 = SetTop(d)
    OBVIOUS
  <1>11. /\ StructOf(scenario.code, file, failed, s2, blocks, frames, functions)
         /\ s2 \in Seq(AnyAct) /\ Len(s2) = Len(acts) /\ s2[Len(s2)] = d /\ ActsIn(s2, c, o)
    <2> HIDE DEF s2, c, o
    <2> QED BY <1>1, <1>5, <1>8, <1>9, <1>10, TopReplaced
  <1> HIDE DEF s2
  <1>13. Link(s2[Len(s2)], a) /\ Kind(a) /\ a.op \in InBlock
    BY <1>3, <1>7, <1>8, <1>11 DEF Link, Kind, Blocky, Owner, InBlock
  <1>14. StructOf(scenario.code, file, failed, st, blocks, frames, functions)
    <2>1. Len(s2) > 1 /\ s2[Len(s2)].val = Nil /\ a.at = "stat" /\ a.fill = 0
      BY <1>3, <1>7, <1>8, <1>11
    <2>2. /\ \A m \in DOMAIN blocks : m \in DOMAIN blocks /\ blocks[m] = blocks[m]
          /\ a.base = Len(blocks) /\ a.base \in DOMAIN blocks /\ blocks[a.base] = a.ctx
      BY <1>3, <1>7
    <2>3. st = Append(s2, a)
      OBVIOUS
    <2>4. Len(s2) > 1 \/ \A b \in Block, n \in Name : frames[Len(frames)][b][n] = 0
      BY <2>1
    <2>5. /\ s2 \in Seq(AnyAct) /\ a \in AnyAct /\ a.val = Nil /\ file \in Nat /\ frames \in Seq(AnyStore)
          /\ StructOf(scenario.code, file, failed, s2, blocks, frames, functions)
      BY <1>4, <1>5, <1>7, <1>11
    <2> HIDE DEF st
    <2> QED BY <1>13, <2>1, <2>2, <2>3, <2>4, <2>5, StructPush
  <1>15. st \in Seq(AnyAct) /\ ActsIn(st, c, o)
    <2> HIDE DEF c, o
    <2> QED BY <1>7, <1>11, ActsAppend
  <1>16. Len(frames) = Len(functions) + file
    BY <1>1 DEF Inv1, Heights
  <1> HIDE DEF st
  <1> QED BY <1>1, <1>5, <1>14, <1>15, <1>16, RunStep

LEMMA StartForForm ==
  ASSUME Inv1, StartFor, NEW e, e = PutName(Top.env, S.id, Len(cells) + 1)
  PROVE  /\ status = "run" /\ work = << >> /\ Top.op \in Blocky /\ Top.op # "chunk" /\ Top.at = "stat" /\ Top.val = Nil /\ Top.fill = 0
         /\ Top.ctx \in Block /\ S.id \in Name
         /\ S.blk \in Block /\ Parent[S.blk] = Top.ctx /\ S.blk \notin Body
         /\ cells' = Append(cells, NewCell(Nil))
         /\ frames' = SetFrame(Put(Frame, S.blk, S.id, Len(cells) + 1))
         /\ blocks' = Append(blocks, S.blk)
         /\ acts' = Append(acts, [NewAct("for", S.blk, "stat", e, Len(blocks) + 1, Len(frames)) EXCEPT !.cell = Len(cells) + 1, !.name = S.id])
         /\ UNCHANGED <<scenario, file, status, failed, functions, globals, objs, work, lost>>
  <1> DEFINE ops == {"for"}
  <1>1. AtStat(ops) /\ S.op = "for"
    BY DEF StartFor, AtStat
  <1> HIDE DEF ops
  <1>2. /\ status = "run" /\ work = << >> /\ Top.op \in Blocky /\ Top.op # "chunk" /\ Top.at = "stat" /\ Top.val = Nil /\ Top.fill = 0
        /\ Top.ctx \in Block /\ S.id \in Name
        /\ S.blk \in Block /\ Parent[S.blk] = Top.ctx /\ S.blk \notin Body
    BY <1>1, StatFacts
  <1>3. /\ cells' = Append(cells, NewCell(Nil))
        /\ frames' = SetFrame([Frame EXCEPT ![S.blk][S.id] = Len(cells) + 1])
        /\ blocks' = Append(blocks, S.blk)
        /\ acts' = Append(acts, [NewAct("for", S.blk, "stat", [Top.env EXCEPT ![S.id] = Len(cells) + 1],
                                        Len(blocks) + 1, Len(frames)) EXCEPT !.cell = Len(cells) + 1, !.name = S.id])
        /\ UNCHANGED <<scenario, file, status, failed, functions, globals, objs, work, lost>>
    BY DEF StartFor, NextCell
  <1>4. /\ e = [Top.env EXCEPT ![S.id] = Len(cells) + 1]
        /\ Put(Frame, S.blk, S.id, Len(cells) + 1) = [Frame EXCEPT ![S.blk][S.id] = Len(cells) + 1]
    BY DEF Put, PutName
  <1> QED BY <1>2, <1>3, <1>4

LEMMA StartForInv ==
  ASSUME Inv1, StartFor
  PROVE  Inv1'
  <1> DEFINE c == Len(cells) + 1
             e == PutName(Top.env, S.id, c)
             h == Len(blocks) + 1
             d == NewAct("for", S.blk, "stat", e, h, Len(frames))
             a == [d EXCEPT !.cell = c, !.name = S.id]
             bl == Append(blocks, S.blk)
             st == Append(acts, a)
             f == Put(Frame, S.blk, S.id, c)
             fr == SetFrame(f)
             o == Len(objs)
  <1>1. /\ status = "run" /\ work = << >> /\ Top.op \in Blocky /\ Top.op # "chunk" /\ Top.at = "stat" /\ Top.val = Nil /\ Top.fill = 0
        /\ Top.ctx \in Block /\ S.id \in Name
        /\ S.blk \in Block /\ Parent[S.blk] = Top.ctx /\ S.blk \notin Body
        /\ cells' = Append(cells, NewCell(Nil))
        /\ frames' = fr
        /\ blocks' = bl
        /\ acts' = st
        /\ UNCHANGED <<scenario, file, status, failed, functions, globals, objs, work, lost>>
    BY StartForForm
  <1>2. /\ Top \in AnyAct /\ Top = acts[Len(acts)] /\ ActIn(Top, Len(cells), o) /\ Top.level = Len(frames) /\ Len(frames) \in Nat
        /\ Len(acts) > 1 /\ Top.base = Len(blocks) /\ acts \in Seq(AnyAct) /\ Struct
        /\ Frame \in AnyStore /\ StoreIn(Frame, Len(cells)) /\ frames # << >> /\ Frame = frames[Len(frames)]
        /\ DOMAIN frames = 1 .. Len(frames)
    BY <1>1, RunFacts
  <1>3. /\ Len(cells) \in Nat /\ o \in Nat /\ file \in Nat /\ Len(blocks) \in Nat /\ DOMAIN blocks = 1 .. Len(blocks)
        /\ c \in Nat /\ h \in Nat /\ Len(cells) =< c /\ o =< o /\ c # 0 /\ c =< c
    BY StateFacts
  <1>4. /\ FunctionsIn(functions, o) /\ CellsIn(cells, o) /\ frames \in Seq(AnyStore) /\ objs \in Seq(AnyObj)
        /\ cells \in Seq(AnyCell) /\ globals \in [Name -> Nat]
        /\ functions \in Seq(Nat) /\ work \in Seq(AnyUpdate) /\ blocks \in Seq(Block)
    BY DEF Inv1, Loose, Bounded
  <1>5. Top.env \in [Name -> Nat] /\ NamesIn(Top.env, Len(cells))
    BY <1>2, ActFacts DEF ActIn
  <1>6. cells' \in Seq(AnyCell) /\ CellsIn(cells', o) /\ Len(cells') = c
    <2>1. Nil \in AnyValue /\ ValueIn(Nil, o)
      BY DEF AnyValue, ValueIn
    <2>2. cells' = Append(cells, NewCell(Nil))
      BY <1>1
    <2> DEFINE t == Append(cells, NewCell(Nil))
    <2> HIDE DEF o
    <2>3. t \in Seq(AnyCell) /\ CellsIn(t, o) /\ Len(t) = Len(cells) + 1
      BY <1>3, <1>4, <2>1, CellsAppend
    <2> QED BY <2>2, <2>3
  <1>7. e \in [Name -> Nat] /\ NamesIn(e, c)
    <2>1. NamesIn(Top.env, c)
      BY <1>3, <1>5, BoundsGrow
    <2>2. S.id \in Name /\ c \in Nat /\ c =< c /\ Top.env \in [Name -> Nat]
      BY <1>1, <1>3, <1>5
    <2> HIDE DEF c
    <2> QED BY <2>1, <2>2, NamePut
  <1> HIDE DEF e
  <1>8. /\ d \in AnyAct /\ d.op = "for" /\ d.ctx = S.blk /\ d.at = "stat" /\ d.val = Nil /\ d.held = << >>
        /\ d.base = h /\ d.level = Len(frames) /\ d.env = e /\ d.fill = 0
    <2>1. "for" \in {"chunk", "block", "forblock", "for", "call"} /\ "stat" \in {"stat", "store", "body"}
      OBVIOUS
    <2> HIDE DEF h
    <2>2. Fresh(d, "for", S.blk, "stat", e, h, Len(frames))
      BY <1>1, <1>2, <1>3, <1>7, <2>1, NewActFacts
    <2> HIDE DEF d
    <2> QED BY <2>2 DEF Fresh
  <1> HIDE DEF d
  <1>9. /\ a \in AnyAct /\ a.op = "for" /\ a.ctx = S.blk /\ a.at = "stat" /\ a.val = Nil /\ a.held = << >>
        /\ a.base = h /\ a.level = Len(frames) /\ a.env = e /\ a.cell = c /\ a.fill = 0 /\ a.name = S.id
    <2> HIDE DEF h, c
    <2> QED BY <1>1, <1>3, <1>8 DEF AnyAct
  <1> HIDE DEF a
  <1>10. ActIn(a, c, o)
    <2> HIDE DEF c, o
    <2> QED BY <1>3, <1>7, <1>9, FreshIn
  <1>11. /\ bl \in Seq(Block) /\ Len(bl) = h /\ DOMAIN bl = 1 .. h
         /\ (\A m \in 1 .. Len(blocks) : bl[m] = blocks[m]) /\ bl[h] = S.blk
    BY <1>1, <1>4, AppendFacts
  <1> HIDE DEF bl
  <1>12. Link(acts[Len(acts)], a) /\ Kind(a) /\ a.op \in InBlock
    BY <1>1, <1>2, <1>3, <1>9, ScenarioAssumption DEF Link, Kind, Blocky, Owner, InBlock
  <1>13. /\ StructOf(scenario.code, file, failed, st, bl, frames, functions)
         /\ Len(st) \in DOMAIN st /\ st[Len(st)] = a
    <2>1. StructOf(scenario.code, file, failed, acts, blocks, frames, functions) /\ acts[Len(acts)].val = Nil /\ a.at = "stat" /\ a.fill = 0
      BY <1>1, <1>2, <1>9 DEF Struct
    <2>2. /\ \A m \in DOMAIN blocks : m \in DOMAIN bl /\ bl[m] = blocks[m]
          /\ a.base = Len(bl) /\ a.base \in DOMAIN bl /\ bl[a.base] = a.ctx
      BY <1>3, <1>9, <1>11
    <2>3. st = Append(acts, a)
      OBVIOUS
    <2>4. Len(acts) > 1 \/ \A b \in Block, n \in Name : frames[Len(frames)][b][n] = 0
      BY <1>2
    <2>5. /\ acts \in Seq(AnyAct) /\ a \in AnyAct /\ a.val = Nil /\ file \in Nat /\ frames \in Seq(AnyStore)
      BY <1>2, <1>3, <1>4, <1>9
    <2> HIDE DEF st
    <2>6. StructOf(scenario.code, file, failed, st, bl, frames, functions)
      <3> DEFINE code == scenario.code
      <3>1. StructOf(code, file, failed, acts, blocks, frames, functions)
        BY <2>1
      <3> HIDE DEF code
      <3>2. StructOf(code, file, failed, Append(acts, a), bl, frames, functions)
        <4>1. /\ file \in Nat /\ acts \in Seq(AnyAct) /\ frames \in Seq(AnyStore) /\ a \in AnyAct /\ a.op \in InBlock
              /\ Link(acts[Len(acts)], a) /\ Kind(a) /\ a.val = Nil /\ a.at = "stat" /\ a.fill = 0 /\ acts[Len(acts)].val = Nil
              /\ a.base = Len(bl) /\ a.base \in DOMAIN bl /\ bl[a.base] = a.ctx
              /\ \A m \in DOMAIN blocks : m \in DOMAIN bl /\ bl[m] = blocks[m]
          BY <1>12, <2>1, <2>2, <2>5
        <4> QED BY ONLY <2>4, <3>1, <4>1, StructPush
      <3> QED BY <2>3, <3>2 DEF code
    <2>7. Len(st) = Len(acts) + 1 /\ DOMAIN st = 1 .. (Len(acts) + 1) /\ st[Len(acts) + 1] = a
      BY <2>3, <2>5, AppendFacts
    <2>8. Len(acts) \in Nat
      BY <1>2, LenFacts
    <2> QED BY <2>6, <2>7, <2>8
  <1>14. f \in AnyStore /\ StoreIn(f, c) /\ \A y \in Block, k \in Name : f[y][k] = IF y = S.blk /\ k = S.id THEN c ELSE Frame[y][k]
    <2>1. StoreIn(Frame, c)
      BY <1>2, <1>3, BoundsGrow
    <2> HIDE DEF c
    <2>2. /\ f \in AnyStore /\ \A y \in Block, k \in Name : f[y][k] = IF y = S.blk /\ k = S.id THEN c ELSE Frame[y][k]
          /\ \A q \in Nat : StoreIn(Frame, q) /\ c =< q => StoreIn(f, q)
      <3>1. S.blk \in Block /\ S.id \in Name /\ Frame \in AnyStore /\ c \in Nat
        BY <1>1, <1>2, <1>3
      <3> QED BY <3>1, EntryPut, SMTT(60)
    <2> QED BY <1>3, <2>1, <2>2
  <1> HIDE DEF f
  <1>15. ActsIn(acts, c, o) /\ FramesIn(frames, c) /\ NamesIn(globals, c) /\ lost \subseteq 1 .. c /\ UpdatesIn(work, c, o) /\ ObjsIn(objs, c)
    <2> HIDE DEF c
    <2> QED BY <1>3, KeptFacts
  <1>16. /\ fr \in Seq(AnyStore) /\ Len(fr) = Len(frames) /\ FramesIn(fr, c)
         /\ fr[Len(frames)] = f /\ \A l \in DOMAIN frames : l # Len(frames) => fr[l] = frames[l]
    <2>2. fr = [frames EXCEPT ![Len(frames)] = f]
      BY DEF SetFrame
    <2> HIDE DEF c, fr
    <2> QED BY <1>2, <1>3, <1>4, <1>14, <1>15, <2>2, FramePut
  <1>17. st \in Seq(AnyAct) /\ ActsIn(st, c, o)
    <2> HIDE DEF c, o
    <2> QED BY <1>2, <1>9, <1>10, <1>15, ActsAppend
  <1> HIDE DEF fr, st
  <1>18. StructOf(scenario.code, file, failed, st, bl, fr, functions)
    <2>1. Covered(st, frames, fr)
      <3> SUFFICES ASSUME NEW l \in DOMAIN frames, NEW b \in Block, NEW n \in Name, fr[l][b][n] # 0, frames[l][b][n] = 0
                   PROVE  \E k \in DOMAIN st : st[k].op \in Owner /\ st[k].level = l /\ st[k].ctx = b
        BY DEF Covered
      <3>1. l = Len(frames) /\ b = S.blk
        BY <1>2, <1>14, <1>16
      <3> QED BY <1>9, <1>13, <3>1 DEF Owner
    <2> QED BY <1>4, <1>13, <1>16, <2>1, StructFrames
  <1>19. Len(fr) = Len(functions) + file
    BY <1>1, <1>16 DEF Inv1, Heights
  <1>20. c = Len(cells') /\ o = Len(objs')
    BY <1>1, <1>6
  <1> HIDE DEF c, o, h
  <1> QED BY <1>1, <1>4, <1>6, <1>11, <1>15, <1>16, <1>17, <1>18, <1>19, <1>20, RunStep

-----------------------------------------------------------------------------
(* A call: the parts of the step, named.                                   *)
Arg == ValueOf(S.e.arg)
Param == Code_(BodyOf).param
CalledCells == WithTarget(IF S.e.n = Nil THEN Referenced(Closure(S.e.f)) ELSE cells)
CalledObjs == IF S.e.n = Nil THEN Append(objs, NewObj(S.e.f, Top.env, 0)) ELSE objs
CallEnv == IF Param # Nil THEN PutName(CalledObjs[Callee].env, Param, Len(CalledCells) + 1) ELSE CalledObjs[Callee].env
CallerAct == [Top EXCEPT !.at = "store", !.cell = Target]
CallAct == [NewAct("call", BodyOf, "body", CallEnv, Len(blocks), Len(frames) + 1) EXCEPT !.cur = Current, !.held = <<Source, Source, Arg, Arg>>]
BodyAct == NewAct("block", BodyOf, "stat", CallEnv, Len(blocks) + 1, Len(frames) + 1)
ParamStore == IF Param # Nil THEN Put(NoStore, BodyOf, Param, Len(CalledCells) + 1) ELSE NoStore
CallOps == {"local", "assign", "return", "call"}

LEMMA EvalCallForm ==
  ASSUME Inv1, EvalCall
  PROVE  /\ AtStat(CallOps) /\ S.e.k \in CallKinds /\ Visited /\ Callable /\ ~ Active(BodyOf)
         /\ acts' = SetTop(CallerAct) \o <<CallAct, BodyAct>>
         /\ cells' = IF Param # Nil THEN Append(CalledCells, NewCell(Arg)) ELSE CalledCells
         /\ objs' = CalledObjs
         /\ frames' = Append(frames, ParamStore)
         /\ work' = IF Param # Nil THEN <<Add(Source), Add(Source), Add(Arg), Add(Arg), Add(Arg)>>
                                   ELSE <<Add(Source), Add(Source), Add(Arg), Add(Arg)>>
         /\ blocks' = Append(blocks, BodyOf)
         /\ functions' = Append(functions, Callee)
         /\ globals' = GlobalsWithTarget
         /\ UNCHANGED <<scenario, file, status, failed, lost>>
  <1>1. /\ AtStat(CallOps) /\ S.e.k \in CallKinds /\ Visited /\ Callable /\ ~ Active(BodyOf)
    BY DEF EvalCall, CallOps
  <1>2. /\ cells' = IF Param # Nil THEN Append(CalledCells, NewCell(Arg)) ELSE CalledCells
        /\ objs' = CalledObjs
        /\ blocks' = Append(blocks, BodyOf)
        /\ functions' = Append(functions, Callee)
        /\ globals' = GlobalsWithTarget
        /\ UNCHANGED <<scenario, file, status, failed, lost>>
    BY DEF EvalCall, Param, CalledCells, CalledObjs, Arg
  <1>3. frames' = Append(frames, ParamStore)
    BY DEF EvalCall, Param, CalledCells, ParamStore, Put
  <1>4. work' = IF Param # Nil THEN <<Add(Source), Add(Source), Add(Arg), Add(Arg), Add(Arg)>>
                               ELSE <<Add(Source), Add(Source), Add(Arg), Add(Arg)>>
    <2>1. work' = IF Param # Nil THEN CallCopies(Source, Arg) ELSE Front(CallCopies(Source, Arg))
      BY DEF EvalCall, Param, Arg
    <2>2. ASSUME NEW x, NEW y PROVE Front(<<x, x, y, y, y>>) = <<x, x, y, y>>
      <3> DEFINE t == <<x, x, y, y, y>>
                 u == <<x, x, y, y>>
                 f == Front(t)
      <3>1. t \in Seq({x, y}) /\ u \in Seq({x, y}) /\ Len(t) = 5 /\ Len(u) = 4 /\ t # << >>
        OBVIOUS
      <3>2. t[1] = x /\ t[2] = x /\ t[3] = y /\ t[4] = y /\ u[1] = x /\ u[2] = x /\ u[3] = y /\ u[4] = y
        OBVIOUS
      <3> HIDE DEF t, u
      <3>3. f \in Seq({x, y}) /\ Len(f) = 4 /\ \A k \in 1 .. 4 : f[k] = t[k]
        <4>1. Len(t) - 1 = 4
          BY <3>1
        <4> QED BY <3>1, <4>1, FrontFacts
      <3> HIDE DEF f
      <3>4. \A k \in 1 .. 4 : f[k] = u[k]
        <4>1. \A k \in 1 .. 4 : k = 1 \/ k = 2 \/ k = 3 \/ k = 4
          OBVIOUS
        <4> QED BY <3>2, <3>3, <4>1
      <3>5. f = u
        BY <3>1, <3>3, <3>4
      <3> QED BY <3>5 DEF f, t, u
    <2> QED BY <2>1, <2>2 DEF CallCopies
  <1>5. acts' = SetTop(CallerAct) \o <<CallAct, BodyAct>>
    BY DEF EvalCall, Param, CalledCells, CalledObjs, Arg, CallEnv, CallerAct, CallAct, BodyAct, PutName
  <1> QED BY <1>1, <1>2, <1>3, <1>4, <1>5

LEMMA CallFacts ==
  ASSUME Inv1, AtStat(CallOps), S.e.k \in CallKinds, Callable
  PROVE  /\ BodyOf \in Body /\ BodyOf \in Block /\ Param \in Name \cup {Nil}
         /\ Arg \in AnyValue /\ ValueIn(Arg, Len(objs))
         /\ CalledObjs \in Seq(AnyObj) /\ Len(objs) =< Len(CalledObjs) /\ Len(CalledObjs) \in Nat
         /\ Callee \in 1 .. Len(CalledObjs) /\ CalledObjs[Callee] \in AnyObj
         /\ \A c \in Nat : Len(cells) =< c => ObjsIn(CalledObjs, c)
         /\ CalledCells \in Seq(AnyCell) /\ CellsIn(CalledCells, Len(objs)) /\ Len(cells) =< Len(CalledCells) /\ Len(CalledCells) \in Nat
         /\ Target \in 0 .. Len(CalledCells) /\ (S.op = "assign" => Target # 0)
         /\ GlobalsWithTarget \in [Name -> Nat] /\ NamesIn(GlobalsWithTarget, Len(CalledCells))
  <1>1. /\ status = "run" /\ S.e.n \in Name \cup {Nil} /\ S.e.arg \in Name \cup {Nil} /\ (S.e.n = Nil => S.e.f \in Body)
        /\ Top.ctx \in Block
    BY StatFacts
  <1>2. /\ Len(objs) \in Nat /\ DOMAIN objs = 1 .. Len(objs) /\ \A o \in DOMAIN objs : objs[o] \in AnyObj
    BY StateFacts
  <1>2a. Len(cells) \in Nat /\ cells \in Seq(AnyCell) /\ CellsIn(cells, Len(objs)) /\ objs \in Seq(AnyObj)
    BY StateFacts DEF Inv1, Loose, Bounded
  <1>3. Arg \in AnyValue /\ ValueIn(Arg, Len(objs))
    BY <1>1, ValueFacts DEF Arg
  <1> DEFINE x == NewObj(S.e.f, Top.env, 0)
             r == IF S.e.n = Nil THEN Referenced(Closure(S.e.f)) ELSE cells
  <1>4. S.e.n = Nil => x \in AnyObj /\ ObjIn(x, Len(cells))
    BY <1>1, NewObjFacts
  <1>5. r \in Seq(AnyCell) /\ Len(r) = Len(cells) /\ CellsIn(r, Len(objs))
    BY <1>2a, ReferencedFacts
  <1> HIDE DEF x, r
  <1>6. /\ BodyOf \in Body /\ Callee \in 1 .. Len(CalledObjs)
        /\ CalledObjs \in Seq(AnyObj) /\ Len(objs) =< Len(CalledObjs) /\ Len(CalledObjs) \in Nat
        /\ \A c \in Nat : Len(cells) =< c => ObjsIn(CalledObjs, c)
    <2>1. CASE S.e.n = Nil
      <3>1. CalledObjs = Append(objs, x) /\ Callee = Len(objs) + 1 /\ BodyOf = S.e.f
        BY <2>1 DEF CalledObjs, Callee, BodyOf, NextObj, x
      <3>2. CalledObjs \in Seq(AnyObj) /\ Len(CalledObjs) = Len(objs) + 1
        BY <1>2a, <1>4, <2>1, <3>1, AppendFacts
      <3>3. ASSUME NEW c \in Nat, Len(cells) =< c PROVE ObjsIn(CalledObjs, c)
        BY <1>4, <2>1, <3>1, <3>3, ObjsAppend
      <3> QED BY <1>1, <1>2, <2>1, <3>1, <3>2, <3>3
    <2>2. CASE S.e.n # Nil
      <3>1. CalledObjs = objs /\ Callee = ValueOf(S.e.n) /\ BodyOf = objs[Callee].body /\ Callee # Nil
        BY <2>2 DEF CalledObjs, Callee, BodyOf, Callable
      <3>2. Callee \in 1 .. Len(objs)
        BY <1>1, <3>1, ValueFacts DEF ValueIn
      <3>3. BodyOf \in Body
        BY <1>2, <3>1, <3>2 DEF AnyObj
      <3>4. ASSUME NEW c \in Nat, Len(cells) =< c PROVE ObjsIn(objs, c)
        <4>1. Len(objs) =< Len(objs)
          BY <1>2
        <4> QED BY <1>2, <3>4, <4>1, KeptFacts
      <3> QED BY <1>2, <1>2a, <3>1, <3>2, <3>3, <3>4
    <2> QED BY <2>1, <2>2
  <1>7. BodyOf \in Block
    BY <1>6, ScenarioAssumption
  <1>8. Param \in Name \cup {Nil}
    BY <1>7, CodeFacts DEF Param
  <1>9. CalledObjs[Callee] \in AnyObj
    BY <1>6, LenFacts
  <1>10. CalledCells = WithTarget(r)
    BY DEF CalledCells, r
  <1>11. /\ WithTarget(r) \in Seq(AnyCell) /\ CellsIn(WithTarget(r), Len(objs))
         /\ Len(WithTarget(r)) = IF NewGlobal THEN Len(cells) + 1 ELSE Len(cells)
         /\ Target \in 0 .. Len(WithTarget(r)) /\ (S.op = "assign" => Target # 0)
         /\ GlobalsWithTarget \in [Name -> Nat] /\ NamesIn(GlobalsWithTarget, Len(WithTarget(r)))
    <2> DEFINE ops == CallOps
    <2>1. AtStat(ops)
      OBVIOUS
    <2> HIDE DEF ops
    <2> QED BY <1>5, <2>1, TargetFacts
  <1>12. Len(cells) =< Len(CalledCells) /\ Len(CalledCells) \in Nat
    BY <1>2a, <1>10, <1>11
  <1> QED BY <1>3, <1>6, <1>7, <1>8, <1>9, <1>10, <1>11, <1>12

(* The activations of a call: the caller's, the call's and the body's.     *)
LEMMA CallActs ==
  ASSUME Inv1, AtStat(CallOps), S.e.k \in CallKinds, Visited, Callable, ~ Active(BodyOf),
         NEW c \in Nat, Len(CalledCells) =< c, Param # Nil => Len(CalledCells) + 1 =< c
  PROVE  /\ CallEnv \in [Name -> Nat] /\ NamesIn(CallEnv, c)
         /\ CallerAct \in AnyAct /\ SamePlace(CallerAct, Top) /\ Kind(CallerAct) /\ CallerAct.at = "store" /\ CallerAct.val = Nil
         /\ Source \in {Nil, Callee} /\ BodyAct.fill = 0
         /\ Placed(CallerAct, scenario.code) /\ ActIn(CallerAct, c, Len(CalledObjs))
         /\ CallAct \in AnyAct /\ CallAct.op = "call" /\ CallAct.ctx = BodyOf /\ CallAct.at = "body" /\ CallAct.cur = Top.ctx
         /\ CallAct.val = Nil /\ CallAct.held = <<Source, Source, Arg, Arg>> /\ CallAct.base = Len(blocks) /\ CallAct.level = Len(frames) + 1
         /\ Kind(CallAct) /\ Link(CallerAct, CallAct) /\ ActIn(CallAct, c, Len(CalledObjs))
         /\ BodyAct \in AnyAct /\ BodyAct.op = "block" /\ BodyAct.ctx = BodyOf /\ BodyAct.at = "stat" /\ BodyAct.val = Nil
         /\ BodyAct.held = << >> /\ BodyAct.base = Len(blocks) + 1 /\ BodyAct.level = Len(frames) + 1
         /\ Kind(BodyAct) /\ Link(CallAct, BodyAct) /\ ActIn(BodyAct, c, Len(CalledObjs))
         /\ \A k \in DOMAIN acts : Fun[acts[k].ctx] # Fun[BodyOf]
  <1> DEFINE o == Len(CalledObjs)
             m == Len(CalledCells) + 1
             h == Len(blocks)
             l == Len(frames) + 1
             held == <<Source, Source, Arg, Arg>>
  <1>1. /\ BodyOf \in Body /\ BodyOf \in Block /\ Param \in Name \cup {Nil} /\ Arg \in AnyValue /\ ValueIn(Arg, Len(objs))
        /\ Len(objs) =< o /\ o \in Nat /\ Callee \in 1 .. o /\ CalledObjs[Callee] \in AnyObj
        /\ Len(CalledCells) \in Nat /\ Len(cells) =< Len(CalledCells) /\ ObjsIn(CalledObjs, Len(CalledCells))
        /\ Target \in 0 .. Len(CalledCells) /\ (S.op = "assign" => Target # 0) /\ DOMAIN CalledObjs = 1 .. o
    <2>1. /\ BodyOf \in Body /\ BodyOf \in Block /\ Param \in Name \cup {Nil} /\ Arg \in AnyValue /\ ValueIn(Arg, Len(objs))
          /\ Len(objs) =< o /\ o \in Nat /\ Callee \in 1 .. o /\ CalledObjs[Callee] \in AnyObj
          /\ Len(CalledCells) \in Nat /\ Len(cells) =< Len(CalledCells)
          /\ Target \in 0 .. Len(CalledCells) /\ (S.op = "assign" => Target # 0) /\ CalledObjs \in Seq(AnyObj)
      BY CallFacts
    <2>2. ObjsIn(CalledObjs, Len(CalledCells))
      BY <2>1, CallFacts
    <2> QED BY <2>1, <2>2, LenFacts
  <1>2. /\ status = "run" /\ Top.op \in Blocky /\ Top.op # "chunk" /\ Top.op \in InBlock /\ Top.at = "stat" /\ Top.val = Nil
        /\ Top.ctx \in Block /\ Current = Top.ctx /\ Top.held = << >>
    BY StatFacts
  <1>2a. Source \in {Nil, Callee}
    BY DEF Source
  <1>3. /\ Top \in AnyAct /\ Top.base = h /\ Top.level = Len(frames) /\ Shape(acts) /\ acts \in Seq(AnyAct)
        /\ Len(frames) \in Nat /\ h \in Nat /\ l \in Nat /\ m \in Nat /\ Len(cells) \in Nat /\ Len(objs) \in Nat
    BY <1>1, <1>2, RunFacts, StateFacts
  <1>4. CallEnv \in [Name -> Nat] /\ NamesIn(CallEnv, c)
    <2> DEFINE g == CalledObjs[Callee].env
    <2>1. g \in [Name -> Nat] /\ NamesIn(g, Len(CalledCells))
      BY <1>1 DEF AnyObj, ObjsIn, ObjIn
    <2>2. NamesIn(g, c)
      BY <1>1, <2>1, BoundsGrow
    <2> HIDE DEF g
    <2>3. CASE Param # Nil
      <3>1. Param \in Name /\ m \in Nat /\ m =< c
        BY <1>1, <1>3, <2>3
      <3>2. CallEnv = PutName(g, Param, m)
        BY <2>3 DEF CallEnv, g
      <3> HIDE DEF m
      <3> QED BY <2>1, <2>2, <3>1, <3>2, NamePut
    <2>4. CASE Param = Nil
      BY <2>1, <2>2, <2>4 DEF CallEnv, g
    <2> QED BY <2>3, <2>4
  <1>5. /\ CallerAct \in AnyAct /\ SamePlace(CallerAct, Top) /\ Kind(CallerAct) /\ CallerAct.at = "store" /\ CallerAct.val = Nil
        /\ Placed(CallerAct, scenario.code) /\ ActIn(CallerAct, c, o)
    <2> DEFINE a == [Top EXCEPT !.at = "store", !.val = Nil, !.cell = Target]
               ops == CallOps
    <2>1. CallerAct = a
      BY <1>2, <1>3 DEF CallerAct, AnyAct
    <2>2. AtStat(ops) /\ Nil \in AnyValue /\ ValueIn(Nil, o) /\ Len(cells) =< c /\ Target \in 0 .. c
      BY <1>1, <1>3, SMTT(60) DEF AnyValue, ValueIn
    <2> HIDE DEF ops, o
    <2>3. /\ a \in AnyAct /\ SamePlace(a, Top) /\ Kind(a) /\ a.at = "store" /\ a.val = Nil
          /\ Placed(a, scenario.code) /\ ActIn(a, c, o)
      BY <1>1, <2>2, Evaluated
    <2> HIDE DEF a
    <2> QED BY <2>1, <2>3
  <1>6. /\ BodyAct \in AnyAct /\ BodyAct.op = "block" /\ BodyAct.ctx = BodyOf /\ BodyAct.at = "stat" /\ BodyAct.val = Nil
        /\ BodyAct.held = << >> /\ BodyAct.base = h + 1 /\ BodyAct.level = l /\ BodyAct.cell = 0 /\ BodyAct.env = CallEnv /\ BodyAct.fill = 0
    <2> DEFINE g == h + 1
    <2>1. "block" \in {"chunk", "block", "forblock", "for", "call"} /\ "stat" \in {"stat", "store", "body"} /\ g \in Nat
      BY <1>3
    <2>2. BodyAct = NewAct("block", BodyOf, "stat", CallEnv, g, l)
      BY DEF BodyAct
    <2> HIDE DEF g, l
    <2>3. Fresh(BodyAct, "block", BodyOf, "stat", CallEnv, g, l)
      BY <1>1, <1>3, <1>4, <2>1, <2>2, NewActFacts
    <2> QED BY <2>3 DEF Fresh, g
  <1>7. /\ CallAct \in AnyAct /\ CallAct.op = "call" /\ CallAct.ctx = BodyOf /\ CallAct.at = "body" /\ CallAct.cur = Top.ctx
        /\ CallAct.val = Nil /\ CallAct.held = held /\ CallAct.base = h /\ CallAct.level = l /\ CallAct.cell = 0 /\ CallAct.env = CallEnv /\ CallAct.fill = 0
    <2> DEFINE d == NewAct("call", BodyOf, "body", CallEnv, h, l)
    <2>1. "call" \in {"chunk", "block", "forblock", "for", "call"} /\ "body" \in {"stat", "store", "body"}
      OBVIOUS
    <2>2. CallAct = [d EXCEPT !.cur = Top.ctx, !.held = held]
      BY <1>2 DEF CallAct
    <2>3. held \in Seq(AnyValue)
      BY <1>1, <1>2a DEF AnyValue
    <2> HIDE DEF held, h, l
    <2>4. Fresh(d, "call", BodyOf, "body", CallEnv, h, l)
      BY <1>1, <1>3, <1>4, <2>1, NewActFacts
    <2> HIDE DEF d
    <2>5. /\ d \in AnyAct /\ d.op = "call" /\ d.ctx = BodyOf /\ d.at = "body" /\ d.val = Nil /\ d.base = h /\ d.level = l
          /\ d.cell = 0 /\ d.env = CallEnv /\ d.fill = 0
      BY <2>4 DEF Fresh
    <2>6. CallAct \in AnyAct
      BY <1>2, <2>2, <2>3, <2>5 DEF AnyAct
    <2> QED BY <1>2, <2>2, <2>3, <2>5, <2>6 DEF AnyAct
  <1>8. ActIn(BodyAct, c, o)
    <2>1. BodyAct.cell =< c
      BY <1>6
    <2> HIDE DEF o
    <2> QED BY <1>1, <1>4, <1>6, <2>1, FreshIn
  <1>9. ActIn(CallAct, c, o)
    <2>1. \A i \in DOMAIN held : ValueIn(held[i], o)
      <3>1. ValueIn(Arg, o) /\ ValueIn(Source, o)
        BY <1>1, <1>2a, <1>3, BoundsGrow DEF ValueIn
      <3> QED BY <3>1
    <2>2. CallAct.cell =< c /\ CallAct.fill =< c
      BY <1>7
    <2> QED BY <1>4, <1>7, <2>1, <2>2 DEF ActIn, ValueIn
  <1>10. Kind(BodyAct) /\ Kind(CallAct)
    <2>1. Len(held) = 4
      OBVIOUS
    <2>2. Kind(BodyAct)
      BY <1>6 DEF Kind, Blocky
    <2>3. Kind(CallAct)
      BY <1>1, <1>7, <2>1 DEF Kind, Blocky
    <2> QED BY <2>2, <2>3
  <1>11. Link(CallAct, BodyAct)
    BY <1>6, <1>7 DEF Link
  <1>12. Link(CallerAct, CallAct)
    BY <1>2, <1>3, <1>5, <1>7 DEF Link, SamePlace
  <1>13. \A k \in DOMAIN acts : Fun[acts[k].ctx] # Fun[BodyOf]
    <2> SUFFICES ASSUME NEW k \in DOMAIN acts, Fun[acts[k].ctx] = Fun[BodyOf] PROVE FALSE
      OBVIOUS
    <2>1. Fun[BodyOf] = BodyOf
      BY <1>1, TreeFacts
    <2>2. PICK j \in 1 .. k : acts[j].op = "call" /\ acts[j].ctx = Fun[acts[k].ctx]
      BY <1>1, <1>3, <2>1 DEF Shape, Called
    <2>3. j \in DOMAIN acts
      BY <1>3, LenFacts
    <2> QED BY <2>1, <2>2, <2>3 DEF Active
  <1> HIDE DEF held
  <1> QED BY <1>2a, <1>4, <1>5, <1>6, <1>7, <1>8, <1>9, <1>10, <1>11, <1>12, <1>13 DEF held

LEMMA EvalCallInv ==
  ASSUME Inv1, EvalCall
  PROVE  Inv1'
  <1> DEFINE c == Len(cells')
             o == Len(CalledObjs)
             h == Len(blocks)
             s2 == SetTop(CallerAct)
             s3 == Append(s2, CallAct)
             s4 == Append(s3, BodyAct)
             bl == Append(blocks, BodyOf)
             fr == Append(frames, NoStore)
             fs == Append(functions, Callee)
             fr2 == Append(frames, ParamStore)
  <1>1. /\ AtStat(CallOps) /\ S.e.k \in CallKinds /\ Visited /\ Callable /\ ~ Active(BodyOf)
        /\ acts' = SetTop(CallerAct) \o <<CallAct, BodyAct>>
        /\ cells' = IF Param # Nil THEN Append(CalledCells, NewCell(Arg)) ELSE CalledCells
        /\ objs' = CalledObjs
        /\ frames' = fr2
        /\ work' = IF Param # Nil THEN <<Add(Source), Add(Source), Add(Arg), Add(Arg), Add(Arg)>>
                                  ELSE <<Add(Source), Add(Source), Add(Arg), Add(Arg)>>
        /\ blocks' = bl
        /\ functions' = fs
        /\ globals' = GlobalsWithTarget
        /\ UNCHANGED <<scenario, file, status, failed, lost>>
    BY EvalCallForm
  <1>2. /\ BodyOf \in Block /\ Param \in Name \cup {Nil}
        /\ Arg \in AnyValue /\ ValueIn(Arg, Len(objs))
        /\ CalledObjs \in Seq(AnyObj) /\ Len(objs) =< o /\ o \in Nat /\ Callee \in 1 .. o
        /\ CalledCells \in Seq(AnyCell) /\ CellsIn(CalledCells, Len(objs)) /\ Len(cells) =< Len(CalledCells) /\ Len(CalledCells) \in Nat
        /\ GlobalsWithTarget \in [Name -> Nat] /\ NamesIn(GlobalsWithTarget, Len(CalledCells))
    BY <1>1, CallFacts
  <1>3. Len(objs) \in Nat /\ Len(cells) \in Nat /\ file \in Nat /\ h \in Nat /\ DOMAIN blocks = 1 .. h
    BY StateFacts
  <1>4. /\ cells' \in Seq(AnyCell) /\ CellsIn(cells', o) /\ c \in Nat /\ Len(CalledCells) =< c /\ Len(cells) =< c
        /\ (Param # Nil => Len(CalledCells) + 1 =< c)
    <2>1. CellsIn(CalledCells, o)
      BY <1>2, <1>3, BoundsGrowSeq
    <2>2. ValueIn(Arg, o)
      BY <1>2, <1>3, BoundsGrow
    <2>3. CASE Param # Nil
      <3> DEFINE t == Append(CalledCells, NewCell(Arg))
      <3> HIDE DEF o
      <3>1. t \in Seq(AnyCell) /\ CellsIn(t, o) /\ Len(t) = Len(CalledCells) + 1
        BY <1>2, <2>1, <2>2, CellsAppend
      <3>2. cells' = t
        BY <1>1, <2>3
      <3> HIDE DEF t
      <3> QED BY <1>2, <1>3, <3>1, <3>2
    <2>4. CASE Param = Nil
      <3>1. cells' = CalledCells
        BY <1>1, <2>4
      <3> QED BY <1>2, <1>3, <2>1, <2>4, <3>1
    <2> QED BY <2>3, <2>4
  <1> HIDE DEF c
  <1>5. /\ CallerAct \in AnyAct /\ SamePlace(CallerAct, Top) /\ Kind(CallerAct) /\ CallerAct.at = "store" /\ CallerAct.val = Nil
        /\ Placed(CallerAct, scenario.code) /\ ActIn(CallerAct, c, o)
        /\ CallAct \in AnyAct /\ CallAct.op = "call" /\ CallAct.ctx = BodyOf
        /\ CallAct.val = Nil /\ CallAct.held = <<Source, Source, Arg, Arg>> /\ CallAct.base = h /\ CallAct.level = Len(frames) + 1
        /\ Kind(CallAct) /\ Link(CallerAct, CallAct) /\ ActIn(CallAct, c, o)
        /\ BodyAct \in AnyAct /\ BodyAct.op = "block" /\ BodyAct.ctx = BodyOf /\ BodyAct.at = "stat" /\ BodyAct.val = Nil
        /\ BodyAct.fill = 0 /\ Source \in {Nil, Callee} /\ BodyAct.base = h + 1 /\ BodyAct.level = Len(frames) + 1
        /\ Kind(BodyAct) /\ Link(CallAct, BodyAct) /\ ActIn(BodyAct, c, o)
        /\ \A k \in DOMAIN acts : Fun[acts[k].ctx] # Fun[BodyOf]
    BY <1>1, <1>4, CallActs
  <1>6. status = "run" /\ Top.op # "chunk" /\ Top.op \in InBlock
    BY <1>1, StatFacts
  <1>7. /\ Len(acts) > 1 /\ acts \in Seq(AnyAct) /\ Struct /\ Len(frames) \in Nat
    BY <1>6, RunFacts
  <1>8. /\ ActsIn(acts, c, o) /\ FramesIn(frames, c) /\ lost \subseteq 1 .. c /\ FunctionsIn(functions, o)
        /\ frames \in Seq(AnyStore) /\ functions \in Seq(Nat) /\ blocks \in Seq(Block)
    <2> HIDE DEF o
    <2> QED BY <1>2, <1>4, KeptFacts DEF Inv1, Loose
  <1>9. /\ StructOf(scenario.code, file, failed, s2, blocks, frames, functions)
        /\ s2 \in Seq(AnyAct) /\ Len(s2) = Len(acts) /\ DOMAIN s2 = DOMAIN acts /\ s2[Len(s2)] = CallerAct /\ ActsIn(s2, c, o)
        /\ \A k \in DOMAIN acts : SamePlace(s2[k], acts[k])
    <2>1. s2 = SetTop(CallerAct)
      OBVIOUS
    <2> HIDE DEF s2, o
    <2> QED BY <1>5, <1>6, <1>8, <2>1, TopReplaced
  <1> HIDE DEF s2
  <1>10. acts' = s4
    <2>1. s2 \o <<CallAct, BodyAct>> = Append(Append(s2, CallAct), BodyAct)
      BY <1>5, <1>9
    <2> QED BY <1>1, <2>1 DEF s2
  <1>11. Len(frames) = Len(functions) + file
    BY <1>6 DEF Inv1, Heights
  <1>12. /\ StructOf(scenario.code, file, failed, s3, blocks, fr, fs)
         /\ s3 \in Seq(AnyAct) /\ Len(s3) = Len(s2) + 1 /\ s3[Len(s3)] = CallAct
    <2>1. \A k \in DOMAIN s2 : Fun[s2[k].ctx] # Fun[CallAct.ctx]
      BY <1>5, <1>9 DEF SamePlace
    <2>2. Callee \in Nat /\ CallAct.held[1] \in {Nil, Callee} /\ Len(s2) > 1 /\ s2[Len(s2)].val = Nil /\ Link(s2[Len(s2)], CallAct)
      BY <1>2, <1>5, <1>7, <1>9
    <2>3. /\ file \in Nat /\ s2 \in Seq(AnyAct) /\ frames \in Seq(AnyStore) /\ functions \in Seq(Nat) /\ CallAct \in AnyAct
          /\ StructOf(scenario.code, file, failed, s2, blocks, frames, functions) /\ CallAct.op = "call" /\ Kind(CallAct)
      BY <1>3, <1>5, <1>8, <1>9
    <2>4. s3 = Append(s2, CallAct) /\ fr = Append(frames, NoStore) /\ fs = Append(functions, Callee)
      OBVIOUS
    <2> HIDE DEF s3, fr, fs
    <2>5. StructOf(scenario.code, file, failed, s3, blocks, fr, fs)
      BY <1>11, <2>1, <2>2, <2>3, <2>4, StructCall
    <2>6. s3 \in Seq(AnyAct) /\ Len(s3) = Len(s2) + 1 /\ s3[Len(s2) + 1] = CallAct
      BY <2>3, <2>4, AppendFacts
    <2> QED BY <2>5, <2>6
  <1>13. ActsIn(s3, c, o)
    <2> HIDE DEF o
    <2> QED BY <1>5, <1>9, ActsAppend
  <1> HIDE DEF s3
  <1>14. /\ bl \in Seq(Block) /\ Len(bl) = h + 1 /\ DOMAIN bl = 1 .. (h + 1)
         /\ (\A m \in 1 .. h : bl[m] = blocks[m]) /\ bl[h + 1] = BodyOf
    BY <1>2, <1>8, AppendFacts
  <1>15. NoStore \in AnyStore
    BY DEF NoStore, AnyStore
  <1>16. /\ fr \in Seq(AnyStore) /\ Len(fr) = Len(frames) + 1 /\ fr[Len(frames) + 1] = NoStore
         /\ (\A l \in 1 .. Len(frames) : fr[l] = frames[l]) /\ DOMAIN fr = 1 .. (Len(frames) + 1)
    BY <1>8, <1>15, AppendFacts
  <1> HIDE DEF bl, fr
  <1>17. StructOf(scenario.code, file, failed, s4, bl, fr, fs)
    <2>2. BodyAct.op \in InBlock /\ BodyAct.at = "stat" /\ BodyAct.fill = 0 /\ s3[Len(s3)].val = Nil /\ Link(s3[Len(s3)], BodyAct)
      BY <1>5, <1>12 DEF InBlock
    <2>3. /\ \A m \in DOMAIN blocks : m \in DOMAIN bl /\ bl[m] = blocks[m]
          /\ BodyAct.base = Len(bl) /\ BodyAct.base \in DOMAIN bl /\ bl[BodyAct.base] = BodyAct.ctx
      BY <1>3, <1>5, <1>14
    <2>4. s4 = Append(s3, BodyAct)
      OBVIOUS
    <2> HIDE DEF s4
    <2>5. /\ file \in Nat /\ s3 \in Seq(AnyAct) /\ fr \in Seq(AnyStore) /\ BodyAct \in AnyAct /\ BodyAct.val = Nil
          /\ StructOf(scenario.code, file, failed, s3, blocks, fr, fs) /\ Kind(BodyAct)
      BY <1>3, <1>5, <1>12, <1>16
    <2> HIDE DEF fs
    <2> DEFINE a == BodyAct
               code == scenario.code
    <2>6. /\ a \in AnyAct /\ a.op \in InBlock /\ a.at = "stat" /\ a.fill = 0 /\ a.val = Nil /\ Kind(a) /\ Link(s3[Len(s3)], a)
          /\ a.base = Len(bl) /\ a.base \in DOMAIN bl /\ bl[a.base] = a.ctx /\ s4 = Append(s3, a)
      BY <2>2, <2>3, <2>4, <2>5
    <2>7. Extends(blocks, bl) /\ Len(s3) > 1
      BY <1>7, <1>9, <1>12, <2>3 DEF Extends
    <2>8. StructOf(code, file, failed, s3, blocks, fr, fs) /\ s3[Len(s3)].val = Nil
      BY <2>2, <2>5
    <2>9. file \in Nat /\ s3 \in Seq(AnyAct) /\ fr \in Seq(AnyStore)
      BY <2>5
    <2> HIDE DEF a, code
    <2>10. StructOf(code, file, failed, Append(s3, a), bl, fr, fs)
      BY <2>6, <2>7, <2>8, <2>9, StructPushed
    <2> QED BY <2>6, <2>10 DEF code
  <1>18. s4 \in Seq(AnyAct) /\ Len(s4) \in DOMAIN s4 /\ s4[Len(s4)] = BodyAct /\ ActsIn(s4, c, o)
    <2>1. s4 \in Seq(AnyAct) /\ Len(s4) = Len(s3) + 1 /\ DOMAIN s4 = 1 .. (Len(s3) + 1) /\ s4[Len(s3) + 1] = BodyAct
      BY <1>5, <1>12, AppendFacts
    <2>2. ActsIn(s4, c, o)
      <3> HIDE DEF o
      <3> QED BY <1>5, <1>12, <1>13, ActsAppend
    <2>3. Len(s3) \in Nat
      BY <1>12, LenFacts
    <2> HIDE DEF s4
    <2> QED BY <2>1, <2>2, <2>3
  <1> HIDE DEF s4
  <1>19. ParamStore \in AnyStore /\ StoreIn(ParamStore, c) /\ \A b \in Block, n \in Name : ParamStore[b][n] # 0 => b = BodyOf
    <2> DEFINE m == Len(CalledCells) + 1
    <2>1. StoreIn(NoStore, c) /\ \A b \in Block, n \in Name : NoStore[b][n] = 0
      BY <1>4 DEF NoStore, StoreIn, NamesIn
    <2>2. CASE Param # Nil
      <3>1. Param \in Name /\ m \in Nat /\ m =< c /\ ParamStore = Put(NoStore, BodyOf, Param, m)
        BY <1>2, <1>4, <2>2 DEF ParamStore
      <3> HIDE DEF m
      <3>2. /\ ParamStore \in AnyStore
            /\ \A b \in Block, n \in Name : ParamStore[b][n] = IF b = BodyOf /\ n = Param THEN m ELSE NoStore[b][n]
            /\ \A q \in Nat : StoreIn(NoStore, q) /\ m =< q => StoreIn(ParamStore, q)
        <4>1. BodyOf \in Block
          BY <1>2
        <4> QED BY <1>15, <3>1, <4>1, EntryPut
      <3> QED BY <1>4, <2>1, <3>1, <3>2
    <2>3. CASE Param = Nil
      BY <1>15, <2>1, <2>3 DEF ParamStore
    <2> QED BY <2>2, <2>3
  <1>20. /\ fr2 \in Seq(AnyStore) /\ Len(fr2) = Len(frames) + 1 /\ fr2[Len(frames) + 1] = ParamStore
         /\ (\A l \in 1 .. Len(frames) : fr2[l] = frames[l]) /\ DOMAIN fr2 = 1 .. (Len(frames) + 1)
    BY <1>8, <1>19, AppendFacts
  <1> HIDE DEF fr2
  <1>21. FramesIn(fr2, c)
    <2> SUFFICES ASSUME NEW l \in DOMAIN fr2 PROVE StoreIn(fr2[l], c)
      BY DEF FramesIn
    <2>1. CASE l = Len(frames) + 1
      BY <1>19, <1>20, <2>1
    <2>2. CASE l # Len(frames) + 1
      <3>1. l \in 1 .. Len(frames) /\ DOMAIN frames = 1 .. Len(frames)
        BY <1>7, <1>8, <1>20, <2>2, NotLast, LenFacts
      <3> QED BY <1>8, <1>20, <3>1 DEF FramesIn
    <2> QED BY <2>1, <2>2
  <1>22. StructOf(scenario.code, file, failed, s4, bl, fr2, fs)
    <2>1. Covered(s4, fr, fr2)
      <3> SUFFICES ASSUME NEW l \in DOMAIN fr, NEW b \in Block, NEW n \in Name, fr2[l][b][n] # 0, fr[l][b][n] = 0
                   PROVE  \E k \in DOMAIN s4 : s4[k].op \in Owner /\ s4[k].level = l /\ s4[k].ctx = b
        BY DEF Covered
      <3>1. l = Len(frames) + 1
        <4>1. l # Len(frames) + 1 => l \in 1 .. Len(frames)
          BY <1>7, <1>16, NotLast
        <4> QED BY <1>16, <1>20, <4>1
      <3>2. b = BodyOf
        BY <1>19, <1>20, <3>1
      <3> QED BY <1>5, <1>18, <3>1, <3>2 DEF Owner
    <2>2. Len(fr2) = Len(fr)
      BY <1>16, <1>20
    <2> QED BY <1>16, <1>17, <1>20, <2>1, <2>2, StructFrames
  <1>23. fs \in Seq(Nat) /\ FunctionsIn(fs, o) /\ Len(fs) = Len(functions) + 1
    <2>1. fs \in Seq(Nat) /\ Len(fs) = Len(functions) + 1 /\ DOMAIN fs = 1 .. (Len(functions) + 1)
          /\ (\A k \in 1 .. Len(functions) : fs[k] = functions[k]) /\ fs[Len(functions) + 1] = Callee
      BY <1>2, <1>8, AppendFacts
    <2>2. Len(functions) \in Nat /\ DOMAIN functions = 1 .. Len(functions)
      BY <1>8, LenFacts
    <2> HIDE DEF fs, o
    <2>3. ASSUME NEW k \in DOMAIN fs PROVE fs[k] \in 1 .. o
      <3>1. CASE k = Len(functions) + 1
        BY <1>2, <2>1, <3>1
      <3>2. CASE k # Len(functions) + 1
        <4>1. k \in 1 .. Len(functions)
          BY <2>1, <2>2, <3>2, NotLast
        <4> QED BY <1>8, <2>1, <2>2, <4>1 DEF FunctionsIn
      <3> QED BY <3>1, <3>2
    <2> QED BY <2>1, <2>3 DEF FunctionsIn
  <1>24. work' \in Seq(AnyUpdate) /\ UpdatesIn(work', c, o)
    <2>1. ValueIn(Arg, o) /\ ValueIn(Source, o) /\ Source \in AnyValue
      <3>1. ValueIn(Arg, o)
        BY <1>2, <1>3, BoundsGrow
      <3> QED BY <1>2, <1>5, <3>1 DEF ValueIn, AnyValue
    <2> HIDE DEF o
    <2>2. UpdateIn(Add(Arg), c, o) /\ UpdateIn(Add(Source), c, o) /\ Add(Arg) \in AnyUpdate /\ Add(Source) \in AnyUpdate
      BY <1>2, <1>4, <2>1, ValueUpdatesBounded
    <2>3. CASE Param # Nil
      <3>1. work' = <<Add(Source), Add(Source), Add(Arg), Add(Arg), Add(Arg)>>
        BY <1>1, <2>3
      <3> QED BY <2>2, <3>1 DEF UpdatesIn
    <2>4. CASE Param = Nil
      <3>1. work' = <<Add(Source), Add(Source), Add(Arg), Add(Arg)>>
        BY <1>1, <2>4
      <3> QED BY <2>2, <3>1 DEF UpdatesIn
    <2> QED BY <2>3, <2>4
  <1>25. ObjsIn(CalledObjs, c) /\ NamesIn(GlobalsWithTarget, c)
    <2>1. ObjsIn(CalledObjs, c)
      BY <1>1, <1>4, CallFacts
    <2> QED BY <1>2, <1>4, <2>1, BoundsGrow
  <1>26. Len(fr2) = Len(fs) + file
    BY <1>3, <1>11, <1>20, <1>23, StateFacts
  <1>27. c = Len(cells') /\ o = Len(objs')
    BY <1>1 DEF c
  <1> HIDE DEF o, h, fs
  <1>28. /\ acts' = s4 /\ blocks' = bl /\ frames' = fr2 /\ functions' = fs /\ objs' = CalledObjs /\ globals' = GlobalsWithTarget
         /\ lost' = lost /\ UNCHANGED <<scenario, file, status, failed>>
    BY <1>1, <1>10
  <1> QED BY <1>2, <1>4, <1>6, <1>8, <1>14, <1>18, <1>20, <1>21, <1>22, <1>23, <1>24, <1>25, <1>26, <1>27, <1>28, RunStep

-----------------------------------------------------------------------------
(* Activations end.                                                        *)

LEMMA StructPopped ==
  ASSUME NEW code, NEW f \in Nat, NEW bad, NEW st \in Seq(AnyAct), NEW bl, NEW fr, NEW fs,
         StructOf(code, f, bad, st, bl, fr, fs),
         NEW n \in 1 .. Len(st), n < Len(st), NEW bl2, NEW fr2, NEW fs2,
         Agrees(bl, bl2, st[n].base), n > 1 => Len(bl2) = st[n].base, Len(fr2) = st[n].level,
         OwnedBy(st, n, fr2), SameCalls(st, n, f, fs, fs2),
         NEW a \in AnyAct, SamePlace(a, st[n]), Kind(a), a.at = "store" \/ a.val = Nil, Placed(a, code)
  PROVE  LET t == [SubSeq(st, 1, n) EXCEPT ![n] = a]
         IN  /\ StructOf(code, f, bad, t, bl2, fr2, fs2) /\ t \in Seq(AnyAct) /\ Len(t) = n /\ DOMAIN t = 1 .. n
             /\ t[n] = a /\ \A k \in 1 .. n : k \in DOMAIN st /\ (k # n => t[k] = st[k])
  <1> DEFINE s == SubSeq(st, 1, n)
             t == [s EXCEPT ![n] = a]
  <1>4. /\ StructOf(code, f, bad, s, bl2, fr2, fs2)
        /\ s \in Seq(AnyAct) /\ Len(s) = n /\ DOMAIN s = 1 .. n
        /\ (\A k \in 1 .. n : s[k] = st[k] /\ k \in DOMAIN st) /\ s[Len(s)] = st[n]
    BY StructPrefix
  <1> HIDE DEF s
  <1>5. t = [s EXCEPT ![Len(s)] = a] /\ SamePlace(a, s[Len(s)])
    BY <1>4
  <1> DEFINE u == [s EXCEPT ![Len(s)] = a]
  <1>6. /\ StructOf(code, f, bad, u, bl2, fr2, fs2)
        /\ u \in Seq(AnyAct) /\ Len(u) = Len(s) /\ DOMAIN u = DOMAIN s /\ u[Len(u)] = a
        /\ \A k \in DOMAIN s : SamePlace(u[k], s[k]) /\ (k # Len(s) => u[k] = s[k])
    BY <1>4, <1>5, StructReplace
  <1>7. t = u
    BY <1>5
  <1> HIDE DEF t, u
  <1>8. /\ StructOf(code, f, bad, t, bl2, fr2, fs2) /\ t \in Seq(AnyAct) /\ Len(t) = n /\ DOMAIN t = 1 .. n
        /\ t[n] = a /\ \A k \in 1 .. n : k \in DOMAIN st /\ (k # n => t[k] = st[k])
    BY <1>4, <1>6, <1>7
  <1> QED BY <1>8 DEF t, s

LEMMA PopStep ==
  ASSUME Inv1, status = "run", NEW n \in 1 .. Len(acts), n < Len(acts), NEW a \in AnyAct, SamePlace(a, acts[n]), Kind(a),
         a.at = "store" \/ a.val = Nil, Placed(a, scenario.code), ActIn(a, Len(cells), Len(objs)),
         acts' = [SubSeq(acts, 1, n) EXCEPT ![n] = a],
         UNCHANGED <<scenario, file, status, failed, globals, cells, lost>>,
         blocks' \in Seq(Block), Agrees(blocks, blocks', acts[n].base), n > 1 => Len(blocks') = acts[n].base,
         frames' \in Seq(AnyStore), FramesIn(frames', Len(cells)), Len(frames') = acts[n].level, OwnedBy(acts, n, frames'),
         functions' \in Seq(Nat), FunctionsIn(functions', Len(objs)), SameCalls(acts, n, file, functions, functions'),
         Len(frames') = Len(functions') + file,
         objs' \in Seq(AnyObj), ObjsIn(objs', Len(cells)), Len(objs') = Len(objs),
         work' \in Seq(AnyUpdate), UpdatesIn(work', Len(cells), Len(objs))
  PROVE  Inv1'
  <1> DEFINE t == [SubSeq(acts, 1, n) EXCEPT ![n] = a]
             bl2 == blocks'
             fr2 == frames'
             fs2 == functions'
             c == Len(cells)
             o == Len(objs)
  <1>1. Struct /\ acts \in Seq(AnyAct) /\ file \in Nat
    BY RunFacts, StateFacts
  <1>2. StructOf(scenario.code, file, failed, acts, blocks, frames, functions)
    BY <1>1 DEF Struct
  <1>3. /\ Agrees(blocks, bl2, acts[n].base) /\ (n > 1 => Len(bl2) = acts[n].base) /\ Len(fr2) = acts[n].level
        /\ OwnedBy(acts, n, fr2) /\ SameCalls(acts, n, file, functions, fs2)
    OBVIOUS
  <1> HIDE DEF bl2, fr2, fs2
  <1>4. /\ StructOf(scenario.code, file, failed, t, bl2, fr2, fs2) /\ t \in Seq(AnyAct) /\ DOMAIN t = 1 .. n
        /\ t[n] = a /\ \A k \in 1 .. n : k \in DOMAIN acts /\ (k # n => t[k] = acts[k])
    BY <1>1, <1>2, <1>3, StructPopped, ZenonT(60)
  <1>5. acts' = t
    OBVIOUS
  <1> HIDE DEF t
  <1>6. /\ ActsIn(acts, c, o) /\ CellsIn(cells, o) /\ cells \in Seq(AnyCell) /\ globals \in [Name -> Nat] /\ NamesIn(globals, c)
        /\ lost \subseteq 1 .. c
    BY DEF Inv1, Loose, Bounded
  <1>7. ActsIn(t, c, o)
    <2> HIDE DEF c, o
    <2>1. ActIn(a, c, o)
      BY DEF c, o
    <2> QED BY <1>4, <1>6, <2>1 DEF ActsIn
  <1>8. StructOf(scenario.code, file, failed, acts', blocks', frames', functions')
    BY <1>4, <1>5 DEF bl2, fr2, fs2
  <1>9. c = Len(cells') /\ o = Len(objs')
    OBVIOUS
  <1>10. /\ acts' \in Seq(AnyAct) /\ ActsIn(acts', c, o) /\ globals' \in [Name -> Nat] /\ NamesIn(globals', c)
         /\ cells' \in Seq(AnyCell) /\ CellsIn(cells', o) /\ lost' \subseteq 1 .. c
         /\ FramesIn(frames', c) /\ FunctionsIn(functions', o) /\ ObjsIn(objs', c) /\ UpdatesIn(work', c, o)
    BY <1>4, <1>5, <1>6, <1>7
  <1> HIDE DEF c, o
  <1> QED BY <1>8, <1>9, <1>10, RunStep

(* The activation below the innermost one.                                 *)
LEMMA BelowFacts ==
  ASSUME Inv1, status = "run", Top.op # "chunk", NEW n, n = Len(acts) - 1
  PROVE  /\ n \in 1 .. Len(acts) /\ n < Len(acts) /\ n \in DOMAIN acts /\ n \in Nat /\ n >= 1 /\ Len(acts) = n + 1
         /\ acts[n] \in AnyAct /\ Kind(acts[n]) /\ Placed(acts[n], scenario.code) /\ acts[n].val = Nil
         /\ Link(acts[n], Top) /\ Nested(acts[n], Top) /\ ActIn(acts[n], Len(cells), Len(objs))
         /\ (acts[n].op = "chunk" <=> n = 1)
         /\ \A k \in DOMAIN acts : k # Len(acts) => k \in 1 .. n
  <1>1. /\ Struct /\ Shape(acts) /\ acts \in Seq(AnyAct) /\ Top = acts[Len(acts)] /\ Len(acts) > 1
        /\ DOMAIN acts = 1 .. Len(acts) /\ Len(acts) \in Nat
    BY RunFacts
  <1>2. /\ n \in 1 .. Len(acts) /\ n < Len(acts) /\ n \in DOMAIN acts /\ n \in Nat /\ n >= 1 /\ Len(acts) = n + 1
        /\ Len(acts) \in 2 .. Len(acts) /\ Len(acts) \in DOMAIN acts /\ Len(acts) - 1 = n
    BY <1>1
  <1>3. Link(acts[n], Top)
    <2>1. Link(acts[Len(acts) - 1], acts[Len(acts)])
      BY <1>1, <1>2 DEF Shape
    <2> QED BY <1>1, <1>2, <2>1
  <1>4. Nested(acts[n], Top)
    BY <1>1, <1>2 DEF Shape
  <1>5. Kind(acts[n])
    BY <1>1, <1>2 DEF Shape
  <1>6. Placed(acts[n], scenario.code)
    BY <1>1, <1>2 DEF Struct, StructOf
  <1>7. /\ acts[n] \in AnyAct /\ (acts[n].op = "chunk" <=> n = 1) /\ acts[n].val = Nil
    BY <1>1, <1>2, StackFacts
  <1>8. ActIn(acts[n], Len(cells), Len(objs))
    BY <1>2 DEF Inv1, Bounded, ActsIn
  <1>9. \A k \in DOMAIN acts : k # Len(acts) => k \in 1 .. n
    BY <1>1, <1>2
  <1> QED BY <1>2, <1>3, <1>4, <1>5, <1>6, <1>7, <1>8, <1>9

(* The innermost activation ends, and with it its block.                   *)
LEMMA BlockEnds ==
  ASSUME Inv1, status = "run", Top.op \in Owner, NEW n, n = Len(acts) - 1,
         NEW a \in AnyAct, SamePlace(a, acts[n]), Kind(a), a.val = Nil, Placed(a, scenario.code),
         ActIn(a, Len(cells), Len(objs)),
         acts' = [SubSeq(acts, 1, n) EXCEPT ![n] = a], blocks' = Front(blocks),
         frames' = SetFrame(Erase(Frame, {Top.ctx})), work' = Unrefs(CellsOf(Frame, {Top.ctx})),
         UNCHANGED <<scenario, file, status, failed, functions, globals, memory>>
  PROVE  Inv1'
  <1> DEFINE c == Len(cells)
             o == Len(objs)
             f == Erase(Frame, {Top.ctx})
             fr == [frames EXCEPT ![Len(frames)] = f]
  <1>1. Top.op # "chunk" /\ Top.op \in InBlock /\ Top.op # "forblock" /\ Top.op # "call"
    BY DEF Owner, InBlock
  <1>2. /\ n \in 1 .. Len(acts) /\ n < Len(acts) /\ n \in DOMAIN acts /\ n \in Nat
        /\ acts[n] \in AnyAct /\ Link(acts[n], Top)
        /\ \A k \in DOMAIN acts : k # Len(acts) => k \in 1 .. n
    BY <1>1, BelowFacts
  <1>3. /\ Top.base = Len(blocks) /\ Owned(acts, frames) /\ blocks # << >> /\ Top.level = Len(frames) /\ Frame \in AnyStore
        /\ Top \in AnyAct /\ Frame = frames[Len(frames)] /\ StoreIn(Frame, c) /\ frames # << >> /\ Top = acts[Len(acts)]
        /\ DOMAIN frames = 1 .. Len(frames)
    BY <1>1, RunFacts
  <1>4. /\ c \in Nat /\ o \in Nat /\ DOMAIN blocks = 1 .. Len(blocks) /\ Len(blocks) \in Nat /\ file \in Nat
    BY StateFacts
  <1>5. Top.base = acts[n].base + 1 /\ Top.level = acts[n].level /\ acts[n].base \in Nat /\ Top.ctx \in Block
    BY <1>1, <1>2, <1>3, ActFacts DEF Link
  <1>6. blocks \in Seq(Block) /\ frames \in Seq(AnyStore) /\ functions \in Seq(Nat) /\ objs \in Seq(AnyObj)
    BY DEF Inv1, Loose
  <1>7. /\ ActsIn(acts, c, o) /\ FramesIn(frames, c) /\ NamesIn(globals, c)
        /\ FunctionsIn(functions, o) /\ ObjsIn(objs, c)
    BY DEF Inv1, Bounded
  <1>8. /\ blocks' \in Seq(Block) /\ Len(blocks') = acts[n].base /\ Agrees(blocks, blocks', acts[n].base)
    <2> DEFINE bl == Front(blocks)
    <2>1. /\ bl \in Seq(Block) /\ Len(bl) = Len(blocks) - 1 /\ DOMAIN bl = 1 .. (Len(blocks) - 1)
          /\ \A m \in 1 .. (Len(blocks) - 1) : bl[m] = blocks[m]
      BY <1>3, <1>6, FrontFacts
    <2> HIDE DEF bl
    <2> DEFINE h == acts[n].base
               d == Len(blocks)
    <2>4. h \in Nat /\ d = h + 1
      BY <1>3, <1>5
    <2>2. d - 1 = h
      <3> HIDE DEF h, d
      <3> QED BY <2>4
    <2>3. Agrees(blocks, bl, acts[n].base)
      BY <1>4, <1>5, <2>1, <2>2 DEF Agrees
    <2> QED BY <2>1, <2>2, <2>3 DEF bl
  <1>9. f \in AnyStore /\ StoreIn(f, c) /\ \A x \in Block, m \in Name : f[x][m] = IF x = Top.ctx THEN 0 ELSE Frame[x][m]
    BY <1>3, <1>4, EraseFacts
  <1> HIDE DEF f
  <1>10. /\ fr \in Seq(AnyStore) /\ Len(fr) = Len(frames) /\ DOMAIN fr = DOMAIN frames /\ FramesIn(fr, c)
         /\ fr[Len(frames)] = f /\ \A l \in DOMAIN frames : l # Len(frames) => fr[l] = frames[l]
    BY <1>3, <1>4, <1>6, <1>7, <1>9, FramePut
  <1>11. frames' = fr
    BY DEF SetFrame, f
  <1> HIDE DEF fr
  <1>12. OwnedBy(acts, n, fr)
    <2> SUFFICES ASSUME NEW l \in DOMAIN fr, l >= acts[1].level, NEW b \in Block, NEW m \in Name, fr[l][b][m] # 0
                 PROVE  \E k \in 1 .. n : acts[k].op \in Owner /\ acts[k].level = l /\ acts[k].ctx = b
      BY DEF OwnedBy
    <2>1. frames[l][b][m] # 0 /\ ~ (l = Len(frames) /\ b = Top.ctx)
      BY <1>3, <1>9, <1>10
    <2>2. PICK k \in DOMAIN acts : acts[k].op \in Owner /\ acts[k].level = l /\ acts[k].ctx = b
      BY <1>3, <1>10, <2>1 DEF Owned
    <2>3. k # Len(acts)
      BY <1>3, <2>1, <2>2
    <2> QED BY <1>2, <2>2, <2>3
  <1>13. SameCalls(acts, n, file, functions, functions')
    BY DEF SameCalls
  <1>14. work' \in Seq(AnyUpdate) /\ UpdatesIn(work', c, o)
    <2>1. {Top.ctx} \subseteq Block
      BY <1>5
    <2> DEFINE cs == CellsOf(Frame, {Top.ctx})
    <2>2. IsFiniteSet(cs) /\ cs \subseteq 1 .. c
      BY <2>1, FrameCells
    <2>3. work' = Unrefs(cs)
      OBVIOUS
    <2> HIDE DEF cs
    <2> QED BY <1>4, <2>2, <2>3, UnrefsBounded
  <1>15. Len(frames) = Len(functions) + file
    BY DEF Inv1, Heights
  <1> HIDE DEF c, o
  <1>16. UNCHANGED <<scenario, file, status, failed, globals, cells, lost>> /\ objs' = objs /\ functions' = functions
    BY DEF memory
  <1>17. /\ frames' \in Seq(AnyStore) /\ FramesIn(frames', Len(cells)) /\ Len(frames') = acts[n].level /\ OwnedBy(acts, n, frames')
         /\ functions' \in Seq(Nat) /\ FunctionsIn(functions', Len(objs)) /\ Len(frames') = Len(functions') + file
         /\ objs' \in Seq(AnyObj) /\ ObjsIn(objs', Len(cells)) /\ Len(objs') = Len(objs)
         /\ work' \in Seq(AnyUpdate) /\ UpdatesIn(work', Len(cells), Len(objs))
    BY <1>3, <1>5, <1>6, <1>7, <1>10, <1>11, <1>12, <1>14, <1>15, <1>16 DEF c, o
  <1>18. blocks' \in Seq(Block) /\ Agrees(blocks, blocks', acts[n].base) /\ (n > 1 => Len(blocks') = acts[n].base)
    BY <1>8
  <1> QED BY <1>2, <1>13, <1>16, <1>17, <1>18, PopStep

LEMMA FrontPut ==
  ASSUME NEW A, NEW s \in Seq(A), NEW n, n = Len(s) - 1, n \in 1 .. Len(s)
  PROVE  Front(s) = SubSeq(s, 1, n) /\ Len(Front(s)) = n /\ Front(s)[n] = s[n] /\ [Front(s) EXCEPT ![n] = s[n]] = Front(s)
  <1>1. s # << >> /\ Len(s) \in Nat /\ n \in Nat
    BY LenFacts
  <1>2. /\ Front(s) = SubSeq(s, 1, n) /\ Front(s) \in Seq(A) /\ Len(Front(s)) = n /\ DOMAIN Front(s) = 1 .. n
        /\ \A k \in 1 .. n : Front(s)[k] = s[k]
    BY <1>1, FrontFacts
  <1> DEFINE t == Front(s)
             u == [t EXCEPT ![n] = s[n]]
  <1>3. t \in Seq(A) /\ n \in DOMAIN t /\ t[n] = s[n] /\ s[n] \in A /\ DOMAIN t = 1 .. Len(t)
    BY <1>1, <1>2, LenFacts
  <1> HIDE DEF t
  <1>4. u \in Seq(A) /\ Len(u) = Len(t) /\ DOMAIN u = DOMAIN t /\ \A k \in DOMAIN t : u[k] = t[k]
    BY <1>3, ReplaceFacts
  <1> HIDE DEF u
  <1>5. u = t
    BY <1>3, <1>4
  <1> QED BY <1>1, <1>2, <1>5 DEF t, u

(* The statement after a block or a loop, and what its end tells the       *)
(* activation below.                                                       *)
NextStat(a) == [a EXCEPT !.i = a.i + 1]
Returned(a) == [a EXCEPT !.at = "store"]

LEMMA NextStatFacts ==
  ASSUME NEW a \in AnyAct, Kind(a), a.val = Nil, NEW c, NEW o, ActIn(a, c, o)
  PROVE  /\ NextStat(a) \in AnyAct /\ SamePlace(NextStat(a), a) /\ Kind(NextStat(a)) /\ NextStat(a).val = Nil
         /\ ActIn(NextStat(a), c, o) /\ NextStat(a).at = a.at /\ NextStat(a).cell = a.cell
         /\ NextStat(a).fill = a.fill /\ NextStat(a).name = a.name
         /\ (a.at = "stat" /\ a.fill = 0 => \A code : Placed(NextStat(a), code))
  <1> DEFINE q == a.i + 1
             t == [a EXCEPT !.i = q]
  <1>1. q \in Nat
    BY ActFacts
  <1> HIDE DEF q
  <1>2. /\ t \in AnyAct /\ t.op = a.op /\ t.ctx = a.ctx /\ t.cur = a.cur /\ t.base = a.base /\ t.level = a.level /\ t.held = a.held
        /\ t.val = a.val /\ t.at = a.at /\ t.cell = a.cell /\ t.env = a.env /\ t.fill = a.fill /\ t.name = a.name
    BY <1>1 DEF AnyAct
  <1>3. NextStat(a) = t
    BY DEF NextStat, q
  <1> HIDE DEF t
  <1>4. SamePlace(t, a) /\ Kind(t) /\ ActIn(t, c, o)
    BY <1>2 DEF SamePlace, Kind, ActIn
  <1>5. a.at = "stat" /\ a.fill = 0 => \A code : Placed(t, code)
    BY <1>2 DEF Placed
  <1> QED BY <1>2, <1>3, <1>4, <1>5

LEMMA ReturnedFacts ==
  ASSUME NEW a \in AnyAct, Kind(a), a.val = Nil, a.op \notin Blocky, NEW c, NEW o, ActIn(a, c, o)
  PROVE  /\ Returned(a) \in AnyAct /\ SamePlace(Returned(a), a) /\ Kind(Returned(a)) /\ Returned(a).val = Nil
         /\ ActIn(Returned(a), c, o) /\ Returned(a).at = "store" /\ Returned(a).cell = a.cell
         /\ Returned(a).fill = a.fill /\ Returned(a).name = a.name
         /\ \A code : Placed(Returned(a), code)
  <1> DEFINE t == Returned(a)
  <1>1. /\ t \in AnyAct /\ t.op = a.op /\ t.ctx = a.ctx /\ t.cur = a.cur /\ t.base = a.base /\ t.level = a.level /\ t.held = a.held
        /\ t.val = a.val /\ t.at = "store" /\ t.cell = a.cell /\ t.env = a.env /\ t.fill = a.fill /\ t.name = a.name
    BY DEF AnyAct, Returned
  <1> HIDE DEF t
  <1>2. SamePlace(t, a) /\ Kind(t) /\ ActIn(t, c, o)
    BY <1>1 DEF SamePlace, Kind, ActIn
  <1>3. \A code : Placed(t, code)
    BY <1>1 DEF Placed
  <1> QED BY <1>1, <1>2, <1>3 DEF t

LEMMA EndForInv ==
  ASSUME Inv1, EndFor
  PROVE  Inv1'
  <1> DEFINE n == Len(acts) - 1
             a == NextStat(acts[n])
  <1>1. status = "run" /\ Top.op = "for" /\ Top.op \in Owner /\ Top.op # "chunk" /\ acts \in Seq(AnyAct)
    BY DEF EndFor, AtFor, Running, Owner, Inv1, Loose
  <1>2. /\ n \in 1 .. Len(acts) /\ acts[n] \in AnyAct /\ Kind(acts[n]) /\ acts[n].val = Nil
        /\ Link(acts[n], Top) /\ ActIn(acts[n], Len(cells), Len(objs))
    BY <1>1, BelowFacts
  <1>3. acts[n].at = "stat" /\ acts[n].fill = 0
    BY <1>1, <1>2 DEF Link, Owner
  <1>4. /\ a \in AnyAct /\ SamePlace(a, acts[n]) /\ Kind(a) /\ a.val = Nil /\ Placed(a, scenario.code)
        /\ ActIn(a, Len(cells), Len(objs))
    <2> HIDE DEF n
    <2> QED BY <1>2, <1>3, NextStatFacts
  <1>5. acts' = [SubSeq(acts, 1, n) EXCEPT ![n] = a]
    <2>1. Front(acts) = SubSeq(acts, 1, n) /\ Len(Front(acts)) = n /\ Front(acts)[n] = acts[n]
      BY <1>1, <1>2, FrontPut
    <2>2. acts' = [Front(acts) EXCEPT ![Len(Front(acts))].i = @ + 1]
      BY DEF EndFor
    <2> HIDE DEF n
    <2> QED BY <2>1, <2>2 DEF NextStat
  <1>6. n = Len(acts) - 1
    OBVIOUS
  <1> HIDE DEF n, a
  <1>7. /\ blocks' = Front(blocks) /\ frames' = SetFrame(Erase(Frame, {Top.ctx})) /\ work' = Unrefs(CellsOf(Frame, {Top.ctx}))
        /\ UNCHANGED <<scenario, file, status, failed, functions, globals, memory>>
    BY DEF EndFor
  <1> QED BY <1>1, <1>4, <1>5, <1>6, <1>7, BlockEnds

LEMMA BelowForm ==
  ASSUME Inv1, status = "run", Top.op # "chunk", NEW n, n = Len(acts) - 1
  PROVE  Below = [SubSeq(acts, 1, n) EXCEPT ![n] = IF acts[n].op \in Blocky THEN NextStat(acts[n]) ELSE Returned(acts[n])]
  <1>1. n \in 1 .. Len(acts) /\ acts \in Seq(AnyAct)
    BY BelowFacts DEF Inv1, Loose
  <1>2. Front(acts) = SubSeq(acts, 1, n) /\ Len(Front(acts)) = n /\ Front(acts)[n] = acts[n]
    BY <1>1, FrontPut
  <1> DEFINE t == Front(acts)
             h == Len(t)
             x == t[h]
             y == IF x.op \in Blocky THEN NextStat(x) ELSE Returned(x)
  <1>3. Below = [t EXCEPT ![h] = Resumed(x)]
    BY DEF Below
  <1>4. y = Resumed(x)
    <2> HIDE DEF x
    <2> QED BY DEF Resumed, NextStat, Returned, Blocky
  <1>5. t = SubSeq(acts, 1, n) /\ h = n /\ x = acts[n]
    BY <1>2
  <1> HIDE DEF t, h, x
  <1>6. Below = [t EXCEPT ![h] = y]
    BY <1>3, <1>4
  <1> QED BY <1>5, <1>6

LEMMA FinishBlockInv ==
  ASSUME Inv1, FinishBlock
  PROVE  Inv1'
  <1> DEFINE n == Len(acts) - 1
             a == IF acts[n].op \in Blocky THEN NextStat(acts[n]) ELSE Returned(acts[n])
             c == Len(cells)
             o == Len(objs)
  <1>1. status = "run" /\ Top.op \in {"block", "forblock"} /\ Top.op # "chunk"
    BY DEF FinishBlock, AtEnd, AtBlock, Running
  <1>2. /\ n \in 1 .. Len(acts) /\ n < Len(acts) /\ acts[n] \in AnyAct /\ Kind(acts[n]) /\ acts[n].val = Nil
        /\ Link(acts[n], Top) /\ ActIn(acts[n], Len(cells), Len(objs))
        /\ \A k \in DOMAIN acts : k # Len(acts) => k \in 1 .. n
    BY <1>1, BelowFacts
  <1>3. acts[n].op \in Blocky => acts[n].at = "stat" /\ acts[n].fill = 0
    BY <1>1, <1>2 DEF Link, Blocky
  <1>4. /\ a \in AnyAct /\ SamePlace(a, acts[n]) /\ Kind(a) /\ a.val = Nil /\ Placed(a, scenario.code)
        /\ ActIn(a, Len(cells), Len(objs))
    <2> HIDE DEF n
    <2>1. CASE acts[n].op \in Blocky
      BY <1>2, <1>3, <2>1, NextStatFacts
    <2>2. CASE acts[n].op \notin Blocky
      BY <1>2, <2>2, ReturnedFacts
    <2> QED BY <2>1, <2>2
  <1>5. acts' = [SubSeq(acts, 1, n) EXCEPT ![n] = a]
    <2>1. acts' = Below
      BY DEF FinishBlock
    <2> QED BY <1>1, <2>1, BelowForm
  <1>6. n = Len(acts) - 1
    OBVIOUS
  <1> HIDE DEF n, a
  <1>7. UNCHANGED <<scenario, file, status, failed, functions, globals, memory>>
    BY DEF FinishBlock
  <1>8. CASE Top.op = "block"
    <2>1. Top.op \in Owner
      BY <1>8 DEF Owner
    <2>2. /\ blocks' = Front(blocks) /\ frames' = SetFrame(Erase(Frame, {Top.ctx})) /\ work' = Unrefs(CellsOf(Frame, {Top.ctx}))
      BY <1>8 DEF FinishBlock, Released
    <2> QED BY <1>1, <1>4, <1>5, <1>6, <1>7, <2>1, <2>2, BlockEnds
  <1>9. CASE Top.op = "forblock"
    <2>1. blocks' = blocks /\ frames' = frames /\ work' = work /\ UNCHANGED <<globals, cells, objs, lost>>
      BY <1>7, <1>9 DEF FinishBlock, memory
    <2>2. Top.op \notin Owner /\ Top.op \in InBlock
      BY <1>9 DEF Owner, InBlock
    <2>3. /\ Top.base = Len(blocks) /\ Owned(acts, frames) /\ Top.level = Len(frames)
          /\ Top \in AnyAct /\ Top = acts[Len(acts)]
      BY <1>1, RunFacts
    <2>4. Top.base = acts[n].base /\ Top.level = acts[n].level
      BY <1>2, <1>9 DEF Link, Owner
    <2>5. OwnedBy(acts, n, frames')
      <3> SUFFICES ASSUME NEW l \in DOMAIN frames, l >= acts[1].level, NEW b \in Block, NEW m \in Name, frames[l][b][m] # 0
                   PROVE  \E k \in 1 .. n : acts[k].op \in Owner /\ acts[k].level = l /\ acts[k].ctx = b
        BY <2>1 DEF OwnedBy
      <3>1. PICK k \in DOMAIN acts : acts[k].op \in Owner /\ acts[k].level = l /\ acts[k].ctx = b
        BY <2>3 DEF Owned
      <3>2. k # Len(acts)
        BY <2>2, <2>3, <3>1
      <3> QED BY <1>2, <3>1, <3>2
    <2>6. SameCalls(acts, n, file, functions, functions')
      BY <1>7 DEF SameCalls
    <2>7. Agrees(blocks, blocks', acts[n].base)
      BY <2>1 DEF Agrees
    <2>8. blocks \in Seq(Block) /\ frames \in Seq(AnyStore) /\ functions \in Seq(Nat) /\ objs \in Seq(AnyObj) /\ work \in Seq(AnyUpdate)
      BY DEF Inv1, Loose
    <2>9. FramesIn(frames, c) /\ FunctionsIn(functions, o) /\ ObjsIn(objs, c) /\ UpdatesIn(work, c, o)
      BY DEF Inv1, Bounded
    <2>10. Len(frames) = Len(functions) + file
      BY <1>1 DEF Inv1, Heights
    <2>11. /\ frames' \in Seq(AnyStore) /\ FramesIn(frames', Len(cells)) /\ Len(frames') = acts[n].level
           /\ functions' \in Seq(Nat) /\ FunctionsIn(functions', Len(objs)) /\ Len(frames') = Len(functions') + file
           /\ objs' \in Seq(AnyObj) /\ ObjsIn(objs', Len(cells)) /\ Len(objs') = Len(objs)
           /\ work' \in Seq(AnyUpdate) /\ UpdatesIn(work', Len(cells), Len(objs))
           /\ blocks' \in Seq(Block) /\ (n > 1 => Len(blocks') = acts[n].base)
      BY <1>7, <2>1, <2>3, <2>4, <2>8, <2>9, <2>10
    <2>12. UNCHANGED <<scenario, file, status, failed, globals, cells, lost>>
      BY <1>7, <2>1
    <2> QED BY <1>1, <1>2, <1>4, <1>5, <2>5, <2>6, <2>7, <2>11, <2>12, PopStep
  <1> QED BY <1>1, <1>8, <1>9

LEMMA Earlier ==
  ASSUME NEW n \in Nat, NEW l \in 1 .. (n - 1)
  PROVE  l \in 1 .. n /\ l < n
  OBVIOUS

(* A call, and the statement that waits for it.                            *)
LEMMA CallerFacts ==
  ASSUME Inv1, status = "run", NEW k \in DOMAIN acts, acts[k].op = "call", NEW n, n = k - 1
  PROVE  /\ n \in 1 .. Len(acts) /\ n < Len(acts) /\ n > 1 /\ n \in DOMAIN acts /\ n \in Nat /\ k = n + 1
         /\ acts[n] \in AnyAct /\ Kind(acts[n]) /\ Placed(acts[n], scenario.code) /\ acts[n].val = Nil
         /\ acts[n].op \in Blocky /\ acts[n].at = "store"
         /\ acts[k].base = acts[n].base /\ acts[k].level = acts[n].level + 1 /\ acts[k].cur = acts[n].ctx
         /\ ActIn(acts[n], Len(cells), Len(objs))
         /\ acts[k].level > file /\ acts[k].held[1] \in {Nil, functions[acts[k].level - file]}
         /\ acts[k] \in AnyAct /\ acts[k].held \in Seq(AnyValue) /\ Len(acts[k].held) = 4
         /\ \A i \in DOMAIN acts[k].held : ValueIn(acts[k].held[i], Len(objs))
  <1>1. /\ Struct /\ Shape(acts) /\ acts \in Seq(AnyAct) /\ DOMAIN acts = 1 .. Len(acts) /\ Len(acts) \in Nat
    BY RunFacts
  <1>2. k # 1 /\ acts[k] \in AnyAct
    BY <1>1, StackFacts
  <1>3. k \in 2 .. Len(acts) /\ k - 1 = n
    BY <1>1, <1>2
  <1>4. Link(acts[n], acts[k])
    BY <1>1, <1>3 DEF Shape
  <1>5. /\ acts[n].op \in Blocky /\ acts[n].at = "store"
        /\ acts[k].base = acts[n].base /\ acts[k].level = acts[n].level + 1 /\ acts[k].cur = acts[n].ctx
    BY <1>4 DEF Link, Owner
  <1>6. n \in 1 .. Len(acts) /\ n < Len(acts) /\ n \in DOMAIN acts /\ n \in Nat /\ k = n + 1
    BY <1>1, <1>3
  <1>7. acts[n] \in AnyAct /\ acts[n].val = Nil /\ (acts[n].op = "chunk" <=> n = 1)
    BY <1>1, <1>6, StackFacts
  <1>8. n > 1
    <2>1. n # 1
      BY <1>5, <1>7 DEF Blocky
    <2> QED BY <1>1, <1>6, <2>1
  <1>9. Kind(acts[n]) /\ Kind(acts[k])
    BY <1>1, <1>6 DEF Shape
  <1>10. Placed(acts[n], scenario.code) /\ Matched(acts[k], file, functions)
    BY <1>1, <1>6 DEF Struct, StructOf
  <1>11. ActIn(acts[n], Len(cells), Len(objs)) /\ ActIn(acts[k], Len(cells), Len(objs))
    BY <1>6 DEF Inv1, Bounded, ActsIn
  <1>12. /\ acts[k].level > file /\ acts[k].held[1] \in {Nil, functions[acts[k].level - file]}
         /\ acts[k].held \in Seq(AnyValue) /\ Len(acts[k].held) = 4
         /\ \A i \in DOMAIN acts[k].held : ValueIn(acts[k].held[i], Len(objs))
    BY <1>2, <1>9, <1>10, <1>11, ActFacts DEF Matched, Kind, ActIn
  <1> QED BY <1>2, <1>5, <1>6, <1>7, <1>8, <1>9, <1>10, <1>11, <1>12

(* The innermost call ends: its frame and its function go.                 *)
LEMMA CallEnds ==
  ASSUME Inv1, status = "run", NEW k \in DOMAIN acts, acts[k].op = "call", acts[k].level = Len(frames), NEW n, n = k - 1,
         NEW a \in AnyAct, SamePlace(a, acts[n]), Kind(a), a.at = "store", Placed(a, scenario.code),
         ActIn(a, Len(cells), Len(objs)),
         acts' = [SubSeq(acts, 1, n) EXCEPT ![n] = a],
         blocks' \in Seq(Block), Agrees(blocks, blocks', acts[n].base), Len(blocks') = acts[n].base,
         frames' = Front(frames), functions' = Front(functions),
         UNCHANGED <<scenario, file, status, failed, globals, cells, lost>>,
         objs' \in Seq(AnyObj), ObjsIn(objs', Len(cells)), Len(objs') = Len(objs),
         work' \in Seq(AnyUpdate), UpdatesIn(work', Len(cells), Len(objs))
  PROVE  Inv1'
  <1> DEFINE c == Len(cells)
             o == Len(objs)
             fr == Front(frames)
             fs == Front(functions)
  <1>1. /\ n \in 1 .. Len(acts) /\ n < Len(acts) /\ n > 1 /\ n \in DOMAIN acts /\ n \in Nat /\ k = n + 1
        /\ acts[k].level = acts[n].level + 1 /\ acts[k].level > file /\ acts[n] \in AnyAct
    BY CallerFacts
  <1>2. /\ Shape(acts) /\ Struct /\ acts \in Seq(AnyAct) /\ Len(frames) \in Nat /\ frames # << >> /\ Len(acts) > 1
        /\ DOMAIN acts = 1 .. Len(acts) /\ Len(acts) \in Nat /\ DOMAIN frames = 1 .. Len(frames)
    BY <1>1, RunFacts
  <1>3. frames \in Seq(AnyStore) /\ functions \in Seq(Nat) /\ file \in Nat /\ Len(functions) \in Nat
        /\ DOMAIN functions = 1 .. Len(functions)
    BY StateFacts DEF Inv1, Loose
  <1>4. FramesIn(frames, c) /\ FunctionsIn(functions, o)
    BY DEF Inv1, Bounded
  <1>5. Len(frames) = Len(functions) + file
    BY DEF Inv1, Heights
  <1>6. Owned(acts, frames)
    BY <1>2 DEF Struct, StructOf
  <1>7. functions # << >>
    BY <1>1, <1>3, <1>5, SMTT(60)
  <1>8. /\ fr \in Seq(AnyStore) /\ Len(fr) = Len(frames) - 1 /\ DOMAIN fr = 1 .. (Len(frames) - 1)
        /\ \A l \in 1 .. (Len(frames) - 1) : fr[l] = frames[l]
    BY <1>2, <1>3, FrontFacts, ZenonT(60)
  <1>9. /\ fs \in Seq(Nat) /\ Len(fs) = Len(functions) - 1 /\ DOMAIN fs = 1 .. (Len(functions) - 1)
        /\ \A l \in 1 .. (Len(functions) - 1) : fs[l] = functions[l]
    BY <1>3, <1>7, FrontFacts
  <1> HIDE DEF fr, fs
  <1>10. \A j \in DOMAIN acts : acts[j].level \in Nat
    BY <1>2, StackFacts
  <1>11. OwnedBy(acts, n, fr)
    <2> SUFFICES ASSUME NEW l \in DOMAIN fr, l >= acts[1].level, NEW b \in Block, NEW m \in Name, fr[l][b][m] # 0
                 PROVE  \E j \in 1 .. n : acts[j].op \in Owner /\ acts[j].level = l /\ acts[j].ctx = b
      BY DEF OwnedBy
    <2>5. l \in 1 .. Len(frames) /\ l < Len(frames)
      BY <1>2, <1>8, Earlier
    <2>1. frames[l][b][m] # 0 /\ l \in DOMAIN frames /\ l < Len(frames)
      BY <1>2, <1>8, <2>5
    <2>2. PICK j \in DOMAIN acts : acts[j].op \in Owner /\ acts[j].level = l /\ acts[j].ctx = b
      BY <1>6, <2>1 DEF Owned
    <2>3. ~ (k < j) /\ j # k
      <3>1. k < j => Nested(acts[k], acts[j])
        BY <1>2 DEF Shape
      <3>2. k < j => acts[k].level =< acts[j].level
        BY <3>1 DEF Nested
      <3> QED BY <1>2, <2>1, <2>2, <3>2
    <2>4. j \in 1 .. n
      BY <1>1, <1>2, <2>3
    <2> QED BY <2>2, <2>4
  <1>12. SameCalls(acts, n, file, functions, fs)
    <2> SUFFICES ASSUME NEW j \in 1 .. n, acts[j].op = "call"
                 PROVE  fs[acts[j].level - file] = functions[acts[j].level - file]
      BY DEF SameCalls
    <2>1. j \in DOMAIN acts /\ j < k
      BY <1>1, <1>2, SMTT(60)
    <2>2. Nested(acts[j], acts[k])
      BY <1>2, <2>1 DEF Shape
    <2>3. acts[j].level < Len(frames)
      BY <2>2 DEF Nested
    <2>4. acts[j].level > file
      BY <2>1, CallerFacts
    <2> DEFINE p == acts[j].level
    <2>5. p \in Nat /\ p < Len(frames) /\ p > file
      BY <1>10, <2>1, <2>3, <2>4
    <2> HIDE DEF p
    <2>6. p - file \in 1 .. (Len(functions) - 1)
      <3> DEFINE m == Len(functions)
      <3>1. m \in Nat /\ file \in Nat /\ p < m + file
        BY <1>3, <1>5, <2>5
      <3> HIDE DEF m
      <3>2. p - file \in 1 .. (m - 1)
        BY ONLY <2>5, <3>1
      <3> QED BY <3>2 DEF m
    <2>7. fs[p - file] = functions[p - file]
      BY <1>9, <2>6
    <2> QED BY <2>7 DEF p
  <1>13. FramesIn(fr, c) /\ FunctionsIn(fs, o)
    <2>1. FramesIn(fr, c)
      <3> SUFFICES ASSUME NEW l \in DOMAIN fr PROVE StoreIn(fr[l], c)
        BY DEF FramesIn
      <3>1. l \in DOMAIN frames /\ fr[l] = frames[l]
        BY <1>2, <1>8, Earlier
      <3> QED BY <1>4, <3>1 DEF FramesIn
    <2>2. FunctionsIn(fs, o)
      <3> HIDE DEF o
      <3> SUFFICES ASSUME NEW l \in DOMAIN fs PROVE fs[l] \in 1 .. o
        BY DEF FunctionsIn
      <3>1. l \in DOMAIN functions /\ fs[l] = functions[l]
        BY <1>3, <1>9, Earlier
      <3> QED BY <1>4, <3>1 DEF FunctionsIn
    <2> QED BY <2>1, <2>2
  <1>14. Len(fr) = acts[n].level /\ Len(fr) = Len(fs) + file
    <2> DEFINE p == acts[n].level
    <2>1. p \in Nat /\ Len(frames) = p + 1
      BY <1>1, <1>10
    <2> HIDE DEF p
    <2>2. Len(fr) = p /\ Len(fr) = Len(fs) + file
      BY <1>3, <1>5, <1>8, <1>9, <2>1, SMTT(60)
    <2> QED BY <2>2 DEF p
  <1>15. /\ frames' \in Seq(AnyStore) /\ FramesIn(frames', Len(cells)) /\ Len(frames') = acts[n].level /\ OwnedBy(acts, n, frames')
         /\ functions' \in Seq(Nat) /\ FunctionsIn(functions', Len(objs)) /\ Len(frames') = Len(functions') + file
         /\ SameCalls(acts, n, file, functions, functions')
    BY <1>8, <1>9, <1>11, <1>12, <1>13, <1>14 DEF fr, fs
  <1> QED BY <1>1, <1>15, PopStep

LEMMA FinishCallInv ==
  ASSUME Inv1, FinishCall
  PROVE  Inv1'
  <1> DEFINE k == Len(acts)
             n == k - 1
             c == Len(cells)
             o == Len(objs)
             vs == Top.held
  <1>1. /\ status = "run" /\ Top.op = "call" /\ Top.at = "store" /\ functions' = Front(functions) /\ frames' = Front(frames)
        /\ objs' = Forget(vs[1]) /\ work' = Drops(Tail(vs)) /\ acts' = Front(acts)
        /\ UNCHANGED <<scenario, file, status, failed, blocks, globals, cells, lost>>
    BY DEF FinishCall, Running
  <1>2. k \in DOMAIN acts /\ Top = acts[k] /\ acts \in Seq(AnyAct) /\ Top.level = Len(frames) /\ Top.base = Len(blocks)
    BY <1>1, RunFacts
  <1>3. acts[k].op = "call"
    BY <1>1, <1>2
  <1>4. n = k - 1
    OBVIOUS
  <1> HIDE DEF k, n
  <1>5. /\ n \in 1 .. Len(acts) /\ n \in Nat
        /\ acts[n] \in AnyAct /\ Kind(acts[n]) /\ Placed(acts[n], scenario.code) /\ acts[n].val = Nil
        /\ acts[n].at = "store" /\ acts[k].base = acts[n].base
        /\ ActIn(acts[n], Len(cells), Len(objs))
        /\ acts[k] \in AnyAct
        /\ acts[k].held \in Seq(AnyValue) /\ Len(acts[k].held) = 4
        /\ \A i \in DOMAIN acts[k].held : ValueIn(acts[k].held[i], o)
    BY <1>1, <1>2, <1>3, <1>4, CallerFacts
  <1>6. acts' = [SubSeq(acts, 1, n) EXCEPT ![n] = acts[n]]
    <2>1. n = Len(acts) - 1
      BY <1>4 DEF k
    <2>2. Front(acts) = SubSeq(acts, 1, n) /\ [Front(acts) EXCEPT ![n] = acts[n]] = Front(acts)
      BY <1>2, <1>5, <2>1, FrontPut
    <2> QED BY <1>1, <2>2
  <1>7. vs \in Seq(AnyValue) /\ vs # << >> /\ DOMAIN vs = 1 .. 4 /\ Len(vs) = 4 /\ \A i \in DOMAIN vs : ValueIn(vs[i], o)
    <2>1. vs \in Seq(AnyValue) /\ Len(vs) = 4 /\ \A i \in DOMAIN vs : ValueIn(vs[i], o)
      BY <1>2, <1>5
    <2> HIDE DEF vs
    <2> QED BY <2>1, LenFacts
  <1> HIDE DEF vs
  <1>9. objs' \in Seq(AnyObj) /\ Len(objs') = Len(objs) /\ ObjsIn(objs', c)
    <2>1. ObjsIn(objs, c) /\ objs \in Seq(AnyObj) /\ DOMAIN objs = 1 .. o
      BY StateFacts DEF Inv1, Bounded, Loose
    <2>2. CASE vs[1] = Nil
      BY <1>1, <2>1, <2>2 DEF Forget
    <2>3. CASE vs[1] # Nil
      <3> DEFINE t == Overwrite(vs[1])
      <3>1. vs[1] \in DOMAIN objs
        BY <1>7, <2>1, <2>3 DEF ValueIn
      <3>2. t \in Seq(AnyObj) /\ Len(t) = Len(objs) /\ ObjsIn(t, c)
        BY <2>1, <3>1, OverwriteFacts
      <3>3. objs' = t
        BY <1>1, <2>3 DEF Forget
      <3> HIDE DEF t
      <3> QED BY <3>2, <3>3
    <2> QED BY <2>2, <2>3
  <1>10. work' \in Seq(AnyUpdate) /\ UpdatesIn(work', c, o)
    <2> DEFINE t == Tail(vs)
    <2>1. /\ t \in Seq(AnyValue) /\ DOMAIN t = 1 .. (Len(vs) - 1)
          /\ \A j \in 1 .. (Len(vs) - 1) : t[j] = vs[j + 1]
      BY <1>7, TailFacts
    <2>2. \A i \in DOMAIN t : ValueIn(t[i], o)
      BY <1>7, <2>1
    <2>3. c \in Nat /\ o \in Nat
      BY StateFacts
    <2> HIDE DEF t, c, o
    <2> QED BY <1>1, <2>1, <2>2, <2>3, DropsBounded DEF t
  <1>11. SamePlace(acts[n], acts[n])
    BY DEF SamePlace
  <1>12. blocks' \in Seq(Block) /\ Agrees(blocks, blocks', acts[n].base) /\ Len(blocks') = acts[n].base
    BY <1>1, <1>2, <1>5 DEF Inv1, Loose, Agrees
  <1>13. acts[k].level = Len(frames)
    BY <1>2
  <1> QED BY <1>1, <1>2, <1>3, <1>4, <1>5, <1>6, <1>9, <1>10, <1>11, <1>12, <1>13, CallEnds

(* The value of a call, handed to the statement that waits for it; the     *)
(* blocks a return leaves.                                                 *)
WithVal(a, v) == [a EXCEPT !.val = v]
Above(p) == {blocks[m] : m \in p .. Len(blocks)}

LEMMA WithValFacts ==
  ASSUME NEW a \in AnyAct, Kind(a), a.op \in Blocky, a.at = "store", NEW c, NEW o, ActIn(a, c, o), NEW v \in AnyValue, ValueIn(v, o)
  PROVE  /\ WithVal(a, v) \in AnyAct /\ SamePlace(WithVal(a, v), a) /\ Kind(WithVal(a, v)) /\ WithVal(a, v).val = v
         /\ ActIn(WithVal(a, v), c, o) /\ WithVal(a, v).at = "store" /\ WithVal(a, v).cell = a.cell
         /\ WithVal(a, v).fill = a.fill /\ WithVal(a, v).name = a.name
         /\ \A code : Placed(a, code) => Placed(WithVal(a, v), code)
  <1> DEFINE t == WithVal(a, v)
  <1>1. /\ t \in AnyAct /\ t.op = a.op /\ t.ctx = a.ctx /\ t.cur = a.cur /\ t.base = a.base /\ t.level = a.level /\ t.held = a.held
        /\ t.val = v /\ t.at = "store" /\ t.cell = a.cell /\ t.env = a.env /\ t.i = a.i
        /\ t.fill = a.fill /\ t.name = a.name
    BY DEF AnyAct, WithVal
  <1> HIDE DEF t
  <1>2. SamePlace(t, a) /\ Kind(t) /\ ActIn(t, c, o)
    BY <1>1 DEF SamePlace, Kind, ActIn
  <1>3. \A code : Placed(a, code) => Placed(t, code)
    BY <1>1 DEF Placed, Fits
  <1> QED BY <1>1, <1>2, <1>3 DEF t

(* The last call is the one whose frame is on top.                         *)
LEMMA LastCall ==
  ASSUME Inv1, status = "run", NEW k \in CallIndex, \A m \in CallIndex : m =< k
  PROVE  acts[k].level = Len(frames) /\ k \in DOMAIN acts /\ acts[k].op = "call"
  <1>1. /\ Shape(acts) /\ Stack(acts, blocks) /\ acts \in Seq(AnyAct) /\ Top = acts[Len(acts)] /\ Top.level = Len(frames)
        /\ DOMAIN acts = 1 .. Len(acts) /\ Len(acts) \in Nat /\ Len(frames) \in Nat
    BY RunFacts
  <1>2. k \in DOMAIN acts /\ acts[k].op = "call"
    BY DEF CallIndex
  <1>3. /\ \A j \in DOMAIN acts : acts[j].level \in Nat /\ acts[1].level =< acts[j].level /\ acts[j].level =< Len(frames)
        /\ 1 \in DOMAIN acts
    BY <1>1, StackFacts
  <1>4. SUFFICES ASSUME acts[k].level < Len(frames) PROVE FALSE
    <2> DEFINE p == acts[k].level
    <2>1. p \in Nat /\ p =< Len(frames)
      BY <1>2, <1>3
    <2> HIDE DEF p
    <2>2. ~ (p < Len(frames)) => p = Len(frames)
      BY <1>1, <2>1
    <2> QED BY <1>2, <2>2 DEF p
  <1>5. Len(frames) \in (acts[1].level + 1) .. Top.level
    <2> DEFINE p == acts[k].level
               q == acts[1].level
    <2>1. p \in Nat /\ q \in Nat /\ q =< p /\ p < Len(frames)
      BY <1>2, <1>3, <1>4
    <2> HIDE DEF p, q
    <2>2. Len(frames) \in (q + 1) .. Len(frames)
      BY <1>1, <2>1
    <2> QED BY <1>1, <2>2 DEF q
  <1>6. PICK j \in DOMAIN acts : acts[j].op = "call" /\ acts[j].level = Len(frames)
    BY <1>1, <1>5 DEF Stack, OnFrames
  <1>7. j \in CallIndex
    BY <1>6 DEF CallIndex
  <1>8. j < k
    <2>1. j # k /\ j =< k
      BY <1>4, <1>6, <1>7, <1>1
    <2> QED BY <1>1, <1>2, <2>1
  <1>9. Nested(acts[j], acts[k])
    BY <1>1, <1>2, <1>8 DEF Shape
  <1>10. Len(frames) =< acts[k].level
    BY <1>6, <1>9 DEF Nested
  <1> QED BY <1>1, <1>2, <1>3, <1>4, <1>10

(* Above the caller's block lie blocks of other functions only.            *)
LEMMA CallerBlock ==
  ASSUME Inv1, status = "run", Top.op # "chunk", NEW k \in DOMAIN acts, acts[k].op = "call", NEW n, n = k - 1
  PROVE  /\ acts[n].base \in DOMAIN blocks /\ blocks[acts[n].base] = acts[k].cur
         /\ \A m \in DOMAIN blocks : m > acts[n].base => blocks[m] # acts[k].cur
         /\ \A m \in DOMAIN blocks : m > acts[n].base => \E j \in DOMAIN acts : j > k /\ acts[j].op \in Owner /\ acts[j].base = m
  <1>1. /\ Shape(acts) /\ Stack(acts, blocks) /\ acts \in Seq(AnyAct) /\ Top = acts[Len(acts)] /\ Top.base = Len(blocks)
        /\ DOMAIN acts = 1 .. Len(acts) /\ Len(acts) \in Nat
    BY RunFacts
  <1>2. /\ n \in DOMAIN acts /\ n \in Nat /\ k = n + 1 /\ acts[n].op \in Blocky /\ acts[n].at = "store"
        /\ acts[k].cur = acts[n].ctx /\ acts[n] \in AnyAct
    BY CallerFacts
  <1>3. /\ \A j \in DOMAIN acts : acts[j].base \in Nat /\ acts[1].base =< acts[j].base /\ acts[j].base =< Len(blocks)
        /\ 1 \in DOMAIN acts
    BY <1>1, StackFacts
  <1>4. OnBlocks(acts, blocks) /\ DOMAIN blocks = 1 .. Len(blocks) /\ Len(blocks) \in Nat
    BY <1>1, StateFacts DEF Stack
  <1>5. acts[n].base \in DOMAIN blocks /\ blocks[acts[n].base] = acts[k].cur
    BY <1>2, <1>4 DEF OnBlocks, Blocky, InBlock
  <1>6. ASSUME NEW m \in DOMAIN blocks, m > acts[n].base
        PROVE  \E j \in DOMAIN acts : j > k /\ acts[j].op \in Owner /\ acts[j].base = m /\ blocks[m] # acts[k].cur
    <2> DEFINE p == acts[n].base
               q == acts[1].base
    <2>1. p \in Nat /\ q \in Nat /\ q =< p /\ m > p
      BY <1>2, <1>3, <1>6
    <2> HIDE DEF p, q
    <2>2. m \in (q + 1) .. Len(blocks)
      BY <1>4, <2>1
    <2>3. m \in (acts[1].base + 1) .. Top.base
      BY <1>1, <2>2 DEF q
    <2>4. PICK j \in DOMAIN acts : acts[j].op \in Owner /\ acts[j].base = m
      BY <1>1, <1>4, <2>3 DEF OnBlocks
    <2>5. ~ (j < n) /\ j # n /\ j # k
      <3>1. j < n => Nested(acts[j], acts[n])
        BY <1>1, <1>2 DEF Shape
      <3>2. j < n => m =< p
        BY <2>4, <3>1 DEF Nested, p
      <3>3. j # n
        BY <1>6, <2>1, <2>4 DEF p
      <3>4. j # k
        BY <2>4 DEF Owner
      <3> QED BY <1>4, <2>1, <3>2, <3>3, <3>4
    <2>6. j > k
      BY <1>1, <1>2, <2>5
    <2>7. n < j
      BY <1>1, <1>2, <2>6
    <2>8. Nested(acts[n], acts[j])
      BY <1>1, <1>2, <2>7 DEF Shape
    <2>9. Fun[acts[n].ctx] # Fun[acts[j].ctx]
      BY <1>2, <2>8 DEF Nested
    <2>10. blocks[m] = acts[j].ctx
      BY <1>4, <2>4 DEF OnBlocks, Owner, InBlock
    <2> QED BY <1>2, <2>4, <2>6, <2>9, <2>10
  <1> QED BY <1>5, <1>6

LEMMA CatchReturnForm ==
  ASSUME Inv1, CatchReturn
  PROVE  /\ status = "run" /\ work = << >> /\ Top.op # "chunk" /\ Top.op \in Blocky
         /\ functions' = Front(functions) /\ frames' = Front(frames)
         /\ UNCHANGED <<scenario, file, status, failed, globals, memory>>
         /\ \E k \in DOMAIN acts :
              /\ acts[k].op = "call" /\ acts[k].level = Len(frames) /\ \A m \in CallIndex : m =< k
              /\ blocks' = SubSeq(blocks, 1, acts[k - 1].base)
              /\ work' = Unrefs(CellsOf(Frame, Above(acts[k - 1].base))) \o Drops(acts[k].held)
              /\ acts' = [SubSeq(acts, 1, k - 1) EXCEPT ![k - 1] = WithVal(acts[k - 1], Top.val)]
  <1>1. AtStore({"return"}) /\ CallIndex # {} /\ functions' = Front(functions) /\ frames' = Front(frames)
        /\ UNCHANGED <<scenario, file, status, failed, globals, memory>>
    BY DEF CatchReturn
  <1>2. status = "run" /\ work = << >> /\ Top.op # "chunk" /\ Top.op \in Blocky
    BY <1>1, StoreFacts
  <1>3. acts \in Seq(AnyAct) /\ DOMAIN acts = 1 .. Len(acts) /\ Len(acts) \in Nat
    BY <1>2, RunFacts
  <1> DEFINE k == CHOOSE j \in CallIndex : \A m \in CallIndex : m =< j
             base == CHOOSE j \in DOMAIN blocks : /\ blocks[j] = acts[k].cur
                                                  /\ \A m \in DOMAIN blocks : m > j => blocks[m] # acts[k].cur
  <1>4. /\ blocks' = SubSeq(blocks, 1, base)
        /\ work' = ReturnOps(Frame, {blocks[m] : m \in base .. Len(blocks)}, acts[k].held)
        /\ acts' = [SubSeq(acts, 1, k - 1) EXCEPT ![k - 1].val = Top.val]
    BY DEF CatchReturn
  <1>5. k \in CallIndex /\ \A m \in CallIndex : m =< k
    <2>1. CallIndex \subseteq 1 .. Len(acts)
      BY <1>3 DEF CallIndex
    <2> QED BY <1>1, <1>3, <2>1, LastPosition
  <1> HIDE DEF k
  <1>6. acts[k].level = Len(frames) /\ k \in DOMAIN acts /\ acts[k].op = "call"
    BY <1>2, <1>5, LastCall
  <1> DEFINE n == k - 1
             p == acts[n].base
  <1>7. /\ p \in DOMAIN blocks /\ blocks[p] = acts[k].cur
        /\ \A m \in DOMAIN blocks : m > p => blocks[m] # acts[k].cur
    BY <1>2, <1>6, CallerBlock
  <1>8. n \in 1 .. Len(acts) /\ n \in Nat
    BY <1>2, <1>6, CallerFacts
  <1> HIDE DEF p, n
  <1>9. base = p
    <2>1. /\ base \in DOMAIN blocks /\ blocks[base] = acts[k].cur
          /\ \A m \in DOMAIN blocks : m > base => blocks[m] # acts[k].cur
      BY <1>7
    <2> HIDE DEF base
    <2>2. DOMAIN blocks = 1 .. Len(blocks) /\ Len(blocks) \in Nat
      BY StateFacts
    <2>3. ~ (p > base) /\ ~ (base > p)
      BY <1>7, <2>1
    <2> QED BY <1>7, <2>1, <2>2, <2>3
  <1>10. acts' = [SubSeq(acts, 1, n) EXCEPT ![n] = WithVal(acts[n], Top.val)]
    <2> DEFINE t == SubSeq(acts, 1, n)
    <2>1. n \in 0 .. Len(acts) /\ n \in 1 .. n
      BY <1>3, <1>8
    <2>2. t[n] = acts[n]
      BY <1>3, <2>1, PrefixFacts
    <2>3. acts' = [t EXCEPT ![n].val = Top.val]
      BY <1>4 DEF n
    <2> HIDE DEF t
    <2>4. [t EXCEPT ![n].val = Top.val] = [t EXCEPT ![n] = WithVal(acts[n], Top.val)]
      BY <2>2 DEF WithVal
    <2> QED BY <2>3, <2>4 DEF t
  <1>11. work' = Unrefs(CellsOf(Frame, Above(p))) \o Drops(acts[k].held) /\ blocks' = SubSeq(blocks, 1, p)
    BY <1>4, <1>9 DEF ReturnOps, Released, Above
  <1> QED BY <1>1, <1>2, <1>5, <1>6, <1>10, <1>11 DEF n, p

LEMMA CatchReturnInv ==
  ASSUME Inv1, CatchReturn
  PROVE  Inv1'
  <1>1. /\ status = "run" /\ Top.op # "chunk"
        /\ functions' = Front(functions) /\ frames' = Front(frames)
        /\ UNCHANGED <<scenario, file, status, failed, globals, cells, objs, lost>>
    BY CatchReturnForm DEF memory
  <1>2. PICK k \in DOMAIN acts :
          /\ acts[k].op = "call" /\ acts[k].level = Len(frames) /\ \A m \in CallIndex : m =< k
          /\ blocks' = SubSeq(blocks, 1, acts[k - 1].base)
          /\ work' = Unrefs(CellsOf(Frame, Above(acts[k - 1].base))) \o Drops(acts[k].held)
          /\ acts' = [SubSeq(acts, 1, k - 1) EXCEPT ![k - 1] = WithVal(acts[k - 1], Top.val)]
    BY CatchReturnForm
  <1> DEFINE n == k - 1
             p == acts[n].base
             c == Len(cells)
             o == Len(objs)
             a == WithVal(acts[n], Top.val)
  <1>3. /\ acts[n] \in AnyAct /\ Kind(acts[n]) /\ Placed(acts[n], scenario.code)
        /\ acts[n].op \in Blocky /\ acts[n].at = "store"
        /\ ActIn(acts[n], c, o)
        /\ acts[k].held \in Seq(AnyValue)
        /\ \A i \in DOMAIN acts[k].held : ValueIn(acts[k].held[i], o)
    BY <1>1, <1>2, CallerFacts
  <1>4. p \in DOMAIN blocks
    BY <1>1, <1>2, CallerBlock
  <1>5. Top.val \in AnyValue /\ ValueIn(Top.val, o)
    BY <1>1, RunFacts, ActFacts DEF ActIn
  <1>6. c \in Nat /\ o \in Nat /\ DOMAIN blocks = 1 .. Len(blocks) /\ Len(blocks) \in Nat /\ blocks \in Seq(Block)
    BY StateFacts DEF Inv1, Loose
  <1>7. objs \in Seq(AnyObj) /\ ObjsIn(objs, c)
    BY DEF Inv1, Loose, Bounded
  <1>8. n = k - 1
    OBVIOUS
  <1>9. acts' = [SubSeq(acts, 1, n) EXCEPT ![n] = a] /\ blocks' = SubSeq(blocks, 1, p)
        /\ work' = Unrefs(CellsOf(Frame, Above(p))) \o Drops(acts[k].held)
    BY <1>2
  <1> HIDE DEF n, c, o
  <1>10. /\ a \in AnyAct /\ SamePlace(a, acts[n]) /\ Kind(a) /\ a.at = "store" /\ Placed(a, scenario.code)
         /\ ActIn(a, c, o)
    BY <1>3, <1>5, WithValFacts
  <1> HIDE DEF a
  <1>11. blocks' \in Seq(Block) /\ Agrees(blocks, blocks', p) /\ Len(blocks') = p
    <2> DEFINE bl == SubSeq(blocks, 1, p)
    <2> HIDE DEF p
    <2>1. p \in 0 .. Len(blocks) /\ p \in Nat
      BY <1>4, <1>6
    <2>2. bl \in Seq(Block) /\ Len(bl) = p /\ DOMAIN bl = 1 .. p /\ \A m \in 1 .. p : bl[m] = blocks[m]
      BY <1>6, <2>1, PrefixFacts
    <2>3. blocks' = bl
      BY <1>9
    <2> HIDE DEF bl
    <2>4. Agrees(blocks, bl, p)
      BY <1>6, <2>1, <2>2 DEF Agrees
    <2> QED BY <2>2, <2>3, <2>4
  <1>12. work' \in Seq(AnyUpdate) /\ UpdatesIn(work', c, o)
    <2> DEFINE cs == CellsOf(Frame, Above(p))
               s == Unrefs(cs)
               t == Drops(acts[k].held)
    <2>1. Above(p) \subseteq Block
      <3> HIDE DEF p
      <3>1. \A m \in p .. Len(blocks) : m \in DOMAIN blocks
        BY <1>4, <1>6
      <3>2. \A m \in DOMAIN blocks : blocks[m] \in Block
        BY <1>6, LenFacts
      <3> QED BY <3>1, <3>2 DEF Above
    <2>2. IsFiniteSet(cs) /\ cs \subseteq 1 .. c
      BY <1>1, <2>1, FrameCells DEF c
    <2>3. s \in Seq(AnyUpdate) /\ UpdatesIn(s, c, o)
      <3> HIDE DEF cs
      <3> QED BY <1>6, <2>2, UnrefsBounded
    <2>4. t \in Seq(AnyUpdate) /\ UpdatesIn(t, c, o)
      <3> DEFINE vs == acts[k].held
      <3>1. vs \in Seq(AnyValue) /\ \A i \in DOMAIN vs : ValueIn(vs[i], o)
        BY <1>3
      <3> HIDE DEF vs
      <3> QED BY <1>6, <3>1, DropsBounded DEF vs
    <2>5. work' = s \o t
      BY <1>9
    <2> HIDE DEF s, t
    <2> QED BY <2>3, <2>4, <2>5, UpdatesConcat
  <1>13. acts[k].op = "call" /\ acts[k].level = Len(frames) /\ n = k - 1
    BY <1>2, <1>8
  <1>14. /\ blocks' \in Seq(Block) /\ Agrees(blocks, blocks', acts[n].base) /\ Len(blocks') = acts[n].base
         /\ objs' \in Seq(AnyObj) /\ ObjsIn(objs', Len(cells)) /\ Len(objs') = Len(objs)
         /\ work' \in Seq(AnyUpdate) /\ UpdatesIn(work', Len(cells), Len(objs))
         /\ UNCHANGED <<scenario, file, status, failed, globals, cells, lost>>
    BY <1>1, <1>7, <1>11, <1>12 DEF c, o
  <1>15. a \in AnyAct /\ SamePlace(a, acts[n]) /\ Kind(a) /\ a.at = "store" /\ Placed(a, scenario.code) /\ ActIn(a, Len(cells), Len(objs))
    BY <1>10 DEF c, o
  <1> QED BY <1>1, <1>9, <1>13, <1>14, <1>15, CallEnds

(* The stack of a chunk alone.                                             *)
LEMMA ChunkAlone ==
  ASSUME NEW code, NEW f, NEW bad, NEW bl, NEW fr, NEW fs, NEW a \in AnyAct, a.op = "chunk", a.ctx \notin Body, Parent[a.ctx] = Nil,
         Kind(a), a.val = Nil, a.level = Len(fr), a.level >= f, a.level >= 1, ~ bad => a.level = f
  PROVE  StructOf(code, f, bad, <<a>>, bl, fr, fs) /\ <<a>> \in Seq(AnyAct) /\ Len(<<a>>) = 1 /\ DOMAIN <<a>> = {1} /\ <<a>>[1] = a
  <1> DEFINE st == <<a>>
  <1>1. st \in Seq(AnyAct) /\ Len(st) = 1 /\ DOMAIN st = {1} /\ st[1] = a /\ st # << >>
    OBVIOUS
  <1> HIDE DEF st
  <1>2. 2 .. Len(st) = {} /\ ~ (Len(st) > 1)
    BY <1>1
  <1>3. a.base \in Nat /\ a.level \in Nat /\ a.ctx \in Block
    BY ActFacts
  <1>4. (a.base + 1) .. a.base = {} /\ (a.level + 1) .. a.level = {}
    BY <1>3
  <1>5. Fun[a.ctx] \notin Body
    BY <1>3, TreeFacts
  <1>6. Shape(st)
    BY <1>1, <1>2, <1>5 DEF Shape
  <1>7. OnBlocks(st, bl)
    BY <1>1, <1>4 DEF OnBlocks, InBlock
  <1>8. OnFrames(st)
    BY <1>1, <1>4 DEF OnFrames
  <1>9. \A k \in DOMAIN st : Placed(st[k], code) /\ Matched(st[k], f, fs)
    BY <1>1 DEF Placed, Matched, Blocky
  <1>10. StructOf(code, f, bad, st, bl, fr, fs)
    BY <1>1, <1>2, <1>6, <1>7, <1>8, <1>9 DEF StructOf, Stack
  <1> QED BY <1>1, <1>10 DEF st

LEMMA ReturnFromChunkInv ==
  ASSUME Inv1, ReturnFromChunk
  PROVE  Inv1'
  <1> DEFINE a == Returned(acts[1])
             c == Len(cells)
             o == Len(objs)
             st == <<a>>
  <1>1. /\ AtStore({"return"}) /\ CallIndex = {} /\ acts' = <<a>> /\ work' = <<Drop(Top.val)>>
        /\ UNCHANGED <<scenario, file, status, failed, blocks, functions, frames, globals, cells, objs, lost>>
    BY DEF ReturnFromChunk, Returned, stores, memory
  <1>2. status = "run"
    BY <1>1, StoreFacts
  <1>3. /\ Shape(acts) /\ Stack(acts, blocks) /\ Struct /\ acts \in Seq(AnyAct) /\ Top = acts[Len(acts)] /\ Top.level = Len(frames)
        /\ DOMAIN acts = 1 .. Len(acts) /\ Len(acts) \in Nat /\ Len(frames) \in Nat /\ Top \in AnyAct
    BY <1>2, RunFacts
  <1>4. /\ 1 \in DOMAIN acts /\ acts[1] \in AnyAct /\ acts[1].level \in Nat /\ acts[1].level =< Len(frames)
    BY <1>3, StackFacts
  <1>5. acts[1].op = "chunk" /\ acts[1].ctx \notin Body /\ Parent[acts[1].ctx] = Nil /\ Kind(acts[1])
    BY <1>3, <1>4 DEF Shape
  <1>6. acts[1].level = Len(frames)
    <2> DEFINE q == acts[1].level
    <2>1. \A l \in (q + 1) .. Len(frames) : FALSE
      BY <1>1, <1>3 DEF Stack, OnFrames, CallIndex
    <2>2. q \in Nat /\ q =< Len(frames)
      BY <1>4
    <2> HIDE DEF q
    <2>3. q = Len(frames)
      <3>1. q # Len(frames) => Len(frames) \in (q + 1) .. Len(frames)
        BY <1>3, <2>2
      <3> QED BY <2>1, <3>1
    <2> QED BY <2>3 DEF q
  <1>7. acts[1].val = Nil /\ acts[1].op \notin Blocky
    BY <1>5 DEF Kind, Blocky
  <1>8. ActIn(acts[1], c, o)
    BY <1>4 DEF Inv1, Bounded, ActsIn
  <1>9. a \in AnyAct /\ SamePlace(a, acts[1]) /\ Kind(a) /\ a.val = Nil /\ a.at = "store" /\ ActIn(a, c, o)
    BY <1>4, <1>5, <1>7, <1>8, ReturnedFacts
  <1> HIDE DEF a
  <1>10. /\ a.op = "chunk" /\ a.ctx \notin Body /\ Parent[a.ctx] = Nil /\ a.level = Len(frames)
         /\ a.level >= file /\ a.level >= 1 /\ (~ failed => a.level = file)
    BY <1>3, <1>5, <1>6, <1>9 DEF Struct, StructOf, SamePlace
  <1>11. StructOf(scenario.code, file, failed, st, blocks, frames, functions) /\ st \in Seq(AnyAct) /\ DOMAIN st = {1} /\ st[1] = a
    BY <1>9, <1>10, ChunkAlone
  <1>12. acts' = st
    BY <1>1
  <1> HIDE DEF st
  <1>13. ActsIn(st, c, o)
    BY <1>9, <1>11 DEF ActsIn
  <1>14. /\ ActsIn(acts, c, o) /\ FramesIn(frames, c) /\ NamesIn(globals, c) /\ CellsIn(cells, o) /\ lost \subseteq 1 .. c
         /\ FunctionsIn(functions, o) /\ ObjsIn(objs, c) /\ c \in Nat /\ o \in Nat
    BY StateFacts DEF Inv1, Bounded
  <1>15. blocks \in Seq(Block) /\ frames \in Seq(AnyStore) /\ functions \in Seq(Nat) /\ objs \in Seq(AnyObj)
         /\ cells \in Seq(AnyCell) /\ globals \in [Name -> Nat]
    BY DEF Inv1, Loose
  <1>16. work' \in Seq(AnyUpdate) /\ UpdatesIn(work', c, o)
    <2>1. Top.val \in AnyValue /\ ValueIn(Top.val, o)
      BY <1>2, RunFacts, ActFacts DEF ActIn
    <2> HIDE DEF c, o
    <2>2. UpdateIn(Drop(Top.val), c, o) /\ Drop(Top.val) \in AnyUpdate
      BY <1>14, <2>1, ValueUpdatesBounded
    <2> QED BY <1>1, <2>2 DEF UpdatesIn
  <1>17. Len(frames) = Len(functions) + file
    BY <1>2 DEF Inv1, Heights
  <1>18. Len(cells') = c /\ Len(objs') = o
    BY <1>1
  <1> HIDE DEF c, o
  <1> QED BY <1>1, <1>2, <1>11, <1>12, <1>13, <1>14, <1>15, <1>16, <1>17, <1>18, RunStep

-----------------------------------------------------------------------------
(* Files begin and end.                                                    *)

LEMMA RunFileInv ==
  ASSUME Inv1, RunFile
  PROVE  Inv1'
  <1> DEFINE main == scenario.files[file + 1]
             h == Len(blocks)
             l == Len(frames) + 1
             a == NewAct("chunk", main, "body", NoNames, h, l)
             b == NewAct("block", main, "stat", NoNames, h + 1, l)
             bl == Append(blocks, main)
             fr == Append(frames, NoStore)
             c == Len(cells)
             o == Len(objs)
             s1 == <<a>>
             s2 == Append(s1, b)
             f == file + 1
  <1>1. /\ status = "idle" /\ work = << >> /\ file < Len(scenario.files) /\ acts' = <<a, b>> /\ blocks' = bl /\ frames' = fr
        /\ file' = f /\ status' = "run"
        /\ UNCHANGED <<scenario, failed, functions, globals, cells, objs, lost, work>>
    BY DEF RunFile, memory
  <1>2. /\ h \in Nat /\ Len(frames) \in Nat /\ DOMAIN frames = 1 .. Len(frames) /\ file \in Nat /\ c \in Nat /\ o \in Nat
        /\ DOMAIN blocks = 1 .. h /\ scenario \in Scenarios
    BY StateFacts
  <1>3. l \in Nat /\ h + 1 \in Nat /\ f \in Nat
    BY <1>2
  <1>4. Len(frames) = Len(functions) + file /\ Len(functions) \in Nat /\ (~ failed => functions = << >>)
    BY <1>1, StateFacts DEF Inv1, Heights, Quiet
  <1>5. main \in Block /\ Parent[main] = Nil /\ main \notin Body
    <2>1. scenario.files \in Seq(Block) /\ \A i \in DOMAIN scenario.files : Parent[scenario.files[i]] = Nil /\ scenario.files[i] \notin Body
      BY <1>2, ScenarioAssumption
    <2>2. file + 1 \in DOMAIN scenario.files
      BY <1>1, <1>2, <2>1, LenFacts
    <2> QED BY <2>1, <2>2, LenFacts
  <1>6. NoNames \in [Name -> Nat] /\ NamesIn(NoNames, c) /\ NoStore \in AnyStore /\ StoreIn(NoStore, c)
        /\ \A x \in Block, n \in Name : NoStore[x][n] = 0
    BY <1>2 DEF NoNames, NamesIn, NoStore, AnyStore, StoreIn
  <1>7. blocks \in Seq(Block) /\ frames \in Seq(AnyStore)
    BY DEF Inv1, Loose
  <1>8. bl \in Seq(Block) /\ Len(bl) = h + 1 /\ DOMAIN bl = 1 .. (h + 1) /\ (\A m \in 1 .. h : bl[m] = blocks[m]) /\ bl[h + 1] = main
    BY <1>5, <1>7, AppendFacts
  <1>9. fr \in Seq(AnyStore) /\ Len(fr) = l /\ DOMAIN fr = 1 .. l /\ (\A m \in 1 .. Len(frames) : fr[m] = frames[m]) /\ fr[l] = NoStore
    BY <1>6, <1>7, AppendFacts
  <1>10. Fresh(a, "chunk", main, "body", NoNames, h, l) /\ Fresh(b, "block", main, "stat", NoNames, h + 1, l)
    <2> HIDE DEF h, l, main
    <2>1. Fresh(a, "chunk", main, "body", NoNames, h, l)
      BY <1>2, <1>3, <1>5, <1>6, NewActFacts
    <2> DEFINE g == h + 1
    <2>2. g \in Nat /\ b = NewAct("block", main, "stat", NoNames, g, l)
      BY <1>3
    <2> HIDE DEF g
    <2>3. Fresh(b, "block", main, "stat", NoNames, g, l)
      BY <1>2, <1>3, <1>5, <1>6, <2>2, NewActFacts
    <2> QED BY <2>1, <2>3 DEF g
  <1>11. l >= f /\ l >= 1 /\ (~ failed => l = f)
    <2>1. functions = << >> => Len(functions) = 0
      OBVIOUS
    <2> QED BY <1>2, <1>4, <2>1
  <1> HIDE DEF a, b, main, bl, fr, l, h, f
  <1>12. /\ a \in AnyAct /\ a.op = "chunk" /\ a.ctx = main /\ a.at = "body" /\ a.val = Nil /\ a.held = << >> /\ a.cell = 0 /\ a.fill = 0
         /\ a.env = NoNames /\ a.base = h /\ a.level = l
         /\ b \in AnyAct /\ b.op = "block" /\ b.ctx = main /\ b.at = "stat" /\ b.val = Nil /\ b.held = << >> /\ b.cell = 0 /\ b.fill = 0
         /\ b.env = NoNames /\ b.base = h + 1 /\ b.level = l
    BY <1>10 DEF Fresh
  <1>13. Kind(a) /\ Kind(b) /\ Link(a, b) /\ b.op \in InBlock
    BY <1>12 DEF Kind, Link, Blocky, InBlock
  <1>14. ActIn(a, c, o) /\ ActIn(b, c, o)
    <2>1. a.cell =< c /\ b.cell =< c /\ NamesIn(a.env, c) /\ NamesIn(b.env, c)
      BY <1>2, <1>6, <1>12
    <2> HIDE DEF c, o
    <2> QED BY <1>2, <1>12, <2>1, FreshIn
  <1>15. StructOf(scenario.code, f, failed, s1, blocks, fr, functions) /\ s1 \in Seq(AnyAct) /\ Len(s1) = 1 /\ DOMAIN s1 = {1} /\ s1[1] = a
    BY <1>5, <1>9, <1>11, <1>12, <1>13, ChunkAlone
  <1> HIDE DEF s1
  <1>16. s1[Len(s1)] = a
    BY <1>15
  <1>17. StructOf(scenario.code, f, failed, s2, bl, fr, functions)
    <2>1. /\ \A m \in DOMAIN blocks : m \in DOMAIN bl /\ bl[m] = blocks[m]
          /\ b.base = Len(bl) /\ b.base \in DOMAIN bl /\ bl[b.base] = b.ctx
      BY <1>2, <1>8, <1>12
    <2>2. \A x \in Block, n \in Name : fr[Len(fr)][x][n] = 0
      BY <1>6, <1>9
    <2>3. /\ Link(s1[Len(s1)], b) /\ s1[Len(s1)].val = Nil /\ b.at = "stat" /\ b.fill = 0 /\ b.val = Nil
      BY <1>12, <1>13, <1>16
    <2> DEFINE code == scenario.code
    <2> HIDE DEF code
    <2>4. StructOf(code, f, failed, s1, blocks, fr, functions)
      BY <1>15 DEF code
    <2>5. StructOf(code, f, failed, Append(s1, b), bl, fr, functions)
      <3>1. /\ f \in Nat /\ s1 \in Seq(AnyAct) /\ fr \in Seq(AnyStore) /\ b \in AnyAct /\ b.op \in InBlock /\ Kind(b)
            /\ (Len(s1) > 1 \/ \A x \in Block, n \in Name : fr[Len(fr)][x][n] = 0)
        BY <1>3, <1>9, <1>12, <1>13, <1>15, <2>2
      <3> QED BY ONLY <2>1, <2>3, <2>4, <3>1, StructPush, SMTT(60)
    <2> QED BY <2>5 DEF code
  <1>18. acts' = s2
    BY <1>1, <1>12 DEF s1
  <1>19. ActsIn(s2, c, o) /\ s2 \in Seq(AnyAct)
    <2>1. ActsIn(s1, c, o)
      BY <1>14, <1>15 DEF ActsIn
    <2> HIDE DEF c, o
    <2> QED BY <1>12, <1>14, <1>15, <2>1, ActsAppend
  <1>20. FramesIn(fr, c)
    <2> SUFFICES ASSUME NEW m \in DOMAIN fr PROVE StoreIn(fr[m], c)
      BY DEF FramesIn
    <2>1. FramesIn(frames, c)
      BY DEF Inv1, Bounded
    <2>2. m # l => m \in 1 .. Len(frames)
      BY <1>2, <1>9, NotLast DEF l
    <2>3. CASE m = l
      BY <1>6, <1>9, <2>3
    <2>4. CASE m # l
      BY <1>2, <1>9, <2>1, <2>2, <2>4 DEF FramesIn
    <2> QED BY <2>3, <2>4
  <1>21. Loose' /\ Bounded'
    <2>1. /\ NamesIn(globals, c) /\ CellsIn(cells, o) /\ lost \subseteq 1 .. c
          /\ FunctionsIn(functions, o) /\ ObjsIn(objs, c) /\ UpdatesIn(work, c, o)
          /\ functions \in Seq(Nat) /\ objs \in Seq(AnyObj) /\ work \in Seq(AnyUpdate)
          /\ cells \in Seq(AnyCell) /\ globals \in [Name -> Nat] /\ failed \in BOOLEAN
      BY DEF Inv1, Loose, Bounded
    <2>2. file' \in 0 .. Len(scenario.files)
      <3>1. Len(scenario.files) \in Nat
        BY <1>2, ScenarioAssumption, LenFacts
      <3> QED BY <1>1, <1>2, <3>1 DEF f
    <2>3. /\ acts' \in Seq(AnyAct) /\ ActsIn(acts', Len(cells'), Len(objs')) /\ frames' \in Seq(AnyStore) /\ FramesIn(frames', Len(cells'))
          /\ blocks' \in Seq(Block) /\ status' = "run"
      BY <1>1, <1>8, <1>9, <1>18, <1>19, <1>20
    <2>4. /\ NamesIn(globals', Len(cells')) /\ CellsIn(cells', Len(objs')) /\ lost' \subseteq 1 .. Len(cells')
          /\ FunctionsIn(functions', Len(objs')) /\ ObjsIn(objs', Len(cells')) /\ UpdatesIn(work', Len(cells'), Len(objs'))
          /\ functions' \in Seq(Nat) /\ objs' \in Seq(AnyObj) /\ work' \in Seq(AnyUpdate)
          /\ cells' \in Seq(AnyCell) /\ globals' \in [Name -> Nat] /\ failed' \in BOOLEAN /\ scenario' = scenario
      BY <1>1, <2>1
    <2> QED BY <2>2, <2>3, <2>4, TypedStep
  <1>22. Struct'
    BY <1>1, <1>17, <1>18 DEF Struct
  <1>23. Heights'
    BY <1>1, <1>2, <1>4, <1>9 DEF Heights, l, f
  <1>24. Quiet'
    <2>1. \A k \in DOMAIN s2 : Len(s2[k].held) =< 4
      <3>1. DOMAIN s2 = 1 .. 2 /\ s2[1] = a /\ s2[2] = b
        <4>1. DOMAIN s2 = 1 .. (Len(s1) + 1) /\ (\A k \in 1 .. Len(s1) : s2[k] = s1[k]) /\ s2[Len(s1) + 1] = b
          <5>1. s1 \in Seq(AnyAct) /\ b \in AnyAct
            BY <1>12, <1>15
          <5> QED BY <5>1, AppendFacts
        <4>2. Len(s1) = 1 /\ s1[1] = a
          BY <1>15
        <4> HIDE DEF s2
        <4> QED BY <4>1, <4>2
      <3>2. Len(a.held) = 0 /\ Len(b.held) = 0
        BY <1>12
      <3> QED BY <3>1, <3>2
    <2> QED BY <1>1, <1>18, <2>1 DEF Quiet
  <1> QED BY <1>21, <1>22, <1>23, <1>24 DEF Inv1

(* The run leaves the state "run", or was not in it: there is no stack to  *)
(* speak of.                                                               *)
LEMMA StopStep ==
  ASSUME Inv1, status' # "run",
         status' \in {"idle", "failing", "over", "dangling", "stale", "crash", "cut"},
         failed' \in BOOLEAN, failed => failed', UNCHANGED <<scenario, file, blocks, functions>>,
         acts' \in Seq(AnyAct), ActsIn(acts', Len(cells'), Len(objs')), \A k \in DOMAIN acts' : Len(acts'[k].held) =< 4,
         frames' \in Seq(AnyStore), FramesIn(frames', Len(cells')),
         globals' \in [Name -> Nat], NamesIn(globals', Len(cells')),
         cells' \in Seq(AnyCell), CellsIn(cells', Len(objs')),
         objs' \in Seq(AnyObj), ObjsIn(objs', Len(cells')), Len(objs) =< Len(objs'),
         lost' \subseteq 1 .. Len(cells'),
         work' \in Seq(AnyUpdate), UpdatesIn(work', Len(cells'), Len(objs')),
         status' \in {"idle", "failing"} => status \in {"idle", "run", "failing"} /\ Len(frames') = Len(frames),
         status' \in {"idle", "over"} => acts' = << >>,
         status' \in {"idle", "over"} /\ ~ failed' => functions = << >>,
         status' = "failing" => failed',
         status' = "over" => globals' = NoNames
  PROVE  Inv1'
  <1>1. Loose' /\ Bounded'
    <2> DEFINE p == Len(objs')
    <2>1. /\ file' \in 0 .. Len(scenario.files) /\ blocks' \in Seq(Block) /\ functions' \in Seq(Nat) /\ functions' = functions
          /\ functions \in Seq(Nat)
          /\ status' \in {"idle", "run", "failing", "over", "dangling", "stale", "crash", "cut"}
      BY DEF Inv1, Loose
    <2>2. FunctionsIn(functions', p)
      <3>1. FunctionsIn(functions, Len(objs)) /\ Len(objs) \in Nat /\ p \in Nat
        <4> DEFINE os == objs'
        <4>1. os \in Seq(AnyObj) /\ p = Len(os)
          OBVIOUS
        <4> HIDE DEF os, p
        <4>2. p \in Nat
          BY <4>1, LenFacts
        <4> QED BY <4>2, StateFacts DEF Inv1, Bounded
      <3>2. Len(objs) =< p
        OBVIOUS
      <3> HIDE DEF p
      <3>3. \A k \in DOMAIN functions : functions[k] \in 1 .. p
        BY <3>1, <3>2 DEF FunctionsIn
      <3> QED BY <2>1, <3>3 DEF FunctionsIn
    <2> QED BY <2>1, <2>2, TypedStep
  <1>2. Heights'
    BY DEF Heights, Inv1
  <1>3. Quiet'
    BY DEF Quiet
  <1> QED BY <1>1, <1>2, <1>3 DEF Inv1

LEMMA KeptTypes ==
  ASSUME Inv1
  PROVE  /\ acts \in Seq(AnyAct) /\ blocks \in Seq(Block) /\ frames \in Seq(AnyStore) /\ globals \in [Name -> Nat]
         /\ functions \in Seq(Nat) /\ cells \in Seq(AnyCell) /\ objs \in Seq(AnyObj) /\ work \in Seq(AnyUpdate)
         /\ failed \in BOOLEAN /\ scenario \in Scenarios
         /\ ActsIn(acts, Len(cells), Len(objs)) /\ FramesIn(frames, Len(cells)) /\ NamesIn(globals, Len(cells))
         /\ FunctionsIn(functions, Len(objs)) /\ CellsIn(cells, Len(objs)) /\ ObjsIn(objs, Len(cells))
         /\ lost \subseteq 1 .. Len(cells) /\ UpdatesIn(work, Len(cells), Len(objs))
         /\ \A k \in DOMAIN acts : Len(acts[k].held) =< 4
         /\ Len(objs) \in Nat /\ Len(cells) \in Nat /\ Len(objs) =< Len(objs)
  BY StateFacts DEF Inv1, Loose, Bounded, Quiet

(* The run ends in an outcome that is not modelled any further.            *)
LEMMA DeadStep ==
  ASSUME Inv1, status' \in {"dangling", "stale", "crash", "cut"},
         UNCHANGED <<scenario, file, failed, acts, blocks, functions, frames, globals, cells, objs, lost, work>>
  PROVE  Inv1'
  <1>1. /\ acts' \in Seq(AnyAct) /\ frames' \in Seq(AnyStore) /\ globals' \in [Name -> Nat]
        /\ cells' \in Seq(AnyCell) /\ objs' \in Seq(AnyObj) /\ work' \in Seq(AnyUpdate) /\ failed' \in BOOLEAN
        /\ ActsIn(acts', Len(cells'), Len(objs')) /\ FramesIn(frames', Len(cells')) /\ NamesIn(globals', Len(cells'))
        /\ CellsIn(cells', Len(objs')) /\ ObjsIn(objs', Len(cells'))
        /\ lost' \subseteq 1 .. Len(cells') /\ UpdatesIn(work', Len(cells'), Len(objs'))
        /\ (\A k \in DOMAIN acts' : Len(acts'[k].held) =< 4)
        /\ Len(objs) =< Len(objs') /\ (failed => failed')
    BY KeptTypes
  <1> QED BY <1>1, StopStep

LEMMA EndingsInv ==
  ASSUME Inv1, ReadFreed \/ CallStale \/ Crash \/ CutRun
  PROVE  Inv1'
  <1>1. /\ status' \in {"dangling", "stale", "crash", "cut"}
        /\ UNCHANGED <<scenario, file, failed, acts, blocks, functions, frames, globals, cells, objs, lost, work>>
    BY DEF ReadFreed, CallStale, Crash, CutRun, stores, memory
  <1> QED BY <1>1, DeadStep

LEMMA FinishFileInv ==
  ASSUME Inv1, FinishFile
  PROVE  Inv1'
  <1>1. /\ status = "run" /\ Top.op = "chunk" /\ status' = "idle" /\ acts' = << >>
        /\ UNCHANGED <<scenario, file, failed, blocks, functions, frames, globals, cells, objs, lost, work>>
    BY DEF FinishFile, Running, stores, memory
  <1>2. ~ failed => functions = << >>
    <2>1. /\ Shape(acts) /\ Struct /\ acts \in Seq(AnyAct) /\ Top = acts[Len(acts)] /\ Top.level = Len(frames)
      BY <1>1, RunFacts
    <2>2. Len(acts) = 1
      BY <1>1, <2>1, StackFacts
    <2>3. ~ failed => Len(frames) = file
      BY <2>1, <2>2 DEF Struct, StructOf
    <2>4. Len(frames) = Len(functions) + file /\ Len(functions) \in Nat /\ file \in Nat /\ functions \in Seq(Nat)
      BY <1>1, StateFacts DEF Inv1, Heights, Loose
    <2>5. ~ failed => Len(functions) = 0
      BY <2>3, <2>4
    <2> QED BY <2>4, <2>5, LenFacts
  <1>3. /\ acts' \in Seq(AnyAct) /\ ActsIn(acts', Len(cells'), Len(objs')) /\ \A k \in DOMAIN acts' : Len(acts'[k].held) =< 4
    BY <1>1 DEF ActsIn
  <1>4. /\ frames' \in Seq(AnyStore) /\ globals' \in [Name -> Nat]
        /\ cells' \in Seq(AnyCell) /\ objs' \in Seq(AnyObj) /\ work' \in Seq(AnyUpdate) /\ failed' \in BOOLEAN
        /\ FramesIn(frames', Len(cells')) /\ NamesIn(globals', Len(cells'))
        /\ CellsIn(cells', Len(objs')) /\ ObjsIn(objs', Len(cells'))
        /\ lost' \subseteq 1 .. Len(cells') /\ UpdatesIn(work', Len(cells'), Len(objs'))
        /\ Len(objs) =< Len(objs') /\ (failed => failed') /\ Len(frames') = Len(frames)
    BY <1>1, KeptTypes
  <1> QED BY <1>1, <1>2, <1>3, <1>4, StopStep

LEMMA UnwindForm ==
  ASSUME Inv1, Unwind
  PROVE  /\ status = "failing" /\ work = << >> /\ acts # << >> /\ acts' = Front(acts) /\ work' = Drops(Append(Top.held, Top.val))
         /\ UNCHANGED <<scenario, file, status, failed, blocks, functions, frames, globals, cells, objs, lost>>
         /\ Top \in AnyAct /\ Top = acts[Len(acts)] /\ Top.held \in Seq(AnyValue) /\ Top.val \in AnyValue /\ Len(acts) \in DOMAIN acts
  <1>1. /\ status = "failing" /\ work = << >> /\ acts # << >> /\ acts' = Front(acts) /\ work' = Drops(Append(Top.held, Top.val))
        /\ UNCHANGED <<scenario, file, status, failed, blocks, functions, frames, globals, cells, objs, lost>>
    BY DEF Unwind, stores, memory
  <1>2. Top = acts[Len(acts)] /\ acts \in Seq(AnyAct)
    BY DEF Top, Inv1, Loose
  <1>3. Len(acts) \in DOMAIN acts /\ Top \in AnyAct
    BY <1>1, <1>2, LenFacts
  <1> QED BY <1>1, <1>2, <1>3, ActFacts

LEMMA UnwindInv ==
  ASSUME Inv1, Unwind
  PROVE  Inv1'
  <1> DEFINE vs == Append(Top.held, Top.val)
             c == Len(cells)
             o == Len(objs)
             st == Front(acts)
  <1>1. /\ status = "failing" /\ work = << >> /\ acts # << >> /\ acts' = st /\ work' = Drops(vs)
        /\ UNCHANGED <<scenario, file, status, failed, blocks, functions, frames, globals, cells, objs, lost>>
        /\ Top \in AnyAct /\ Top = acts[Len(acts)] /\ Top.held \in Seq(AnyValue) /\ Top.val \in AnyValue /\ Len(acts) \in DOMAIN acts
    BY UnwindForm
  <1>2. /\ acts \in Seq(AnyAct) /\ ActsIn(acts, c, o) /\ c \in Nat /\ o \in Nat
        /\ \A k \in DOMAIN acts : Len(acts[k].held) =< 4
    BY KeptTypes
  <1>3. ActIn(Top, c, o)
    BY <1>1, <1>2 DEF ActsIn
  <1>4. Drops(vs) \in Seq(AnyUpdate) /\ UpdatesIn(Drops(vs), c, o)
    <2> DEFINE hs == Top.held
               v == Top.val
    <2>1. hs \in Seq(AnyValue) /\ v \in AnyValue /\ ValueIn(v, o) /\ \A i \in DOMAIN hs : ValueIn(hs[i], o)
      BY <1>1, <1>3 DEF ActIn
    <2> HIDE DEF hs, v
    <2>2. vs = Append(hs, v)
      BY DEF hs, v
    <2>3. /\ Len(hs) \in Nat /\ DOMAIN hs = 1 .. Len(hs)
      BY <2>1, LenFacts
    <2>4. /\ vs \in Seq(AnyValue) /\ DOMAIN vs = 1 .. (Len(hs) + 1)
          /\ (\A k \in 1 .. Len(hs) : vs[k] = hs[k]) /\ vs[Len(hs) + 1] = v
      BY <2>1, <2>2, AppendFacts
    <2> HIDE DEF vs, c, o
    <2>5. ASSUME NEW i \in DOMAIN vs PROVE ValueIn(vs[i], o)
      <3>1. i # Len(hs) + 1 => i \in 1 .. Len(hs)
        BY <2>3, <2>4, NotLast
      <3> QED BY <2>1, <2>3, <2>4, <3>1
    <2> QED BY <1>2, <2>4, <2>5, DropsBounded
  <1>5. st \in Seq(AnyAct) /\ ActsIn(st, c, o) /\ \A k \in DOMAIN st : Len(st[k].held) =< 4
    <2>1. /\ st \in Seq(AnyAct) /\ DOMAIN st = 1 .. (Len(acts) - 1) /\ \A k \in 1 .. (Len(acts) - 1) : st[k] = acts[k]
      BY <1>1, <1>2, FrontFacts
    <2>2. DOMAIN acts = 1 .. Len(acts) /\ Len(acts) \in Nat
      BY <1>2, LenFacts
    <2> HIDE DEF st, c, o
    <2>3. \A k \in DOMAIN st : k \in DOMAIN acts /\ st[k] = acts[k]
      BY <2>1, <2>2, Earlier
    <2> QED BY <1>2, <2>1, <2>3 DEF ActsIn
  <1> HIDE DEF st, vs
  <1>6. /\ frames' \in Seq(AnyStore) /\ globals' \in [Name -> Nat]
        /\ cells' \in Seq(AnyCell) /\ objs' \in Seq(AnyObj) /\ failed' \in BOOLEAN
        /\ FramesIn(frames', Len(cells')) /\ NamesIn(globals', Len(cells'))
        /\ CellsIn(cells', Len(objs')) /\ ObjsIn(objs', Len(cells'))
        /\ lost' \subseteq 1 .. Len(cells')
        /\ Len(objs) =< Len(objs') /\ (failed => failed') /\ Len(frames') = Len(frames) /\ failed'
    BY <1>1, KeptTypes DEF Inv1, Quiet
  <1>7. /\ acts' \in Seq(AnyAct) /\ ActsIn(acts', Len(cells'), Len(objs')) /\ (\A k \in DOMAIN acts' : Len(acts'[k].held) =< 4)
        /\ work' \in Seq(AnyUpdate) /\ UpdatesIn(work', Len(cells'), Len(objs'))
    BY <1>1, <1>4, <1>5
  <1> QED BY <1>1, <1>6, <1>7, StopStep

LEMMA FailFileInv ==
  ASSUME Inv1, FailFile
  PROVE  Inv1'
  <1>1. /\ status = "failing" /\ acts = << >> /\ status' = "idle"
        /\ UNCHANGED <<scenario, file, failed, acts, blocks, functions, frames, globals, cells, objs, lost, work>>
    BY DEF FailFile, stores, memory
  <1>2. /\ acts' \in Seq(AnyAct) /\ frames' \in Seq(AnyStore) /\ globals' \in [Name -> Nat]
        /\ cells' \in Seq(AnyCell) /\ objs' \in Seq(AnyObj) /\ work' \in Seq(AnyUpdate) /\ failed' \in BOOLEAN
        /\ ActsIn(acts', Len(cells'), Len(objs')) /\ FramesIn(frames', Len(cells')) /\ NamesIn(globals', Len(cells'))
        /\ CellsIn(cells', Len(objs')) /\ ObjsIn(objs', Len(cells'))
        /\ lost' \subseteq 1 .. Len(cells') /\ UpdatesIn(work', Len(cells'), Len(objs'))
        /\ (\A k \in DOMAIN acts' : Len(acts'[k].held) =< 4)
        /\ Len(objs) =< Len(objs') /\ (failed => failed') /\ failed' /\ Len(frames') = Len(frames)
    BY <1>1, KeptTypes DEF Inv1, Quiet
  <1> QED BY <1>1, <1>2, StopStep

LEMMA DestroyInv ==
  ASSUME Inv1, Destroy
  PROVE  Inv1'
  <1>1. /\ status = "idle" /\ status' = "over" /\ work' = Unrefs(NamesOf(globals)) /\ globals' = NoNames
        /\ UNCHANGED <<scenario, file, failed, acts, blocks, functions, frames, cells, objs, lost>>
    BY DEF Destroy, memory, NamesOf
  <1>2. /\ acts' \in Seq(AnyAct) /\ frames' \in Seq(AnyStore)
        /\ cells' \in Seq(AnyCell) /\ objs' \in Seq(AnyObj) /\ failed' \in BOOLEAN
        /\ ActsIn(acts', Len(cells'), Len(objs')) /\ FramesIn(frames', Len(cells'))
        /\ CellsIn(cells', Len(objs')) /\ ObjsIn(objs', Len(cells'))
        /\ lost' \subseteq 1 .. Len(cells')
        /\ (\A k \in DOMAIN acts' : Len(acts'[k].held) =< 4)
        /\ Len(objs) =< Len(objs') /\ (failed => failed') /\ acts' = << >> /\ (~ failed' => functions = << >>)
    BY <1>1, KeptTypes DEF Inv1, Quiet
  <1>3. globals' \in [Name -> Nat] /\ NamesIn(globals', Len(cells'))
    BY <1>1, KeptTypes DEF NoNames, NamesIn
  <1>4. work' \in Seq(AnyUpdate) /\ UpdatesIn(work', Len(cells'), Len(objs'))
    <2> DEFINE cs == NamesOf(globals)
               c == Len(cells)
               o == Len(objs)
    <2>1. globals \in [Name -> Nat] /\ NamesIn(globals, c) /\ c \in Nat /\ o \in Nat
      BY KeptTypes
    <2>2. IsFiniteSet(cs) /\ cs \subseteq Nat /\ \A x : x \in cs <=> x # 0 /\ \E n \in Name : globals[n] = x
      BY <2>1, NamesOfFacts
    <2> HIDE DEF cs, c, o
    <2>3. cs \subseteq 1 .. c
      BY <2>1, <2>2 DEF NamesIn
    <2>4. Unrefs(cs) \in Seq(AnyUpdate) /\ UpdatesIn(Unrefs(cs), c, o)
      BY <2>1, <2>2, <2>3, UnrefsBounded
    <2> QED BY <1>1, <2>4 DEF cs, c, o
  <1> QED BY <1>1, <1>2, <1>3, <1>4, StopStep

LEMMA DestroyFrameInv ==
  ASSUME Inv1, DestroyFrame
  PROVE  Inv1'
  <1>1. /\ status = "over" /\ work = << >> /\ frames # << >> /\ status' = "over"
        /\ work' = Unrefs(CellsOf(Head(frames), Block)) /\ frames' = Tail(frames)
        /\ UNCHANGED <<scenario, file, status, failed, acts, blocks, functions, globals, cells, objs, lost>>
    BY DEF DestroyFrame, memory
  <1>2. /\ acts' \in Seq(AnyAct)
        /\ cells' \in Seq(AnyCell) /\ objs' \in Seq(AnyObj) /\ failed' \in BOOLEAN
        /\ ActsIn(acts', Len(cells'), Len(objs'))
        /\ CellsIn(cells', Len(objs')) /\ ObjsIn(objs', Len(cells'))
        /\ lost' \subseteq 1 .. Len(cells')
        /\ (\A k \in DOMAIN acts' : Len(acts'[k].held) =< 4)
        /\ globals' \in [Name -> Nat] /\ NamesIn(globals', Len(cells')) /\ globals' = NoNames
        /\ Len(objs) =< Len(objs') /\ (failed => failed') /\ acts' = << >> /\ (~ failed' => functions = << >>)
    BY <1>1, KeptTypes DEF Inv1, Quiet
  <1> DEFINE c == Len(cells)
             o == Len(objs)
             fr == Tail(frames)
             f == Head(frames)
  <1>3. /\ fr \in Seq(AnyStore) /\ f \in AnyStore /\ f = frames[1] /\ DOMAIN fr = 1 .. (Len(frames) - 1)
        /\ \A k \in 1 .. (Len(frames) - 1) : fr[k] = frames[k + 1]
    BY <1>1, TailFacts, KeptTypes
  <1>4. FramesIn(frames, c) /\ c \in Nat /\ o \in Nat /\ DOMAIN frames = 1 .. Len(frames) /\ Len(frames) \in Nat /\ 1 \in DOMAIN frames
    <2>1. FramesIn(frames, c) /\ c \in Nat /\ o \in Nat /\ frames \in Seq(AnyStore)
      BY KeptTypes
    <2> QED BY <1>1, <2>1, LenFacts
  <1> HIDE DEF fr, f
  <1>5. FramesIn(fr, c)
    <2> SUFFICES ASSUME NEW k \in DOMAIN fr PROVE StoreIn(fr[k], c)
      BY DEF FramesIn
    <2>1. k + 1 \in DOMAIN frames /\ fr[k] = frames[k + 1]
      BY <1>3, <1>4
    <2> QED BY <1>4, <2>1 DEF FramesIn
  <1>6. Unrefs(CellsOf(f, Block)) \in Seq(AnyUpdate) /\ UpdatesIn(Unrefs(CellsOf(f, Block)), c, o)
    <2> DEFINE cs == CellsOf(f, Block)
    <2>1. IsFiniteSet(cs) /\ cs \subseteq Nat /\ \A x : x \in cs <=> x # 0 /\ \E b \in Block, n \in Name : f[b][n] = x
      BY <1>3, CellsOfFacts
    <2>2. StoreIn(f, c)
      BY <1>3, <1>4 DEF FramesIn
    <2> HIDE DEF cs, c, o
    <2>3. cs \subseteq 1 .. c
      BY <1>4, <2>1, <2>2 DEF StoreIn, NamesIn
    <2>4. Unrefs(cs) \in Seq(AnyUpdate) /\ UpdatesIn(Unrefs(cs), c, o)
      BY <1>4, <2>1, <2>3, UnrefsBounded
    <2> QED BY <2>4 DEF cs
  <1>7. /\ work' \in Seq(AnyUpdate) /\ UpdatesIn(work', Len(cells'), Len(objs'))
        /\ frames' \in Seq(AnyStore) /\ FramesIn(frames', Len(cells'))
    BY <1>1, <1>3, <1>5, <1>6 DEF f, fr
  <1> QED BY <1>1, <1>2, <1>7, StopStep

(* What an exception leaves: nothing new, or the function that was being   *)
(* closed, with the cells it had captured.                                 *)
Part(body, captured) == [n \in Name |-> IF n \in captured THEN Closure(body)[n] ELSE 0]
Broken(body, captured) == [NewObj(body, Top.env, 0) EXCEPT !.closure = Part(body, captured)]
ThrowOps == {"local", "assign", "return", "call", "function", "localfunction"}

LEMMA ThrowErrorForm ==
  ASSUME Inv1, ThrowError
  PROVE  /\ AtStat(ThrowOps) /\ status = "run" /\ work = << >>
         /\ \/ cells' = WithTarget(cells) /\ objs' = objs
            \/ /\ S.e.f \in Body
               /\ \E captured \in SUBSET Name : cells' = WithTarget(Referenced(Part(S.e.f, captured))) /\ objs' = Append(objs, Broken(S.e.f, captured))
         /\ status' = "failing" /\ failed' = TRUE /\ globals' = GlobalsWithTarget
         /\ UNCHANGED <<scenario, file, acts, blocks, functions, frames, work, lost>>
  <1>1. AtStat(ThrowOps)
    BY DEF ThrowError, ThrowOps
  <1>2. status = "run" /\ work = << >> /\ S.e.f \in Body \cup {Nil}
    BY <1>1, StatFacts
  <1>3. /\ \/ cells' = WithTarget(cells) /\ objs' = objs
           \/ /\ S.e.f # Nil
              /\ \E captured \in SUBSET {n \in Name : Closure(S.e.f)[n] # 0} :
                    cells' = WithTarget(Referenced(Part(S.e.f, captured))) /\ objs' = Append(objs, Broken(S.e.f, captured))
        /\ status' = "failing" /\ failed' = TRUE /\ globals' = GlobalsWithTarget
        /\ UNCHANGED <<scenario, file, acts, blocks, functions, frames, work, lost>>
    BY DEF ThrowError, Part, Broken
  <1>4. CASE cells' = WithTarget(cells) /\ objs' = objs
    BY <1>1, <1>2, <1>3, <1>4
  <1>5. CASE S.e.f # Nil /\ \E captured \in SUBSET {n \in Name : Closure(S.e.f)[n] # 0} :
                    cells' = WithTarget(Referenced(Part(S.e.f, captured))) /\ objs' = Append(objs, Broken(S.e.f, captured))
    <2>1. PICK captured \in SUBSET {n \in Name : Closure(S.e.f)[n] # 0} :
             cells' = WithTarget(Referenced(Part(S.e.f, captured))) /\ objs' = Append(objs, Broken(S.e.f, captured))
      BY <1>5
    <2>2. captured \in SUBSET Name /\ S.e.f \in Body
      BY <1>2, <1>5
    <2> QED BY <1>1, <1>2, <1>3, <2>1, <2>2
  <1> QED BY <1>3, <1>4, <1>5

LEMMA BrokenFacts ==
  ASSUME Inv1, status = "run", NEW body \in Body, NEW captured \in SUBSET Name
  PROVE  /\ Broken(body, captured) \in AnyObj /\ ObjIn(Broken(body, captured), Len(cells))
         /\ Broken(body, captured).closure = Part(body, captured) /\ Part(body, captured) \in [Name -> Nat]
         /\ Broken(body, captured).count = 0 /\ Broken(body, captured).live /\ Broken(body, captured).leaked = 0
         /\ \A n \in Name : Part(body, captured)[n] # 0 => Part(body, captured)[n] = Closure(body)[n]
  <1> DEFINE x == NewObj(body, Top.env, 0)
             p == Part(body, captured)
             y == [x EXCEPT !.closure = p]
  <1>1. /\ x \in AnyObj /\ ObjIn(x, Len(cells)) /\ x.closure = Closure(body) /\ x.count = 0 /\ x.live /\ x.leaked = 0
    BY NewObjFacts
  <1> HIDE DEF x
  <1>2. x.closure \in [Name -> Nat] /\ NamesIn(x.closure, Len(cells)) /\ NamesIn(x.env, Len(cells)) /\ Len(cells) \in Nat
    BY <1>1, StateFacts DEF AnyObj, ObjIn
  <1>3. p \in [Name -> Nat] /\ NamesIn(p, Len(cells)) /\ \A n \in Name : p[n] # 0 => p[n] = Closure(body)[n]
    BY <1>1, <1>2 DEF Part, NamesIn
  <1> HIDE DEF p
  <1>4. y \in AnyObj /\ y.closure = p /\ y.count = 0 /\ y.live /\ y.leaked = 0 /\ y.env = x.env
    BY <1>1, <1>3 DEF AnyObj
  <1>5. Broken(body, captured) = y
    BY DEF Broken, x, p
  <1> HIDE DEF y
  <1>6. ObjIn(y, Len(cells))
    BY <1>2, <1>3, <1>4 DEF ObjIn
  <1> QED BY <1>3, <1>4, <1>5, <1>6 DEF p

LEMMA ThrowErrorInv ==
  ASSUME Inv1, ThrowError
  PROVE  Inv1'
  <1>1. /\ AtStat(ThrowOps) /\ status = "run" /\ status' = "failing" /\ failed' = TRUE /\ globals' = GlobalsWithTarget
        /\ UNCHANGED <<scenario, file, acts, blocks, functions, frames, work, lost>>
    BY ThrowErrorForm
  <1> DEFINE c == Len(cells')
             o == Len(objs')
  <1>2. c \in Nat /\ o \in Nat /\ Len(cells) =< c /\ Len(objs) =< o /\ cells' \in Seq(AnyCell) /\ CellsIn(cells', Len(objs))
        /\ objs' \in Seq(AnyObj) /\ ObjsIn(objs', c) /\ globals' \in [Name -> Nat] /\ NamesIn(globals', c)
    <2>1. ASSUME NEW cs \in Seq(AnyCell), Len(cs) = Len(cells), CellsIn(cs, Len(objs)), cells' = WithTarget(cs)
          PROVE  /\ c \in Nat /\ Len(cells) =< c /\ cells' \in Seq(AnyCell) /\ CellsIn(cells', Len(objs))
                 /\ globals' \in [Name -> Nat] /\ NamesIn(globals', c)
      <3>1. /\ WithTarget(cs) \in Seq(AnyCell) /\ CellsIn(WithTarget(cs), Len(objs))
            /\ Len(WithTarget(cs)) = IF NewGlobal THEN Len(cells) + 1 ELSE Len(cells)
            /\ GlobalsWithTarget \in [Name -> Nat] /\ NamesIn(GlobalsWithTarget, Len(WithTarget(cs)))
        BY <1>1, <2>1, TargetFacts
      <3>2. Len(cells) \in Nat
        BY StateFacts
      <3>3. c = Len(WithTarget(cs))
        BY <2>1
      <3> HIDE DEF c
      <3>4. c \in Nat /\ Len(cells) =< c
        BY <3>1, <3>2, <3>3
      <3> QED BY <1>1, <2>1, <3>1, <3>3, <3>4
    <2>2. CASE cells' = WithTarget(cells) /\ objs' = objs
      <3>1. /\ c \in Nat /\ Len(cells) =< c /\ cells' \in Seq(AnyCell) /\ CellsIn(cells', Len(objs))
            /\ globals' \in [Name -> Nat] /\ NamesIn(globals', c)
        BY <2>1, <2>2, KeptTypes
      <3>2. o \in Nat /\ Len(objs) =< o /\ objs' \in Seq(AnyObj) /\ Len(objs) \in Nat
        BY <2>2, KeptTypes
      <3> HIDE DEF c, o
      <3>3. ObjsIn(objs, c)
        <4>1. Len(objs) =< Len(objs)
          BY <3>2
        <4> QED BY <3>1, <3>2, <4>1, KeptFacts
      <3>4. ObjsIn(objs', c)
        BY <2>2, <3>3
      <3> QED BY <3>1, <3>2, <3>4
    <2>3. ASSUME NEW captured \in SUBSET Name, S.e.f \in Body,
                 cells' = WithTarget(Referenced(Part(S.e.f, captured))), objs' = Append(objs, Broken(S.e.f, captured))
          PROVE  /\ c \in Nat /\ o \in Nat /\ Len(cells) =< c /\ Len(objs) =< o /\ cells' \in Seq(AnyCell) /\ CellsIn(cells', Len(objs))
                 /\ objs' \in Seq(AnyObj) /\ ObjsIn(objs', c) /\ globals' \in [Name -> Nat] /\ NamesIn(globals', c)
      <3> DEFINE cs == Referenced(Part(S.e.f, captured))
                 x == Broken(S.e.f, captured)
      <3>1. cs \in Seq(AnyCell) /\ Len(cs) = Len(cells) /\ CellsIn(cs, Len(objs))
        BY ReferencedFacts
      <3>2. cells' = WithTarget(cs)
        BY <2>3
      <3> HIDE DEF cs
      <3>3. /\ c \in Nat /\ Len(cells) =< c /\ cells' \in Seq(AnyCell) /\ CellsIn(cells', Len(objs))
            /\ globals' \in [Name -> Nat] /\ NamesIn(globals', c)
        BY <2>1, <3>1, <3>2
      <3>4. x \in AnyObj /\ ObjIn(x, Len(cells))
        BY <1>1, <2>3, BrokenFacts
      <3>5. objs' = Append(objs, x)
        BY <2>3
      <3> HIDE DEF x, c
      <3>6. objs' \in Seq(AnyObj) /\ Len(objs') = Len(objs) + 1 /\ ObjsIn(objs', c)
        <4> DEFINE t == Append(objs, x)
        <4>1. t \in Seq(AnyObj) /\ Len(t) = Len(objs) + 1 /\ ObjsIn(t, c)
          BY <3>3, <3>4, ObjsAppend
        <4> HIDE DEF t
        <4> QED BY <3>5, <4>1 DEF t
      <3>7. o \in Nat /\ Len(objs) =< o
        BY <3>6, StateFacts
      <3> QED BY <3>3, <3>6, <3>7
    <2> HIDE DEF c, o
    <2>4. \/ cells' = WithTarget(cells) /\ objs' = objs
          \/ /\ S.e.f \in Body
             /\ \E captured \in SUBSET Name : cells' = WithTarget(Referenced(Part(S.e.f, captured))) /\ objs' = Append(objs, Broken(S.e.f, captured))
      BY ThrowErrorForm
    <2> QED BY <2>2, <2>3, <2>4
  <1>3. Len(objs) \in Nat /\ Len(cells) \in Nat
    BY StateFacts
  <1> HIDE DEF c, o
  <1>4. CellsIn(cells', o)
    <2> DEFINE cs == cells'
    <2>1. cs \in Seq(AnyCell) /\ CellsIn(cs, Len(objs))
      BY <1>2
    <2> HIDE DEF cs
    <2>2. CellsIn(cs, o)
      BY <1>2, <1>3, <2>1, BoundsGrowSeq
    <2> QED BY <2>2 DEF cs
  <1>5. /\ ActsIn(acts, c, o) /\ FramesIn(frames, c) /\ lost \subseteq 1 .. c /\ UpdatesIn(work, c, o)
    BY <1>2, KeptFacts
  <1>6. /\ acts' \in Seq(AnyAct) /\ ActsIn(acts', c, o) /\ (\A k \in DOMAIN acts' : Len(acts'[k].held) =< 4)
        /\ frames' \in Seq(AnyStore) /\ FramesIn(frames', c) /\ lost' \subseteq 1 .. c /\ work' \in Seq(AnyUpdate)
        /\ UpdatesIn(work', c, o) /\ Len(frames') = Len(frames)
    BY <1>1, <1>5, KeptTypes
  <1>7. c = Len(cells') /\ o = Len(objs')
    BY DEF c, o
  <1> QED BY <1>1, <1>2, <1>4, <1>6, <1>7, StopStep

-----------------------------------------------------------------------------
(* Counter updates.                                                        *)

LEMMA UpdateStep ==
  ASSUME Inv1, status' \in {status, "dangling"},
         UNCHANGED <<scenario, file, failed, acts, blocks, functions, frames, globals, lost>>,
         cells' \in Seq(AnyCell), Len(cells') = Len(cells), CellsIn(cells', Len(objs)),
         objs' \in Seq(AnyObj), Len(objs') = Len(objs), ObjsIn(objs', Len(cells)),
         work' \in Seq(AnyUpdate), UpdatesIn(work', Len(cells), Len(objs))
  PROVE  Inv1'
  <1>1. Loose' /\ Bounded'
    <2>1. /\ file' \in 0 .. Len(scenario.files)
          /\ status' \in {"idle", "run", "failing", "over", "dangling", "stale", "crash", "cut"}
      BY DEF Inv1, Loose
    <2>2. /\ acts' \in Seq(AnyAct) /\ blocks' \in Seq(Block) /\ frames' \in Seq(AnyStore) /\ globals' \in [Name -> Nat]
          /\ functions' \in Seq(Nat) /\ failed' \in BOOLEAN
          /\ ActsIn(acts', Len(cells'), Len(objs')) /\ FramesIn(frames', Len(cells')) /\ NamesIn(globals', Len(cells'))
          /\ FunctionsIn(functions', Len(objs')) /\ CellsIn(cells', Len(objs')) /\ ObjsIn(objs', Len(cells'))
          /\ lost' \subseteq 1 .. Len(cells') /\ UpdatesIn(work', Len(cells'), Len(objs'))
      BY KeptTypes
    <2> QED BY <2>1, <2>2, TypedStep
  <1>2. (status = "run" => Struct)'
    BY DEF Struct, Inv1
  <1>3. Heights'
    BY DEF Heights, Inv1
  <1>4. Quiet'
    BY DEF Quiet, Inv1
  <1> QED BY <1>1, <1>2, <1>3, <1>4 DEF Inv1

LEMMA WorkFacts ==
  ASSUME Inv1, work # << >>
  PROVE  /\ W \in AnyUpdate /\ UpdateIn(W, Len(cells), Len(objs)) /\ W = work[1] /\ W = Head(work) /\ 1 \in DOMAIN work
         /\ Tail(work) \in Seq(AnyUpdate) /\ UpdatesIn(Tail(work), Len(cells), Len(objs))
         /\ DOMAIN Tail(work) = 1 .. (Len(work) - 1) /\ Len(Tail(work)) = Len(work) - 1
         /\ (\A k \in 1 .. (Len(work) - 1) : Tail(work)[k] = work[k + 1] /\ k + 1 \in DOMAIN work)
         /\ work = <<W>> \o Tail(work)
  <1>1. work \in Seq(AnyUpdate) /\ UpdatesIn(work, Len(cells), Len(objs))
    BY KeptTypes
  <1>2. Len(work) \in Nat /\ DOMAIN work = 1 .. Len(work) /\ Len(work) >= 1
    BY <1>1, LenFacts
  <1> DEFINE t == Tail(work)
  <1>3. /\ t \in Seq(AnyUpdate) /\ Head(work) \in AnyUpdate /\ Head(work) = work[1] /\ Len(t) = Len(work) - 1
        /\ DOMAIN t = 1 .. (Len(work) - 1) /\ \A k \in 1 .. (Len(work) - 1) : t[k] = work[k + 1]
    BY <1>1, TailFacts
  <1>4. W = Head(work)
    BY DEF W
  <1>5. 1 \in DOMAIN work /\ \A k \in 1 .. (Len(work) - 1) : k + 1 \in DOMAIN work
    BY <1>2
  <1>6. UpdateIn(W, Len(cells), Len(objs))
    BY <1>1, <1>3, <1>4, <1>5 DEF UpdatesIn
  <1>8. work = <<W>> \o t
    BY <1>1, <1>4
  <1> HIDE DEF t
  <1>7. UpdatesIn(t, Len(cells), Len(objs))
    BY <1>1, <1>3, <1>5 DEF UpdatesIn
  <1> QED BY <1>3, <1>4, <1>5, <1>6, <1>7, <1>8 DEF t

(* A function whose count, or life, changes.                               *)
Recounted(o, n, live) == [objs EXCEPT ![o] = [objs[o] EXCEPT !.count = n, !.live = live]]

LEMMA RecountedFacts ==
  ASSUME Inv1, NEW o \in DOMAIN objs, NEW n \in Nat, NEW live \in BOOLEAN
  PROVE  /\ Recounted(o, n, live) \in Seq(AnyObj) /\ Len(Recounted(o, n, live)) = Len(objs) /\ DOMAIN Recounted(o, n, live) = DOMAIN objs
         /\ ObjsIn(Recounted(o, n, live), Len(cells))
         /\ \A x \in DOMAIN objs :
              /\ Recounted(o, n, live)[x].closure = objs[x].closure /\ Recounted(o, n, live)[x].leaked = objs[x].leaked
              /\ Recounted(o, n, live)[x].count = IF x = o THEN n ELSE objs[x].count
              /\ Recounted(o, n, live)[x].live = IF x = o THEN live ELSE objs[x].live
  <1> DEFINE y == [objs[o] EXCEPT !.count = n, !.live = live]
             t == [objs EXCEPT ![o] = y]
  <1>1. objs \in Seq(AnyObj) /\ ObjsIn(objs, Len(cells)) /\ objs[o] \in AnyObj
    BY KeptTypes, LenFacts
  <1>2. y \in AnyObj /\ y.closure = objs[o].closure /\ y.leaked = objs[o].leaked /\ y.env = objs[o].env /\ y.count = n /\ y.live = live
    BY <1>1 DEF AnyObj
  <1>3. Recounted(o, n, live) = t
    BY DEF Recounted
  <1> HIDE DEF y
  <1>4. t \in Seq(AnyObj) /\ Len(t) = Len(objs) /\ DOMAIN t = DOMAIN objs /\ t[o] = y /\ \A k \in DOMAIN objs : k # o => t[k] = objs[k]
    BY <1>1, <1>2, ReplaceFacts
  <1> HIDE DEF t
  <1>5. ObjsIn(t, Len(cells))
    BY <1>1, <1>2, <1>4 DEF ObjsIn, ObjIn
  <1>6. \A x \in DOMAIN objs :
              /\ t[x].closure = objs[x].closure /\ t[x].leaked = objs[x].leaked
              /\ t[x].count = IF x = o THEN n ELSE objs[x].count
              /\ t[x].live = IF x = o THEN live ELSE objs[x].live
    BY <1>2, <1>4
  <1> QED BY <1>3, <1>4, <1>5, <1>6

LEMMA ReleaseForm ==
  ASSUME Inv1, NEW o \in AnyValue, ValueIn(o, Len(objs)), NEW rest, Release(o, rest)
  PROVE  \/ (o = Nil \/ ~ objs[o].live) /\ objs' = objs /\ work' = rest
         \/ /\ o \in DOMAIN objs /\ objs[o].live /\ objs[o].count > 1 /\ objs[o].count - 1 \in Nat
            /\ objs' = Recounted(o, objs[o].count - 1, TRUE) /\ work' = rest
         \/ /\ o \in DOMAIN objs /\ objs[o].live /\ objs[o].count =< 1
            /\ objs' = Recounted(o, 0, FALSE) /\ work' = Unrefs(NamesOf(objs[o].closure)) \o rest
  <1>1. CASE o = Nil \/ ~ objs[o].live
    BY <1>1 DEF Release
  <1>2. CASE ~ (o = Nil \/ ~ objs[o].live)
    <2> DEFINE x == objs[o]
               n == x.count
    <2>1. o \in DOMAIN objs
      BY <1>2, StateFacts DEF ValueIn
    <2>2. x \in AnyObj
      BY <2>1, StateFacts
    <2>3. n \in Nat /\ x.live = TRUE
      BY <1>2, <2>2 DEF AnyObj
    <2>4. CASE n > 1
      <3>1. work' = rest /\ objs' = [objs EXCEPT ![o].count = @ - 1]
        BY <1>2, <2>4 DEF Release
      <3> DEFINE m == n - 1
      <3>2. m \in Nat /\ objs' = [objs EXCEPT ![o].count = m]
        BY <2>3, <2>4, <3>1
      <3> HIDE DEF m
      <3>3. [x EXCEPT !.count = m] = [x EXCEPT !.count = m, !.live = TRUE]
        <4> HIDE DEF x
        <4> QED BY <2>2, <2>3, <3>2 DEF AnyObj
      <3>4. objs' = Recounted(o, m, TRUE)
        BY <3>2, <3>3 DEF Recounted
      <3> QED BY <1>2, <2>1, <2>4, <3>1, <3>2, <3>4 DEF m
    <2>5. CASE ~ (n > 1)
      <3>1. work' = Unrefs({objs[o].closure[m] : m \in Name} \ {0}) \o rest /\ objs' = [objs EXCEPT ![o].count = 0, ![o].live = FALSE]
        BY <1>2, <2>5 DEF Release
      <3>2. objs' = Recounted(o, 0, FALSE)
        <4>1. objs \in Seq(AnyObj)
          BY KeptTypes
        <4> QED BY <2>1, <3>1, <4>1 DEF Recounted
      <3>3. n =< 1
        <4> HIDE DEF n
        <4> QED BY <2>3, <2>5
      <3> QED BY <1>2, <2>1, <3>1, <3>2, <3>3 DEF NamesOf
    <2> QED BY <2>4, <2>5
  <1> QED BY <1>1, <1>2

LEMMA ReleaseTyped ==
  ASSUME Inv1, NEW o \in AnyValue, ValueIn(o, Len(objs)), NEW rest \in Seq(AnyUpdate), UpdatesIn(rest, Len(cells), Len(objs)), Release(o, rest)
  PROVE  /\ objs' \in Seq(AnyObj) /\ Len(objs') = Len(objs) /\ ObjsIn(objs', Len(cells))
         /\ work' \in Seq(AnyUpdate) /\ UpdatesIn(work', Len(cells), Len(objs))
  <1>1. CASE objs' = objs /\ work' = rest
    BY <1>1, KeptTypes
  <1>2. CASE /\ o \in DOMAIN objs /\ objs[o].count - 1 \in Nat
             /\ objs' = Recounted(o, objs[o].count - 1, TRUE) /\ work' = rest
    <2> DEFINE n == objs[o].count - 1
    <2>1. n \in Nat /\ objs' = Recounted(o, n, TRUE)
      BY <1>2
    <2> DEFINE t == Recounted(o, n, TRUE)
    <2>2. o \in DOMAIN objs /\ TRUE \in BOOLEAN
      BY <1>2
    <2> HIDE DEF n
    <2>3. t \in Seq(AnyObj) /\ Len(t) = Len(objs) /\ ObjsIn(t, Len(cells))
      BY <2>1, <2>2, RecountedFacts
    <2> HIDE DEF t
    <2> QED BY <1>2, <2>1, <2>3 DEF t
  <1>3. CASE /\ o \in DOMAIN objs
             /\ objs' = Recounted(o, 0, FALSE) /\ work' = Unrefs(NamesOf(objs[o].closure)) \o rest
    <2>1. objs' \in Seq(AnyObj) /\ Len(objs') = Len(objs) /\ ObjsIn(objs', Len(cells))
      BY <1>3, RecountedFacts
    <2> DEFINE g == objs[o].closure
               cs == NamesOf(g)
               c == Len(cells)
    <2>2. g \in [Name -> Nat] /\ NamesIn(g, c) /\ c \in Nat /\ Len(objs) \in Nat
      BY <1>3, StateFacts
    <2> HIDE DEF g
    <2>3. IsFiniteSet(cs) /\ cs \subseteq Nat /\ \A x : x \in cs <=> x # 0 /\ \E n \in Name : g[n] = x
      BY <2>2, NamesOfFacts
    <2> HIDE DEF cs, c
    <2>4. cs \subseteq 1 .. c
      BY <2>2, <2>3 DEF NamesIn
    <2>5. Unrefs(cs) \in Seq(AnyUpdate) /\ UpdatesIn(Unrefs(cs), c, Len(objs))
      BY <2>2, <2>3, <2>4, UnrefsBounded
    <2> DEFINE s == Unrefs(cs)
    <2>6. work' = s \o rest
      BY <1>3 DEF cs, g
    <2>7. s \in Seq(AnyUpdate) /\ UpdatesIn(s, c, Len(objs)) /\ UpdatesIn(rest, c, Len(objs))
      BY <2>5 DEF c
    <2> HIDE DEF s
    <2>8. s \o rest \in Seq(AnyUpdate) /\ UpdatesIn(s \o rest, c, Len(objs))
      BY <2>7, UpdatesConcat
    <2> QED BY <2>1, <2>6, <2>8 DEF c
  <1> QED BY <1>1, <1>2, <1>3, ReleaseForm

(* A cell whose value and count change.                                    *)
Recelled(c, v, r) == [cells EXCEPT ![c] = [cells[c] EXCEPT !.value = v, !.refs = r]]

LEMMA RecelledFacts ==
  ASSUME Inv1, NEW c \in DOMAIN cells, NEW v \in AnyValue, ValueIn(v, Len(objs)), NEW r \in Nat
  PROVE  /\ Recelled(c, v, r) \in Seq(AnyCell) /\ Len(Recelled(c, v, r)) = Len(cells) /\ DOMAIN Recelled(c, v, r) = DOMAIN cells
         /\ CellsIn(Recelled(c, v, r), Len(objs))
         /\ \A x \in DOMAIN cells : /\ Recelled(c, v, r)[x].value = IF x = c THEN v ELSE cells[x].value
                                    /\ Recelled(c, v, r)[x].refs = IF x = c THEN r ELSE cells[x].refs
  <1> DEFINE y == [cells[c] EXCEPT !.value = v, !.refs = r]
             t == [cells EXCEPT ![c] = y]
  <1>1. cells \in Seq(AnyCell) /\ CellsIn(cells, Len(objs)) /\ cells[c] \in AnyCell
    BY KeptTypes, LenFacts
  <1>2. y \in AnyCell /\ y.value = v /\ y.refs = r
    BY <1>1 DEF AnyCell
  <1>3. Recelled(c, v, r) = t
    BY DEF Recelled
  <1> HIDE DEF y
  <1>4. t \in Seq(AnyCell) /\ Len(t) = Len(cells) /\ DOMAIN t = DOMAIN cells /\ t[c] = y /\ \A k \in DOMAIN cells : k # c => t[k] = cells[k]
    BY <1>1, <1>2, ReplaceFacts
  <1> HIDE DEF t
  <1>5. CellsIn(t, Len(objs))
    BY <1>1, <1>2, <1>4 DEF CellsIn
  <1> QED BY <1>2, <1>3, <1>4, <1>5

LEMMA AddReferenceForm ==
  ASSUME Inv1, AddReference
  PROVE  /\ work # << >> /\ W.op = "add" /\ work' = Tail(work) /\ W.v = Nil /\ W.x \in AnyValue /\ ValueIn(W.x, Len(objs))
         /\ UNCHANGED <<cells, status, scenario, file, failed, acts, blocks, functions, frames, globals, lost>>
         /\ \/ W.x = Nil /\ objs' = objs
            \/ /\ W.x \in DOMAIN objs /\ objs[W.x].count + 1 \in Nat
               /\ objs' = Recounted(W.x, objs[W.x].count + 1, objs[W.x].live) /\ objs[W.x].live \in BOOLEAN
  <1>1. /\ work # << >> /\ W.op = "add" /\ work' = Tail(work)
        /\ objs' = IF W.x = Nil THEN objs ELSE [objs EXCEPT ![W.x].count = @ + 1]
        /\ UNCHANGED <<cells, status, scenario, file, failed, acts, blocks, functions, frames, globals, lost>>
    BY DEF AddReference, Updating, Unmoved, stores
  <1>2. W.v = Nil /\ W.x \in AnyValue /\ ValueIn(W.x, Len(objs))
    BY <1>1, WorkFacts DEF UpdateIn, AnyUpdate
  <1> DEFINE o == W.x
             x == objs[o]
             m == x.count + 1
  <1>3. CASE W.x # Nil
    <2>1. o \in DOMAIN objs
      BY <1>2, <1>3, StateFacts DEF ValueIn
    <2>2. x \in AnyObj
      BY <2>1, StateFacts
    <2>3. m \in Nat /\ x.live \in BOOLEAN
      BY <2>2 DEF AnyObj
    <2>4. objs' = [objs EXCEPT ![o].count = m]
      BY <1>1, <1>3
    <2> HIDE DEF m
    <2>5. [x EXCEPT !.count = m] = [x EXCEPT !.count = m, !.live = x.live]
      <3> HIDE DEF x
      <3> QED BY <2>2, <2>3 DEF AnyObj
    <2>6. objs' = Recounted(o, m, x.live)
      BY <2>4, <2>5 DEF Recounted
    <2> QED BY <1>1, <1>2, <2>1, <2>3, <2>6 DEF m
  <1> QED BY <1>1, <1>2, <1>3

LEMMA AddReferenceInv ==
  ASSUME Inv1, AddReference
  PROVE  Inv1'
  <1>1. /\ work # << >> /\ work' = Tail(work)
        /\ UNCHANGED <<cells, status, scenario, file, failed, acts, blocks, functions, frames, globals, lost>>
    BY AddReferenceForm
  <1>2. objs' \in Seq(AnyObj) /\ Len(objs') = Len(objs) /\ ObjsIn(objs', Len(cells))
    <2>1. CASE objs' = objs
      BY <2>1, KeptTypes
    <2>2. CASE /\ W.x \in DOMAIN objs /\ objs[W.x].count + 1 \in Nat
               /\ objs' = Recounted(W.x, objs[W.x].count + 1, objs[W.x].live) /\ objs[W.x].live \in BOOLEAN
      <3> DEFINE o == W.x
                 n == objs[o].count + 1
                 l == objs[o].live
                 t == Recounted(o, n, l)
      <3>1. o \in DOMAIN objs /\ n \in Nat /\ l \in BOOLEAN /\ objs' = t
        BY <2>2
      <3> HIDE DEF o, n, l
      <3>2. t \in Seq(AnyObj) /\ Len(t) = Len(objs) /\ ObjsIn(t, Len(cells))
        BY <3>1, RecountedFacts
      <3> HIDE DEF t
      <3> QED BY <3>1, <3>2
    <2> QED BY <2>1, <2>2, AddReferenceForm
  <1>3. work' \in Seq(AnyUpdate) /\ UpdatesIn(work', Len(cells), Len(objs))
    BY <1>1, WorkFacts
  <1>4. cells' \in Seq(AnyCell) /\ Len(cells') = Len(cells) /\ CellsIn(cells', Len(objs))
    BY <1>1, KeptTypes
  <1> QED BY <1>1, <1>2, <1>3, <1>4, UpdateStep

LEMMA RemoveReferenceForm ==
  ASSUME Inv1, RemoveReference
  PROVE  /\ work # << >> /\ W.op = "drop" /\ W.v = Nil /\ W.x \in AnyValue /\ ValueIn(W.x, Len(objs)) /\ Release(W.x, Tail(work))
         /\ UNCHANGED <<cells, status, scenario, file, failed, acts, blocks, functions, frames, globals, lost>>
  <1>1. /\ work # << >> /\ W.op = "drop" /\ Release(W.x, Tail(work))
        /\ UNCHANGED <<cells, status, scenario, file, failed, acts, blocks, functions, frames, globals, lost>>
    BY DEF RemoveReference, Updating, Unmoved, stores
  <1>2. W.v = Nil /\ W.x \in AnyValue /\ ValueIn(W.x, Len(objs))
    BY <1>1, WorkFacts DEF UpdateIn, AnyUpdate
  <1> QED BY <1>1, <1>2

LEMMA RemoveReferenceInv ==
  ASSUME Inv1, RemoveReference
  PROVE  Inv1'
  <1> DEFINE o == W.x
             rest == Tail(work)
  <1>1. /\ work # << >> /\ o \in AnyValue /\ ValueIn(o, Len(objs)) /\ Release(o, rest)
        /\ UNCHANGED <<cells, status, scenario, file, failed, acts, blocks, functions, frames, globals, lost>>
    BY RemoveReferenceForm
  <1>2. rest \in Seq(AnyUpdate) /\ UpdatesIn(rest, Len(cells), Len(objs))
    BY <1>1, WorkFacts
  <1> HIDE DEF o, rest
  <1>3. /\ objs' \in Seq(AnyObj) /\ Len(objs') = Len(objs) /\ ObjsIn(objs', Len(cells))
        /\ work' \in Seq(AnyUpdate) /\ UpdatesIn(work', Len(cells), Len(objs))
    BY <1>1, <1>2, ReleaseTyped
  <1>4. cells' \in Seq(AnyCell) /\ Len(cells') = Len(cells) /\ CellsIn(cells', Len(objs))
    BY <1>1, KeptTypes
  <1> QED BY <1>1, <1>3, <1>4, UpdateStep

LEMMA ReleaseOldForm ==
  ASSUME Inv1, ReleaseOld
  PROVE  /\ work # << >> /\ W.op = "dropold" /\ W.v = Nil /\ W.x \in DOMAIN cells
         /\ cells[W.x].value \in AnyValue /\ ValueIn(cells[W.x].value, Len(objs)) /\ Release(cells[W.x].value, Tail(work))
         /\ status' = IF cells[W.x].refs = 0 THEN "dangling" ELSE status
         /\ UNCHANGED <<cells, scenario, file, failed, acts, blocks, functions, frames, globals, lost>>
  <1>1. /\ work # << >> /\ W.op = "dropold" /\ Release(cells[W.x].value, Tail(work))
        /\ status' = IF cells[W.x].refs = 0 THEN "dangling" ELSE status
        /\ UNCHANGED <<cells, scenario, file, failed, acts, blocks, functions, frames, globals, lost>>
    BY DEF ReleaseOld, Updating, Unmoved, stores, Touch
  <1>2. W.v = Nil /\ W.x \in DOMAIN cells
    BY <1>1, WorkFacts, StateFacts DEF UpdateIn, AnyUpdate
  <1> QED BY <1>1, <1>2, StateFacts

LEMMA ReleaseOldInv ==
  ASSUME Inv1, ReleaseOld
  PROVE  Inv1'
  <1> DEFINE o == cells[W.x].value
             rest == Tail(work)
  <1>1. /\ work # << >> /\ o \in AnyValue /\ ValueIn(o, Len(objs)) /\ Release(o, rest) /\ status' \in {status, "dangling"}
        /\ UNCHANGED <<cells, scenario, file, failed, acts, blocks, functions, frames, globals, lost>>
    BY ReleaseOldForm
  <1>2. rest \in Seq(AnyUpdate) /\ UpdatesIn(rest, Len(cells), Len(objs))
    BY <1>1, WorkFacts
  <1> HIDE DEF o, rest
  <1>3. /\ objs' \in Seq(AnyObj) /\ Len(objs') = Len(objs) /\ ObjsIn(objs', Len(cells))
        /\ work' \in Seq(AnyUpdate) /\ UpdatesIn(work', Len(cells), Len(objs))
    BY <1>1, <1>2, ReleaseTyped
  <1>4. cells' \in Seq(AnyCell) /\ Len(cells') = Len(cells) /\ CellsIn(cells', Len(objs))
    BY <1>1, KeptTypes
  <1> QED BY <1>1, <1>3, <1>4, UpdateStep

LEMMA RemoveCellReferenceForm ==
  ASSUME Inv1, RemoveCellReference
  PROVE  /\ work # << >> /\ W.op = "unref" /\ W.v = Nil /\ W.x \in DOMAIN cells /\ cells[W.x].refs \in Nat
         /\ status' = IF cells[W.x].refs = 0 THEN "dangling" ELSE status
         /\ cells[W.x].value \in AnyValue /\ ValueIn(cells[W.x].value, Len(objs))
         /\ (cells[W.x].refs = 0 => cells' = Recelled(W.x, cells[W.x].value, 0) /\ work' = Tail(work))
         /\ (cells[W.x].refs = 1 => cells' = Recelled(W.x, cells[W.x].value, 0) /\ work' = <<Drop(cells[W.x].value)>> \o Tail(work))
         /\ (cells[W.x].refs > 1 => cells' = Recelled(W.x, cells[W.x].value, cells[W.x].refs - 1) /\ work' = Tail(work))
         /\ UNCHANGED <<objs, scenario, file, failed, acts, blocks, functions, frames, globals, lost>>
  <1> DEFINE c == W.x
             x == cells[c]
             r == x.refs
             m == IF r = 0 THEN 0 ELSE r - 1
  <1>1. /\ work # << >> /\ W.op = "unref" /\ status' = IF r = 0 THEN "dangling" ELSE status
        /\ cells' = [cells EXCEPT ![c].refs = m]
        /\ work' = IF r = 1 THEN <<Drop(x.value)>> \o Tail(work) ELSE Tail(work)
        /\ UNCHANGED <<objs, scenario, file, failed, acts, blocks, functions, frames, globals, lost>>
    BY DEF RemoveCellReference, Updating, Unmoved, stores, Touch
  <1>2. W.v = Nil /\ W.x \in DOMAIN cells
    BY <1>1, WorkFacts, StateFacts DEF UpdateIn, AnyUpdate
  <1>3. x \in AnyCell /\ r \in Nat /\ x.value \in AnyValue /\ ValueIn(x.value, Len(objs))
    BY <1>2, StateFacts
  <1> HIDE DEF r, m
  <1>4. [x EXCEPT !.refs = m] = [x EXCEPT !.value = x.value, !.refs = m]
    <2> HIDE DEF x
    <2> QED BY <1>3 DEF AnyCell
  <1>5. cells' = Recelled(c, x.value, m)
    BY <1>1, <1>4 DEF Recelled
  <1>6. (r = 0 => m = 0) /\ (r = 1 => m = 0) /\ (r > 1 => m = r - 1 /\ r # 1)
    BY <1>3 DEF m
  <1>7. /\ (r = 0 => cells' = Recelled(c, x.value, 0) /\ work' = Tail(work))
        /\ (r = 1 => cells' = Recelled(c, x.value, 0) /\ work' = <<Drop(x.value)>> \o Tail(work))
        /\ (r > 1 => cells' = Recelled(c, x.value, r - 1) /\ work' = Tail(work))
    <2>1. (r = 0 => r # 1) /\ (r > 1 => r # 1)
      BY <1>3
    <2> DEFINE q == <<Drop(x.value)>> \o Tail(work)
               t == Tail(work)
    <2>2. work' = IF r = 1 THEN q ELSE t
      BY <1>1
    <2> HIDE DEF q, t, c, x
    <2>3. /\ (r = 0 => cells' = Recelled(c, x.value, 0) /\ work' = t)
          /\ (r = 1 => cells' = Recelled(c, x.value, 0) /\ work' = q)
          /\ (r > 1 => cells' = Recelled(c, x.value, r - 1) /\ work' = t)
      BY <1>5, <1>6, <2>1, <2>2
    <2> QED BY <2>3 DEF q, t
  <1> QED BY <1>1, <1>2, <1>3, <1>7 DEF r

LEMMA RemoveCellReferenceInv ==
  ASSUME Inv1, RemoveCellReference
  PROVE  Inv1'
  <1> DEFINE c == W.x
             v == cells[c].value
             r == cells[c].refs
             rest == Tail(work)
             n == Len(cells)
             o == Len(objs)
  <1>1. /\ work # << >> /\ c \in DOMAIN cells /\ r \in Nat /\ status' \in {status, "dangling"} /\ v \in AnyValue /\ ValueIn(v, o)
        /\ (r = 0 => cells' = Recelled(c, v, 0) /\ work' = rest)
        /\ (r = 1 => cells' = Recelled(c, v, 0) /\ work' = <<Drop(v)>> \o rest)
        /\ (r > 1 => cells' = Recelled(c, v, r - 1) /\ work' = rest)
        /\ UNCHANGED <<objs, scenario, file, failed, acts, blocks, functions, frames, globals, lost>>
    BY RemoveCellReferenceForm
  <1>2. rest \in Seq(AnyUpdate) /\ UpdatesIn(rest, n, o)
    BY <1>1, WorkFacts
  <1> HIDE DEF c, v, r, rest
  <1>3. PICK m \in Nat : cells' = Recelled(c, v, m)
    <2>1. r > 1 => r - 1 \in Nat
      BY <1>1
    <2>2. r = 0 \/ r = 1 \/ r > 1
      BY <1>1
    <2> QED BY <1>1, <2>1, <2>2
  <1>4. cells' \in Seq(AnyCell) /\ Len(cells') = Len(cells) /\ CellsIn(cells', o)
    <2> DEFINE t == Recelled(c, v, m)
    <2>1. t \in Seq(AnyCell) /\ Len(t) = Len(cells) /\ CellsIn(t, o)
      BY <1>1, RecelledFacts
    <2> HIDE DEF t
    <2> QED BY <1>3, <2>1 DEF t
  <1>5. work' \in Seq(AnyUpdate) /\ UpdatesIn(work', n, o)
    <2>1. work' = rest \/ work' = <<Drop(v)>> \o rest
      BY <1>1
    <2> DEFINE s == <<Drop(v)>>
    <2>2. s \in Seq(AnyUpdate) /\ UpdatesIn(s, n, o)
      <3>1. n \in Nat /\ o \in Nat
        BY StateFacts
      <3> HIDE DEF n, o
      <3>2. Drop(v) \in AnyUpdate /\ UpdateIn(Drop(v), n, o)
        BY <1>1, <3>1, ValueUpdatesBounded
      <3> QED BY <3>2 DEF UpdatesIn
    <2> HIDE DEF s, n, o
    <2>3. s \o rest \in Seq(AnyUpdate) /\ UpdatesIn(s \o rest, n, o)
      BY <1>2, <2>2, UpdatesConcat
    <2> QED BY <1>2, <2>1, <2>3 DEF s
  <1>6. objs' \in Seq(AnyObj) /\ Len(objs') = Len(objs) /\ ObjsIn(objs', Len(cells))
    BY <1>1, KeptTypes
  <1> QED BY <1>1, <1>4, <1>5, <1>6, UpdateStep

LEMMA WriteCellForm ==
  ASSUME Inv1, WriteCell
  PROVE  /\ work # << >> /\ W.op = "write" /\ W.x \in DOMAIN cells /\ cells[W.x].refs \in Nat
         /\ W.v \in AnyValue /\ ValueIn(W.v, Len(objs))
         /\ status' = IF cells[W.x].refs = 0 THEN "dangling" ELSE status
         /\ cells' = Recelled(W.x, W.v, cells[W.x].refs) /\ work' = Tail(work)
         /\ UNCHANGED <<objs, scenario, file, failed, acts, blocks, functions, frames, globals, lost>>
  <1> DEFINE c == W.x
             x == cells[c]
             v == W.v
  <1>1. /\ work # << >> /\ W.op = "write" /\ status' = IF x.refs = 0 THEN "dangling" ELSE status
        /\ cells' = [cells EXCEPT ![c].value = v] /\ work' = Tail(work)
        /\ UNCHANGED <<objs, scenario, file, failed, acts, blocks, functions, frames, globals, lost>>
    BY DEF WriteCell, Updating, Unmoved, stores, Touch
  <1>2. W.x \in DOMAIN cells /\ W.v \in AnyValue /\ ValueIn(W.v, Len(objs))
    BY <1>1, WorkFacts, StateFacts DEF UpdateIn, AnyUpdate
  <1>3. x \in AnyCell /\ x.refs \in Nat
    BY <1>2, StateFacts
  <1>4. [x EXCEPT !.value = v] = [x EXCEPT !.value = v, !.refs = x.refs]
    <2> HIDE DEF x, v
    <2> QED BY <1>3 DEF AnyCell
  <1>5. cells' = Recelled(c, v, x.refs)
    BY <1>1, <1>4 DEF Recelled
  <1> QED BY <1>1, <1>2, <1>3, <1>5

LEMMA WriteCellInv ==
  ASSUME Inv1, WriteCell
  PROVE  Inv1'
  <1> DEFINE c == W.x
             v == W.v
             r == cells[c].refs
             t == Recelled(c, v, r)
  <1>1. /\ work # << >> /\ c \in DOMAIN cells /\ r \in Nat /\ v \in AnyValue /\ ValueIn(v, Len(objs)) /\ status' \in {status, "dangling"}
        /\ cells' = t /\ work' = Tail(work)
        /\ UNCHANGED <<objs, scenario, file, failed, acts, blocks, functions, frames, globals, lost>>
    BY WriteCellForm
  <1> HIDE DEF c, v, r
  <1>2. t \in Seq(AnyCell) /\ Len(t) = Len(cells) /\ CellsIn(t, Len(objs))
    BY <1>1, RecelledFacts
  <1> HIDE DEF t
  <1>3. objs' \in Seq(AnyObj) /\ Len(objs') = Len(objs) /\ ObjsIn(objs', Len(cells))
    BY <1>1, KeptTypes
  <1>4. work' \in Seq(AnyUpdate) /\ UpdatesIn(work', Len(cells), Len(objs))
    BY <1>1, WorkFacts
  <1> QED BY <1>1, <1>2, <1>3, <1>4, UpdateStep

-----------------------------------------------------------------------------
(* The second variable of a left side, or of a local statement.            *)

Second == IF Lookup(S.id2) = 0 THEN Len(cells) + 1 ELSE Lookup(S.id2)
SecondAct == [Top EXCEPT !.fill = Second]
WithSecond == IF Lookup(S.id2) = 0 THEN Append(cells, NewCell(Nil)) ELSE cells
GlobalsWithSecond == IF Lookup(S.id2) = 0 THEN PutName(globals, S.id2, Len(cells) + 1) ELSE globals

LEMMA VisitSecondForm ==
  ASSUME Inv1, VisitSecond
  PROVE  /\ status = "run" /\ work = << >> /\ Top.op \in Blocky /\ Top.at = "stat" /\ Top.held = << >> /\ Top.val = Nil
         /\ Top.i \in DOMAIN Code_(Top.ctx).stats /\ S = Code_(Top.ctx).stats[Top.i] /\ Top.fill = 0
         /\ S.op = "assign" /\ S.id2 \in Name /\ ~ ReadsFreed(S.id2)
         /\ acts' = SetTop(SecondAct) /\ cells' = WithSecond /\ globals' = GlobalsWithSecond
         /\ UNCHANGED <<scenario, file, status, failed, blocks, functions, frames, objs, work, lost>>
  <1> DEFINE ops == {"assign"}
  <1>1. AtStat(ops) /\ S.id2 # Nil /\ Top.fill = 0 /\ Readable
    BY DEF VisitSecond
  <1>2. S.op = "assign"
    BY <1>1 DEF AtStat
  <1> HIDE DEF ops
  <1>3. /\ status = "run" /\ work = << >> /\ Top.op \in Blocky /\ Top.at = "stat" /\ Top.held = << >> /\ Top.val = Nil
        /\ Top.i \in DOMAIN Code_(Top.ctx).stats /\ S = Code_(Top.ctx).stats[Top.i] /\ S.id2 \in Name
    BY <1>1, StatFacts
  <1>4. ~ ReadsFreed(S.id2)
    BY <1>1, <1>2 DEF Readable, Names
  <1>5. acts' = SetTop(SecondAct) /\ cells' = WithSecond /\ globals' = GlobalsWithSecond
    BY DEF VisitSecond, SecondAct, Second, WithSecond, GlobalsWithSecond, PutName, NextCell
  <1>6. UNCHANGED <<scenario, file, status, failed, blocks, functions, frames, objs, work, lost>>
    BY DEF VisitSecond
  <1> QED BY <1>1, <1>2, <1>3, <1>4, <1>5, <1>6

LEMMA SecondFacts ==
  ASSUME Inv1, VisitSecond
  PROVE  /\ WithSecond \in Seq(AnyCell) /\ CellsIn(WithSecond, Len(objs))
         /\ Len(WithSecond) = IF Lookup(S.id2) = 0 THEN Len(cells) + 1 ELSE Len(cells)
         /\ \A k \in 1 .. Len(cells) : WithSecond[k] = cells[k]
         /\ Lookup(S.id2) = 0 => WithSecond[Len(cells) + 1] = NewCell(Nil)
         /\ Second \in 1 .. Len(WithSecond)
         /\ GlobalsWithSecond \in [Name -> Nat] /\ NamesIn(GlobalsWithSecond, Len(WithSecond))
         /\ \A n \in Name : GlobalsWithSecond[n] = IF Lookup(S.id2) = 0 /\ n = S.id2 THEN Len(cells) + 1 ELSE globals[n]
  <1> DEFINE n == S.id2
             c == Len(cells) + 1
  <1>1. n \in Name /\ status = "run"
    BY VisitSecondForm
  <1>2. /\ cells \in Seq(AnyCell) /\ CellsIn(cells, Len(objs)) /\ Len(cells) \in Nat /\ Len(objs) \in Nat
        /\ globals \in [Name -> Nat] /\ NamesIn(globals, Len(cells))
    BY KeptTypes
  <1>3. Lookup(n) \in 0 .. Len(cells)
    BY <1>1, LookupFacts
  <1>4. CASE Lookup(n) = 0
    <2>1. Nil \in AnyValue /\ ValueIn(Nil, Len(objs))
      BY DEF AnyValue, ValueIn
    <2> DEFINE t == Append(cells, NewCell(Nil))
    <2>2. /\ t \in Seq(AnyCell) /\ Len(t) = Len(cells) + 1 /\ CellsIn(t, Len(objs))
          /\ (\A k \in 1 .. Len(cells) : t[k] = cells[k]) /\ t[Len(cells) + 1] = NewCell(Nil)
      BY <1>2, <2>1, CellsAppend
    <2>3. WithSecond = t /\ Second = c
      BY <1>4 DEF WithSecond, Second
    <2> HIDE DEF t
    <2>4. c \in Nat /\ c =< c /\ Len(cells) =< c
      BY <1>2
    <2>5. NamesIn(globals, c)
      BY <1>2, <2>4, BoundsGrow
    <2> DEFINE g == PutName(globals, n, c)
    <2>6. g \in [Name -> Nat] /\ NamesIn(g, c) /\ \A k \in Name : g[k] = IF k = n THEN c ELSE globals[k]
      <3>1. g = PutName(globals, n, c)
        OBVIOUS
      <3> HIDE DEF c, n, g
      <3>2. g = PutName(globals, n, c) /\ globals \in [Name -> Nat] /\ n \in Name /\ c \in Nat
        BY <1>1, <1>2, <2>4, <3>1
      <3>3. /\ g \in [Name -> Nat] /\ (\A k \in Name : g[k] = IF k = n THEN c ELSE globals[k])
            /\ \A m \in Nat : NamesIn(globals, m) /\ c =< m => NamesIn(g, m)
        BY ONLY <3>2, NamePut
      <3> QED BY <2>4, <2>5, <3>2, <3>3
    <2>7. GlobalsWithSecond = g
      BY <1>4 DEF GlobalsWithSecond
    <2> HIDE DEF g
    <2> QED BY <1>2, <1>4, <2>2, <2>3, <2>4, <2>6, <2>7
  <1>5. CASE Lookup(n) # 0
    BY <1>2, <1>3, <1>5 DEF WithSecond, Second, GlobalsWithSecond
  <1> QED BY <1>4, <1>5

LEMMA SecondActFacts ==
  ASSUME Inv1, VisitSecond
  PROVE  /\ SecondAct \in AnyAct /\ SamePlace(SecondAct, Top) /\ Kind(SecondAct) /\ SecondAct.val = Nil
         /\ Placed(SecondAct, scenario.code) /\ ActIn(SecondAct, Len(WithSecond), Len(objs))
         /\ SecondAct.at = "stat" /\ SecondAct.held = << >> /\ SecondAct.fill = Second /\ SecondAct.op = Top.op
         /\ SecondAct.ctx = Top.ctx /\ SecondAct.cell = Top.cell /\ SecondAct.level = Top.level /\ SecondAct.env = Top.env
         /\ SecondAct.name = Top.name
  <1> DEFINE a == SecondAct
             s == Second
             m == Len(WithSecond)
  <1>1. /\ status = "run" /\ Top.op \in Blocky /\ Top.at = "stat" /\ Top.held = << >> /\ Top.val = Nil
        /\ Top.i \in DOMAIN Code_(Top.ctx).stats /\ S = Code_(Top.ctx).stats[Top.i]
        /\ S.op = "assign" /\ S.id2 \in Name
    BY VisitSecondForm
  <1>2. Top \in AnyAct /\ Kind(Top) /\ ActIn(Top, Len(cells), Len(objs))
    BY <1>1, RunFacts
  <1>3. s \in 1 .. m /\ m \in Nat /\ Len(cells) =< m /\ Len(cells) \in Nat /\ Len(objs) \in Nat /\ Len(objs) =< Len(objs)
    BY SecondFacts, StateFacts
  <1>4. ActIn(Top, m, Len(objs))
    <2> HIDE DEF m
    <2> QED BY <1>2, <1>3, BoundsGrow
  <1>5. a = [Top EXCEPT !.fill = s]
    BY DEF SecondAct
  <1>6. s \in Nat /\ s =< m /\ s # 0
    BY <1>3
  <1> HIDE DEF s, m
  <1>7. /\ a \in AnyAct /\ a.at = "stat" /\ a.val = Nil /\ a.cell = Top.cell /\ a.i = Top.i /\ a.env = Top.env /\ a.fill = s
        /\ a.op = Top.op /\ a.ctx = Top.ctx /\ a.cur = Top.cur /\ a.base = Top.base /\ a.level = Top.level /\ a.held = << >>
        /\ a.name = Top.name
    BY <1>1, <1>2, <1>5, <1>6 DEF AnyAct
  <1> HIDE DEF a
  <1>8. SamePlace(a, Top)
    BY <1>1, <1>7 DEF SamePlace
  <1>9. Kind(a)
    BY <1>1, <1>7 DEF Kind, Blocky
  <1>10. Placed(a, scenario.code)
    BY <1>1, <1>6, <1>7 DEF Placed, Fits, Code_
  <1>11. ActIn(a, m, Len(objs))
    BY <1>1, <1>4, <1>6, <1>7 DEF ActIn
  <1> QED BY <1>7, <1>8, <1>9, <1>10, <1>11 DEF a, s, m

LEMMA VisitSecondInv ==
  ASSUME Inv1, VisitSecond
  PROVE  Inv1'
  <1> DEFINE a == SecondAct
             m == Len(cells')
  <1>1. /\ status = "run" /\ Top.op \in Blocky /\ acts' = SetTop(a) /\ cells' = WithSecond /\ globals' = GlobalsWithSecond
        /\ UNCHANGED <<scenario, file, status, failed, blocks, functions, frames, objs, work, lost>>
    BY VisitSecondForm
  <1>2. /\ cells' \in Seq(AnyCell) /\ CellsIn(cells', Len(objs)) /\ m \in Nat /\ Len(cells) =< m
        /\ globals' \in [Name -> Nat] /\ NamesIn(globals', m)
    BY <1>1, SecondFacts, StateFacts
  <1>3. a \in AnyAct /\ SamePlace(a, Top) /\ Kind(a) /\ a.val = Nil /\ Placed(a, scenario.code) /\ ActIn(a, m, Len(objs))
    BY <1>1, SecondActFacts
  <1>4. /\ FramesIn(frames, m) /\ ObjsIn(objs, m) /\ lost \subseteq 1 .. m /\ UpdatesIn(work, m, Len(objs))
        /\ frames \in Seq(AnyStore) /\ objs \in Seq(AnyObj) /\ work \in Seq(AnyUpdate) /\ Len(objs) =< Len(objs)
    <2>1. Len(objs) \in Nat /\ Len(objs) =< Len(objs)
      BY StateFacts
    <2> HIDE DEF m
    <2> QED BY <1>2, <2>1, KeptFacts DEF Inv1, Loose
  <1>5. \A l \in DOMAIN frames : \A b \in Block, n \in Name : frames'[l][b][n] # 0 =>
          frames[l][b][n] # 0 \/ (l = Len(frames) /\ b = Top.ctx)
    BY <1>1
  <1>6. Top.op \in InBlock
    BY <1>1 DEF Blocky, InBlock
  <1> HIDE DEF a
  <1> QED BY <1>1, <1>2, <1>3, <1>4, <1>5, <1>6, TopStep, SMTT(60)

LEMMA FillLocalForm ==
  ASSUME Inv1, FillLocal
  PROVE  /\ status = "run" /\ work = << >> /\ Top.op \in Blocky /\ Top.val = Nil /\ Top.held = << >>
         /\ Top.ctx \in Block /\ S.id2 \in Name /\ Current = Top.ctx
         /\ Frame[Top.ctx][S.id2] \in 0 .. Len(cells)
         /\ cells' = Append(cells, NewCell(Nil))
         /\ lost' = lost \cup ({Frame[Top.ctx][S.id2]} \ {0})
         /\ frames' = SetFrame(Put(Frame, Top.ctx, S.id2, Len(cells) + 1))
         /\ acts' = SetTop([Advanced EXCEPT !.env = PutName(Top.env, S.id2, Len(cells) + 1)])
         /\ UNCHANGED <<scenario, file, status, failed, blocks, functions, globals, objs, work>>
  <1> DEFINE ops == {"local"}
             b == Top.ctx
             n == S.id2
             c == Len(cells) + 1
  <1>1. AtFill(ops)
    BY DEF FillLocal
  <1> HIDE DEF ops
  <1>2. /\ status = "run" /\ work = << >> /\ Top.op \in Blocky /\ Top.val = Nil /\ Top.held = << >>
        /\ b \in Block /\ n \in Name /\ Current = b /\ Top \in AnyAct
    BY <1>1, FillFacts
  <1>3. Frame[b][n] \in 0 .. Len(cells)
    <2>1. Frame \in AnyStore /\ StoreIn(Frame, Len(cells)) /\ Len(cells) \in Nat
      BY <1>2, RunFacts, StateFacts
    <2> QED BY <1>2, <2>1 DEF AnyStore, StoreIn, NamesIn
  <1>4. /\ cells' = Append(cells, NewCell(Nil)) /\ lost' = lost \cup ({Frame[b][n]} \ {0})
        /\ frames' = SetFrame([Frame EXCEPT ![b][n] = c])
        /\ acts' = SetTop([Advanced EXCEPT !.env = [@ EXCEPT ![n] = c]])
        /\ UNCHANGED <<scenario, file, status, failed, blocks, functions, globals, objs, work>>
    BY <1>2 DEF FillLocal, NextCell
  <1>5. Advanced.env = Top.env
    BY <1>2 DEF Advanced, AnyAct
  <1>6. [Advanced EXCEPT !.env = [@ EXCEPT ![n] = c]] = [Advanced EXCEPT !.env = PutName(Top.env, n, c)]
    BY <1>5 DEF PutName
  <1>7. [Frame EXCEPT ![b][n] = c] = Put(Frame, b, n, c)
    BY DEF Put
  <1> QED BY <1>2, <1>3, <1>4, <1>6, <1>7

LEMMA FillLocalInv ==
  ASSUME Inv1, FillLocal
  PROVE  Inv1'
  <1> DEFINE b == Top.ctx
             n == S.id2
             c == Len(cells) + 1
             old == Frame[b][n]
             e == PutName(Top.env, n, c)
             a == [Advanced EXCEPT !.env = e]
             f == Put(Frame, b, n, c)
             fr == SetFrame(f)
             o == Len(objs)
  <1>1. /\ status = "run" /\ work = << >> /\ Top.op \in Blocky
        /\ b \in Block /\ n \in Name /\ old \in 0 .. Len(cells)
        /\ cells' = Append(cells, NewCell(Nil)) /\ lost' = lost \cup ({old} \ {0}) /\ frames' = fr /\ acts' = SetTop(a)
        /\ UNCHANGED <<scenario, file, status, failed, blocks, functions, globals, objs, work>>
    BY FillLocalForm
  <1> HIDE DEF old
  <1>2. /\ Top \in AnyAct /\ ActIn(Top, Len(cells), o) /\ Len(cells) \in Nat /\ o \in Nat
        /\ Frame \in AnyStore /\ StoreIn(Frame, Len(cells)) /\ frames # << >>
    BY <1>1, RunFacts, StateFacts
  <1>3. Top.env \in [Name -> Nat] /\ NamesIn(Top.env, Len(cells))
    BY <1>2, ActFacts DEF ActIn
  <1>4. c \in Nat /\ Len(cells) =< c /\ o =< o /\ c =< c
    BY <1>2
  <1>5. cells' \in Seq(AnyCell) /\ CellsIn(cells', o) /\ Len(cells') = c
    <2>1. Nil \in AnyValue /\ ValueIn(Nil, o) /\ cells \in Seq(AnyCell) /\ CellsIn(cells, o)
      BY KeptTypes DEF AnyValue, ValueIn
    <2> HIDE DEF o
    <2> QED BY <1>1, <1>2, <2>1, CellsAppend
  <1>6. e \in [Name -> Nat] /\ NamesIn(e, c)
    <2>1. NamesIn(Top.env, c)
      BY <1>2, <1>3, <1>4, BoundsGrow
    <2> HIDE DEF c, n
    <2> QED BY <1>1, <1>3, <1>4, <2>1, NamePut
  <1> HIDE DEF e
  <1>7. a \in AnyAct /\ SamePlace(a, Top) /\ Kind(a) /\ a.val = Nil /\ Placed(a, scenario.code) /\ ActIn(a, c, o)
    <2> HIDE DEF c, o
    <2> QED BY <1>1, <1>2, <1>4, <1>6, AdvancedFacts
  <1> HIDE DEF a
  <1>8. f \in AnyStore /\ StoreIn(f, c) /\ \A y \in Block, k \in Name : f[y][k] = IF y = b /\ k = n THEN c ELSE Frame[y][k]
    <2>1. StoreIn(Frame, c)
      BY <1>2, <1>4, BoundsGrow
    <2> HIDE DEF c, b, n
    <2>2. /\ f \in AnyStore /\ \A y \in Block, k \in Name : f[y][k] = IF y = b /\ k = n THEN c ELSE Frame[y][k]
          /\ \A q \in Nat : StoreIn(Frame, q) /\ c =< q => StoreIn(f, q)
      <3>1. f = Put(Frame, b, n, c)
        OBVIOUS
      <3> HIDE DEF f
      <3>2. f = Put(Frame, b, n, c) /\ Frame \in AnyStore /\ b \in Block /\ n \in Name /\ c \in Nat
        BY <1>1, <1>2, <1>4, <3>1
      <3> QED BY ONLY <3>2, EntryPut
    <2> QED BY <1>4, <2>1, <2>2
  <1> HIDE DEF f
  <1>9. /\ FramesIn(frames, c) /\ NamesIn(globals, c) /\ lost \subseteq 1 .. c /\ UpdatesIn(work, c, o) /\ ObjsIn(objs, c)
        /\ frames \in Seq(AnyStore) /\ objs \in Seq(AnyObj) /\ globals \in [Name -> Nat] /\ work \in Seq(AnyUpdate)
    <2> HIDE DEF c, o
    <2> QED BY <1>2, <1>4, KeptFacts DEF o, Inv1, Loose
  <1>10. /\ fr \in Seq(AnyStore) /\ Len(fr) = Len(frames) /\ FramesIn(fr, c)
         /\ fr[Len(frames)] = f /\ \A l \in DOMAIN frames : l # Len(frames) => fr[l] = frames[l]
    <2>1. fr = [frames EXCEPT ![Len(frames)] = f]
      BY DEF SetFrame
    <2> HIDE DEF c, fr
    <2> QED BY <1>2, <1>4, <1>8, <1>9, <2>1, FramePut
  <1>11. Frame = frames[Len(frames)]
    BY <1>1, RunFacts
  <1> HIDE DEF fr
  <1>12. \A l \in DOMAIN frames : \A y \in Block, k \in Name : frames'[l][y][k] # 0 =>
           frames[l][y][k] # 0 \/ (l = Len(frames) /\ y = Top.ctx)
    BY <1>1, <1>8, <1>10, <1>11
  <1>13. lost' \subseteq 1 .. c
    <2>1. {old} \ {0} \subseteq 1 .. c
      BY <1>1, <1>2
    <2> QED BY <1>1, <1>9, <2>1
  <1>14. c = Len(cells') /\ o = Len(objs') /\ Top.op \in InBlock
    BY <1>1, <1>5 DEF Blocky, InBlock
  <1> HIDE DEF c, o, b, n
  <1> QED BY <1>1, <1>4, <1>5, <1>7, <1>9, <1>10, <1>12, <1>13, <1>14, TopStep DEF o

LEMMA ForgetFacts ==
  ASSUME Inv1, NEW v \in AnyValue, ValueIn(v, Len(objs))
  PROVE  /\ Forget(v) \in Seq(AnyObj) /\ Len(Forget(v)) = Len(objs) /\ DOMAIN Forget(v) = DOMAIN objs
         /\ ObjsIn(Forget(v), Len(cells))
         /\ \A x \in DOMAIN objs : /\ Forget(v)[x].closure = objs[x].closure /\ Forget(v)[x].live = objs[x].live
                                   /\ Forget(v)[x].count = objs[x].count
                                   /\ Forget(v)[x].leaked = objs[x].leaked + B(x = v)
  <1>1. objs \in Seq(AnyObj) /\ ObjsIn(objs, Len(cells)) /\ Nil \notin Nat /\ DOMAIN objs = 1 .. Len(objs) /\ Len(objs) \in Nat
    BY KeptTypes, StateFacts
  <1>2. CASE v = Nil
    <2>1. \A x \in DOMAIN objs : x # v /\ objs[x].leaked \in Nat
      BY <1>1, <1>2, StateFacts DEF AnyObj
    <2>2. \A x \in DOMAIN objs : objs[x].leaked = objs[x].leaked + B(x = v)
      BY <2>1 DEF B
    <2> QED BY <1>1, <1>2, <2>2 DEF Forget
  <1>3. CASE v # Nil
    <2>1. v \in DOMAIN objs /\ Forget(v) = Overwrite(v)
      BY <1>1, <1>3 DEF ValueIn, Forget
    <2> QED BY <1>1, <2>1, OverwriteFacts
  <1> QED BY <1>2, <1>3

LEMMA FillAssignForm ==
  ASSUME Inv1, FillAssign
  PROVE  /\ status = "run" /\ work = << >> /\ Top.op \in Blocky /\ Top.at = "fill" /\ Top.val = Nil /\ Top.held = << >>
         /\ Top.fill \in DOMAIN cells /\ cells[Top.fill].refs \in Nat
         /\ cells[Top.fill].value \in AnyValue /\ ValueIn(cells[Top.fill].value, Len(objs))
         /\ status' = IF cells[Top.fill].refs = 0 THEN "dangling" ELSE status
         /\ cells' = Recelled(Top.fill, Nil, cells[Top.fill].refs)
         /\ objs' = Forget(cells[Top.fill].value)
         /\ acts' = SetTop(Advanced)
         /\ UNCHANGED <<scenario, file, failed, blocks, functions, frames, globals, work, lost>>
  <1> DEFINE ops == {"assign"}
             c == Top.fill
             x == cells[c]
  <1>1. AtFill(ops)
    BY DEF FillAssign
  <1>2. S.op = "assign"
    BY <1>1 DEF AtFill
  <1> HIDE DEF ops
  <1>3. /\ status = "run" /\ work = << >> /\ Top.op \in Blocky /\ Top.at = "fill" /\ Top.val = Nil /\ Top.held = << >>
        /\ Top \in AnyAct /\ c # 0
    BY <1>1, <1>2, FillFacts
  <1>4. c \in DOMAIN cells
    <2>1. c \in Nat /\ c =< Len(cells)
      BY <1>3, RunFacts, ActFacts DEF ActIn
    <2> QED BY <1>3, <2>1, StateFacts
  <1>5. x \in AnyCell /\ x.refs \in Nat /\ x.value \in AnyValue /\ ValueIn(x.value, Len(objs))
    BY <1>4, StateFacts
  <1>6. [x EXCEPT !.value = Nil] = [x EXCEPT !.value = Nil, !.refs = x.refs]
    <2> HIDE DEF x
    <2> QED BY <1>5 DEF AnyCell
  <1>7. cells' = Recelled(c, Nil, x.refs)
    BY <1>6 DEF FillAssign, Recelled
  <1>8. /\ status' = IF x.refs = 0 THEN "dangling" ELSE status
        /\ objs' = Forget(x.value) /\ acts' = SetTop(Advanced)
        /\ UNCHANGED <<scenario, file, failed, blocks, functions, frames, globals, work, lost>>
    BY DEF FillAssign, Touch, stores
  <1> QED BY <1>3, <1>4, <1>5, <1>7, <1>8

LEMMA FillAssignInv ==
  ASSUME Inv1, FillAssign
  PROVE  Inv1'
  <1> DEFINE c == Top.fill
             v == cells[c].value
             r == cells[c].refs
             t == Recelled(c, Nil, r)
             a == Advanced
  <1>1. /\ status = "run" /\ Top.op \in Blocky /\ c \in DOMAIN cells /\ r \in Nat /\ v \in AnyValue /\ ValueIn(v, Len(objs))
        /\ status' \in {status, "dangling"} /\ cells' = t /\ objs' = Forget(v) /\ acts' = SetTop(a)
        /\ UNCHANGED <<scenario, file, failed, blocks, functions, frames, globals, work, lost>>
    BY FillAssignForm
  <1>2. Nil \in AnyValue /\ ValueIn(Nil, Len(objs))
    BY DEF AnyValue, ValueIn
  <1> HIDE DEF c, v, r
  <1>3. t \in Seq(AnyCell) /\ Len(t) = Len(cells) /\ CellsIn(t, Len(objs))
    <2> DEFINE nil == Nil
    <2>1. nil \in AnyValue /\ ValueIn(nil, Len(objs)) /\ t = Recelled(c, nil, r)
      BY <1>2
    <2> HIDE DEF nil, t
    <2> QED BY <1>1, <2>1, RecelledFacts
  <1> HIDE DEF t
  <1>4. objs' \in Seq(AnyObj) /\ Len(objs') = Len(objs) /\ ObjsIn(objs', Len(cells))
    BY <1>1, ForgetFacts
  <1>5. /\ Top.env \in [Name -> Nat] /\ NamesIn(Top.env, Len(cells)) /\ Len(cells) \in Nat /\ Len(objs) \in Nat
        /\ Len(objs) =< Len(objs) /\ Len(cells) =< Len(cells) /\ Top \in AnyAct
    BY <1>1, RunFacts, ActFacts, StateFacts DEF ActIn
  <1>6. /\ a \in AnyAct /\ SamePlace(a, Top) /\ Kind(a) /\ a.val = Nil
        /\ Placed(a, scenario.code) /\ ActIn(a, Len(cells), Len(objs)) /\ a.held = << >>
    <2> DEFINE e == Top.env
    <2>1. e \in [Name -> Nat] /\ e = Top.env /\ NamesIn(e, Len(cells)) /\ a = Advanced
      BY <1>5
    <2> HIDE DEF e, a
    <2> QED BY <1>1, <1>5, <2>1, AdvancedFacts
  <1> HIDE DEF a
  <1>7. /\ frames' \in Seq(AnyStore) /\ FramesIn(frames', Len(cells')) /\ globals' \in [Name -> Nat] /\ NamesIn(globals', Len(cells'))
        /\ cells' \in Seq(AnyCell) /\ CellsIn(cells', Len(objs')) /\ objs' \in Seq(AnyObj) /\ ObjsIn(objs', Len(cells'))
        /\ Len(objs) =< Len(objs') /\ Len(cells) =< Len(cells') /\ lost' \subseteq 1 .. Len(cells')
        /\ work' \in Seq(AnyUpdate) /\ UpdatesIn(work', Len(cells'), Len(objs')) /\ failed' \in BOOLEAN
        /\ ActIn(a, Len(cells'), Len(objs')) /\ Len(frames') = Len(frames)
    <2>1. Len(cells') = Len(cells) /\ Len(objs') = Len(objs)
      BY <1>1, <1>3, <1>4
    <2> QED BY <1>1, <1>3, <1>4, <1>5, <1>6, <2>1, KeptTypes
  <1>8. CASE status' = status
    <2>1. Top.op \in InBlock
      BY <1>1 DEF Blocky, InBlock
    <2>2. \A l \in DOMAIN frames : \A b \in Block, n \in Name : frames'[l][b][n] # 0 =>
            frames[l][b][n] # 0 \/ (l = Len(frames) /\ b = Top.ctx)
      BY <1>1
    <2>3. UNCHANGED <<scenario, file, status, failed, blocks, functions>>
      BY <1>1, <1>8
    <2> QED BY <1>1, <1>6, <1>7, <2>1, <2>2, <2>3, TopStep
  <1>9. CASE status' = "dangling"
    <2> DEFINE s == SetTop(a)
    <2>1. /\ s \in Seq(AnyAct) /\ Len(s) = Len(acts) /\ DOMAIN s = DOMAIN acts /\ s[Len(s)] = a
          /\ \A k \in DOMAIN acts : (k # Len(acts) => s[k] = acts[k])
          /\ ActsIn(s, Len(cells), Len(objs))
      <3>1. s = SetTop(a) /\ ActsIn(acts, Len(cells), Len(objs))
        BY KeptTypes
      <3> HIDE DEF s
      <3> QED BY <1>1, <1>6, <3>1, TopReplaced
    <2> HIDE DEF s
    <2>2. \A k \in DOMAIN s : Len(s[k].held) =< 4
      BY <1>6, <2>1, KeptTypes
    <2>3. acts' = s
      BY <1>1 DEF s
    <2>4. acts' \in Seq(AnyAct) /\ ActsIn(acts', Len(cells'), Len(objs')) /\ \A k \in DOMAIN acts' : Len(acts'[k].held) =< 4
      BY <1>1, <1>3, <1>4, <2>1, <2>2, <2>3
    <2> QED BY <1>1, <1>7, <1>9, <2>4, StopStep
  <1> QED BY <1>1, <1>8, <1>9

-----------------------------------------------------------------------------
(* The first invariant holds.                                              *)

LEMMA Inv1Init ==
  ASSUME Init
  PROVE  Inv1
  <1>1. Loose
    <2>1. Len(scenario.files) \in Nat
      BY ScenarioAssumption, LenFacts DEF Init
    <2>2. file \in 0 .. Len(scenario.files) /\ globals \in [Name -> Nat] /\ scenario \in Scenarios
      BY <2>1 DEF Init, NoNames
    <2>3. acts \in Seq(AnyAct) /\ blocks \in Seq(Block) /\ frames \in Seq(AnyStore) /\ functions \in Seq(Nat)
      BY DEF Init
    <2>4. cells \in Seq(AnyCell) /\ objs \in Seq(AnyObj) /\ work \in Seq(AnyUpdate)
      BY DEF Init
    <2> QED BY <2>2, <2>3, <2>4 DEF Init, Loose
  <1>2. Bounded
    <2>1. /\ ActsIn(acts, 0, 0) /\ FramesIn(frames, 0) /\ NamesIn(globals, 0) /\ FunctionsIn(functions, 0)
          /\ CellsIn(cells, 0) /\ ObjsIn(objs, 0) /\ lost \subseteq 1 .. 0 /\ UpdatesIn(work, 0, 0)
      BY DEF Init, ActsIn, FramesIn, NamesIn, FunctionsIn, CellsIn, ObjsIn, UpdatesIn, NoNames
    <2>2. Len(cells) = 0 /\ Len(objs) = 0
      BY DEF Init
    <2> QED BY <2>1, <2>2 DEF Bounded
  <1>3. Heights
    BY DEF Init, Heights
  <1>4. Quiet
    BY DEF Init, Quiet
  <1> QED BY <1>1, <1>2, <1>3, <1>4 DEF Init, Inv1

LEMMA Inv1Next ==
  ASSUME Inv1, [Next]_vars
  PROVE  Inv1'
  <1>1. CASE RunFile \/ FinishFile \/ Unwind \/ FailFile \/ Destroy \/ DestroyFrame
    BY <1>1, RunFileInv, FinishFileInv, UnwindInv, FailFileInv, DestroyInv, DestroyFrameInv
  <1>2. CASE VisitSecond \/ EvalValue \/ EvalFunction \/ EvalCall \/ ThrowError \/ ReadFreed \/ CallStale \/ Crash \/ CutRun
    BY <1>2, VisitSecondInv, EvalValueInv, EvalFunctionInv, EvalCallInv, ThrowErrorInv, EndingsInv
  <1>3. CASE StoreLocal \/ FillLocal \/ StoreAssign \/ FillAssign \/ Discard \/ DefineFunction
    BY <1>3, StoreLocalInv, FillLocalInv, StoreAssignInv, FillAssignInv, DiscardInv, DefineFunctionInv
  <1>4. CASE Enter \/ StartFor \/ Round \/ NextRound \/ EndFor \/ FinishBlock \/ FinishCall \/ CatchReturn \/ ReturnFromChunk
    BY <1>4, EnterInv, StartForInv, RoundInv, NextRoundInv, EndForInv, FinishBlockInv, FinishCallInv, CatchReturnInv, ReturnFromChunkInv
  <1>5. CASE Update
    BY <1>5, AddReferenceInv, RemoveReferenceInv, ReleaseOldInv, RemoveCellReferenceInv, WriteCellInv DEF Update
  <1>6. CASE UNCHANGED vars
    BY <1>6 DEF vars, control, stores, memory, Inv1, Loose, Bounded, Struct, Heights, Quiet
  <1> QED BY <1>1, <1>2, <1>3, <1>4, <1>5, <1>6 DEF Next, Step, Ended

-----------------------------------------------------------------------------
(* Types.                                                                  *)

AllIn(s, C) == \A k \in DOMAIN s : s[k] \in C

LEMMA SeqRetyped ==
  ASSUME NEW A, NEW C, NEW s \in Seq(A), AllIn(s, C)
  PROVE  s \in Seq(C)
  <1>1. Len(s) \in Nat /\ DOMAIN s = 1 .. Len(s) /\ s = [k \in 1 .. Len(s) |-> s[k]]
    BY LenFacts
  <1>2. \A k \in 1 .. Len(s) : s[k] \in C
    BY <1>1 DEF AllIn
  <1> QED BY <1>1, <1>2

LEMMA NamesTyped ==
  ASSUME NEW g \in [Name -> Nat], NEW c \in Nat, NamesIn(g, c)
  PROVE  g \in [Name -> 0 .. c]
  <1>1. \A n \in Name : g[n] \in 0 .. c
    BY DEF NamesIn
  <1> QED BY <1>1

LEMMA ValueTyped ==
  ASSUME Inv1, NEW v \in AnyValue, ValueIn(v, Len(objs))
  PROVE  v \in Value
  BY StateFacts DEF Value, ValueIn

LEMMA ActTyped ==
  ASSUME Inv1, NEW a \in AnyAct, ActIn(a, Len(cells), Len(objs))
  PROVE  a \in Activation
  <1> DEFINE c == Len(cells)
             N == 0 .. Len(cells)
             V == Value
  <1>1. /\ a.op \in {"chunk", "block", "forblock", "for", "call"} /\ a.ctx \in Block
        /\ a.i \in Nat /\ a.at \in {"stat", "store", "fill", "body"} /\ a.name \in Name \cup {Nil} /\ a.cur \in Block \cup {Nil}
        /\ a.val \in AnyValue /\ a.held \in Seq(AnyValue) /\ a.cell \in Nat /\ a.fill \in Nat
        /\ a.env \in [Name -> Nat] /\ a.base \in Nat /\ a.level \in Nat
    BY ActFacts
  <1>2. a.val \in V
    BY <1>1, ValueTyped DEF ActIn
  <1>3. a.held \in Seq(V)
    <2> DEFINE h == a.held
    <2>1. h \in Seq(AnyValue) /\ \A i \in DOMAIN h : h[i] \in AnyValue /\ ValueIn(h[i], Len(objs))
      BY <1>1, LenFacts DEF ActIn
    <2> HIDE DEF h
    <2>2. AllIn(h, V)
      BY <2>1, ValueTyped DEF AllIn
    <2> HIDE DEF V
    <2>3. h \in Seq(V)
      BY <2>1, <2>2, SeqRetyped
    <2> QED BY <2>3 DEF h
  <1>4. a.cell \in N /\ a.fill \in N
    BY <1>1, StateFacts DEF ActIn
  <1>5. a.env \in [Name -> N]
    <2>1. c \in Nat /\ NamesIn(a.env, c)
      BY StateFacts DEF ActIn
    <2> DEFINE g == a.env
    <2>2. g \in [Name -> Nat] /\ NamesIn(g, c)
      BY <1>1, <2>1
    <2> HIDE DEF c, g
    <2>3. g \in [Name -> 0 .. c]
      BY <2>1, <2>2, NamesTyped
    <2> QED BY <2>3 DEF c, g
  <1> HIDE DEF N, V
  <1>6. a \in [op: {"chunk", "block", "forblock", "for", "call"}, ctx: Block, i: Nat, name: Name \cup {Nil},
               at: {"stat", "store", "fill", "body"}, cur: Block \cup {Nil}, val: V, held: Seq(V),
               cell: N, fill: N, env: [Name -> N], base: Nat, level: Nat]
    BY <1>1, <1>2, <1>3, <1>4, <1>5 DEF AnyAct
  <1> QED BY <1>6 DEF Activation, N, V

LEMMA ObjTyped ==
  ASSUME Inv1, NEW o \in DOMAIN objs
  PROVE  objs[o] \in Obj
  <1> DEFINE x == objs[o]
             c == Len(cells)
             g == x.closure
             N == 0 .. Len(cells)
  <1>1. x \in AnyObj /\ g \in [Name -> Nat] /\ NamesIn(g, c) /\ c \in Nat
    BY StateFacts
  <1>2. g \in [Name -> N]
    <2> HIDE DEF x, g
    <2> QED BY <1>1, NamesTyped
  <1> HIDE DEF x, N
  <1>3. x \in [body: Body, file: Nat, closure: [Name -> N], env: [Name -> Nat],
               own: SUBSET Nat, count: Nat, live: BOOLEAN, leaked: Nat]
    BY <1>1, <1>2 DEF AnyObj
  <1> QED BY <1>3 DEF Obj, N, x

LEMMA UpdateTyped ==
  ASSUME Inv1, NEW u \in AnyUpdate, UpdateIn(u, Len(cells), Len(objs))
  PROVE  u \in CounterUpdate
  <1>1. DOMAIN cells = 1 .. Len(cells)
    BY StateFacts
  <1>2. u.op \in {"add", "drop"} => u \in [op: {"add", "drop"}, x: Value, v: {Nil}]
    <2> SUFFICES ASSUME u.op \in {"add", "drop"} PROVE u \in [op: {"add", "drop"}, x: Value, v: {Nil}]
      OBVIOUS
    <2>1. u.x \in Value /\ u.v \in {Nil}
      BY ValueTyped DEF UpdateIn, AnyUpdate
    <2> QED BY <2>1 DEF AnyUpdate
  <1>3. u.op \in {"dropold", "unref"} => u \in [op: {"dropold", "unref"}, x: DOMAIN cells, v: {Nil}]
    <2> SUFFICES ASSUME u.op \in {"dropold", "unref"} PROVE u \in [op: {"dropold", "unref"}, x: DOMAIN cells, v: {Nil}]
      OBVIOUS
    <2>1. u.x \in DOMAIN cells /\ u.v \in {Nil}
      BY <1>1 DEF UpdateIn
    <2> QED BY <2>1 DEF AnyUpdate
  <1>4. u.op = "write" => u \in [op: {"write"}, x: DOMAIN cells, v: Value]
    <2> SUFFICES ASSUME u.op = "write" PROVE u \in [op: {"write"}, x: DOMAIN cells, v: Value]
      OBVIOUS
    <2>1. u.x \in DOMAIN cells /\ u.v \in Value
      BY <1>1, ValueTyped DEF UpdateIn, AnyUpdate
    <2> QED BY <2>1 DEF AnyUpdate
  <1>5. u.op \in {"add", "drop"} \/ u.op \in {"dropold", "unref"} \/ u.op = "write"
    BY DEF AnyUpdate
  <1> QED BY <1>2, <1>3, <1>4, <1>5 DEF CounterUpdate

LEMMA TypesFollow ==
  ASSUME Inv1
  PROVE  TypeOK
  <1> DEFINE N == 0 .. Len(cells)
  <1>1. /\ file \in 0 .. Len(scenario.files)
        /\ status \in {"idle", "run", "failing", "over", "dangling", "stale", "crash", "cut"} /\ failed \in BOOLEAN
        /\ blocks \in Seq(Block) /\ Len(cells) \in Nat /\ lost \subseteq DOMAIN cells
    BY StateFacts, KeptTypes DEF Inv1, Loose
  <1>2. acts \in Seq(Activation)
    <2>1. acts \in Seq(AnyAct) /\ \A k \in DOMAIN acts : acts[k] \in AnyAct /\ ActIn(acts[k], Len(cells), Len(objs))
      BY KeptTypes, LenFacts DEF ActsIn
    <2>2. AllIn(acts, Activation)
      BY <2>1, ActTyped DEF AllIn
    <2> QED BY <2>1, <2>2, SeqRetyped
  <1>3. frames \in Seq([Block -> [Name -> N]])
    <2>1. frames \in Seq(AnyStore) /\ \A k \in DOMAIN frames : frames[k] \in AnyStore /\ StoreIn(frames[k], Len(cells))
      BY KeptTypes, LenFacts DEF FramesIn
    <2>2. ASSUME NEW k \in DOMAIN frames PROVE frames[k] \in [Block -> [Name -> N]]
      <3>1. frames[k] \in [Block -> [Name -> Nat]]
        BY <2>1 DEF AnyStore
      <3>2. ASSUME NEW b \in Block PROVE frames[k][b] \in [Name -> N]
        <4> DEFINE g == frames[k][b]
        <4>1. g \in [Name -> Nat] /\ NamesIn(g, Len(cells))
          BY <2>1, <3>1 DEF StoreIn
        <4> HIDE DEF g
        <4>2. g \in [Name -> N]
          BY <1>1, <4>1, NamesTyped
        <4> QED BY <4>2 DEF g
      <3> HIDE DEF N
      <3> QED BY <3>1, <3>2
    <2> DEFINE T == [Block -> [Name -> N]]
    <2>3. AllIn(frames, T)
      BY <2>2 DEF AllIn
    <2> HIDE DEF T
    <2>4. frames \in Seq(T)
      BY <2>1, <2>3, SeqRetyped
    <2> QED BY <2>4 DEF T
  <1>4. globals \in [Name -> N]
    BY <1>1, KeptTypes, NamesTyped
  <1>5. functions \in Seq(DOMAIN objs)
    <2>1. functions \in Seq(Nat) /\ \A k \in DOMAIN functions : functions[k] \in DOMAIN objs
      BY KeptTypes, StateFacts DEF FunctionsIn
    <2> DEFINE T == DOMAIN objs
    <2>2. AllIn(functions, T)
      BY <2>1 DEF AllIn
    <2> HIDE DEF T
    <2>3. functions \in Seq(T)
      BY <2>1, <2>2, SeqRetyped
    <2> QED BY <2>3 DEF T
  <1>6. cells \in Seq(Cell)
    <2>1. cells \in Seq(AnyCell) /\ \A k \in DOMAIN cells : cells[k] \in AnyCell /\ cells[k].value \in AnyValue /\ ValueIn(cells[k].value, Len(objs))
      BY KeptTypes, StateFacts
    <2>2. ASSUME NEW k \in DOMAIN cells PROVE cells[k] \in Cell
      <3> DEFINE x == cells[k]
      <3>1. x \in AnyCell /\ x.value \in Value
        BY <2>1, ValueTyped
      <3> HIDE DEF x
      <3>2. x \in Cell
        BY <3>1 DEF AnyCell, Cell
      <3> QED BY <3>2 DEF x
    <2>3. AllIn(cells, Cell)
      BY <2>2 DEF AllIn
    <2> QED BY <2>1, <2>3, SeqRetyped
  <1>7. objs \in Seq(Obj)
    <2>1. objs \in Seq(AnyObj) /\ AllIn(objs, Obj)
      BY KeptTypes, ObjTyped DEF AllIn
    <2> QED BY <2>1, SeqRetyped
  <1>8. work \in Seq(CounterUpdate)
    <2>1. work \in Seq(AnyUpdate) /\ \A k \in DOMAIN work : work[k] \in AnyUpdate /\ UpdateIn(work[k], Len(cells), Len(objs))
      BY KeptTypes, LenFacts DEF UpdatesIn
    <2>2. AllIn(work, CounterUpdate)
      BY <2>1, UpdateTyped DEF AllIn
    <2> QED BY <2>1, <2>2, SeqRetyped
  <1> QED BY <1>1, <1>2, <1>3, <1>4, <1>5, <1>6, <1>7, <1>8 DEF TypeOK

LEMMA Inv1Holds ==
  Spec => []Inv1
  <1>1. Init => Inv1
    BY Inv1Init
  <1>2. Inv1 /\ [Next]_vars => Inv1'
    BY Inv1Next
  <1> QED BY <1>1, <1>2, PTL DEF Spec

(* The files run on one interpreter, in any order of definitions, calls,   *)
(* failures and releases, the interpreter's pointers are to cells and      *)
(* functions that were allocated: those of _local_values, _global_values,  *)
(* _functions, closures, values and pending releases.                      *)
THEOREM ClosuresTypeCorrect ==
  Spec => []TypeOK
  <1>1. Inv1 => TypeOK
    BY TypesFollow
  <1> QED BY <1>1, Inv1Holds, PTL

-----------------------------------------------------------------------------
(* The counts of cells.  No cell has two places in the stores, so that a   *)
(* cell has at most one reference from them: it is rooted or it is not.    *)
InNames(g, c) == \E n \in Name : g[n] = c
InFrames(fr, c) == \E l \in DOMAIN fr : \E b \in Block, n \in Name : fr[l][b][n] = c

NamesDistinct(g) == \A m, n \in Name : g[m] = g[n] /\ g[m] # 0 => m = n
FramesDistinct(fr) ==
  \A k, l \in DOMAIN fr : \A a, b \in Block : \A m, n \in Name :
    fr[k][a][m] = fr[l][b][n] /\ fr[k][a][m] # 0 => k = l /\ a = b /\ m = n
Apart(fr, gl, lo) ==
  /\ \A c : c # 0 /\ InFrames(fr, c) => ~ InNames(gl, c) /\ c \notin lo
  /\ \A n \in Name : gl[n] \notin lo
Roots(fr, gl, lo) == FramesDistinct(fr) /\ NamesDistinct(gl) /\ Apart(fr, gl, lo)
Rooted(fr, gl, lo, c) == c \in lo \/ InNames(gl, c) \/ InFrames(fr, c)

(* Frames that lose the cells cs: fr2 is a part of fr, d frames up.        *)
KeptAt(fr2, d, l, b, n) == \E k \in DOMAIN fr2 : k + d = l /\ fr2[k][b][n] # 0
Sheds(fr, fr2, d, cs) ==
  /\ \A l \in DOMAIN fr2 : l + d \in DOMAIN fr
  /\ \A l \in DOMAIN fr2 : \A b \in Block, n \in Name : fr2[l][b][n] # 0 => fr2[l][b][n] = fr[l + d][b][n]
  /\ \A l \in DOMAIN fr : \A b \in Block, n \in Name :
       fr[l][b][n] # 0 => fr[l][b][n] \in cs \/ KeptAt(fr2, d, l, b, n)
  /\ \A c \in cs : c # 0 /\ \E l \in DOMAIN fr : \E b \in Block, n \in Name : fr[l][b][n] = c /\ ~ KeptAt(fr2, d, l, b, n)

LEMMA ShedFrames ==
  ASSUME NEW fr \in Seq(AnyStore), NEW fr2 \in Seq(AnyStore), NEW d \in Nat, NEW cs,
         Sheds(fr, fr2, d, cs), FramesDistinct(fr)
  PROVE  /\ FramesDistinct(fr2)
         /\ \A c : c # 0 => (InFrames(fr, c) <=> InFrames(fr2, c) \/ c \in cs)
         /\ \A c : c # 0 /\ InFrames(fr2, c) => c \notin cs
  <1>1. DOMAIN fr2 = 1 .. Len(fr2) /\ Len(fr2) \in Nat
    BY LenFacts
  <1>2. FramesDistinct(fr2)
    <2> SUFFICES ASSUME NEW k \in DOMAIN fr2, NEW l \in DOMAIN fr2, NEW a \in Block, NEW b \in Block, NEW m \in Name, NEW n \in Name,
                        fr2[k][a][m] = fr2[l][b][n], fr2[k][a][m] # 0
                 PROVE  k = l /\ a = b /\ m = n
      BY DEF FramesDistinct
    <2>0. \A j \in DOMAIN fr2 : j + d \in DOMAIN fr
      BY DEF Sheds
    <2>3. \A j \in DOMAIN fr2 : \A x \in Block, y \in Name : fr2[j][x][y] # 0 => fr2[j][x][y] = fr[j + d][x][y]
      BY DEF Sheds
    <2>4. fr2[k][a][m] = fr[k + d][a][m] /\ fr2[l][b][n] = fr[l + d][b][n]
      BY <2>3
    <2>1. /\ k + d \in DOMAIN fr /\ l + d \in DOMAIN fr
          /\ fr2[k][a][m] = fr[k + d][a][m] /\ fr2[l][b][n] = fr[l + d][b][n]
      BY <2>0, <2>4
    <2> DEFINE p == k + d
               q == l + d
    <2>5. p \in DOMAIN fr /\ q \in DOMAIN fr /\ fr[p][a][m] = fr[q][b][n] /\ fr[p][a][m] # 0
      BY <2>1
    <2>2. p = q /\ a = b /\ m = n
      <3> HIDE DEF p, q
      <3> QED BY <2>5 DEF FramesDistinct
    <2> QED BY <1>1, <2>2
  <1>3. ASSUME NEW c, c # 0, InFrames(fr2, c) PROVE InFrames(fr, c) /\ c \notin cs
    <2>1. PICK l \in DOMAIN fr2, b \in Block, n \in Name : fr2[l][b][n] = c
      BY <1>3 DEF InFrames
    <2>2. l + d \in DOMAIN fr /\ fr[l + d][b][n] = c
      BY <1>3, <2>1 DEF Sheds
    <2>3. ASSUME c \in cs PROVE FALSE
      <3>1. PICK k \in DOMAIN fr, a \in Block, m \in Name : fr[k][a][m] = c /\ ~ KeptAt(fr2, d, k, a, m)
        BY <2>3 DEF Sheds
      <3>2. k = l + d /\ a = b /\ m = n
        BY <1>3, <2>2, <3>1 DEF FramesDistinct
      <3>3. KeptAt(fr2, d, k, a, m)
        BY <1>3, <2>1, <3>2 DEF KeptAt
      <3> QED BY <3>1, <3>3
    <2> QED BY <2>2, <2>3 DEF InFrames
  <1>4. ASSUME NEW c, c # 0, InFrames(fr, c), c \notin cs PROVE InFrames(fr2, c)
    <2>1. PICK l \in DOMAIN fr, b \in Block, n \in Name : fr[l][b][n] = c
      BY <1>4 DEF InFrames
    <2>2. KeptAt(fr2, d, l, b, n)
      BY <1>4, <2>1 DEF Sheds
    <2>3. PICK k \in DOMAIN fr2 : k + d = l /\ fr2[k][b][n] # 0
      BY <2>2 DEF KeptAt
    <2>4. fr2[k][b][n] = fr[k + d][b][n]
      BY <2>3 DEF Sheds
    <2> QED BY <2>1, <2>3, <2>4 DEF InFrames
  <1>5. ASSUME NEW c, c \in cs PROVE InFrames(fr, c)
    BY <1>5 DEF Sheds, InFrames
  <1> QED BY <1>2, <1>3, <1>4, <1>5

LEMMA ShedRoots ==
  ASSUME NEW fr \in Seq(AnyStore), NEW fr2 \in Seq(AnyStore), NEW d \in Nat, NEW cs, NEW gl, NEW lo,
         Sheds(fr, fr2, d, cs), Roots(fr, gl, lo)
  PROVE  /\ Roots(fr2, gl, lo)
         /\ \A c : c # 0 => B(Rooted(fr, gl, lo, c)) = B(Rooted(fr2, gl, lo, c)) + B(c \in cs)
  <1>1. /\ FramesDistinct(fr2)
        /\ \A c : c # 0 => (InFrames(fr, c) <=> InFrames(fr2, c) \/ c \in cs)
        /\ \A c : c # 0 /\ InFrames(fr2, c) => c \notin cs
    BY ShedFrames DEF Roots
  <1>2. Roots(fr2, gl, lo)
    BY <1>1 DEF Roots, Apart
  <1>3. ASSUME NEW c, c # 0 PROVE B(Rooted(fr, gl, lo, c)) = B(Rooted(fr2, gl, lo, c)) + B(c \in cs)
    <2>1. CASE c \in cs
      <3>1. InFrames(fr, c) /\ ~ InFrames(fr2, c)
        BY <1>1, <1>3, <2>1
      <3>2. ~ InNames(gl, c) /\ c \notin lo
        BY <1>3, <3>1 DEF Roots, Apart
      <3> QED BY <2>1, <3>1, <3>2 DEF Rooted, B
    <2>2. CASE c \notin cs
      <3>1. InFrames(fr, c) <=> InFrames(fr2, c)
        BY <1>1, <1>3, <2>2
      <3> QED BY <2>2, <3>1 DEF Rooted, B
    <2> QED BY <2>1, <2>2
  <1> QED BY <1>2, <1>3

(* A new cell d takes the place of e, in a store or among the globals.     *)
TakesPlace(fr, fr2, d, e) ==
  \E l \in DOMAIN fr : \E b \in Block, n \in Name :
    /\ DOMAIN fr2 = DOMAIN fr /\ e = fr[l][b][n]
    /\ \A k \in DOMAIN fr : \A a \in Block, m \in Name :
         fr2[k][a][m] = IF k = l /\ a = b /\ m = n THEN d ELSE fr[k][a][m]

LEMMA NewEntry ==
  ASSUME NEW fr, NEW fr2, NEW gl, NEW lo, NEW d, NEW e,
         TakesPlace(fr, fr2, d, e), Roots(fr, gl, lo), d # 0, ~ Rooted(fr, gl, lo, d)
  PROVE  /\ Roots(fr2, gl, lo \cup ({e} \ {0}))
         /\ \A c : c # 0 => (Rooted(fr2, gl, lo \cup ({e} \ {0}), c) <=> Rooted(fr, gl, lo, c) \/ c = d)
  <1>1. PICK l \in DOMAIN fr, b \in Block, n \in Name :
          /\ DOMAIN fr2 = DOMAIN fr /\ e = fr[l][b][n]
          /\ \A k \in DOMAIN fr : \A a \in Block, m \in Name :
               fr2[k][a][m] = IF k = l /\ a = b /\ m = n THEN d ELSE fr[k][a][m]
    BY DEF TakesPlace
  <1>2. ~ InFrames(fr, d) /\ ~ InNames(gl, d) /\ d \notin lo
    BY DEF Rooted
  <1>3. \A k \in DOMAIN fr : \A a \in Block, m \in Name : fr[k][a][m] # d
    BY <1>2 DEF InFrames
  <1>4. FramesDistinct(fr2)
    <2> SUFFICES ASSUME NEW k \in DOMAIN fr, NEW j \in DOMAIN fr, NEW a \in Block, NEW x \in Block, NEW m \in Name, NEW y \in Name,
                        fr2[k][a][m] = fr2[j][x][y], fr2[k][a][m] # 0
                 PROVE  k = j /\ a = x /\ m = y
      BY <1>1 DEF FramesDistinct
    <2>1. CASE k = l /\ a = b /\ m = n
      BY <1>1, <1>3, <2>1
    <2>2. CASE j = l /\ x = b /\ y = n
      BY <1>1, <1>3, <2>2
    <2>3. CASE ~ (k = l /\ a = b /\ m = n) /\ ~ (j = l /\ x = b /\ y = n)
      <3>1. fr2[k][a][m] = fr[k][a][m] /\ fr2[j][x][y] = fr[j][x][y]
        BY <1>1, <2>3
      <3>2. fr[k][a][m] = fr[j][x][y] /\ fr[k][a][m] # 0 /\ FramesDistinct(fr)
        BY <3>1 DEF Roots
      <3> QED BY <3>2 DEF FramesDistinct
    <2> QED BY <2>1, <2>2, <2>3
  <1>5. ASSUME NEW c, c # 0 PROVE InFrames(fr2, c) <=> (InFrames(fr, c) /\ c # e) \/ c = d
    <2>1. ASSUME InFrames(fr2, c), c # d PROVE InFrames(fr, c) /\ c # e
      <3>1. PICK k \in DOMAIN fr, a \in Block, m \in Name : fr2[k][a][m] = c
        BY <1>1, <2>1 DEF InFrames
      <3>2. ~ (k = l /\ a = b /\ m = n) /\ fr[k][a][m] = c
        BY <1>1, <2>1, <3>1
      <3>3. c # e
        BY <1>1, <1>5, <3>2 DEF Roots, FramesDistinct
      <3> QED BY <3>2, <3>3 DEF InFrames
    <2>2. ASSUME InFrames(fr, c), c # e PROVE InFrames(fr2, c)
      <3>1. PICK k \in DOMAIN fr, a \in Block, m \in Name : fr[k][a][m] = c
        BY <2>2 DEF InFrames
      <3>2. ~ (k = l /\ a = b /\ m = n)
        BY <1>1, <2>2, <3>1
      <3>3. fr2[k][a][m] = c
        BY <1>1, <3>1, <3>2
      <3> QED BY <1>1, <3>3 DEF InFrames
    <2>3. ASSUME c = d PROVE InFrames(fr2, c)
      <3>1. fr2[l][b][n] = d
        BY <1>1
      <3> QED BY <1>1, <2>3, <3>1 DEF InFrames
    <2> QED BY <2>1, <2>2, <2>3
  <1>6. e # 0 => InFrames(fr, e)
    BY <1>1 DEF InFrames
  <1>7. Apart(fr2, gl, lo \cup ({e} \ {0}))
    <2>1. \A c : c # 0 /\ InFrames(fr2, c) => ~ InNames(gl, c) /\ c \notin lo \cup ({e} \ {0})
      <3> SUFFICES ASSUME NEW c, c # 0, InFrames(fr2, c) PROVE ~ InNames(gl, c) /\ c \notin lo \cup ({e} \ {0})
        OBVIOUS
      <3>1. CASE c = d
        <4>1. d # e
          BY <1>1, <1>3
        <4> QED BY <1>2, <3>1, <4>1
      <3>2. CASE c # d
        <4>1. InFrames(fr, c) /\ c # e
          BY <1>5, <3>2
        <4> QED BY <4>1 DEF Roots, Apart
      <3> QED BY <3>1, <3>2
    <2>2. \A m \in Name : gl[m] \notin lo \cup ({e} \ {0})
      <3> SUFFICES ASSUME NEW m \in Name PROVE gl[m] \notin lo /\ ~ (gl[m] = e /\ e # 0)
        OBVIOUS
      <3>1. gl[m] \notin lo
        BY DEF Roots, Apart
      <3>2. e # 0 => ~ InNames(gl, e)
        BY <1>6 DEF Roots, Apart
      <3> QED BY <3>1, <3>2 DEF InNames
    <2> QED BY <2>1, <2>2 DEF Apart
  <1>8. Roots(fr2, gl, lo \cup ({e} \ {0}))
    BY <1>4, <1>7 DEF Roots
  <1>9. ASSUME NEW c, c # 0
        PROVE Rooted(fr2, gl, lo \cup ({e} \ {0}), c) <=> Rooted(fr, gl, lo, c) \/ c = d
    BY <1>5, <1>6, <1>9 DEF Rooted
  <1> QED BY <1>8, <1>9

LEMMA NewEntryEmpty ==
  ASSUME NEW fr, NEW fr2, NEW gl, NEW lo, NEW d,
         TakesPlace(fr, fr2, d, 0), Roots(fr, gl, lo), d # 0, ~ Rooted(fr, gl, lo, d)
  PROVE  /\ Roots(fr2, gl, lo)
         /\ \A c : c # 0 => (Rooted(fr2, gl, lo, c) <=> Rooted(fr, gl, lo, c) \/ c = d)
  <1> DEFINE e == 0
             lo2 == lo \cup ({e} \ {0})
  <1>1. TakesPlace(fr, fr2, d, e) /\ lo2 = lo
    OBVIOUS
  <1> HIDE DEF e
  <1>2. Roots(fr2, gl, lo2) /\ \A c : c # 0 => (Rooted(fr2, gl, lo2, c) <=> Rooted(fr, gl, lo, c) \/ c = d)
    BY <1>1, NewEntry
  <1> HIDE DEF lo2
  <1> QED BY <1>1, <1>2

LEMMA NewName ==
  ASSUME NEW fr, NEW gl \in [Name -> Nat], NEW lo, NEW d \in Nat, NEW n \in Name, Roots(fr, gl, lo), d # 0, ~ Rooted(fr, gl, lo, d)
  PROVE  /\ Roots(fr, PutName(gl, n, d), lo \cup ({gl[n]} \ {0}))
         /\ \A c : c # 0 => (Rooted(fr, PutName(gl, n, d), lo \cup ({gl[n]} \ {0}), c) <=> Rooted(fr, gl, lo, c) \/ c = d)
  <1> DEFINE e == gl[n]
             g2 == PutName(gl, n, d)
  <1>1. \A k \in Name : g2[k] = IF k = n THEN d ELSE gl[k]
    BY NamePut
  <1>2. ~ InFrames(fr, d) /\ (\A k \in Name : gl[k] # d) /\ d \notin lo
    BY DEF Rooted, InNames
  <1>10. e = gl[n]
    OBVIOUS
  <1> HIDE DEF e, g2
  <1>3. NamesDistinct(g2)
    BY <1>1, <1>2 DEF NamesDistinct, Roots
  <1>4. ASSUME NEW c, c # 0 PROVE InNames(g2, c) <=> (InNames(gl, c) /\ c # e) \/ c = d
    <2>1. ASSUME InNames(g2, c), c # d PROVE InNames(gl, c) /\ c # e
      BY <1>1, <1>10, <1>4, <2>1 DEF InNames, Roots, NamesDistinct
    <2>2. ASSUME InNames(gl, c), c # e PROVE InNames(g2, c)
      BY <1>1, <1>10, <2>2 DEF InNames
    <2>3. ASSUME c = d PROVE InNames(g2, c)
      BY <1>1, <2>3 DEF InNames
    <2> QED BY <2>1, <2>2, <2>3
  <1>5. InNames(gl, e)
    BY <1>10 DEF InNames
  <1>6. \A c : c # 0 /\ InFrames(fr, c) => ~ InNames(g2, c) /\ c \notin lo \cup ({e} \ {0})
    <2> SUFFICES ASSUME NEW c, c # 0, InFrames(fr, c) PROVE ~ InNames(g2, c) /\ c \notin lo /\ c # e
      OBVIOUS
    <2>1. ~ InNames(gl, c) /\ c \notin lo
      BY DEF Roots, Apart
    <2>2. c # d /\ c # e
      BY <1>2, <1>5, <2>1
    <2> QED BY <1>4, <2>1, <2>2
  <1>7. \A m \in Name : g2[m] \notin lo \cup ({e} \ {0})
    <2> SUFFICES ASSUME NEW m \in Name PROVE g2[m] \notin lo /\ ~ (g2[m] = e /\ e # 0)
      OBVIOUS
    <2>1. CASE m = n
      BY <1>1, <1>2, <1>10, <2>1
    <2>2. CASE m # n
      <3>1. g2[m] = gl[m]
        BY <1>1, <2>2
      <3> QED BY <1>10, <2>2, <3>1 DEF Roots, Apart, NamesDistinct
    <2> QED BY <2>1, <2>2
  <1>8. Roots(fr, g2, lo \cup ({e} \ {0}))
    BY <1>3, <1>6, <1>7 DEF Roots, Apart
  <1>9. ASSUME NEW c, c # 0
        PROVE Rooted(fr, g2, lo \cup ({e} \ {0}), c) <=> Rooted(fr, gl, lo, c) \/ c = d
    BY <1>4, <1>5, <1>9 DEF Rooted
  <1> QED BY <1>8, <1>9 DEF e, g2

(* The functions that exist and have captured a cell.                      *)
CapturersIn(os, c) == {o \in DOMAIN os : os[o].live /\ InNames(os[o].closure, c)}
ClosuresDistinct(os) == \A o \in DOMAIN os : NamesDistinct(os[o].closure)

LEMMA CapturersType ==
  ASSUME NEW os \in Seq(AnyObj), NEW c
  PROVE  IsFiniteSet(CapturersIn(os, c)) /\ Cardinality(CapturersIn(os, c)) \in Nat
  <1>1. Len(os) \in Nat /\ DOMAIN os = 1 .. Len(os)
    BY LenFacts
  <1>2. IsFiniteSet(1 .. Len(os))
    BY <1>1, FS_Interval
  <1>3. CapturersIn(os, c) \subseteq 1 .. Len(os)
    BY <1>1 DEF CapturersIn
  <1>4. IsFiniteSet(CapturersIn(os, c))
    BY <1>2, <1>3, FS_Subset
  <1> QED BY <1>4, FS_CardinalityType

SameCaptures(os, os2) ==
  DOMAIN os2 = DOMAIN os /\ \A o \in DOMAIN os : os2[o].live = os[o].live /\ os2[o].closure = os[o].closure

LEMMA CapturersSame ==
  ASSUME NEW os, NEW os2, SameCaptures(os, os2)
  PROVE  /\ \A c : CapturersIn(os2, c) = CapturersIn(os, c)
         /\ ClosuresDistinct(os) => ClosuresDistinct(os2)
  <1>1. \A c : CapturersIn(os2, c) = CapturersIn(os, c)
    BY DEF SameCaptures, CapturersIn
  <1>2. ClosuresDistinct(os) => ClosuresDistinct(os2)
    BY DEF SameCaptures, ClosuresDistinct
  <1> QED BY <1>1, <1>2

LEMMA CapturersAppend ==
  ASSUME NEW os \in Seq(AnyObj), NEW x \in AnyObj, x.live, NamesDistinct(x.closure), ClosuresDistinct(os)
  PROVE  /\ ClosuresDistinct(Append(os, x))
         /\ \A c : Cardinality(CapturersIn(Append(os, x), c)) = Cardinality(CapturersIn(os, c)) + B(InNames(x.closure, c))
  <1> DEFINE n == Len(os)
             os2 == Append(os, x)
  <1>1. n \in Nat /\ DOMAIN os = 1 .. n
    BY LenFacts
  <1>2. DOMAIN os2 = 1 .. (n + 1) /\ (\A k \in 1 .. n : os2[k] = os[k]) /\ os2[n + 1] = x
    BY AppendFacts
  <1> HIDE DEF n, os2
  <1>3. DOMAIN os2 = DOMAIN os \cup {n + 1} /\ n + 1 \notin DOMAIN os
    BY <1>1, <1>2
  <1> DEFINE p == n + 1
  <1>4. DOMAIN os2 = DOMAIN os \cup {p} /\ p \notin DOMAIN os /\ os2[p] = x /\ \A k \in DOMAIN os : os2[k] = os[k]
    BY <1>1, <1>2, <1>3
  <1> HIDE DEF p
  <1>5. ClosuresDistinct(os2)
    BY <1>4 DEF ClosuresDistinct
  <1>6. ASSUME NEW c PROVE Cardinality(CapturersIn(os2, c)) = Cardinality(CapturersIn(os, c)) + B(InNames(x.closure, c))
    <2>1. IsFiniteSet(CapturersIn(os, c)) /\ Cardinality(CapturersIn(os, c)) \in Nat
      BY CapturersType
    <2>2. CASE InNames(x.closure, c)
      <3>1. CapturersIn(os2, c) = CapturersIn(os, c) \cup {p}
        BY <1>4, <2>2 DEF CapturersIn
      <3>2. p \notin CapturersIn(os, c)
        BY <1>4 DEF CapturersIn
      <3>3. Cardinality(CapturersIn(os2, c)) = Cardinality(CapturersIn(os, c)) + 1
        BY <2>1, <3>1, <3>2, FS_AddElement
      <3> QED BY <2>2, <3>3 DEF B
    <2>3. CASE ~ InNames(x.closure, c)
      <3>1. CapturersIn(os2, c) = CapturersIn(os, c)
        BY <1>4, <2>3 DEF CapturersIn
      <3> QED BY <2>1, <2>3, <3>1 DEF B
    <2> QED BY <2>2, <2>3
  <1> QED BY <1>5, <1>6 DEF os2

Deletes(os, os2, o) ==
  /\ DOMAIN os2 = DOMAIN os /\ os[o].live /\ ~ os2[o].live
  /\ \A x \in DOMAIN os : os2[x].closure = os[x].closure /\ (x # o => os2[x].live = os[x].live)

LEMMA CapturersDeleted ==
  ASSUME NEW os \in Seq(AnyObj), NEW os2, NEW o \in DOMAIN os, Deletes(os, os2, o), ClosuresDistinct(os)
  PROVE  /\ ClosuresDistinct(os2)
         /\ \A c : /\ Cardinality(CapturersIn(os2, c)) \in Nat
                   /\ Cardinality(CapturersIn(os, c)) = Cardinality(CapturersIn(os2, c)) + B(InNames(os[o].closure, c))
  <1>1. ClosuresDistinct(os2)
    BY DEF ClosuresDistinct, Deletes
  <1>2. ASSUME NEW c
        PROVE  /\ Cardinality(CapturersIn(os2, c)) \in Nat
               /\ Cardinality(CapturersIn(os, c)) = Cardinality(CapturersIn(os2, c)) + B(InNames(os[o].closure, c))
    <2>1. IsFiniteSet(CapturersIn(os, c)) /\ Cardinality(CapturersIn(os, c)) \in Nat
      BY CapturersType
    <2>2. CASE InNames(os[o].closure, c)
      <3>1. CapturersIn(os, c) = CapturersIn(os2, c) \cup {o} /\ o \notin CapturersIn(os2, c)
        BY <2>2 DEF CapturersIn, Deletes
      <3>2. CapturersIn(os2, c) \subseteq CapturersIn(os, c)
        BY <3>1
      <3>3. IsFiniteSet(CapturersIn(os2, c))
        BY <2>1, <3>2, FS_Subset
      <3>4. Cardinality(CapturersIn(os2, c)) \in Nat
        BY <3>3, FS_CardinalityType
      <3>5. Cardinality(CapturersIn(os, c)) = Cardinality(CapturersIn(os2, c)) + 1
        BY <3>1, <3>3, FS_AddElement
      <3> QED BY <2>2, <3>4, <3>5 DEF B
    <2>3. CASE ~ InNames(os[o].closure, c)
      <3>1. CapturersIn(os, c) = CapturersIn(os2, c)
        BY <2>3 DEF CapturersIn, Deletes
      <3> QED BY <2>1, <2>3, <3>1 DEF B
    <2> QED BY <2>2, <2>3
  <1> QED BY <1>1, <1>2

LEMMA CapturesCount ==
  ASSUME NEW g, NamesDistinct(g), NEW c, c # 0
  PROVE  Cardinality(CapturesOf(g, c)) = B(InNames(g, c))
  <1>1. CASE InNames(g, c)
    <2>1. PICK n \in Name : g[n] = c
      BY <1>1 DEF InNames
    <2>2. CapturesOf(g, c) = {n}
      BY <2>1 DEF CapturesOf, NamesDistinct
    <2> QED BY <1>1, <2>2, FS_Singleton DEF B
  <1>2. CASE ~ InNames(g, c)
    <2>1. CapturesOf(g, c) = {}
      BY <1>2 DEF CapturesOf, InNames
    <2> QED BY <1>2, <2>1, FS_EmptySet DEF B
  <1> QED BY <1>1, <1>2

(* A cell's count: its root, the functions that captured it, and the       *)
(* releases that are still to be made.                                     *)
Due(fr, gl, lo, os, w, c) == B(Rooted(fr, gl, lo, c)) + Cardinality(CapturersIn(os, c)) + Count(w, Unref(c))
CellLedger == \A c \in DOMAIN cells : cells[c].refs = Due(frames, globals, lost, objs, work, c)
Counted == Roots(frames, globals, lost) /\ ClosuresDistinct(objs) /\ CellLedger

Alive == status \in {"idle", "run", "failing", "over"}
Inv2 == Alive => Counted

NoUnrefs(w) == \A i \in DOMAIN w : w[i].op # "unref"

LEMMA NoUnrefsCount ==
  ASSUME NEW w, NoUnrefs(w), NEW c
  PROVE  Count(w, Unref(c)) = 0
  <1>1. \A i \in DOMAIN w : w[i] # Unref(c)
    BY DEF NoUnrefs, Unref
  <1> QED BY <1>1, CountNone

(* A cell that does not exist yet is nowhere.                              *)
LEMMA FreshCell ==
  ASSUME Inv1, NEW d \in Nat, d > Len(cells)
  PROVE  /\ d # 0 /\ ~ Rooted(frames, globals, lost, d)
         /\ \A os \in Seq(AnyObj) : ObjsIn(os, Len(cells)) => CapturersIn(os, d) = {}
         /\ Count(work, Unref(d)) = 0
  <1>1. Len(cells) \in Nat
    BY StateFacts
  <1>2. d # 0
    BY <1>1
  <1>3. /\ frames \in Seq(AnyStore) /\ FramesIn(frames, Len(cells)) /\ globals \in [Name -> Nat] /\ NamesIn(globals, Len(cells))
        /\ lost \subseteq 1 .. Len(cells) /\ UpdatesIn(work, Len(cells), Len(objs))
    BY KeptTypes
  <1>4. d \notin lost
    BY <1>1, <1>3
  <1>5. \A g \in [Name -> Nat] : NamesIn(g, Len(cells)) => ~ InNames(g, d)
    BY <1>1 DEF NamesIn, InNames
  <1>6. ~ InFrames(frames, d)
    <2> SUFFICES ASSUME NEW l \in DOMAIN frames, NEW b \in Block, NEW n \in Name, frames[l][b][n] = d PROVE FALSE
      BY DEF InFrames
    <2>1. frames[l] \in AnyStore /\ StoreIn(frames[l], Len(cells))
      BY <1>3, LenFacts DEF FramesIn
    <2>2. frames[l][b] \in [Name -> Nat] /\ NamesIn(frames[l][b], Len(cells))
      BY <2>1 DEF AnyStore, StoreIn
    <2> QED BY <1>5, <2>2 DEF InNames
  <1>7. ~ Rooted(frames, globals, lost, d)
    BY <1>3, <1>4, <1>5, <1>6 DEF Rooted
  <1>8. ASSUME NEW os \in Seq(AnyObj), ObjsIn(os, Len(cells)) PROVE CapturersIn(os, d) = {}
    <2> SUFFICES ASSUME NEW o \in DOMAIN os PROVE ~ InNames(os[o].closure, d)
      BY DEF CapturersIn
    <2>1. os[o] \in AnyObj /\ ObjIn(os[o], Len(cells))
      BY <1>8, LenFacts DEF ObjsIn
    <2>2. os[o].closure \in [Name -> Nat] /\ NamesIn(os[o].closure, Len(cells))
      BY <2>1 DEF AnyObj, ObjIn
    <2> QED BY <1>5, <2>2
  <1>9. Count(work, Unref(d)) = 0
    <2>1. \A i \in DOMAIN work : work[i] # Unref(d)
      <3> SUFFICES ASSUME NEW i \in DOMAIN work, work[i] = Unref(d) PROVE FALSE
        OBVIOUS
      <3>1. work[i].op = "unref" /\ work[i].x = d
        BY DEF Unref
      <3>2. UpdateIn(work[i], Len(cells), Len(objs))
        BY <1>3 DEF UpdatesIn
      <3>3. work[i].x \in 1 .. Len(cells)
        BY <3>1, <3>2 DEF UpdateIn
      <3> QED BY <1>1, <3>1, <3>3
    <2> QED BY <2>1, CountNone
  <1> QED BY <1>2, <1>7, <1>8, <1>9

(* Steps that leave every place of every cell where it is.                 *)
SameRefs(cs, cs2) == DOMAIN cs2 = DOMAIN cs /\ \A c \in DOMAIN cs : cs2[c].refs = cs[c].refs
SameUnrefs(w, w2) == \A c : Count(w2, Unref(c)) = Count(w, Unref(c))

LEMMA SameStep ==
  ASSUME Counted, frames' = frames, globals' = globals, lost' = lost,
         SameRefs(cells, cells'), SameCaptures(objs, objs'), SameUnrefs(work, work')
  PROVE  Counted'
  <1> DEFINE cs == cells'
             os == objs'
             w == work'
  <1>1. SameRefs(cells, cs) /\ SameCaptures(objs, os) /\ SameUnrefs(work, w)
    OBVIOUS
  <1> HIDE DEF cs, os, w
  <1>2. (\A c : CapturersIn(os, c) = CapturersIn(objs, c)) /\ ClosuresDistinct(os)
    BY <1>1, CapturersSame DEF Counted
  <1>3. ASSUME NEW c \in DOMAIN cs PROVE cs[c].refs = Due(frames, globals, lost, os, w, c)
    <2>1. c \in DOMAIN cells /\ cs[c].refs = cells[c].refs
      BY <1>1 DEF SameRefs
    <2>2. cells[c].refs = Due(frames, globals, lost, objs, work, c)
      BY <2>1 DEF Counted, CellLedger
    <2>3. Count(w, Unref(c)) = Count(work, Unref(c)) /\ CapturersIn(os, c) = CapturersIn(objs, c)
      BY <1>1, <1>2 DEF SameUnrefs
    <2> QED BY <2>1, <2>2, <2>3 DEF Due
  <1>4. Roots(frames, globals, lost)
    BY DEF Counted
  <1>5. cs = cells' /\ os = objs' /\ w = work'
    BY DEF cs, os, w
  <1> QED BY <1>2, <1>3, <1>4, <1>5 DEF Counted, CellLedger

(* Steps by which cells lose their root and are to be released for it.     *)
Owes(w, cs) == \A c : Count(w, Unref(c)) = B(c \in cs)

LEMMA ShedStep ==
  ASSUME Inv1, Counted, globals' = globals, lost' = lost, cells' = cells,
         SameCaptures(objs, objs'), work = << >>, frames' \in Seq(AnyStore),
         NEW d \in Nat, NEW cs, Sheds(frames, frames', d, cs), Owes(work', cs)
  PROVE  Counted'
  <1> DEFINE fr == frames'
             os == objs'
             w == work'
  <1>1. fr \in Seq(AnyStore) /\ Sheds(frames, fr, d, cs) /\ SameCaptures(objs, os) /\ Owes(w, cs)
    OBVIOUS
  <1>2. fr = frames' /\ os = objs' /\ w = work'
    OBVIOUS
  <1> HIDE DEF fr, os, w
  <1>3. (\A c : CapturersIn(os, c) = CapturersIn(objs, c)) /\ ClosuresDistinct(os)
    BY <1>1, CapturersSame DEF Counted
  <1>4. frames \in Seq(AnyStore) /\ Roots(frames, globals, lost) /\ objs \in Seq(AnyObj)
    BY KeptTypes DEF Counted
  <1>5. /\ Roots(fr, globals, lost)
        /\ \A c : c # 0 => B(Rooted(frames, globals, lost, c)) = B(Rooted(fr, globals, lost, c)) + B(c \in cs)
    BY <1>1, <1>4, ShedRoots
  <1>6. ASSUME NEW c \in DOMAIN cells PROVE cells[c].refs = Due(fr, globals, lost, os, w, c)
    <2>1. c # 0
      BY StateFacts
    <2>2. cells[c].refs = Due(frames, globals, lost, objs, work, c)
      BY DEF Counted, CellLedger
    <2>3. Count(work, Unref(c)) = 0 /\ Count(w, Unref(c)) = B(c \in cs)
      BY <1>1, CountEmpty DEF Owes
    <2>4. Cardinality(CapturersIn(os, c)) = Cardinality(CapturersIn(objs, c)) /\ Cardinality(CapturersIn(objs, c)) \in Nat
      BY <1>3, <1>4, CapturersType
    <2>5. B(Rooted(frames, globals, lost, c)) = B(Rooted(fr, globals, lost, c)) + B(c \in cs)
      BY <1>5, <2>1
    <2>6. B(Rooted(fr, globals, lost, c)) \in Nat /\ B(c \in cs) \in Nat
      BY DEF B
    <2> QED BY <2>2, <2>3, <2>4, <2>5, <2>6 DEF Due
  <1> QED BY <1>2, <1>3, <1>5, <1>6 DEF Counted, CellLedger

(* Steps that make cells, each with a root, or a function with closure g.  *)
CellsGrow(cs, cs2, g) ==
  /\ cs2 \in Seq(AnyCell) /\ Len(cs) =< Len(cs2)
  /\ \A c \in 1 .. Len(cs) : cs2[c].refs = cs[c].refs + B(InNames(g, c))
  /\ \A c \in 1 .. Len(cs2) : c > Len(cs) => cs2[c].refs = 1
Captures(os, os2, g) ==
  /\ ClosuresDistinct(os2) /\ g \in [Name -> Nat]
  /\ \A c : c # 0 => Cardinality(CapturersIn(os2, c)) = Cardinality(CapturersIn(os, c)) + B(InNames(g, c))
RootsGrow(fr, gl, lo, n, m, fr2, gl2, lo2) ==
  /\ Roots(fr2, gl2, lo2)
  /\ \A c \in 1 .. m : Rooted(fr2, gl2, lo2, c) <=> Rooted(fr, gl, lo, c) \/ c > n

LEMMA GrowStep ==
  ASSUME Inv1, Counted, work = << >>, NoUnrefs(work'), NEW g, NamesIn(g, Len(cells)),
         CellsGrow(cells, cells', g), Captures(objs, objs', g),
         RootsGrow(frames, globals, lost, Len(cells), Len(cells'), frames', globals', lost')
  PROVE  Counted'
  <1> DEFINE fr == frames'
             gl == globals'
             lo == lost'
             cs == cells'
             os == objs'
             w == work'
             n == Len(cells)
             m == Len(cs)
  <1>1. /\ CellsGrow(cells, cs, g) /\ Captures(objs, os, g) /\ NoUnrefs(w)
        /\ RootsGrow(frames, globals, lost, n, m, fr, gl, lo)
    OBVIOUS
  <1>2. fr = frames' /\ gl = globals' /\ lo = lost' /\ cs = cells' /\ os = objs' /\ w = work' /\ n = Len(cells) /\ m = Len(cs)
    OBVIOUS
  <1>3. n \in Nat /\ DOMAIN cells = 1 .. n
    BY StateFacts
  <1> HIDE DEF fr, gl, lo, cs, os, w, n, m
  <1>4. m \in Nat /\ n =< m /\ DOMAIN cs = 1 .. m /\ cs \in Seq(AnyCell)
    BY <1>1, <1>2, LenFacts DEF CellsGrow
  <1>5. ASSUME NEW c \in 1 .. m PROVE cs[c].refs = Due(fr, gl, lo, os, w, c)
    <2>1. c # 0 /\ c \in Nat
      BY <1>4
    <2>2. Count(w, Unref(c)) = 0
      BY <1>1, NoUnrefsCount
    <2>3. Cardinality(CapturersIn(os, c)) = Cardinality(CapturersIn(objs, c)) + B(InNames(g, c))
      BY <1>1, <2>1 DEF Captures
    <2>4. objs \in Seq(AnyObj) /\ ObjsIn(objs, Len(cells))
      BY KeptTypes
    <2>5. Cardinality(CapturersIn(objs, c)) \in Nat /\ B(InNames(g, c)) \in Nat
      BY <2>4, CapturersType DEF B
    <2>6. Rooted(fr, gl, lo, c) <=> Rooted(frames, globals, lost, c) \/ c > n
      BY <1>1 DEF RootsGrow
    <2>7. CASE c > n
      <3>1. cs[c].refs = 1
        BY <1>1, <1>2, <2>7 DEF CellsGrow
      <3>2. CapturersIn(objs, c) = {}
        BY <1>2, <2>1, <2>4, <2>7, FreshCell
      <3>3. g \in [Name -> Nat] /\ ~ InNames(g, c)
        BY <1>1, <1>2, <1>3, <2>1, <2>7 DEF Captures, NamesIn, InNames
      <3>4. Cardinality(CapturersIn(os, c)) = 0
        BY <2>3, <3>2, <3>3, FS_EmptySet DEF B
      <3>5. B(Rooted(fr, gl, lo, c)) = 1
        BY <2>6, <2>7 DEF B
      <3> QED BY <2>2, <3>1, <3>4, <3>5 DEF Due
    <2>8. CASE ~ (c > n)
      <3>1. c \in 1 .. n
        BY <1>3, <1>4, <2>8
      <3>2. cells[c].refs = Due(frames, globals, lost, objs, work, c)
        BY <1>3, <3>1 DEF Counted, CellLedger
      <3>3. cs[c].refs = cells[c].refs + B(InNames(g, c))
        BY <1>1, <1>2, <3>1 DEF CellsGrow
      <3>4. Count(work, Unref(c)) = 0
        BY CountEmpty
      <3>5. B(Rooted(fr, gl, lo, c)) = B(Rooted(frames, globals, lost, c)) /\ B(Rooted(fr, gl, lo, c)) \in Nat
        BY <2>6, <2>8 DEF B
      <3> QED BY <2>2, <2>3, <2>5, <3>2, <3>3, <3>4, <3>5 DEF Due
    <2> QED BY <2>7, <2>8
  <1>6. Roots(fr, gl, lo) /\ ClosuresDistinct(os)
    BY <1>1 DEF RootsGrow, Captures
  <1> QED BY <1>2, <1>4, <1>5, <1>6 DEF Counted, CellLedger

(* The ways in which frames lose cells: some entries of the last frame,    *)
(* the last frame or the first one.                                        *)
Replaces(fr, fr2, f) ==
  /\ DOMAIN fr2 = DOMAIN fr /\ fr2[Len(fr)] = f
  /\ \A l \in DOMAIN fr : l # Len(fr) => fr2[l] = fr[l]

LEMMA FrameReplaced ==
  ASSUME Inv1, status = "run", NEW f \in AnyStore, NEW t, t = SetFrame(f)
  PROVE  Replaces(frames, t, f) /\ t \in Seq(AnyStore)
  <1>1. frames \in Seq(AnyStore) /\ Len(frames) \in DOMAIN frames
    BY KeptTypes, RunFacts
  <1> QED BY <1>1, ReplaceFacts DEF SetFrame, Replaces

Trims(f, f2, cs) ==
  /\ \A b \in Block, n \in Name : f2[b][n] = f[b][n] \/ f2[b][n] = 0
  /\ \A c : c \in cs <=> c # 0 /\ \E b \in Block, n \in Name : f[b][n] = c /\ f2[b][n] = 0

LEMMA ShedLast ==
  ASSUME NEW fr \in Seq(AnyStore), fr # << >>, NEW t, NEW f, Replaces(fr, t, f), NEW cs, Trims(fr[Len(fr)], f, cs)
  PROVE  Sheds(fr, t, 0, cs)
  <1> DEFINE n == Len(fr)
  <1>1. n \in Nat /\ DOMAIN fr = 1 .. n /\ n \in DOMAIN fr
    BY LenFacts
  <1>2. n = Len(fr)
    OBVIOUS
  <1> HIDE DEF n
  <1>3. DOMAIN t = DOMAIN fr /\ t[n] = f /\ \A l \in DOMAIN fr : l # n => t[l] = fr[l]
    BY <1>2 DEF Replaces
  <1>4. \A b \in Block, m \in Name : f[b][m] = fr[n][b][m] \/ f[b][m] = 0
    BY <1>2 DEF Trims
  <1>5. \A c : c \in cs <=> c # 0 /\ \E b \in Block, m \in Name : fr[n][b][m] = c /\ f[b][m] = 0
    BY <1>2 DEF Trims
  <1>6. \A l \in DOMAIN t : l + 0 \in DOMAIN fr /\ l + 0 = l
    BY <1>1, <1>3
  <1>7. ASSUME NEW l \in DOMAIN t, NEW b \in Block, NEW m \in Name, t[l][b][m] # 0 PROVE t[l][b][m] = fr[l + 0][b][m]
    <2>1. CASE l = n
      BY <1>3, <1>4, <1>6, <1>7, <2>1
    <2>2. CASE l # n
      BY <1>3, <1>6, <2>2
    <2> QED BY <2>1, <2>2
  <1>8. \A l \in DOMAIN fr : \A b \in Block, m \in Name : KeptAt(t, 0, l, b, m) <=> t[l][b][m] # 0
    BY <1>3, <1>6 DEF KeptAt
  <1>9. ASSUME NEW l \in DOMAIN fr, NEW b \in Block, NEW m \in Name, fr[l][b][m] # 0, t[l][b][m] = 0 PROVE fr[l][b][m] \in cs
    <2>1. l = n /\ f[b][m] = 0
      BY <1>3, <1>9
    <2> QED BY <1>5, <1>9, <2>1
  <1>10. ASSUME NEW c \in cs
         PROVE c # 0 /\ \E l \in DOMAIN fr : \E b \in Block, m \in Name : fr[l][b][m] = c /\ ~ KeptAt(t, 0, l, b, m)
    <2>1. c # 0
      BY <1>5
    <2>2. PICK b \in Block, m \in Name : fr[n][b][m] = c /\ f[b][m] = 0
      BY <1>5
    <2>3. ~ KeptAt(t, 0, n, b, m)
      BY <1>1, <1>3, <1>8, <2>2
    <2> QED BY <1>1, <2>1, <2>2, <2>3
  <1>11. ASSUME NEW l \in DOMAIN fr, NEW b \in Block, NEW m \in Name, fr[l][b][m] # 0
         PROVE fr[l][b][m] \in cs \/ KeptAt(t, 0, l, b, m)
    BY <1>8, <1>9, <1>11
  <1>12. \A l \in DOMAIN t : l + 0 \in DOMAIN fr
    BY <1>6
  <1> QED BY <1>7, <1>10, <1>11, <1>12 DEF Sheds

Holds(f, cs) == \A c : c \in cs <=> c # 0 /\ \E b \in Block, n \in Name : f[b][n] = c

LEMMA ShedFront ==
  ASSUME NEW fr \in Seq(AnyStore), fr # << >>, NEW cs, Holds(fr[Len(fr)], cs), NEW t, t = Front(fr)
  PROVE  Sheds(fr, t, 0, cs)
  <1> DEFINE n == Len(fr)
  <1>1. n \in Nat /\ n >= 1 /\ DOMAIN fr = 1 .. n
    BY LenFacts
  <1>2. DOMAIN t = 1 .. (n - 1) /\ \A l \in 1 .. (n - 1) : t[l] = fr[l]
    BY FrontFacts
  <1>3. \A c : c \in cs <=> c # 0 /\ \E b \in Block, m \in Name : fr[n][b][m] = c
    BY DEF Holds
  <1> HIDE DEF n
  <1>4. \A l \in DOMAIN t : l + 0 \in DOMAIN fr /\ l + 0 = l /\ l # n
    BY <1>1, <1>2
  <1>5. n \notin DOMAIN t /\ n \in DOMAIN fr /\ \A l \in DOMAIN fr : l # n => l \in DOMAIN t
    BY <1>1, <1>2
  <1>6. \A l \in DOMAIN t : \A b \in Block, m \in Name : t[l][b][m] # 0 => t[l][b][m] = fr[l + 0][b][m]
    BY <1>2, <1>4
  <1>7. ASSUME NEW l \in DOMAIN fr, NEW b \in Block, NEW m \in Name, fr[l][b][m] # 0
        PROVE fr[l][b][m] \in cs \/ KeptAt(t, 0, l, b, m)
    <2>1. CASE l = n
      BY <1>3, <1>7, <2>1
    <2>2. CASE l # n
      <3>1. l \in DOMAIN t /\ l + 0 = l /\ t[l] = fr[l]
        BY <1>2, <1>4, <1>5, <2>2
      <3> QED BY <1>7, <3>1 DEF KeptAt
    <2> QED BY <2>1, <2>2
  <1>8. \A b \in Block, m \in Name : ~ KeptAt(t, 0, n, b, m)
    BY <1>4, <1>5 DEF KeptAt
  <1>9. ASSUME NEW c \in cs
        PROVE c # 0 /\ \E l \in DOMAIN fr : \E b \in Block, m \in Name : fr[l][b][m] = c /\ ~ KeptAt(t, 0, l, b, m)
    BY <1>3, <1>5, <1>8
  <1>10. \A l \in DOMAIN t : l + 0 \in DOMAIN fr
    BY <1>4
  <1> QED BY <1>6, <1>7, <1>9, <1>10 DEF Sheds

LEMMA ShedFirst ==
  ASSUME NEW fr \in Seq(AnyStore), fr # << >>, NEW cs, Holds(Head(fr), cs), NEW t, t = Tail(fr)
  PROVE  Sheds(fr, t, 1, cs)
  <1> DEFINE n == Len(fr)
  <1>1. n \in Nat /\ n >= 1 /\ DOMAIN fr = 1 .. n
    BY LenFacts
  <1>2. DOMAIN t = 1 .. (n - 1) /\ (\A l \in 1 .. (n - 1) : t[l] = fr[l + 1]) /\ Head(fr) = fr[1]
    BY TailFacts
  <1>3. \A c : c \in cs <=> c # 0 /\ \E b \in Block, m \in Name : fr[1][b][m] = c
    BY <1>2 DEF Holds
  <1> HIDE DEF n
  <1>4. \A l \in DOMAIN t : l + 1 \in DOMAIN fr /\ l + 1 # 1
    BY <1>1, <1>2
  <1>6. \A l \in DOMAIN t : \A b \in Block, m \in Name : t[l][b][m] # 0 => t[l][b][m] = fr[l + 1][b][m]
    BY <1>2
  <1>7. ASSUME NEW l \in DOMAIN fr, NEW b \in Block, NEW m \in Name, fr[l][b][m] # 0
        PROVE fr[l][b][m] \in cs \/ KeptAt(t, 1, l, b, m)
    <2>1. CASE l = 1
      BY <1>3, <1>7, <2>1
    <2>2. CASE l # 1
      <3> DEFINE j == l - 1
      <3>1. j \in DOMAIN t /\ j + 1 = l /\ t[j] = fr[j + 1]
        BY <1>1, <1>2, <2>2
      <3> HIDE DEF j
      <3> QED BY <1>7, <3>1 DEF KeptAt
    <2> QED BY <2>1, <2>2
  <1>8. 1 \in DOMAIN fr /\ \A b \in Block, m \in Name : ~ KeptAt(t, 1, 1, b, m)
    BY <1>1, <1>4 DEF KeptAt
  <1>9. ASSUME NEW c \in cs
        PROVE c # 0 /\ \E l \in DOMAIN fr : \E b \in Block, m \in Name : fr[l][b][m] = c /\ ~ KeptAt(t, 1, l, b, m)
    BY <1>3, <1>8
  <1>10. \A l \in DOMAIN t : l + 1 \in DOMAIN fr
    BY <1>4
  <1> QED BY <1>6, <1>7, <1>9, <1>10 DEF Sheds

(* The ways in which a new cell gets its place.                            *)
LEMMA EntryTaken ==
  ASSUME Inv1, status = "run", NEW b \in Block, NEW n \in Name, NEW d \in Nat, NEW t, t = SetFrame(Put(Frame, b, n, d))
  PROVE  TakesPlace(frames, t, d, Frame[b][n])
  <1> DEFINE f == Put(Frame, b, n, d)
             l == Len(frames)
  <1>1. Frame \in AnyStore /\ Frame = frames[l] /\ l \in DOMAIN frames
    BY RunFacts
  <1>2. f \in AnyStore /\ \A x \in Block, k \in Name : f[x][k] = IF x = b /\ k = n THEN d ELSE Frame[x][k]
    BY <1>1, EntryPut, SMTT(60)
  <1>3. t = SetFrame(f)
    OBVIOUS
  <1> HIDE DEF f
  <1>4. Replaces(frames, t, f)
    BY <1>2, <1>3, FrameReplaced
  <1> HIDE DEF l
  <1>5. DOMAIN t = DOMAIN frames /\ t[l] = f /\ \A k \in DOMAIN frames : k # l => t[k] = frames[k]
    BY <1>4 DEF Replaces, l
  <1>6. \A k \in DOMAIN frames : \A a \in Block, m \in Name :
          t[k][a][m] = IF k = l /\ a = b /\ m = n THEN d ELSE frames[k][a][m]
    BY <1>1, <1>2, <1>5
  <1>7. Frame[b][n] = frames[l][b][n]
    BY <1>1
  <1> QED BY <1>1, <1>5, <1>6, <1>7 DEF TakesPlace

LEMMA EmptyStore ==
  NoStore \in AnyStore /\ \A b \in Block, n \in Name : NoStore[b][n] = 0
  BY DEF NoStore, AnyStore

LEMMA EmptyFrame ==
  ASSUME NEW fr \in Seq(AnyStore), NEW gl, NEW lo, Roots(fr, gl, lo), NEW t, t = Append(fr, NoStore)
  PROVE  Roots(t, gl, lo) /\ \A c : c # 0 => (Rooted(t, gl, lo, c) <=> Rooted(fr, gl, lo, c))
  <1> DEFINE p == Len(fr) + 1
  <1>1. Len(fr) \in Nat /\ DOMAIN fr = 1 .. Len(fr)
    BY LenFacts
  <1>2. DOMAIN t = 1 .. p /\ (\A k \in 1 .. Len(fr) : t[k] = fr[k]) /\ t[p] = NoStore
    BY EmptyStore, AppendFacts
  <1>3. DOMAIN t = DOMAIN fr \cup {p} /\ (\A k \in DOMAIN fr : t[k] = fr[k]) /\ t[p] = NoStore
    BY <1>1, <1>2
  <1> HIDE DEF p
  <1>4. \A k \in DOMAIN t : \A b \in Block, n \in Name : t[k][b][n] # 0 => k \in DOMAIN fr /\ t[k][b][n] = fr[k][b][n]
    BY <1>3, EmptyStore
  <1>5. FramesDistinct(t)
    <2> SUFFICES ASSUME NEW k \in DOMAIN t, NEW l \in DOMAIN t, NEW a \in Block, NEW b \in Block, NEW m \in Name, NEW n \in Name,
                        t[k][a][m] = t[l][b][n], t[k][a][m] # 0
                 PROVE  k = l /\ a = b /\ m = n
      BY DEF FramesDistinct
    <2>1. k \in DOMAIN fr /\ l \in DOMAIN fr /\ fr[k][a][m] = fr[l][b][n] /\ fr[k][a][m] # 0
      BY <1>4
    <2>2. FramesDistinct(fr)
      BY DEF Roots
    <2> QED BY <2>1, <2>2 DEF FramesDistinct
  <1>6. ASSUME NEW c, c # 0 PROVE InFrames(t, c) <=> InFrames(fr, c)
    BY <1>3, <1>4, <1>6 DEF InFrames
  <1> QED BY <1>5, <1>6 DEF Roots, Apart, Rooted

LEMMA ParamFrame ==
  ASSUME NEW fr \in Seq(AnyStore), NEW b \in Block, NEW n \in Name, NEW d \in Nat,
         NEW t, t = Append(fr, NoStore), NEW u, u = Append(fr, Put(NoStore, b, n, d))
  PROVE  TakesPlace(t, u, d, 0)
  <1> DEFINE p == Len(fr) + 1
             f == Put(NoStore, b, n, d)
  <1>1. Len(fr) \in Nat /\ DOMAIN fr = 1 .. Len(fr)
    BY LenFacts
  <1>2. f \in AnyStore /\ \A x \in Block, k \in Name : f[x][k] = IF x = b /\ k = n THEN d ELSE 0
    BY EmptyStore, EntryPut
  <1>3. u = Append(fr, f)
    OBVIOUS
  <1> HIDE DEF f
  <1>4. DOMAIN t = 1 .. p /\ (\A k \in 1 .. Len(fr) : t[k] = fr[k]) /\ t[p] = NoStore
    BY EmptyStore, AppendFacts
  <1>5. DOMAIN u = 1 .. p /\ (\A k \in 1 .. Len(fr) : u[k] = fr[k]) /\ u[p] = f
    BY <1>2, <1>3, AppendFacts
  <1>6. p \in 1 .. p /\ \A k \in 1 .. p : k # p => k \in 1 .. Len(fr)
    BY <1>1
  <1> HIDE DEF p
  <1>7. DOMAIN u = DOMAIN t /\ p \in DOMAIN t /\ u[p] = f /\ t[p] = NoStore /\ \A k \in DOMAIN t : k # p => u[k] = t[k]
    BY <1>4, <1>5, <1>6
  <1>8. \A k \in DOMAIN t : \A a \in Block, m \in Name :
          u[k][a][m] = IF k = p /\ a = b /\ m = n THEN d ELSE t[k][a][m]
    BY <1>2, <1>7, EmptyStore
  <1>9. 0 = t[p][b][n]
    BY <1>7, EmptyStore
  <1> QED BY <1>7, <1>8, <1>9 DEF TakesPlace

(* What a function captures are cells of the last frame, each once.        *)
LEMMA ClosureDistinct ==
  ASSUME Inv1, status = "run", Counted, NEW g,
         \A n \in Name : g[n] # 0 => \E b \in Block : Frame[b][n] = g[n]
  PROVE  NamesDistinct(g)
  <1>1. Frame = frames[Len(frames)] /\ Len(frames) \in DOMAIN frames
    BY RunFacts
  <1>2. FramesDistinct(frames)
    BY DEF Counted, Roots
  <1> SUFFICES ASSUME NEW m \in Name, NEW n \in Name, g[m] = g[n], g[m] # 0 PROVE m = n
    BY DEF NamesDistinct
  <1>3. PICK a \in Block : Frame[a][m] = g[m]
    OBVIOUS
  <1>4. PICK b \in Block : Frame[b][n] = g[n]
    OBVIOUS
  <1> DEFINE l == Len(frames)
  <1>5. l \in DOMAIN frames /\ frames[l][a][m] = frames[l][b][n] /\ frames[l][a][m] # 0
    BY <1>1, <1>3, <1>4
  <1> HIDE DEF l
  <1> QED BY <1>2, <1>5 DEF FramesDistinct

LEMMA NothingCaptured ==
  /\ NoNames \in [Name -> Nat] /\ NamesDistinct(NoNames)
  /\ \A c \in Nat : NamesIn(NoNames, c)
  /\ \A c : c # 0 => ~ InNames(NoNames, c)
  BY DEF NoNames, NamesDistinct, NamesIn, InNames

LEMMA NoCapture ==
  ASSUME Inv1, Counted, NEW os, SameCaptures(objs, os)
  PROVE  Captures(objs, os, NoNames)
  <1>1. (\A c : CapturersIn(os, c) = CapturersIn(objs, c)) /\ ClosuresDistinct(os)
    BY CapturersSame DEF Counted
  <1>2. ASSUME NEW c, c # 0 PROVE Cardinality(CapturersIn(os, c)) = Cardinality(CapturersIn(objs, c)) + B(InNames(NoNames, c))
    <2>1. B(InNames(NoNames, c)) = 0
      BY <1>2, NothingCaptured DEF B
    <2>2. Cardinality(CapturersIn(objs, c)) \in Nat
      BY KeptTypes, CapturersType
    <2> QED BY <1>1, <2>1, <2>2
  <1> QED BY <1>1, <1>2, NothingCaptured DEF Captures

LEMMA NewCapture ==
  ASSUME Inv1, Counted, NEW x \in AnyObj, x.live, NamesDistinct(x.closure), NEW os, os = Append(objs, x)
  PROVE  Captures(objs, os, x.closure)
  <1>1. objs \in Seq(AnyObj) /\ ClosuresDistinct(objs)
    BY KeptTypes DEF Counted
  <1>2. x.closure \in [Name -> Nat]
    BY DEF AnyObj
  <1>3. /\ ClosuresDistinct(Append(objs, x))
        /\ \A c : Cardinality(CapturersIn(Append(objs, x), c)) = Cardinality(CapturersIn(objs, c)) + B(InNames(x.closure, c))
    BY <1>1, CapturersAppend
  <1> QED BY <1>2, <1>3 DEF Captures

(* The cells that a new function captures, and a new cell behind them.     *)
LEMMA CellsCaptured ==
  ASSUME Inv1, NEW g, NamesDistinct(g), NEW r, r = Referenced(g)
  PROVE  CellsGrow(cells, r, g) /\ Len(r) = Len(cells) /\ CellsIn(r, Len(objs))
  <1>1. /\ r \in Seq(AnyCell) /\ Len(r) = Len(cells) /\ CellsIn(r, Len(objs))
        /\ \A c \in DOMAIN cells : r[c].refs = cells[c].refs + Cardinality(CapturesOf(g, c))
    BY ReferencedFacts
  <1>2. Len(cells) \in Nat /\ DOMAIN cells = 1 .. Len(cells)
    BY StateFacts
  <1>3. ASSUME NEW c \in 1 .. Len(cells) PROVE r[c].refs = cells[c].refs + B(InNames(g, c))
    <2>1. Cardinality(CapturesOf(g, c)) = B(InNames(g, c))
      BY <1>2, CapturesCount
    <2> QED BY <1>1, <1>2, <2>1
  <1>4. Len(cells) =< Len(r) /\ \A c \in 1 .. Len(r) : ~ (c > Len(cells))
    BY <1>1, <1>2
  <1> QED BY <1>1, <1>3, <1>4 DEF CellsGrow

LEMMA CellsKept ==
  ASSUME Inv1
  PROVE  CellsGrow(cells, cells, NoNames)
  <1>1. cells \in Seq(AnyCell) /\ Len(cells) \in Nat /\ DOMAIN cells = 1 .. Len(cells) /\ Len(cells) =< Len(cells)
    BY KeptTypes, StateFacts
  <1>2. ASSUME NEW c \in 1 .. Len(cells) PROVE cells[c].refs = cells[c].refs + B(InNames(NoNames, c))
    <2>1. B(InNames(NoNames, c)) = 0
      BY <1>1, NothingCaptured DEF B
    <2>2. cells[c].refs \in Nat
      BY <1>1, StateFacts
    <2> QED BY <2>1, <2>2
  <1>3. \A c \in 1 .. Len(cells) : ~ (c > Len(cells))
    BY <1>1
  <1> QED BY <1>1, <1>2, <1>3 DEF CellsGrow

LEMMA CellsGrowMore ==
  ASSUME NEW cs \in Seq(AnyCell), NEW r, NEW g, CellsGrow(cs, r, g), NEW v \in AnyValue
  PROVE  CellsGrow(cs, Append(r, NewCell(v)), g) /\ Len(Append(r, NewCell(v))) = Len(r) + 1
  <1>1. r \in Seq(AnyCell) /\ Len(cs) =< Len(r)
    BY DEF CellsGrow
  <1>2. NewCell(v) \in AnyCell /\ NewCell(v).refs = 1
    BY DEF NewCell, AnyCell
  <1> DEFINE n == Len(cs)
             m == Len(r)
             t == Append(r, NewCell(v))
  <1>3. n \in Nat /\ m \in Nat /\ n =< m
    BY <1>1, LenFacts
  <1>4. /\ t \in Seq(AnyCell) /\ Len(t) = m + 1 /\ (\A k \in 1 .. m : t[k] = r[k]) /\ t[m + 1] = NewCell(v)
    BY <1>1, <1>2, AppendFacts
  <1>5. /\ \A c \in 1 .. n : r[c].refs = cs[c].refs + B(InNames(g, c))
        /\ \A c \in 1 .. m : c > n => r[c].refs = 1
    BY DEF CellsGrow
  <1> HIDE DEF n, m, t
  <1>6. \A c \in 1 .. n : c \in 1 .. m
    BY <1>3
  <1>7. \A c \in 1 .. n : t[c].refs = cs[c].refs + B(InNames(g, c))
    BY <1>4, <1>5, <1>6
  <1>8. ASSUME NEW c \in 1 .. (m + 1), c > n PROVE t[c].refs = 1
    <2>1. CASE c = m + 1
      BY <1>2, <1>4, <2>1
    <2>2. CASE c # m + 1
      <3>1. c \in 1 .. m
        BY <1>3, <2>2
      <3> QED BY <1>4, <1>5, <1>8, <3>1
    <2> QED BY <2>1, <2>2
  <1>9. n =< m + 1
    BY <1>3
  <1> QED BY <1>4, <1>7, <1>8, <1>9 DEF CellsGrow, n, m, t

LEMMA NotRooted ==
  ASSUME NEW n \in Nat, NEW fr \in Seq(AnyStore), FramesIn(fr, n), NEW gl \in [Name -> Nat], NamesIn(gl, n),
         NEW lo, lo \subseteq 1 .. n, NEW d \in Nat, d > n
  PROVE  d # 0 /\ ~ Rooted(fr, gl, lo, d)
  <1>1. d # 0 /\ d \notin lo
    OBVIOUS
  <1>2. \A g \in [Name -> Nat] : NamesIn(g, n) => ~ InNames(g, d)
    BY DEF NamesIn, InNames
  <1>3. ~ InFrames(fr, d)
    <2> SUFFICES ASSUME NEW l \in DOMAIN fr, NEW b \in Block, NEW m \in Name, fr[l][b][m] = d PROVE FALSE
      BY DEF InFrames
    <2>1. fr[l] \in AnyStore /\ StoreIn(fr[l], n)
      BY LenFacts DEF FramesIn
    <2>2. fr[l][b] \in [Name -> Nat] /\ NamesIn(fr[l][b], n)
      BY <2>1 DEF AnyStore, StoreIn
    <2> QED BY <1>2, <2>2 DEF InNames
  <1> QED BY <1>1, <1>2, <1>3 DEF Rooted

(* One new cell, in a new place of the frames or among the globals.        *)
LEMMA OneRoot ==
  ASSUME NEW fr, NEW gl, NEW lo, NEW n \in Nat, NEW m, m = n + 1, NEW fr2, NEW gl2, NEW lo2, Roots(fr2, gl2, lo2),
         \A c : c # 0 => (Rooted(fr2, gl2, lo2, c) <=> Rooted(fr, gl, lo, c) \/ c = m),
         \A c \in Nat : c > n => ~ Rooted(fr, gl, lo, c)
  PROVE  RootsGrow(fr, gl, lo, n, m, fr2, gl2, lo2)
  <1> SUFFICES ASSUME NEW c \in 1 .. m PROVE Rooted(fr2, gl2, lo2, c) <=> Rooted(fr, gl, lo, c) \/ c > n
    BY DEF RootsGrow
  <1>1. c # 0 /\ c \in Nat /\ (c > n <=> c = m)
    OBVIOUS
  <1> QED BY <1>1

LEMMA TargetGrows ==
  ASSUME Inv1, Counted, NEW ops, AtStat(ops), NEW g, NEW r, CellsGrow(cells, r, g), Len(r) = Len(cells), NEW cs, cs = WithTarget(r)
  PROVE  /\ CellsGrow(cells, cs, g)
         /\ RootsGrow(frames, globals, lost, Len(cells), Len(cs), frames, GlobalsWithTarget, lost)
  <1> DEFINE n == Len(cells)
             d == n + 1
  <1>1. /\ n \in Nat /\ cells \in Seq(AnyCell) /\ frames \in Seq(AnyStore) /\ FramesIn(frames, n) /\ globals \in [Name -> Nat]
        /\ NamesIn(globals, n) /\ lost \subseteq 1 .. n /\ Roots(frames, globals, lost)
    BY KeptTypes DEF Counted
  <1>2. d \in Nat /\ d > n
    BY <1>1
  <1>3. Len(cells) = n /\ NextCell = d
    BY DEF NextCell
  <1>4. \A c \in Nat : c > n => ~ Rooted(frames, globals, lost, c)
    <2> HIDE DEF n
    <2> QED BY <1>1, NotRooted
  <1>5. CASE NewGlobal
    <2>1. cs = Append(r, NewCell(Nil)) /\ GlobalsWithTarget = PutName(globals, S.id, d)
      BY <1>3, <1>5 DEF WithTarget, GlobalsWithTarget, PutName
    <2>2. S.id \in Name /\ Lookup(S.id) = 0 /\ status = "run"
      BY <1>5, StatFacts DEF NewGlobal
    <2>3. globals[S.id] = 0
      BY <2>2, LookupFacts
    <2>4. Nil \in AnyValue
      BY DEF AnyValue
    <2>5. CellsGrow(cells, cs, g) /\ Len(cs) = n + 1
      BY <1>1, <1>3, <2>1, <2>4, CellsGrowMore
    <2> DEFINE gl == GlobalsWithTarget
               e == globals[S.id]
    <2>6. gl = PutName(globals, S.id, d) /\ e = globals[S.id]
      BY <2>1
    <2> HIDE DEF n, d
    <2>7. d # 0 /\ ~ Rooted(frames, globals, lost, d)
      BY <1>1, <1>2, NotRooted
    <2>13. /\ Roots(frames, PutName(globals, S.id, d), lost \cup ({globals[S.id]} \ {0}))
           /\ \A c : c # 0 => (Rooted(frames, PutName(globals, S.id, d), lost \cup ({globals[S.id]} \ {0}), c) <=> Rooted(frames, globals, lost, c) \/ c = d)
      BY <1>1, <1>2, <2>2, <2>7, NewName
    <2> HIDE DEF gl, e
    <2>8. /\ Roots(frames, gl, lost \cup ({e} \ {0}))
          /\ \A c : c # 0 => (Rooted(frames, gl, lost \cup ({e} \ {0}), c) <=> Rooted(frames, globals, lost, c) \/ c = d)
      BY <2>6, <2>13
    <2>9. lost \cup ({e} \ {0}) = lost
      BY <2>3, <2>6
    <2>10. Roots(frames, gl, lost) /\ \A c : c # 0 => (Rooted(frames, gl, lost, c) <=> Rooted(frames, globals, lost, c) \/ c = d)
      BY <2>8, <2>9
    <2>11. d = n + 1
      BY DEF d
    <2>12. RootsGrow(frames, globals, lost, n, d, frames, gl, lost)
      BY <1>1, <1>4, <2>10, <2>11, OneRoot
    <2> QED BY <2>5, <2>11, <2>12 DEF gl, n
  <1>6. CASE ~ NewGlobal
    <2>1. cs = r /\ GlobalsWithTarget = globals
      BY <1>6 DEF WithTarget, GlobalsWithTarget
    <2>2. \A c \in 1 .. n : ~ (c > n)
      BY <1>1
    <2> QED BY <1>1, <2>1, <2>2 DEF RootsGrow
  <1> QED BY <1>5, <1>6
=============================================================================
