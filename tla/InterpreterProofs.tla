------------------------- MODULE InterpreterProofs -------------------------
(***************************************************************************)
(* Proofs about the interpreter's control, for every chunk and every bound.*)
(***************************************************************************)
EXTENDS Interpreter, WellFoundedInduction, TLAPS

-----------------------------------------------------------------------------
(* Sequences.                                                              *)

(* What Append returns, position by position.                              *)
LEMMA AppendFacts ==
  ASSUME NEW A, NEW s \in Seq(A), NEW a \in A
  PROVE  /\ Append(s, a) \in Seq(A)
         /\ Len(Append(s, a)) = Len(s) + 1
         /\ DOMAIN Append(s, a) = 1 .. (Len(s) + 1)
         /\ \A k \in 1 .. Len(s) : Append(s, a)[k] = s[k]
         /\ Append(s, a)[Len(s) + 1] = a
  OBVIOUS

(* A sequence that is not empty has a last element.                        *)
LEMMA LenFacts ==
  ASSUME NEW A, NEW s \in Seq(A)
  PROVE  /\ Len(s) \in Nat
         /\ DOMAIN s = 1 .. Len(s)
         /\ s # << >> <=> Len(s) >= 1
         /\ \A k \in DOMAIN s : s[k] \in A
         /\ s # << >> => Last(s) \in A /\ Last(s) = s[Len(s)]
  <1>1. Len(s) \in Nat /\ DOMAIN s = 1 .. Len(s) /\ \A k \in DOMAIN s : s[k] \in A
    OBVIOUS
  <1>2. s # << >> <=> Len(s) >= 1
    OBVIOUS
  <1>3. s # << >> => Last(s) \in A /\ Last(s) = s[Len(s)]
    BY <1>1, <1>2 DEF Last
  <1> QED BY <1>1, <1>2, <1>3

(* What Front and SubSeq return, position by position.                     *)
LEMMA PrefixFacts ==
  ASSUME NEW A, NEW s \in Seq(A), NEW n \in 0 .. Len(s)
  PROVE  /\ SubSeq(s, 1, n) \in Seq(A)
         /\ Len(SubSeq(s, 1, n)) = n
         /\ \A k \in 1 .. n : SubSeq(s, 1, n)[k] = s[k]
  OBVIOUS

LEMMA FrontFacts ==
  ASSUME NEW A, NEW s \in Seq(A), s # << >>
  PROVE  /\ Front(s) \in Seq(A)
         /\ Len(Front(s)) = Len(s) - 1
         /\ \A k \in 1 .. (Len(s) - 1) : Front(s)[k] = s[k]
  <1>1. Len(s) >= 1 /\ Len(s) \in Nat
    BY LenFacts
  <1>2. Len(s) - 1 \in 0 .. Len(s)
    BY <1>1
  <1> QED BY <1>2, PrefixFacts DEF Front

LEMMA ExceptFacts ==
  ASSUME NEW A, NEW s \in Seq(A), NEW x, s # << >> => x \in A
  PROVE  /\ [s EXCEPT ![Len(s)] = x] \in Seq(A)
         /\ Len([s EXCEPT ![Len(s)] = x]) = Len(s)
  <1>1. Len(s) \in Nat /\ DOMAIN s = 1 .. Len(s) /\ (s # << >> <=> Len(s) >= 1)
    BY LenFacts
  <1>2. CASE s = << >>
    <2>1. [s EXCEPT ![Len(s)] = x] = s
      BY <1>1, <1>2
    <2> QED BY <2>1
  <1>3. CASE s # << >>
    BY <1>1, <1>3
  <1> QED BY <1>2, <1>3

(* Replacing the last element.                                             *)
LEMMA ReplaceFacts ==
  ASSUME NEW A, NEW s \in Seq(A), NEW a \in A, s # << >>
  PROVE  LET t == [s EXCEPT ![Len(s)] = a]
         IN  /\ t \in Seq(A)
             /\ Len(t) = Len(s)
             /\ DOMAIN t = DOMAIN s
             /\ t # << >>
             /\ t[Len(s)] = a
             /\ \A k \in 1 .. (Len(s) - 1) : t[k] = s[k]
  <1>1. Len(s) >= 1 /\ Len(s) \in Nat
    BY LenFacts
  <1> QED BY <1>1

-----------------------------------------------------------------------------
(* Activations.                                                            *)

(* The fields the invariant reads, which a running activation keeps.       *)
SameShape(a, b) ==
  /\ a.op = b.op /\ a.ctx = b.ctx /\ a.cur = b.cur /\ a.from_for = b.from_for
  /\ a.base = b.base /\ a.frame = b.frame /\ a.id = b.id /\ a.fn = b.fn

(* The operations that move an activation along yield an activation of the *)
(* same shape.                                                             *)
LEMMA StepsKeepShape ==
  ASSUME NEW a \in Activation, NEW n \in Nat, NEW p \in Phase, NEW v \in BOOLEAN
  PROVE  /\ [a EXCEPT !.i = n] \in Activation /\ SameShape([a EXCEPT !.i = n], a)
         /\ [a EXCEPT !.at = p] \in Activation /\ SameShape([a EXCEPT !.at = p], a)
         /\ Resumed(a, v) \in Activation /\ SameShape(Resumed(a, v), a)
  <1>1. [a EXCEPT !.i = n] \in Activation /\ SameShape([a EXCEPT !.i = n], a)
    BY DEF Activation, SameShape
  <1>2. \A q \in Phase : [a EXCEPT !.at = q] \in Activation /\ SameShape([a EXCEPT !.at = q], a)
    BY DEF Activation, SameShape
  <1>3. a.i + 1 \in Nat
    BY DEF Activation
  <1>4. [a EXCEPT !.i = a.i + 1] \in Activation /\ SameShape([a EXCEPT !.i = a.i + 1], a)
    BY <1>3 DEF Activation, SameShape
  <1>5. \/ Resumed(a, v) = [a EXCEPT !.i = a.i + 1]
        \/ \E q \in Phase : Resumed(a, v) = [a EXCEPT !.at = q]
    BY DEF Resumed, Phase
  <1> QED BY <1>1, <1>2, <1>4, <1>5

LEMMA SameShapeFacts ==
  ASSUME NEW a \in Activation, NEW b \in Activation, SameShape(a, b)
  PROVE  /\ Owns(a) <=> Owns(b)
         /\ Height(a) = Height(b)
         /\ Frames(a) = Frames(b)
         /\ Current(a) = Current(b)
  BY DEF SameShape, Owns, Height, Frames, OpensFrame, Current

(* Heights and frames are numbers, and an activation owns at most a block. *)
LEMMA HeightFacts ==
  ASSUME NEW a \in Activation
  PROVE  /\ Height(a) \in Nat /\ Frames(a) \in Nat
         /\ a.base \in Nat /\ a.frame \in Nat
         /\ a.base =< Height(a) /\ Height(a) =< a.base + 1
         /\ a.frame =< Frames(a)
  BY DEF Activation, Height, Frames

-----------------------------------------------------------------------------
(* How pushing, popping and moving along act on the shape of the stack.    *)

LEMMA ShapeReplace ==
  ASSUME NEW st \in Seq(Activation), NEW bl \in Seq(Block), Shape(st, bl), st # << >>,
         NEW a \in Activation, SameShape(a, st[Len(st)])
  PROVE  Shape([st EXCEPT ![Len(st)] = a], bl)
  <1> DEFINE t == [st EXCEPT ![Len(st)] = a]
  <1>1. /\ t \in Seq(Activation) /\ Len(t) = Len(st) /\ DOMAIN t = DOMAIN st
        /\ t[Len(st)] = a /\ \A k \in 1 .. (Len(st) - 1) : t[k] = st[k]
    BY ReplaceFacts
  <1>2. /\ Len(st) \in Nat /\ Len(st) >= 1 /\ DOMAIN st = 1 .. Len(st)
        /\ \A k \in DOMAIN st : st[k] \in Activation
    BY LenFacts
  <1>3. \A k \in DOMAIN st : t[k] \in Activation /\ SameShape(t[k], st[k])
    BY <1>1, <1>2 DEF SameShape
  <1>4. \A k \in DOMAIN st : /\ t[k].op = st[k].op /\ t[k].base = st[k].base
                             /\ t[k].cur = st[k].cur /\ t[k].id = st[k].id /\ t[k].fn = st[k].fn
                             /\ Height(t[k]) = Height(st[k]) /\ Current(t[k]) = Current(st[k])
    BY <1>2, <1>3, SameShapeFacts DEF SameShape
  <1> HIDE DEF t
  <1>5. \A j, k \in DOMAIN t : j < k => Height(t[j]) =< t[k].base
    BY <1>1, <1>4 DEF Shape
  <1>6. \A k \in DOMAIN t : t[k].op = "visitChunk" <=> k = 1
    BY <1>1, <1>4 DEF Shape
  <1>7. \A k \in DOMAIN t :
          /\ k > 1 => Height(t[k]) \in DOMAIN bl /\ bl[Height(t[k])] = Current(t[k])
          /\ t[k].op = "process_for_in" => t[k].id \in Name /\ t[k].fn \in Body
    BY <1>1, <1>4 DEF Shape
  <1>9. \A k \in DOMAIN t : t[k].op \in Loop => \E m \in DOMAIN bl : Anchor(t, bl, k, m)
    <2> SUFFICES ASSUME NEW k \in DOMAIN t, t[k].op \in Loop PROVE \E m \in DOMAIN bl : Anchor(t, bl, k, m)
      OBVIOUS
    <2>1. PICK m \in DOMAIN bl : Anchor(st, bl, k, m)
      BY <1>1, <1>4 DEF Shape
    <2>2. Anchor(t, bl, k, m)
      BY <1>1, <1>4, <2>1 DEF Anchor
    <2> QED BY <2>2
  <1>8. Shape(t, bl)
    BY <1>5, <1>6, <1>7, <1>9, Zenon DEF Shape
  <1> QED BY <1>8 DEF t

(* Only the blocks up to the height of the top activation matter.          *)
LEMMA ShapeBlocks ==
  ASSUME NEW st \in Seq(Activation), NEW bl \in Seq(Block), NEW bl2 \in Seq(Block),
         Shape(st, bl), st # << >>,
         Height(st[Len(st)]) =< Len(bl2),
         \A m \in 1 .. Height(st[Len(st)]) : m \in DOMAIN bl => bl2[m] = bl[m]
  PROVE  Shape(st, bl2)
  <1> DEFINE n == Len(st)
  <1>1. /\ n \in Nat /\ n >= 1 /\ DOMAIN st = 1 .. n
        /\ \A k \in DOMAIN st : st[k] \in Activation
    BY LenFacts
  <1>2. DOMAIN bl = 1 .. Len(bl) /\ DOMAIN bl2 = 1 .. Len(bl2) /\ Len(bl) \in Nat /\ Len(bl2) \in Nat
    BY LenFacts
  <1>3. \A k \in DOMAIN st : /\ Height(st[k]) \in Nat /\ st[k].base \in Nat
                             /\ st[k].base =< Height(st[k]) /\ Height(st[k]) =< Height(st[n])
    <2> SUFFICES ASSUME NEW k \in DOMAIN st
                 PROVE  /\ Height(st[k]) \in Nat /\ st[k].base \in Nat
                        /\ st[k].base =< Height(st[k]) /\ Height(st[k]) =< Height(st[n])
      OBVIOUS
    <2>1. Height(st[k]) \in Nat /\ st[k].base \in Nat /\ st[k].base =< Height(st[k])
      BY <1>1, HeightFacts
    <2>2. Height(st[n]) \in Nat /\ st[n].base \in Nat /\ st[n].base =< Height(st[n])
      BY <1>1, HeightFacts
    <2>3. CASE k = n BY <2>1, <2>3
    <2>4. CASE k # n
      <3>1. k < n /\ n \in DOMAIN st BY <1>1, <2>4
      <3>2. Height(st[k]) =< st[n].base BY <3>1 DEF Shape
      <3> QED BY <2>1, <2>2, <3>2
    <2> QED BY <2>3, <2>4
  <1>4. \A k \in DOMAIN st : k > 1 => Height(st[k]) \in DOMAIN bl2 /\ bl2[Height(st[k])] = Current(st[k])
    BY <1>1, <1>2, <1>3 DEF Shape
  <1>5. \A k \in DOMAIN st : st[k].op \in Loop => \E m \in DOMAIN bl2 : Anchor(st, bl2, k, m)
    <2> SUFFICES ASSUME NEW k \in DOMAIN st, st[k].op \in Loop PROVE \E m \in DOMAIN bl2 : Anchor(st, bl2, k, m)
      OBVIOUS
    <2>1. PICK m \in DOMAIN bl : Anchor(st, bl, k, m)
      BY DEF Shape
    <2>2. m =< st[k].base /\ m \in Nat /\ m >= 1
      BY <1>2, <2>1 DEF Anchor
    <2>3. /\ Height(st[k]) \in Nat /\ st[k].base \in Nat /\ Height(st[n]) \in Nat
          /\ st[k].base =< Height(st[k]) /\ Height(st[k]) =< Height(st[n])
      BY <1>1, <1>3, HeightFacts
    <2>4. m \in 1 .. Height(st[n]) /\ m \in DOMAIN bl2
      BY <1>2, <2>2, <2>3
    <2>5. bl2[m] = bl[m]
      BY <2>4
    <2> QED BY <2>1, <2>4, <2>5 DEF Anchor
  <1> QED BY <1>4, <1>5 DEF Shape

LEMMA ShapePop ==
  ASSUME NEW st \in Seq(Activation), NEW bl \in Seq(Block), Shape(st, bl), st # << >>
  PROVE  Shape(Front(st), bl)
  <1>1. /\ Front(st) \in Seq(Activation) /\ Len(Front(st)) = Len(st) - 1
        /\ \A k \in 1 .. (Len(st) - 1) : Front(st)[k] = st[k]
    BY FrontFacts
  <1>2. Len(st) \in Nat /\ Len(st) >= 1 /\ DOMAIN st = 1 .. Len(st)
    BY LenFacts
  <1>3. DOMAIN Front(st) = 1 .. (Len(st) - 1)
    BY <1>1, LenFacts
  <1>4. \A k \in DOMAIN Front(st) : k \in DOMAIN st /\ Front(st)[k] = st[k]
    BY <1>1, <1>2, <1>3
  <1> DEFINE t == Front(st)
  <1> HIDE DEF t
  <1>5. \A k \in DOMAIN t : k \in DOMAIN st /\ t[k] = st[k]
    BY <1>4 DEF t
  <1>6. \A k \in DOMAIN t : t[k].op \in Loop => \E m \in DOMAIN bl : Anchor(t, bl, k, m)
    <2> SUFFICES ASSUME NEW k \in DOMAIN t, t[k].op \in Loop PROVE \E m \in DOMAIN bl : Anchor(t, bl, k, m)
      OBVIOUS
    <2>1. PICK m \in DOMAIN bl : Anchor(st, bl, k, m)
      BY <1>5 DEF Shape
    <2>2. Anchor(t, bl, k, m)
      BY <1>5, <2>1 DEF Anchor
    <2> QED BY <2>2
  <1>7. Shape(t, bl)
    BY <1>5, <1>6 DEF Shape
  <1> QED BY <1>7 DEF t

LEMMA ShapePush ==
  ASSUME NEW st \in Seq(Activation), NEW bl \in Seq(Block), Shape(st, bl), st # << >>,
         NEW a \in Activation, a.op # "visitChunk",
         Height(st[Len(st)]) =< a.base,
         Height(a) \in DOMAIN bl, bl[Height(a)] = Current(a),
         NEW x \in DOMAIN bl,
         a.op \in Loop => x =< a.base /\ bl[x] = a.cur /\ Height(st[Len(st)]) =< x,
         a.op = "process_for_in" => a.id \in Name /\ a.fn \in Body
  PROVE  Shape(Append(st, a), bl)
  <1> DEFINE n == Len(st)
             t == Append(st, a)
  <1>1. /\ n \in Nat /\ n >= 1 /\ DOMAIN st = 1 .. n
        /\ \A k \in DOMAIN st : st[k] \in Activation
    BY LenFacts
  <1>2. /\ t \in Seq(Activation) /\ Len(t) = n + 1 /\ DOMAIN t = 1 .. (n + 1)
        /\ \A k \in 1 .. n : t[k] = st[k]
        /\ t[n + 1] = a
    BY AppendFacts
  <1>10. \A j \in DOMAIN st : Height(st[j]) =< Height(st[n])
    <2> SUFFICES ASSUME NEW j \in DOMAIN st PROVE Height(st[j]) =< Height(st[n])
      OBVIOUS
    <2>1. CASE j = n BY <1>1, <2>1, HeightFacts
    <2>2. CASE j # n
      <3>1. j < n /\ n \in DOMAIN st BY <1>1, <2>2
      <3>2. Height(st[j]) =< st[n].base BY <3>1 DEF Shape
      <3>3. st[n].base =< Height(st[n]) BY <3>1, <1>1, HeightFacts
      <3>4. Height(st[j]) \in Nat /\ Height(st[n]) \in Nat /\ st[n].base \in Nat
        BY <3>1, <1>1, HeightFacts
      <3> QED BY <3>2, <3>3, <3>4
    <2> QED BY <2>1, <2>2
  <1>11. /\ \A j \in DOMAIN st : Height(st[j]) \in Nat
         /\ Height(st[n]) \in Nat /\ a.base \in Nat /\ x \in Nat
    <2>1. n \in DOMAIN st /\ DOMAIN bl = 1 .. Len(bl)
      BY <1>1, LenFacts
    <2> QED BY <1>1, <2>1, HeightFacts
  <1>3. \A j \in DOMAIN st : Height(st[j]) =< a.base
    BY <1>10, <1>11
  <1> HIDE DEF t
  <1>4. \A k \in DOMAIN t : k = n + 1 \/ (k \in DOMAIN st /\ t[k] = st[k] /\ k < n + 1)
    BY <1>1, <1>2
  <1>5. \A k \in DOMAIN t : t[k].op = "visitChunk" <=> k = 1
    BY <1>1, <1>2, <1>4 DEF Shape
  <1>6. \A j, k \in DOMAIN t : j < k => Height(t[j]) =< t[k].base
    BY <1>1, <1>2, <1>3, <1>4 DEF Shape
  <1>7. \A k \in DOMAIN t : k > 1 => Height(t[k]) \in DOMAIN bl /\ bl[Height(t[k])] = Current(t[k])
    BY <1>1, <1>2, <1>4 DEF Shape
  <1>12. \A j \in DOMAIN st : j # n + 1 /\ t[j] = st[j]
    BY <1>1, <1>2
  <1>8. \A k \in DOMAIN t : t[k].op \in Loop => \E m \in DOMAIN bl : Anchor(t, bl, k, m)
    <2> SUFFICES ASSUME NEW k \in DOMAIN t, t[k].op \in Loop PROVE \E m \in DOMAIN bl : Anchor(t, bl, k, m)
      OBVIOUS
    <2>1. CASE k = n + 1
      <3>1. x =< a.base /\ bl[x] = a.cur /\ Height(st[n]) =< x
        BY <1>2, <2>1
      <3>2. \A j \in DOMAIN st : Height(st[j]) =< x
        BY <1>10, <1>11, <3>1
      <3>3. \A j \in DOMAIN t : j < k => j \in DOMAIN st
        BY <1>1, <1>2, <2>1
      <3>4. Anchor(t, bl, k, x)
        BY <1>2, <1>12, <2>1, <3>1, <3>2, <3>3 DEF Anchor
      <3> QED BY <3>4
    <2>2. CASE k # n + 1
      <3>1. k \in DOMAIN st /\ t[k] = st[k] /\ \A j \in DOMAIN t : j < k => j \in DOMAIN st
        BY <1>1, <1>2, <1>4, <2>2
      <3>2. PICK m \in DOMAIN bl : Anchor(st, bl, k, m)
        BY <3>1 DEF Shape
      <3>3. Anchor(t, bl, k, m)
        BY <1>12, <3>1, <3>2 DEF Anchor
      <3> QED BY <3>3
    <2> QED BY <2>1, <2>2
  <1>9. \A k \in DOMAIN t : t[k].op = "process_for_in" => t[k].id \in Name /\ t[k].fn \in Body
    BY <1>1, <1>2, <1>4 DEF Shape
  <1> QED BY <1>5, <1>6, <1>7, <1>8, <1>9 DEF Shape, t

-----------------------------------------------------------------------------
(* The first invariant: types, and the shape of the stack.                 *)

Inv1 == TypeOK /\ WellFormed(prog) /\ Shape(stack, blocks)

(* The top activation and the block it stands on.                          *)
LEMMA TopFacts ==
  ASSUME Inv1, stack # << >>
  PROVE  /\ Len(stack) \in Nat /\ Len(stack) >= 1 /\ Len(stack) \in DOMAIN stack
         /\ Top \in Activation
         /\ Height(Top) \in Nat /\ Top.base \in Nat
         /\ Top.base =< Height(Top) /\ Height(Top) =< Top.base + 1
         /\ Len(blocks) \in Nat /\ DOMAIN blocks = 1 .. Len(blocks)
         /\ Top.op # "visitChunk" => /\ Len(stack) > 1 /\ blocks # << >>
                                     /\ Height(Top) \in DOMAIN blocks
                                     /\ blocks[Height(Top)] = Current(Top)
                                     /\ Last(blocks) \in Block
         /\ Top.op \in Loop => \E m \in DOMAIN blocks : Anchor(stack, blocks, Len(stack), m)
         /\ Top.op = "call_function" => Top.base \in DOMAIN blocks /\ blocks[Top.base] = Top.cur
         /\ Top.op = "process_for_in" => Top.id \in Name /\ Top.fn \in Body
  <1>1. stack \in Seq(Activation) /\ blocks \in Seq(Block) /\ Shape(stack, blocks)
    BY DEF Inv1, TypeOK
  <1>2. /\ Len(stack) \in Nat /\ Len(stack) >= 1 /\ Len(stack) \in DOMAIN stack
        /\ DOMAIN stack = 1 .. Len(stack)
        /\ Top \in Activation
    BY <1>1, LenFacts DEF Top
  <1>3. /\ Height(Top) \in Nat /\ Top.base \in Nat
        /\ Top.base =< Height(Top) /\ Height(Top) =< Top.base + 1
    BY <1>2, HeightFacts
  <1>4. Len(blocks) \in Nat /\ DOMAIN blocks = 1 .. Len(blocks) /\ (blocks # << >> <=> Len(blocks) >= 1)
    BY <1>1, LenFacts
  <1>5. Top.op # "visitChunk" => /\ Len(stack) > 1 /\ blocks # << >>
                                 /\ Height(Top) \in DOMAIN blocks
                                 /\ blocks[Height(Top)] = Current(Top)
    BY <1>1, <1>2, <1>4 DEF Shape, Top
  <1>6. blocks # << >> => Last(blocks) \in Block
    BY <1>1, LenFacts
  <1>7. Top.op \in Loop => \E m \in DOMAIN blocks : Anchor(stack, blocks, Len(stack), m)
    BY <1>1, <1>2 DEF Shape, Top
  <1>8. Top.op = "call_function" => Height(Top) = Top.base /\ Current(Top) = Top.cur
    BY DEF Height, Owns, Current, ForLoop
  <1>9. Top.op = "process_for_in" => Top.id \in Name /\ Top.fn \in Body
    BY <1>1, <1>2 DEF Shape, Top
  <1> QED BY <1>2, <1>3, <1>4, <1>5, <1>6, <1>7, <1>8, <1>9

(* The statement reached is well formed.                                   *)
LEMMA StatFacts ==
  ASSUME Inv1, NEW ops, AtStat(ops)
  PROVE  /\ stack # << >> /\ exn = None /\ status = "run"
         /\ Top.op = "visitBlock"
         /\ Top.ctx \in Block /\ Top.i \in DOMAIN prog[Top.ctx].stats
         /\ S \in Stat /\ S.op \in ops /\ WellFormedStat(Top.ctx, S)
         /\ S = prog[Top.ctx].stats[Top.i]
  <1>1. stack # << >> /\ exn = None /\ status = "run" /\ Top.op = "visitBlock"
    BY DEF AtStat, In, Running
  <1>2. Top \in Activation
    BY <1>1, TopFacts
  <1>3. Top.ctx \in Block /\ Top.i \in DOMAIN prog[Top.ctx].stats /\ S.op \in ops
    BY <1>2 DEF Activation, AtStat, Stats, S
  <1>4. WellFormedStat(Top.ctx, S)
    BY <1>3 DEF Inv1, WellFormed, S, Stats
  <1> QED BY <1>1, <1>3, <1>4 DEF WellFormedStat, S, Stats

(* Frames stay frames under every store operation.                         *)
LEMMA FrameFacts ==
  ASSUME NEW lv \in Seq(Frame), NEW b, NEW names \in SUBSET Name, NEW bs
  PROVE  /\ [lv EXCEPT ![Len(lv)][b] = @ \cup names] \in Seq(Frame)
         /\ Keep(lv, b, names) \in Seq(Frame)
         /\ EraseBlocks(lv, bs) \in Seq(Frame)
         /\ Len([lv EXCEPT ![Len(lv)][b] = @ \cup names]) = Len(lv)
         /\ Len(Keep(lv, b, names)) = Len(lv)
         /\ Len(EraseBlocks(lv, bs)) = Len(lv)
  <1>1. Len(lv) \in Nat /\ DOMAIN lv = 1 .. Len(lv) /\ \A k \in DOMAIN lv : lv[k] \in Frame
    BY LenFacts
  <1>2. \A f \in Frame : [f EXCEPT ![b] = @ \cup names] \in Frame
    BY DEF Frame
  <1>3. \A f \in Frame : [f EXCEPT ![b] = @ \cap names] \in Frame
    BY DEF Frame
  <1>4. \A f \in Frame : [x \in Block |-> IF x \in bs THEN {} ELSE f[x]] \in Frame
    BY DEF Frame
  <1> HIDE DEF Frame
  <1>5. lv # << >> => lv[Len(lv)] \in Frame
    BY LenFacts
  <1>6. /\ [lv EXCEPT ![Len(lv)][b] = @ \cup names] \in Seq(Frame)
        /\ Len([lv EXCEPT ![Len(lv)][b] = @ \cup names]) = Len(lv)
    <2> DEFINE x == [lv[Len(lv)] EXCEPT ![b] = @ \cup names]
    <2>1. lv # << >> => x \in Frame BY <1>2, <1>5
    <2> HIDE DEF x
    <2>2. [lv EXCEPT ![Len(lv)] = x] \in Seq(Frame) /\ Len([lv EXCEPT ![Len(lv)] = x]) = Len(lv)
      BY <2>1, ExceptFacts
    <2> QED BY <2>2 DEF x
  <1>7. Keep(lv, b, names) \in Seq(Frame) /\ Len(Keep(lv, b, names)) = Len(lv)
    <2> DEFINE x == [lv[Len(lv)] EXCEPT ![b] = @ \cap names]
    <2>1. lv # << >> => x \in Frame BY <1>3, <1>5
    <2> HIDE DEF x
    <2>2. [lv EXCEPT ![Len(lv)] = x] \in Seq(Frame) /\ Len([lv EXCEPT ![Len(lv)] = x]) = Len(lv)
      BY <2>1, ExceptFacts
    <2> QED BY <2>2 DEF x, Keep
  <1>8. EraseBlocks(lv, bs) \in Seq(Frame) /\ Len(EraseBlocks(lv, bs)) = Len(lv)
    <2> DEFINE x == [y \in Block |-> IF y \in bs THEN {} ELSE lv[Len(lv)][y]]
    <2>1. lv # << >> => x \in Frame BY <1>4, <1>5
    <2> HIDE DEF x
    <2>2. [lv EXCEPT ![Len(lv)] = x] \in Seq(Frame) /\ Len([lv EXCEPT ![Len(lv)] = x]) = Len(lv)
      BY <2>1, ExceptFacts
    <2> QED BY <2>2 DEF x, EraseBlocks
  <1> QED BY <1>6, <1>7, <1>8

(* Extending _blocks disturbs no activation.                               *)
LEMMA ShapeExtend ==
  ASSUME NEW st \in Seq(Activation), NEW bl \in Seq(Block), Shape(st, bl), st # << >>,
         Height(st[Len(st)]) =< Len(bl), NEW b \in Block
  PROVE  Append(bl, b) \in Seq(Block) /\ Shape(st, Append(bl, b))
  <1>1. /\ Append(bl, b) \in Seq(Block) /\ Len(Append(bl, b)) = Len(bl) + 1
        /\ \A k \in 1 .. Len(bl) : Append(bl, b)[k] = bl[k]
    BY AppendFacts
  <1>2. Len(bl) \in Nat /\ DOMAIN bl = 1 .. Len(bl)
    BY LenFacts
  <1>3. st[Len(st)] \in Activation
    BY LenFacts
  <1>4. Height(st[Len(st)]) \in Nat
    BY <1>3, HeightFacts
  <1>5. Height(st[Len(st)]) =< Len(Append(bl, b))
    BY <1>1, <1>2, <1>4
  <1>6. \A m \in 1 .. Height(st[Len(st)]) : m \in DOMAIN bl => Append(bl, b)[m] = bl[m]
    BY <1>1, <1>2
  <1> QED BY <1>1, <1>5, <1>6, ShapeBlocks

(* visit(block) outside a for.                                             *)
LEMMA ShapeVisit ==
  ASSUME NEW st \in Seq(Activation), NEW bl \in Seq(Block), Shape(st, bl), st # << >>,
         Height(st[Len(st)]) =< Len(bl), NEW b \in Block, NEW n \in Nat
  PROVE  LET a == NewBlock(b, FALSE, Len(bl), n)
         IN  /\ a \in Activation /\ Append(st, a) \in Seq(Activation)
             /\ Append(bl, b) \in Seq(Block)
             /\ Shape(Append(st, a), Append(bl, b))
  <1> DEFINE a == NewBlock(b, FALSE, Len(bl), n)
  <1>1. Len(bl) \in Nat
    BY LenFacts
  <1>2. a \in Activation /\ a.op = "visitBlock" /\ a.base = Len(bl) /\ ~ a.from_for /\ a.ctx = b
    BY <1>1 DEF NewBlock, Activation, Method, Phase
  <1>3. Height(a) = Len(bl) + 1 /\ Current(a) = b
    BY <1>2 DEF Height, Owns, Current
  <1>4. /\ Append(bl, b) \in Seq(Block) /\ Append(bl, b)[Len(bl) + 1] = b
        /\ DOMAIN Append(bl, b) = 1 .. (Len(bl) + 1)
    BY AppendFacts
  <1>5. Shape(st, Append(bl, b))
    BY ShapeExtend
  <1>6. a.op # "visitChunk" /\ a.op \notin Loop /\ a.op # "process_for_in"
    BY <1>2 DEF Loop, PlainLoop, ForLoop
  <1>7. Height(st[Len(st)]) =< a.base
    BY <1>2
  <1> HIDE DEF a
  <1>8. Height(a) \in DOMAIN Append(bl, b) /\ Append(bl, b)[Height(a)] = Current(a)
    BY <1>1, <1>3, <1>4
  <1>9. Shape(Append(st, a), Append(bl, b))
    BY <1>2, <1>4, <1>5, <1>6, <1>7, <1>8, ShapePush
  <1> QED BY <1>2, <1>4, <1>9, AppendFacts DEF a

(* visit(block) from a for, whose own block is the context.                *)
LEMMA ShapeVisitFromFor ==
  ASSUME NEW st \in Seq(Activation), NEW bl \in Seq(Block), Shape(st, bl), st # << >>,
         st[Len(st)].op \in ForLoop, NEW n \in Nat
  PROVE  LET a == NewBlock(st[Len(st)].ctx, TRUE, st[Len(st)].base + 1, n)
         IN  /\ a \in Activation /\ Append(st, a) \in Seq(Activation)
             /\ Shape(Append(st, a), bl)
  <1> DEFINE t == st[Len(st)]
             a == NewBlock(t.ctx, TRUE, t.base + 1, n)
  <1>1. t \in Activation /\ Len(st) \in DOMAIN st /\ Len(st) \in Nat /\ Len(st) >= 1
    BY LenFacts
  <1>2. /\ t.op # "visitChunk" /\ Height(t) = t.base + 1 /\ Current(t) = t.ctx
    <2>1. t.op \in ForLoop OBVIOUS
    <2> HIDE DEF t
    <2> QED BY <2>1 DEF ForLoop, Height, Owns, Current
  <1>3. Len(st) > 1
    BY <1>1, <1>2 DEF Shape
  <1>4. Height(t) \in DOMAIN bl /\ bl[Height(t)] = Current(t)
    BY <1>1, <1>3 DEF Shape
  <1>5. t.ctx \in Block /\ t.base \in Nat
    BY <1>1 DEF Activation
  <1>6. a \in Activation /\ a.op = "visitBlock" /\ a.base = t.base + 1 /\ a.from_for /\ a.ctx = t.ctx
    BY <1>5 DEF NewBlock, Activation, Method, Phase
  <1>7. Height(a) = t.base + 1 /\ Current(a) = t.ctx
    BY <1>6 DEF Height, Owns, Current, ForLoop
  <1>8. a.op # "visitChunk" /\ a.op \notin Loop /\ a.op # "process_for_in"
    BY <1>6 DEF Loop, PlainLoop, ForLoop
  <1> HIDE DEF a, t
  <1>9. Height(t) =< a.base
    BY <1>2, <1>5, <1>6
  <1>10. Shape(Append(st, a), bl)
    BY <1>2, <1>4, <1>6, <1>7, <1>8, <1>9, ShapePush DEF t
  <1> QED BY <1>6, <1>10, AppendFacts DEF a, t

(* An activation that saves current_block() and pushes nothing yet: while, *)
(* repeat, expect_failure and call_function.                               *)
LEMMA ShapeNew ==
  ASSUME NEW st \in Seq(Activation), Shape(st, blocks), st # << >>,
         blocks \in Seq(Block), blocks # << >>, local_values \in Seq(Frame),
         Height(st[Len(st)]) =< Len(blocks),
         NEW op \in PlainLoop \cup {"expect_failure", "call_function"},
         NEW b \in Block, NEW s, s.id \in Name \cup Label \cup {Nil}, s.fn \in Body \cup {Nil},
         NEW at \in Phase
  PROVE  LET a == New(op, b, s, at)
         IN  /\ a \in Activation /\ Append(st, a) \in Seq(Activation)
             /\ Shape(Append(st, a), blocks)
             /\ Height(a) = Len(blocks)
  <1> DEFINE a == New(op, b, s, at)
  <1>1. /\ Len(blocks) \in Nat /\ Len(blocks) >= 1 /\ DOMAIN blocks = 1 .. Len(blocks)
        /\ Last(blocks) \in Block /\ Last(blocks) = blocks[Len(blocks)]
    BY LenFacts
  <1>2. Len(local_values) \in Nat
    BY LenFacts
  <1>3. /\ a \in Activation /\ a.op = op /\ a.base = Len(blocks) /\ a.cur = Last(blocks)
    BY <1>1, <1>2 DEF New, Activation, Method, Loop, PlainLoop
  <1>4. /\ a.op # "visitChunk" /\ a.op # "process_for_in"
        /\ Height(a) = Len(blocks) /\ Current(a) = Last(blocks)
    BY <1>3 DEF Height, Owns, Current, PlainLoop, ForLoop
  <1> HIDE DEF a
  <1>5. Shape(Append(st, a), blocks)
    <2>1. Len(blocks) \in DOMAIN blocks
      BY <1>1
    <2> QED BY <1>1, <1>3, <1>4, <2>1, ShapePush
  <1> QED BY <1>3, <1>4, <1>5, AppendFacts DEF a

(* A for, which pushes the block of its body.                              *)
LEMMA ShapeNewFor ==
  ASSUME NEW st \in Seq(Activation), Shape(st, blocks), st # << >>,
         blocks \in Seq(Block), blocks # << >>, local_values \in Seq(Frame),
         Height(st[Len(st)]) =< Len(blocks),
         NEW op \in ForLoop, NEW b \in Block,
         NEW s, s.id \in Name, s.fn \in Body \cup {Nil}, op = "process_for_in" => s.fn \in Body,
         NEW at \in Phase
  PROVE  LET a == New(op, b, s, at)
         IN  /\ a \in Activation /\ Append(st, a) \in Seq(Activation)
             /\ Append(blocks, b) \in Seq(Block)
             /\ Shape(Append(st, a), Append(blocks, b))
  <1> DEFINE a == New(op, b, s, at)
             bl == Append(blocks, b)
  <1>1. /\ Len(blocks) \in Nat /\ Len(blocks) >= 1 /\ DOMAIN blocks = 1 .. Len(blocks)
        /\ Last(blocks) \in Block /\ Last(blocks) = blocks[Len(blocks)]
    BY LenFacts
  <1>2. Len(local_values) \in Nat
    BY LenFacts
  <1>3. /\ a \in Activation /\ a.op = op /\ a.base = Len(blocks) /\ a.cur = Last(blocks)
        /\ a.id = s.id /\ a.fn = s.fn /\ a.ctx = b
    BY <1>1, <1>2 DEF New, Activation, Method, Loop, ForLoop
  <1>4. /\ a.op # "visitChunk"
        /\ Height(a) = Len(blocks) + 1 /\ Current(a) = b
    BY <1>3 DEF Height, Owns, Current, ForLoop
  <1>5. /\ bl \in Seq(Block) /\ bl[Len(blocks) + 1] = b /\ DOMAIN bl = 1 .. (Len(blocks) + 1)
        /\ \A k \in 1 .. Len(blocks) : bl[k] = blocks[k]
    BY AppendFacts
  <1>6. Shape(st, bl)
    BY ShapeExtend
  <1>7. a.base \in DOMAIN bl /\ bl[a.base] = a.cur /\ Height(a) \in DOMAIN bl /\ bl[Height(a)] = Current(a)
    BY <1>1, <1>3, <1>4, <1>5
  <1> HIDE DEF a, bl
  <1>8. Shape(Append(st, a), bl)
    BY <1>1, <1>3, <1>4, <1>5, <1>6, <1>7, ShapePush
  <1> QED BY <1>3, <1>5, <1>8, AppendFacts DEF a, bl

-----------------------------------------------------------------------------
(* stabilize_blocks.                                                       *)

(* A set of positions that is not empty has a last one.                    *)
LEMMA LastPosition ==
  ASSUME NEW n \in Nat, NEW T, T \subseteq 1 .. n, T # {}
  PROVE  \E x \in T : \A y \in T : y =< x
  <1> DEFINE R == {ss \in Nat \X Nat : ss[1] < ss[2]}
             U == {n - t : t \in T}
  <1>1. U \subseteq Nat /\ U # {}
    <2>1. \A t \in T : t \in 1 .. n
      OBVIOUS
    <2>2. \A t \in 1 .. n : n - t \in Nat
      OBVIOUS
    <2> QED BY <2>1, <2>2
  <1>2. IsWellFoundedOn(R, Nat)
    BY NatLessThanWellFounded DEF OpToRel
  <1> HIDE DEF R
  <1>3. \E u \in U : \A v \in U : ~ (<<v, u>> \in R)
    BY <1>1, <1>2, WFMin
  <1>4. PICK u \in U : \A v \in U : ~ (v < u)
    BY <1>1, <1>3 DEF R
  <1>5. PICK x \in T : u = n - x
    BY <1>4
  <1>6. \A y \in T : ~ (n - y < n - x)
    BY <1>4, <1>5
  <1> QED BY <1>5, <1>6

(* The search stops, at the expected block or above it.                    *)
LEMMA TopmostFacts ==
  ASSUME blocks \in Seq(Block), NEW ctx, NEW h \in DOMAIN blocks, blocks[h] = ctx
  PROVE  /\ Topmost(ctx) \in DOMAIN blocks /\ blocks[Topmost(ctx)] = ctx
         /\ h =< Topmost(ctx)
         /\ \A m \in DOMAIN blocks : m > Topmost(ctx) => blocks[m] # ctx
  <1> DEFINE T == {m \in DOMAIN blocks : blocks[m] = ctx}
  <1>1. Len(blocks) \in Nat /\ DOMAIN blocks = 1 .. Len(blocks)
    BY LenFacts
  <1>2. T \subseteq 1 .. Len(blocks) /\ T # {} /\ h \in T
    BY <1>1
  <1>3. PICK x \in T : \A y \in T : y =< x
    BY <1>1, <1>2, LastPosition
  <1>4. \E n \in DOMAIN blocks : /\ blocks[n] = ctx
                                 /\ \A m \in DOMAIN blocks : m > n => blocks[m] # ctx
    BY <1>1, <1>3
  <1>5. /\ Topmost(ctx) \in DOMAIN blocks /\ blocks[Topmost(ctx)] = ctx
        /\ \A m \in DOMAIN blocks : m > Topmost(ctx) => blocks[m] # ctx
    BY <1>4 DEF Topmost
  <1> QED BY <1>1, <1>5

(* It keeps the blocks up to the expected one, and stops exactly there     *)
(* when the expected block does not occur again above.                     *)
LEMMA StabilizeFacts ==
  ASSUME blocks \in Seq(Block), local_values \in Seq(Frame),
         NEW ctx, NEW h \in DOMAIN blocks, blocks[h] = ctx
  PROVE  /\ StabilizedBlocks(ctx) \in Seq(Block)
         /\ h =< Len(StabilizedBlocks(ctx)) /\ Len(StabilizedBlocks(ctx)) =< Len(blocks)
         /\ \A m \in 1 .. Len(StabilizedBlocks(ctx)) : StabilizedBlocks(ctx)[m] = blocks[m]
         /\ StabilizedValues(ctx) \in Seq(Frame)
         /\ Len(StabilizedValues(ctx)) = Len(local_values)
         /\ (\A m \in DOMAIN blocks : m > h => blocks[m] # ctx) => Len(StabilizedBlocks(ctx)) = h
  <1>1. /\ Len(blocks) \in Nat /\ DOMAIN blocks = 1 .. Len(blocks) /\ Len(blocks) >= 1
        /\ Last(blocks) = blocks[Len(blocks)]
    BY LenFacts
  <1>2. /\ Topmost(ctx) \in DOMAIN blocks /\ blocks[Topmost(ctx)] = ctx /\ h =< Topmost(ctx)
        /\ \A m \in DOMAIN blocks : m > Topmost(ctx) => blocks[m] # ctx
    BY TopmostFacts
  <1>3. /\ SubSeq(blocks, 1, Topmost(ctx)) \in Seq(Block)
        /\ Len(SubSeq(blocks, 1, Topmost(ctx))) = Topmost(ctx)
        /\ \A m \in 1 .. Topmost(ctx) : SubSeq(blocks, 1, Topmost(ctx))[m] = blocks[m]
    BY <1>1, <1>2, PrefixFacts
  <1>4. StabilizedValues(ctx) \in Seq(Frame) /\ Len(StabilizedValues(ctx)) = Len(local_values)
    BY FrameFacts DEF StabilizedValues
  <1>5. CASE Stable(ctx)
    <2>1. StabilizedBlocks(ctx) = blocks /\ blocks[Len(blocks)] = ctx
      BY <1>1, <1>5 DEF Stable, StabilizedBlocks
    <2>2. h \in Nat /\ h =< Len(blocks) /\ Len(blocks) \in DOMAIN blocks
      BY <1>1
    <2>3. (\A m \in DOMAIN blocks : m > h => blocks[m] # ctx) => Len(blocks) = h
      BY <1>1, <2>1, <2>2
    <2> QED BY <1>1, <1>4, <2>1, <2>2, <2>3
  <1>6. CASE ~ Stable(ctx)
    BY <1>1, <1>2, <1>3, <1>4, <1>6 DEF StabilizedBlocks
  <1> QED BY <1>5, <1>6

-----------------------------------------------------------------------------
(* Moving along, calling and returning.                                    *)

LEMMA FrontType ==
  ASSUME NEW A, NEW s \in Seq(A)
  PROVE  Front(s) \in Seq(A)
  <1>1. CASE s = << >>
    BY <1>1 DEF Front
  <1>2. CASE s # << >>
    BY <1>2, FrontFacts
  <1> QED BY <1>1, <1>2

(* The stack after the top activation moved along.                         *)
LEMMA MoveFacts ==
  ASSUME Inv1, stack # << >>, NEW a \in Activation, SameShape(a, Top)
  PROVE  /\ Replace(a) \in Seq(Activation) /\ Replace(a) # << >>
         /\ Len(Replace(a)) = Len(stack) /\ DOMAIN Replace(a) = DOMAIN stack
         /\ Replace(a)[Len(stack)] = a
         /\ \A k \in 1 .. (Len(stack) - 1) : Replace(a)[k] = stack[k]
         /\ Shape(Replace(a), blocks)
         /\ Height(a) = Height(Top) /\ Frames(a) = Frames(Top) /\ Current(a) = Current(Top)
  <1>1. stack \in Seq(Activation) /\ blocks \in Seq(Block) /\ Shape(stack, blocks) /\ Top \in Activation
    BY TopFacts DEF Inv1, TypeOK
  <1>2. Shape(Replace(a), blocks)
    BY <1>1, ShapeReplace DEF Replace, Top
  <1>3. Height(a) = Height(Top) /\ Frames(a) = Frames(Top) /\ Current(a) = Current(Top)
    BY <1>1, SameShapeFacts
  <1> QED BY <1>1, <1>2, <1>3, ReplaceFacts DEF Replace

LEMMA PhasedFacts ==
  ASSUME Inv1, stack # << >>, NEW p \in Phase
  PROVE  LET a == [Top EXCEPT !.at = p]
         IN  a \in Activation /\ SameShape(a, Top) /\ Phased(p) = Replace(a)
  BY TopFacts, StepsKeepShape, 0 \in Nat, TRUE \in BOOLEAN DEF Phased

LEMMA PhasedStack ==
  ASSUME Inv1, stack # << >>, NEW p \in Phase
  PROVE  /\ Phased(p) \in Seq(Activation) /\ Phased(p) # << >> /\ Shape(Phased(p), blocks)
         /\ Len(Phased(p)) = Len(stack)
         /\ SameShape(Phased(p)[Len(stack)], Top)
         /\ Height(Phased(p)[Len(stack)]) = Height(Top)
         /\ Frames(Phased(p)[Len(stack)]) = Frames(Top)
         /\ Phased(p)[Len(stack)] \in Activation
         /\ \A k \in 1 .. (Len(stack) - 1) : Phased(p)[k] = stack[k]
  <1> DEFINE a == [Top EXCEPT !.at = p]
  <1>1. a \in Activation /\ SameShape(a, Top) /\ Phased(p) = Replace(a)
    BY PhasedFacts
  <1> HIDE DEF a
  <1>2. /\ Replace(a) \in Seq(Activation) /\ Replace(a) # << >> /\ Shape(Replace(a), blocks)
        /\ Len(Replace(a)) = Len(stack) /\ Replace(a)[Len(stack)] = a
        /\ Height(a) = Height(Top) /\ Frames(a) = Frames(Top)
        /\ \A k \in 1 .. (Len(stack) - 1) : Replace(a)[k] = stack[k]
    BY <1>1, MoveFacts
  <1> QED BY <1>1, <1>2

LEMMA AdvancedFacts ==
  ASSUME Inv1, stack # << >>
  PROVE  LET a == [Top EXCEPT !.i = Top.i + 1]
         IN  a \in Activation /\ SameShape(a, Top) /\ Advanced = Replace(a)
  <1>1. Top \in Activation /\ Top.i + 1 \in Nat
    BY TopFacts DEF Activation
  <1>2. "body" \in Phase
    BY DEF Phase
  <1> QED BY <1>1, <1>2, StepsKeepShape, TRUE \in BOOLEAN DEF Advanced

(* The height of an activation is at most the base of the one above it.    *)
LEMMA HeightBelow ==
  ASSUME Inv1, stack # << >>, Top.op # "visitChunk"
  PROVE  /\ Height(stack[Len(stack) - 1]) =< Top.base /\ Height(stack[Len(stack) - 1]) \in Nat
         /\ Top.base \in Nat
         /\ \A m : Anchor(stack, blocks, Len(stack), m) => Height(stack[Len(stack) - 1]) =< m
  <1> DEFINE n == Len(stack) - 1
  <1>1. stack \in Seq(Activation) /\ blocks \in Seq(Block) /\ Shape(stack, blocks)
    BY DEF Inv1, TypeOK
  <1>2. Len(stack) \in Nat /\ n >= 1 /\ n \in Nat /\ DOMAIN stack = 1 .. Len(stack)
    BY <1>1, TopFacts, LenFacts
  <1>3. n \in DOMAIN stack /\ Len(stack) \in DOMAIN stack /\ n < Len(stack) /\ stack[n] \in Activation
    BY <1>1, <1>2, LenFacts
  <1>4. Height(stack[n]) =< stack[Len(stack)].base
    BY <1>1, <1>3 DEF Shape
  <1>5. \A m : Anchor(stack, blocks, Len(stack), m) => Height(stack[n]) =< m
    BY <1>3 DEF Anchor
  <1> QED BY <1>3, <1>4, <1>5, HeightFacts, TopFacts DEF Top

(* The stack after the top method returned, when _blocks is as it was up   *)
(* to some height that the methods below do not exceed.                    *)
LEMMA ReturnFactsAt ==
  ASSUME Inv1, stack # << >>, Top.op # "visitChunk", NEW v \in BOOLEAN, ReturnTo(v),
         NEW bl \in Seq(Block), NEW h \in Nat, h =< Len(bl),
         Height(stack[Len(stack) - 1]) =< h,
         \A m \in 1 .. h : m \in DOMAIN blocks => bl[m] = blocks[m]
  PROVE  /\ stack' \in Seq(Activation) /\ stack' # << >>
         /\ Len(stack') = Len(stack) - 1 /\ Len(stack) - 1 >= 1
         /\ \A k \in 1 .. (Len(stack) - 2) : stack'[k] = stack[k]
         /\ stack[Len(stack) - 1] \in Activation
         /\ stack'[Len(stack) - 1] = Resumed(stack[Len(stack) - 1], v)
         /\ stack'[Len(stack) - 1] \in Activation
         /\ SameShape(stack'[Len(stack) - 1], stack[Len(stack) - 1])
         /\ Shape(stack', bl)
  <1> DEFINE below == Front(stack)
             n == Len(stack) - 1
             a == Resumed(below[n], v)
  <1>1. stack \in Seq(Activation) /\ blocks \in Seq(Block) /\ Shape(stack, blocks)
    BY DEF Inv1, TypeOK
  <1>2. Len(stack) \in Nat /\ n >= 1 /\ n \in Nat /\ DOMAIN stack = 1 .. Len(stack)
    BY <1>1, TopFacts, LenFacts
  <1>3. /\ below \in Seq(Activation) /\ Len(below) = n
        /\ \A k \in 1 .. n : below[k] = stack[k]
    BY <1>1, FrontFacts
  <1>4. below # << >> /\ below[n] = stack[n] /\ stack[n] \in Activation
    BY <1>1, <1>2, <1>3, LenFacts
  <1>5. Shape(below, blocks)
    BY <1>1, ShapePop
  <1>6. Height(below[n]) =< h /\ Height(below[n]) \in Nat
    BY <1>4, HeightFacts
  <1>7. Len(bl) \in Nat
    BY LenFacts
  <1>8. Shape(below, bl)
    <2>1. Height(below[n]) =< Len(bl)
      BY <1>6, <1>7
    <2>2. \A m \in 1 .. Height(below[n]) : m \in DOMAIN blocks => bl[m] = blocks[m]
      BY <1>6
    <2> HIDE DEF below, n
    <2> QED BY <1>1, <1>3, <1>4, <1>5, <2>1, <2>2, ShapeBlocks
  <1>9. a \in Activation /\ SameShape(a, below[n])
    <2>1. 0 \in Nat /\ "body" \in Phase
      BY DEF Phase
    <2> HIDE DEF below, n
    <2> QED BY <1>4, <2>1, StepsKeepShape
  <1>10. stack' = [below EXCEPT ![Len(below)] = a]
    BY <1>3 DEF ReturnTo
  <1> HIDE DEF below, a
  <1>11. Shape(stack', bl)
    BY <1>3, <1>4, <1>8, <1>9, <1>10, ShapeReplace
  <1>12. /\ stack' \in Seq(Activation) /\ Len(stack') = n /\ stack' # << >>
         /\ stack'[n] = a /\ \A k \in 1 .. (n - 1) : stack'[k] = below[k]
    BY <1>3, <1>4, <1>9, <1>10, ReplaceFacts
  <1>13. \A k \in 1 .. (Len(stack) - 2) : stack'[k] = stack[k]
    BY <1>2, <1>3, <1>12
  <1>14. a = Resumed(stack[n], v)
    BY <1>4 DEF a
  <1> QED BY <1>2, <1>4, <1>9, <1>11, <1>12, <1>13, <1>14

(* The same when _blocks is as it was when the method was entered.         *)
LEMMA ReturnFacts ==
  ASSUME Inv1, stack # << >>, Top.op # "visitChunk", NEW v \in BOOLEAN, ReturnTo(v),
         NEW bl \in Seq(Block), Top.base =< Len(bl),
         \A m \in 1 .. Top.base : m \in DOMAIN blocks => bl[m] = blocks[m]
  PROVE  /\ stack' \in Seq(Activation) /\ stack' # << >>
         /\ Len(stack') = Len(stack) - 1 /\ Len(stack) - 1 >= 1
         /\ \A k \in 1 .. (Len(stack) - 2) : stack'[k] = stack[k]
         /\ stack[Len(stack) - 1] \in Activation
         /\ stack'[Len(stack) - 1] = Resumed(stack[Len(stack) - 1], v)
         /\ stack'[Len(stack) - 1] \in Activation
         /\ SameShape(stack'[Len(stack) - 1], stack[Len(stack) - 1])
         /\ Shape(stack', bl)
  <1> DEFINE h == Top.base
  <1>1. /\ h \in Nat /\ h =< Len(bl) /\ Height(stack[Len(stack) - 1]) =< h
        /\ \A m \in 1 .. h : m \in DOMAIN blocks => bl[m] = blocks[m]
    BY HeightBelow
  <1> HIDE DEF h
  <1> QED BY <1>1, ReturnFactsAt

(* A call pushes two activations.                                          *)
LEMMA CallFacts ==
  ASSUME Inv1, NEW st \in Seq(Activation), Shape(st, blocks), st # << >>, blocks # << >>,
         Height(st[Len(st)]) =< Len(blocks), NEW f \in Body, CallFunction(st, f)
  PROVE  LET c == New("call_function", f, [id |-> Nil, fn |-> Nil], "body")
             b == NewBlock(f, FALSE, Len(blocks), Len(local_values) + 1)
         IN  /\ c \in Activation /\ b \in Activation
             /\ stack' = Append(Append(st, c), b)
             /\ stack' \in Seq(Activation)
             /\ blocks' \in Seq(Block) /\ Shape(stack', blocks')
             /\ local_values' \in Seq(Frame) /\ functions' \in Seq(Body)
  <1> DEFINE c == New("call_function", f, [id |-> Nil, fn |-> Nil], "body")
             b == NewBlock(f, FALSE, Len(blocks), Len(local_values) + 1)
  <1>1. blocks \in Seq(Block) /\ local_values \in Seq(Frame) /\ functions \in Seq(Body)
    BY DEF Inv1, TypeOK
  <1>2. f \in Block /\ f \in Body
    BY TreeAssumption
  <1>3. /\ c \in Activation /\ Append(st, c) \in Seq(Activation)
        /\ Shape(Append(st, c), blocks) /\ Height(c) = Len(blocks)
    <2>1. "call_function" \in PlainLoop \cup {"expect_failure", "call_function"} /\ "body" \in Phase
      BY DEF Phase
    <2> DEFINE s == [id |-> Nil, fn |-> Nil]
    <2>2. s.id \in Name \cup Label \cup {Nil} /\ s.fn \in Body \cup {Nil}
      OBVIOUS
    <2> HIDE DEF s
    <2>3. LET x == New("call_function", f, s, "body")
          IN  /\ x \in Activation /\ Append(st, x) \in Seq(Activation)
              /\ Shape(Append(st, x), blocks) /\ Height(x) = Len(blocks)
      BY <1>1, <1>2, <2>1, <2>2, ShapeNew
    <2> QED BY <2>3 DEF s
  <1> HIDE DEF c
  <1>4. Len(local_values) + 1 \in Nat /\ Len(blocks) \in Nat
    BY <1>1, LenFacts
  <1>5. Append(st, c) # << >> /\ Append(st, c)[Len(Append(st, c))] = c
    BY <1>3, AppendFacts, LenFacts
  <1>6. Height(Append(st, c)[Len(Append(st, c))]) =< Len(blocks)
    BY <1>3, <1>4, <1>5
  <1>7. /\ b \in Activation /\ Append(Append(st, c), b) \in Seq(Activation)
        /\ Append(blocks, f) \in Seq(Block)
        /\ Shape(Append(Append(st, c), b), Append(blocks, f))
    BY <1>1, <1>2, <1>3, <1>4, <1>5, <1>6, ShapeVisit
  <1> HIDE DEF b
  <1>8. stack' = Append(Append(st, c), b)
    <2>1. stack' = st \o <<c, b>>
      BY DEF CallFunction, c, b
    <2> QED BY <1>3, <1>7, <2>1
  <1>9. [x \in Block |-> IF x = f THEN prog[f].params ELSE {}] \in Frame
    <2>1. prog[f].params \in SUBSET Name
      BY <1>2 DEF Inv1, TypeOK, BlockCode
    <2> QED BY <2>1 DEF Frame
  <1>10. local_values' \in Seq(Frame) /\ functions' \in Seq(Body)
    BY <1>1, <1>2, <1>9, AppendFacts DEF CallFunction
  <1>11. blocks' = Append(blocks, f)
    BY DEF CallFunction
  <1> QED BY <1>3, <1>7, <1>8, <1>10, <1>11 DEF c, b

-----------------------------------------------------------------------------
(* The first invariant is inductive.                                       *)

LEMMA Inv1Next ==
  ASSUME Inv1, prog' = prog, status' \in Status, exn' \in Exception,
         stack' \in Seq(Activation), blocks' \in Seq(Block), local_values' \in Seq(Frame),
         functions' \in Seq(Body), defined' \in SUBSET Body, escaped' \in BOOLEAN,
         Shape(stack', blocks')
  PROVE  Inv1'
  BY DEF Inv1, TypeOK

(* The steps that throw, stop, or move to the next statement.              *)
LEMMA Inv1Still ==
  ASSUME Inv1,
         \/ ProcessBreak \/ ProcessGoto \/ ThrowBadType \/ ForBadStep \/ VisitRetstat \/ ForInBreak
         \/ NullParlist \/ FatalError \/ ForStepFreed \/ UnbalancedBlocks \/ CutRun
         \/ UNCHANGED vars
  PROVE  Inv1'
  <1>1. /\ stack \in Seq(Activation) /\ blocks \in Seq(Block) /\ local_values \in Seq(Frame)
        /\ functions \in Seq(Body) /\ defined \in SUBSET Body /\ escaped \in BOOLEAN
        /\ status \in Status /\ exn \in Exception /\ Shape(stack, blocks)
    BY DEF Inv1, TypeOK
  <1>2. /\ stack' = stack /\ blocks' = blocks /\ functions' = functions /\ defined' = defined
        /\ escaped' = escaped /\ prog' = prog
    BY DEF ProcessBreak, ProcessGoto, ThrowBadType, ForBadStep, VisitRetstat, ForInBreak, NullParlist,
           FatalError, ForStepFreed, UnbalancedBlocks, CutRun, vars, stores
  <1>3. status' = status \/ status' \in {"crashed", "failed", "freed", "unbalanced", "cut"}
    BY DEF ProcessBreak, ProcessGoto, ThrowBadType, ForBadStep, VisitRetstat, ForInBreak, NullParlist,
           FatalError, ForStepFreed, UnbalancedBlocks, CutRun, vars, stores
  <1>4. status' \in Status
    BY <1>1, <1>3 DEF Status
  <1>5. exn' \in Exception
    <2>1. CASE ProcessGoto
      <3>1. AtStat({"goto"})
        BY <2>1 DEF ProcessGoto
      <3>2. S.id \in Label
        BY <3>1, StatFacts DEF WellFormedStat
      <3> QED BY <2>1, <3>2 DEF ProcessGoto, Exception
    <2>2. CASE ~ ProcessGoto
      <3>1. exn' = exn \/ \E k \in {"Break", "Return", "BadType"} : exn' = [kind |-> k, label |-> Nil]
        BY <2>2 DEF ProcessBreak, ProcessGoto, ThrowBadType, ForBadStep, VisitRetstat, ForInBreak, NullParlist,
               FatalError, ForStepFreed, UnbalancedBlocks, CutRun, vars, Throw
      <3> QED BY <1>1, <3>1 DEF Exception
    <2> QED BY <2>1, <2>2
  <1>6. local_values' \in Seq(Frame)
    <2>1. local_values' = local_values \/ local_values' = EraseBlocks(local_values, {Top.ctx})
      BY DEF ProcessBreak, ProcessGoto, ThrowBadType, ForBadStep, VisitRetstat, ForInBreak, NullParlist,
             FatalError, ForStepFreed, UnbalancedBlocks, CutRun, vars, stores, Erased
    <2> QED BY <1>1, <2>1, FrameFacts
  <1> QED BY <1>1, <1>2, <1>4, <1>5, <1>6, Inv1Next

(* The steps that move the top activation along and leave _blocks alone.   *)
LEMMA Inv1Move ==
  ASSUME Inv1, \/ SkipStat \/ ProcessLocal \/ ProcessFunction \/ ForStep \/ ForInClear
  PROVE  Inv1'
  <1>1. /\ stack \in Seq(Activation) /\ blocks \in Seq(Block) /\ local_values \in Seq(Frame)
        /\ functions \in Seq(Body) /\ defined \in SUBSET Body /\ escaped \in BOOLEAN
        /\ status \in Status /\ exn \in Exception /\ Shape(stack, blocks)
    BY DEF Inv1, TypeOK
  <1>2. /\ blocks' = blocks /\ functions' = functions /\ escaped' = escaped /\ prog' = prog
        /\ status' = status /\ exn' = exn /\ stack # << >>
    BY DEF SkipStat, ProcessLocal, ProcessFunction, ForStep, ForInClear, stores, AtStat, In, Running
  <1>3. stack' = Advanced \/ stack' = Phased("test") \/ stack' = Phased("start")
    BY DEF SkipStat, ProcessLocal, ProcessFunction, ForStep, ForInClear
  <1>4. stack' \in Seq(Activation) /\ Shape(stack', blocks)
    <2>1. "test" \in Phase /\ "start" \in Phase
      BY DEF Phase
    <2>2. \E a \in Activation : SameShape(a, Top) /\ stack' = Replace(a)
      BY <1>2, <1>3, <2>1, PhasedFacts, AdvancedFacts
    <2> QED BY <1>2, <2>2, MoveFacts
  <1>5. local_values' \in Seq(Frame) /\ defined' \in SUBSET Body
    <2>1. CASE ProcessLocal
      <3>1. AtStat(LocalOps)
        BY <2>1 DEF ProcessLocal
      <3>2. S.id \in Name /\ (S.op \in DefOps => S.fn \in Body)
        BY <3>1, StatFacts DEF WellFormedStat, Stat
      <3>3. {S.id} \in SUBSET Name
        BY <3>2
      <3>4. local_values' \in Seq(Frame)
        BY <1>1, <2>1, <3>3, FrameFacts DEF ProcessLocal, Bind
      <3>5. defined' \in SUBSET Body
        BY <1>1, <2>1, <3>2 DEF ProcessLocal
      <3> QED BY <3>4, <3>5
    <2>2. CASE ProcessFunction
      <3>1. AtStat({"function", "def"})
        BY <2>2 DEF ProcessFunction
      <3>2. S.fn \in Body
        BY <3>1, StatFacts DEF WellFormedStat, Stat, DefOps
      <3> QED BY <1>1, <2>2, <3>2 DEF ProcessFunction, stores
    <2>3. CASE SkipStat
      BY <1>1, <2>3 DEF SkipStat, stores
    <2>4. CASE ForStep \/ ForInClear
      <3>1. /\ defined' = defined
            /\ \/ local_values' = Keep(local_values, Top.ctx, {Top.id})
               \/ local_values' = Keep(local_values, Top.ctx, {})
        BY <2>4 DEF ForStep, ForInClear
      <3>2. \A names : Keep(local_values, Top.ctx, names) \in Seq(Frame)
        <4> SUFFICES ASSUME NEW names PROVE Keep(local_values, Top.ctx, names) \in Seq(Frame)
          OBVIOUS
        <4> DEFINE x == [local_values[Len(local_values)] EXCEPT ![Top.ctx] = @ \cap names]
        <4>1. local_values # << >> => local_values[Len(local_values)] \in Frame
          BY <1>1, LenFacts
        <4>2. local_values # << >> => x \in Frame
          BY <4>1 DEF Frame
        <4> HIDE DEF x
        <4>3. [local_values EXCEPT ![Len(local_values)] = x] \in Seq(Frame)
          BY <1>1, <4>2, ExceptFacts
        <4> QED BY <4>3 DEF x, Keep
      <3> QED BY <1>1, <3>1, <3>2
    <2> QED BY <2>1, <2>2, <2>3, <2>4
  <1> QED BY <1>1, <1>2, <1>4, <1>5, Inv1Next

(* The head of a numeric for once it has pushed its block.                 *)
ForStarted == [Top EXCEPT !.op = "process_for_loop", !.at = "test", !.base = Len(blocks)]

LEMMA ForStartedFacts ==
  ASSUME Inv1, stack # << >>, Top.op = "process_for_head"
  PROVE  /\ ForStarted \in Activation /\ ForStarted.op = "process_for_loop"
         /\ ForStarted.ctx = Top.ctx /\ ForStarted.cur = Top.cur /\ ForStarted.base = Len(blocks)
         /\ ForStarted.frame = Top.frame /\ ForStarted.fn = Top.fn /\ ForStarted.id = Top.id
         /\ Height(ForStarted) = Len(blocks) + 1 /\ Current(ForStarted) = Top.ctx
         /\ Frames(ForStarted) = Frames(Top) /\ Len(blocks) \in Nat /\ Top.ctx \in Block
         /\ Height(Top) = Top.base /\ Current(Top) = Top.cur
  <1>1. Top \in Activation /\ Len(blocks) \in Nat
    BY TopFacts
  <1>2. /\ ForStarted \in Activation /\ ForStarted.op = "process_for_loop"
        /\ ForStarted.ctx = Top.ctx /\ ForStarted.cur = Top.cur /\ ForStarted.base = Len(blocks)
        /\ ForStarted.frame = Top.frame /\ ForStarted.fn = Top.fn /\ ForStarted.id = Top.id
    BY <1>1 DEF ForStarted, Activation, Method, Loop, ForLoop, Phase
  <1>3. Height(ForStarted) = Len(blocks) + 1 /\ Current(ForStarted) = Top.ctx
    BY <1>2 DEF Height, Owns, Current, ForLoop
  <1>4. Frames(ForStarted) = Frames(Top)
    BY <1>2 DEF Frames, OpensFrame
  <1>5. Height(Top) = Top.base /\ Current(Top) = Top.cur
    BY DEF Height, Owns, Current, ForLoop
  <1> QED BY <1>1, <1>2, <1>3, <1>4, <1>5 DEF Activation

LEMMA ForStartShape ==
  ASSUME Inv1, stack # << >>, Top.op = "process_for_head"
  PROVE  /\ Replace(ForStarted) \in Seq(Activation) /\ Append(blocks, Top.ctx) \in Seq(Block)
         /\ Shape(Replace(ForStarted), Append(blocks, Top.ctx))
         /\ Replace(ForStarted) # << >>
         /\ Len(Replace(ForStarted)) = Len(stack)
         /\ Replace(ForStarted)[Len(stack)] = ForStarted
         /\ \A k \in 1 .. (Len(stack) - 1) : Replace(ForStarted)[k] = stack[k]
  <1> DEFINE n == Len(stack)
             t == Replace(ForStarted)
             bl == Append(blocks, Top.ctx)
             a == ForStarted
  <1>1. /\ stack \in Seq(Activation) /\ blocks \in Seq(Block) /\ Shape(stack, blocks)
        /\ n \in Nat /\ n >= 1 /\ DOMAIN stack = 1 .. n /\ \A k \in DOMAIN stack : stack[k] \in Activation
    BY LenFacts DEF Inv1, TypeOK
  <1>2. /\ a \in Activation /\ a.op = "process_for_loop"
        /\ a.ctx = Top.ctx /\ a.cur = Top.cur /\ a.base = Len(blocks)
        /\ Height(a) = Len(blocks) + 1 /\ Current(a) = Top.ctx
        /\ Len(blocks) \in Nat /\ Top.ctx \in Block
    BY ForStartedFacts
  <1>3. /\ t \in Seq(Activation) /\ t # << >> /\ Len(t) = n /\ DOMAIN t = DOMAIN stack
        /\ t[n] = a /\ \A k \in 1 .. (n - 1) : t[k] = stack[k]
    <2> HIDE DEF a
    <2>1. stack \in Seq(Activation) /\ a \in Activation /\ stack # << >>
      BY <1>1, <1>2
    <2> DEFINE u == [stack EXCEPT ![Len(stack)] = a]
    <2>2. /\ u \in Seq(Activation) /\ Len(u) = Len(stack) /\ DOMAIN u = DOMAIN stack /\ u # << >>
          /\ u[Len(stack)] = a /\ \A k \in 1 .. (Len(stack) - 1) : u[k] = stack[k]
      BY ONLY <2>1, ReplaceFacts
    <2>3. t = u
      BY DEF Replace, a
    <2> HIDE DEF u, t
    <2> QED BY ONLY <2>2, <2>3 DEF n
  <1>4. /\ bl \in Seq(Block) /\ DOMAIN bl = 1 .. (Len(blocks) + 1) /\ bl[Len(blocks) + 1] = Top.ctx
        /\ DOMAIN blocks = 1 .. Len(blocks) /\ \A m \in 1 .. Len(blocks) : bl[m] = blocks[m]
    <2> DEFINE c == Top.ctx
    <2>1. c \in Block /\ blocks \in Seq(Block)
      BY <1>1, <1>2
    <2> HIDE DEF c
    <2>2. /\ Append(blocks, c) \in Seq(Block) /\ DOMAIN Append(blocks, c) = 1 .. (Len(blocks) + 1)
          /\ Append(blocks, c)[Len(blocks) + 1] = c
          /\ \A m \in 1 .. Len(blocks) : Append(blocks, c)[m] = blocks[m]
      BY ONLY <2>1, AppendFacts
    <2>3. DOMAIN blocks = 1 .. Len(blocks)
      BY ONLY <2>1, LenFacts
    <2> QED BY <2>2, <2>3 DEF c
  <1>5. PICK x \in DOMAIN blocks : Anchor(stack, blocks, n, x)
    <2>1. Top.op \in Loop
      BY DEF Loop, PlainLoop
    <2> QED BY <2>1, TopFacts
  <1>6. Top.base =< Len(blocks) /\ Top.base \in Nat /\ Top.op # "visitChunk" /\ Top = stack[n]
    <2>1. Height(Top) = Top.base /\ Top.op # "visitChunk"
      BY ForStartedFacts
    <2> QED BY <2>1, TopFacts DEF Top
  <1> HIDE DEF t, bl, a, n
  <1>7. \A k \in DOMAIN stack : k = n \/ (k \in 1 .. (n - 1) /\ t[k] = stack[k] /\ k < n)
    BY <1>1, <1>3
  <1>8. \A j \in DOMAIN stack : Height(stack[j]) \in Nat /\ stack[j].base \in Nat
    BY <1>1, HeightFacts
  <1>9. \A j \in DOMAIN stack : j < n => Height(stack[j]) =< Len(blocks) /\ Height(stack[j]) =< x
    <2> SUFFICES ASSUME NEW j \in DOMAIN stack, j < n
                 PROVE  Height(stack[j]) =< Len(blocks) /\ Height(stack[j]) =< x
      OBVIOUS
    <2>1. n \in DOMAIN stack
      BY <1>1
    <2>2. Height(stack[j]) =< Top.base
      BY <1>1, <1>6, <2>1 DEF Shape
    <2>3. Height(stack[j]) =< x
      BY <1>5 DEF Anchor
    <2> QED BY <1>2, <1>6, <1>8, <2>2, <2>3
  <1>10. \A k \in DOMAIN t : t[k].op = "visitChunk" <=> k = 1
    BY <1>1, <1>2, <1>3, <1>6, <1>7 DEF Shape
  <1>11. \A j, k \in DOMAIN t : j < k => Height(t[j]) =< t[k].base
    <2> SUFFICES ASSUME NEW j \in DOMAIN t, NEW k \in DOMAIN t, j < k PROVE Height(t[j]) =< t[k].base
      OBVIOUS
    <2>1. j \in DOMAIN stack /\ k \in DOMAIN stack /\ j < n /\ t[j] = stack[j]
      BY <1>1, <1>3, <1>7
    <2>2. CASE k = n
      BY <1>2, <1>3, <1>9, <2>1, <2>2
    <2>3. CASE k # n
      BY <1>1, <1>7, <2>1, <2>3 DEF Shape
    <2> QED BY <2>2, <2>3
  <1>12. \A k \in DOMAIN t : k > 1 => Height(t[k]) \in DOMAIN bl /\ bl[Height(t[k])] = Current(t[k])
    <2> SUFFICES ASSUME NEW k \in DOMAIN t, k > 1
                 PROVE  Height(t[k]) \in DOMAIN bl /\ bl[Height(t[k])] = Current(t[k])
      OBVIOUS
    <2>1. CASE k = n
      BY <1>2, <1>3, <1>4, <2>1
    <2>2. CASE k # n
      <3>1. k \in DOMAIN stack /\ t[k] = stack[k]
        BY <1>3, <1>7, <2>2
      <3>2. Height(stack[k]) \in DOMAIN blocks /\ blocks[Height(stack[k])] = Current(stack[k])
        BY <1>1, <3>1 DEF Shape
      <3> QED BY <1>2, <1>4, <3>1, <3>2
    <2> QED BY <2>1, <2>2
  <1>13. \A k \in DOMAIN t : t[k].op \in Loop => \E m \in DOMAIN bl : Anchor(t, bl, k, m)
    <2> SUFFICES ASSUME NEW k \in DOMAIN t, t[k].op \in Loop PROVE \E m \in DOMAIN bl : Anchor(t, bl, k, m)
      OBVIOUS
    <2>1. CASE k = n
      <3>1. x =< Top.base /\ blocks[x] = Top.cur /\ x \in Nat
        BY <1>4, <1>5, <1>6 DEF Anchor
      <3>2. x \in DOMAIN bl /\ bl[x] = Top.cur /\ x =< Len(blocks)
        BY <1>2, <1>4, <3>1
      <3>3. \A j \in DOMAIN t : j < n => Height(t[j]) =< x
        BY <1>3, <1>7, <1>9
      <3>4. Anchor(t, bl, k, x)
        BY <1>2, <1>3, <2>1, <3>2, <3>3 DEF Anchor
      <3> QED BY <3>2, <3>4
    <2>2. CASE k # n
      <3>1. k \in DOMAIN stack /\ t[k] = stack[k] /\ k < n
        BY <1>3, <1>7, <2>2
      <3>2. PICK m \in DOMAIN blocks : Anchor(stack, blocks, k, m)
        BY <1>1, <3>1 DEF Shape
      <3>3. m \in DOMAIN bl /\ bl[m] = blocks[m]
        BY <1>2, <1>4
      <3>4. \A j \in DOMAIN t : j < k => j \in DOMAIN stack /\ t[j] = stack[j]
        BY <1>1, <1>3, <1>7, <3>1
      <3>5. Anchor(t, bl, k, m)
        BY <3>1, <3>2, <3>3, <3>4 DEF Anchor
      <3> QED BY <3>3, <3>5
    <2> QED BY <2>1, <2>2
  <1>14. \A k \in DOMAIN t : t[k].op = "process_for_in" => t[k].id \in Name /\ t[k].fn \in Body
    BY <1>1, <1>2, <1>3, <1>7 DEF Shape
  <1>15. Shape(t, bl)
    BY <1>10, <1>11, <1>12, <1>13, <1>14 DEF Shape
  <1> QED BY <1>3, <1>4, <1>15 DEF t, bl, a, n

(* The steps that enter a block or a loop.                                 *)
LEMMA Inv1Enter ==
  ASSUME Inv1, \/ VisitNested \/ ProcessWhile \/ ProcessRepeat \/ LoopAgain
               \/ ProcessForLoop \/ ForStart \/ ForAgain \/ ProcessForIn \/ ForInBind
  PROVE  Inv1'
  <1>1. /\ stack \in Seq(Activation) /\ blocks \in Seq(Block) /\ local_values \in Seq(Frame)
        /\ functions \in Seq(Body) /\ defined \in SUBSET Body /\ escaped \in BOOLEAN
        /\ status \in Status /\ exn \in Exception /\ Shape(stack, blocks)
    BY DEF Inv1, TypeOK
  <1>2. /\ functions' = functions /\ defined' = defined /\ escaped' = escaped /\ prog' = prog
        /\ status' = status /\ exn' = exn /\ stack # << >> /\ Top.op # "visitChunk"
    BY DEF VisitNested, ProcessWhile, ProcessRepeat, LoopAgain, ProcessForLoop, ForStart, ForAgain,
           ProcessForIn, ForInBind, stores, AtStat, LoopTested, In, Running, PlainLoop
  <1>3. /\ Height(Top) =< Len(blocks) /\ blocks # << >> /\ Top = stack[Len(stack)]
        /\ Len(local_values) \in Nat /\ Len(blocks) \in Nat
    BY <1>1, <1>2, TopFacts, LenFacts DEF Top
  <1>4. "body" \in Phase /\ "cond" \in Phase /\ "test" \in Phase /\ "start" \in Phase
    BY DEF Phase
  <1>5. SUFFICES /\ stack' \in Seq(Activation) /\ blocks' \in Seq(Block)
                 /\ local_values' \in Seq(Frame) /\ Shape(stack', blocks')
    BY <1>1, <1>2, Inv1Next
  <1>6. CASE VisitNested
    <2>1. AtStat({"do"} \cup BranchOps)
      BY <1>6 DEF VisitNested
    <2>2. PICK j \in DOMAIN S.blks : Visit(stack, S.blks[j])
      BY <1>6 DEF VisitNested
    <2>3. S.blks[j] \in Block
      BY <2>1, StatFacts DEF Stat
    <2>4. local_values' = local_values
      BY <1>6 DEF VisitNested, stores
    <2> QED BY <1>1, <1>2, <1>3, <2>2, <2>3, <2>4, ShapeVisit DEF Visit
  <1>7. CASE ProcessWhile
    <2>1. AtStat({"while"})
      BY <1>7 DEF ProcessWhile
    <2>2. /\ S.blks[1] \in Block /\ S.id \in Name \cup Label \cup {Nil} /\ S.fn \in Body \cup {Nil}
      BY <2>1, StatFacts DEF WellFormedStat, Stat, BlockOps, LoopOps, PlainLoops
    <2>3. "process_while" \in PlainLoop \cup {"expect_failure", "call_function"}
      BY DEF PlainLoop
    <2>4. /\ stack' = Append(stack, New("process_while", S.blks[1], S, "cond"))
          /\ blocks' = blocks /\ local_values' = local_values
      BY <1>7 DEF ProcessWhile, stores
    <2> QED BY <1>1, <1>2, <1>3, <1>4, <2>2, <2>3, <2>4, ShapeNew
  <1>8. CASE ProcessRepeat
    <2>1. AtStat({"repeat"})
      BY <1>8 DEF ProcessRepeat
    <2>2. /\ S.blks[1] \in Block /\ S.id \in Name \cup Label \cup {Nil} /\ S.fn \in Body \cup {Nil}
      BY <2>1, StatFacts DEF WellFormedStat, Stat, BlockOps, LoopOps, PlainLoops
    <2>3. "process_repeat" \in PlainLoop \cup {"expect_failure", "call_function"}
      BY DEF PlainLoop
    <2> DEFINE a == New("process_repeat", S.blks[1], S, "body")
               st == Append(stack, a)
    <2>4. /\ a \in Activation /\ st \in Seq(Activation) /\ Shape(st, blocks) /\ Height(a) = Len(blocks)
      BY <1>1, <1>2, <1>3, <1>4, <2>2, <2>3, ShapeNew
    <2>5. Visit(st, S.blks[1]) /\ local_values' = local_values
      BY <1>8 DEF ProcessRepeat, stores
    <2> HIDE DEF a
    <2>6. st # << >> /\ st[Len(st)] = a
      BY <1>1, <2>4, AppendFacts, LenFacts
    <2> HIDE DEF st
    <2>7. Height(st[Len(st)]) =< Len(blocks)
      BY <1>3, <2>4, <2>6
    <2>8. LET b == NewBlock(S.blks[1], FALSE, Len(blocks), Len(local_values))
          IN  /\ Append(st, b) \in Seq(Activation) /\ Append(blocks, S.blks[1]) \in Seq(Block)
              /\ Shape(Append(st, b), Append(blocks, S.blks[1]))
      BY <1>1, <1>3, <2>2, <2>4, <2>6, <2>7, ShapeVisit
    <2> QED BY <1>1, <2>5, <2>8 DEF Visit
  <1>9. CASE LoopAgain
    <2> DEFINE st == Phased("body")
    <2>1. /\ st \in Seq(Activation) /\ st # << >> /\ Shape(st, blocks) /\ Len(st) = Len(stack)
          /\ Height(st[Len(stack)]) = Height(Top)
      BY <1>2, <1>4, PhasedStack
    <2>2. Top.ctx \in Block
      BY <1>2, TopFacts DEF Activation
    <2>3. Visit(st, Top.ctx) /\ local_values' = local_values
      BY <1>9 DEF LoopAgain, stores
    <2> HIDE DEF st
    <2> QED BY <1>1, <1>3, <2>1, <2>2, <2>3, ShapeVisit DEF Visit
  <1>10. CASE ForAgain \/ ForInBind
    <2> DEFINE st == Phased("body")
    <2>1. /\ st \in Seq(Activation) /\ st # << >> /\ Shape(st, blocks) /\ Len(st) = Len(stack)
          /\ SameShape(st[Len(stack)], Top)
      BY <1>2, <1>4, PhasedStack
    <2>2. Top.op \in ForLoop
      BY <1>10 DEF ForAgain, ForInBind, In, ForLoop
    <2>3. VisitFromFor(st, Top.ctx)
      BY <1>10 DEF ForAgain, ForInBind
    <2>4. local_values' \in Seq(Frame)
      <3>1. CASE ForAgain
        BY <1>1, <3>1 DEF ForAgain, stores
      <3>2. CASE ForInBind
        <4>1. local_values' = Bind(Top.ctx, {Top.id}) /\ Top.op = "process_for_in"
          BY <3>2 DEF ForInBind, In
        <4>2. {Top.id} \in SUBSET Name
          BY <1>2, <4>1, TopFacts
        <4> QED BY <1>1, <4>1, <4>2, FrameFacts DEF Bind
      <3> QED BY <1>10, <3>1, <3>2
    <2> HIDE DEF st
    <2>5. st[Len(st)].op \in ForLoop /\ st[Len(st)].ctx = Top.ctx /\ st[Len(st)].base = Top.base
      BY <2>1, <2>2 DEF SameShape
    <2> QED BY <1>1, <1>3, <2>1, <2>3, <2>4, <2>5, ShapeVisitFromFor DEF VisitFromFor
  <1>11. CASE ProcessForLoop
    <2>1. AtStat({"for"})
      BY <1>11 DEF ProcessForLoop
    <2>2. /\ S.blks[1] \in Block /\ S.id \in Name /\ S.fn \in Body \cup {Nil}
      BY <2>1, StatFacts DEF WellFormedStat, Stat, BlockOps, LoopOps, ForLoops
    <2>3. "process_for_head" \in PlainLoop \cup {"expect_failure", "call_function"}
      BY DEF PlainLoop
    <2>4. /\ stack' = Append(stack, New("process_for_head", S.blks[1], S, "cond"))
          /\ blocks' = blocks /\ local_values' = Bind(S.blks[1], {S.id})
      BY <1>11 DEF ProcessForLoop
    <2>5. local_values' \in Seq(Frame)
      <3>1. {S.id} \in SUBSET Name
        BY <2>2
      <3> QED BY <1>1, <2>4, <3>1, FrameFacts DEF Bind
    <2> QED BY <1>1, <1>2, <1>3, <1>4, <2>2, <2>3, <2>4, <2>5, ShapeNew
  <1>12. CASE ProcessForIn
    <2>1. AtStat({"forin"})
      BY <1>12 DEF ProcessForIn
    <2>2. S.blks[1] \in Block /\ S.id \in Name /\ S.fn \in Body
      BY <2>1, StatFacts DEF WellFormedStat, Stat, BlockOps, LoopOps, ForLoops
    <2>3. "process_for_in" \in ForLoop
      BY DEF ForLoop
    <2>4. /\ stack' = Append(stack, New("process_for_in", S.blks[1], S, "start"))
          /\ blocks' = Append(blocks, S.blks[1]) /\ local_values' = local_values
      BY <1>12 DEF ProcessForIn, stores
    <2> QED BY <1>1, <1>2, <1>3, <1>4, <2>2, <2>3, <2>4, ShapeNewFor
  <1>13. CASE ForStart
    <2>1. /\ stack' = Replace(ForStarted) /\ blocks' = Append(blocks, Top.ctx)
          /\ local_values' = local_values /\ Top.op = "process_for_head"
      BY <1>13 DEF ForStart, ForStarted, stores, In
    <2>2. /\ Replace(ForStarted) \in Seq(Activation) /\ Append(blocks, Top.ctx) \in Seq(Block)
          /\ Shape(Replace(ForStarted), Append(blocks, Top.ctx))
      BY <1>2, <2>1, ForStartShape
    <2> QED BY <1>1, <2>1, <2>2
  <1> QED BY <1>6, <1>7, <1>8, <1>9, <1>10, <1>11, <1>12, <1>13

(* The steps that call a function.                                         *)
LEMMA Inv1Call ==
  ASSUME Inv1, \/ CallStat \/ ExpectFailure \/ LoopCondition \/ ForInIterate
  PROVE  Inv1'
  <1>1. /\ stack \in Seq(Activation) /\ blocks \in Seq(Block) /\ local_values \in Seq(Frame)
        /\ functions \in Seq(Body) /\ defined \in SUBSET Body /\ escaped \in BOOLEAN
        /\ status \in Status /\ exn \in Exception /\ Shape(stack, blocks)
    BY DEF Inv1, TypeOK
  <1>2. /\ defined' = defined /\ escaped' = escaped /\ prog' = prog
        /\ status' = status /\ exn' = exn /\ stack # << >> /\ Top.op # "visitChunk"
    BY DEF CallStat, ExpectFailure, LoopCondition, ForInIterate, AtStat, In, Running, PlainLoop
  <1>3. /\ Height(Top) =< Len(blocks) /\ blocks # << >> /\ Top = stack[Len(stack)]
        /\ Len(local_values) \in Nat /\ Len(blocks) \in Nat /\ Top.ctx \in Block
    BY <1>1, <1>2, TopFacts, LenFacts DEF Top, Activation
  <1>4. "body" \in Phase /\ "iter" \in Phase
    BY DEF Phase
  <1>5. \E st \in Seq(Activation), f \in Body :
           /\ Shape(st, blocks) /\ st # << >> /\ Height(st[Len(st)]) =< Len(blocks)
           /\ CallFunction(st, f)
    <2>1. CASE CallStat
      BY <1>1, <1>2, <1>3, <2>1 DEF CallStat
    <2>2. CASE LoopCondition
      BY <1>1, <1>2, <1>3, <2>2 DEF LoopCondition
    <2>3. CASE ForInIterate
      <3>1. /\ Phased("iter") \in Seq(Activation) /\ Phased("iter") # << >>
            /\ Shape(Phased("iter"), blocks) /\ Len(Phased("iter")) = Len(stack)
            /\ Height(Phased("iter")[Len(stack)]) = Height(Top)
        BY <1>2, <1>4, PhasedStack
      <3>2. CallFunction(Phased("iter"), Top.fn) /\ Top.op = "process_for_in"
        BY <2>3 DEF ForInIterate, In
      <3>3. Top.fn \in Body
        BY <1>2, <3>2, TopFacts
      <3> QED BY <1>3, <3>1, <3>2, <3>3
    <2>4. CASE ExpectFailure
      <3> DEFINE s == [id |-> Nil, fn |-> Nil]
                 a == New("expect_failure", Top.ctx, s, "body")
                 st == Append(stack, a)
      <3>1. s.id \in Name \cup Label \cup {Nil} /\ s.fn \in Body \cup {Nil}
        OBVIOUS
      <3>2. S.fn \in Body /\ CallFunction(st, S.fn)
        BY <1>1, <2>4 DEF ExpectFailure
      <3>3. "expect_failure" \in PlainLoop \cup {"expect_failure", "call_function"}
        OBVIOUS
      <3> HIDE DEF s
      <3>4. a \in Activation /\ st \in Seq(Activation) /\ Shape(st, blocks) /\ Height(a) = Len(blocks)
        <4>1. /\ stack \in Seq(Activation) /\ Shape(stack, blocks) /\ stack # << >>
              /\ blocks \in Seq(Block) /\ blocks # << >> /\ local_values \in Seq(Frame)
              /\ Height(stack[Len(stack)]) =< Len(blocks) /\ Top.ctx \in Block
          BY <1>1, <1>2, <1>3
        <4> QED BY <1>4, <3>1, <3>3, <4>1, ShapeNew, Zenon
      <3> HIDE DEF a
      <3>5. st # << >> /\ st[Len(st)] = a
        BY <1>1, <3>4, AppendFacts, LenFacts
      <3> HIDE DEF st
      <3> QED BY <1>3, <3>2, <3>4, <3>5
    <2> QED BY <2>1, <2>2, <2>3, <2>4
  <1>6. /\ stack' \in Seq(Activation) /\ blocks' \in Seq(Block) /\ Shape(stack', blocks')
        /\ local_values' \in Seq(Frame) /\ functions' \in Seq(Body)
    BY <1>3, <1>5, CallFacts
  <1> QED BY <1>1, <1>2, <1>6, Inv1Next

(* The steps by which a method returns to its caller.                      *)
LEMMA Inv1Return ==
  ASSUME Inv1, \/ LoopEnd \/ ForEnd \/ FinishBlock \/ FinishCall
               \/ CatchBreak \/ CatchReturn \/ CatchBadType
  PROVE  Inv1'
  <1>1. /\ stack \in Seq(Activation) /\ blocks \in Seq(Block) /\ local_values \in Seq(Frame)
        /\ functions \in Seq(Body) /\ defined \in SUBSET Body /\ escaped \in BOOLEAN
        /\ status \in Status /\ exn \in Exception /\ Shape(stack, blocks)
    BY DEF Inv1, TypeOK
  <1>2. /\ defined' = defined /\ escaped' = escaped /\ prog' = prog
        /\ status' = status /\ stack # << >> /\ Top.op # "visitChunk"
    BY DEF LoopEnd, ForEnd, FinishBlock, FinishCall, CatchBreak, CatchReturn, CatchBadType,
           LoopTested, AtEnd, In, Running, Unwinding, Loop, PlainLoop, ForLoop
  <1>3. /\ Top \in Activation /\ Top.base \in Nat /\ Len(blocks) \in Nat /\ blocks # << >>
        /\ DOMAIN blocks = 1 .. Len(blocks)
        /\ Height(Top) \in Nat /\ Top.base =< Height(Top) /\ Height(Top) =< Len(blocks)
    BY <1>2, TopFacts
  <1>4. exn' \in Exception
    <2>1. exn' = exn \/ exn' = [kind |-> "None", label |-> Nil]
      BY DEF LoopEnd, ForEnd, FinishBlock, FinishCall, CatchBreak, CatchReturn, CatchBadType, None
    <2> QED BY <1>1, <2>1 DEF Exception
  <1>5. functions' \in Seq(Body)
    <2>1. functions' = functions \/ functions' = Front(functions)
      BY DEF LoopEnd, ForEnd, FinishBlock, FinishCall, CatchBreak, CatchReturn, CatchBadType, stores
    <2> QED BY <1>1, <2>1, FrontType
  <1>6. PICK v \in BOOLEAN : ReturnTo(v)
    BY DEF LoopEnd, ForEnd, FinishBlock, FinishCall, CatchBreak, CatchReturn, CatchBadType
  <1>12. SUFFICES /\ blocks' \in Seq(Block) /\ local_values' \in Seq(Frame)
                  /\ \E h \in Nat : /\ h =< Len(blocks') /\ Height(stack[Len(stack) - 1]) =< h
                                    /\ \A m \in 1 .. h : m \in DOMAIN blocks => blocks'[m] = blocks[m]
    <2>1. PICK h \in Nat : /\ h =< Len(blocks') /\ Height(stack[Len(stack) - 1]) =< h
                           /\ \A m \in 1 .. h : m \in DOMAIN blocks => blocks'[m] = blocks[m]
      BY <1>12
    <2>2. stack' \in Seq(Activation) /\ Shape(stack', blocks')
      BY <1>2, <1>6, <1>12, <2>1, ReturnFactsAt
    <2> QED BY <1>1, <1>2, <1>4, <1>5, <1>12, <2>2, Inv1Next
  <1>7. ASSUME /\ blocks' \in Seq(Block) /\ local_values' \in Seq(Frame)
               /\ Top.base =< Len(blocks')
               /\ \A m \in 1 .. Top.base : m \in DOMAIN blocks => blocks'[m] = blocks[m]
        PROVE  /\ blocks' \in Seq(Block) /\ local_values' \in Seq(Frame)
               /\ \E h \in Nat : /\ h =< Len(blocks') /\ Height(stack[Len(stack) - 1]) =< h
                                 /\ \A m \in 1 .. h : m \in DOMAIN blocks => blocks'[m] = blocks[m]
    BY <1>2, <1>7, HeightBelow
  <1>8. CASE LoopEnd \/ CatchBadType
    <2>1. blocks' = blocks /\ local_values' = local_values
      BY <1>8 DEF LoopEnd, CatchBadType, stores
    <2> QED BY <1>1, <1>3, <1>7, <2>1
  <1>9. CASE FinishCall
    <2>1. blocks' = blocks /\ local_values' = Front(local_values)
      BY <1>9 DEF FinishCall
    <2> QED BY <1>1, <1>3, <1>7, <2>1, FrontType
  <1>10. CASE ForEnd \/ FinishBlock
    <2>1. EraseBlocks(local_values, {Top.ctx}) \in Seq(Frame)
      BY <1>1, FrameFacts
    <2>2. local_values' = local_values \/ local_values' = EraseBlocks(local_values, {Top.ctx})
      BY <1>10 DEF ForEnd, FinishBlock, Erased
    <2>3. \/ blocks' = blocks
          \/ blocks' = Front(blocks) /\ Owns(Top)
      BY <1>10 DEF ForEnd, FinishBlock, Owns, ForLoop, In, AtEnd
    <2>4. CASE blocks' = blocks
      BY <1>1, <1>3, <1>7, <2>1, <2>2, <2>4
    <2>5. CASE blocks' = Front(blocks) /\ Owns(Top)
      <3>1. Top.base + 1 =< Len(blocks)
        BY <1>3, <2>5 DEF Height
      <3>2. /\ Front(blocks) \in Seq(Block) /\ Len(Front(blocks)) = Len(blocks) - 1
            /\ \A m \in 1 .. (Len(blocks) - 1) : Front(blocks)[m] = blocks[m]
        BY <1>1, <1>3, FrontFacts
      <3>3. Top.base =< Len(Front(blocks)) /\ \A m \in 1 .. Top.base : m \in 1 .. (Len(blocks) - 1)
        BY <1>3, <3>1, <3>2
      <3>4. local_values' \in Seq(Frame)
        BY <1>1, <2>1, <2>2
      <3> QED BY <1>7, <2>5, <3>2, <3>3, <3>4
    <2> QED BY <2>3, <2>4, <2>5
  <1>11. CASE CatchBreak \/ CatchReturn
    <2>1. Top.op \in Loop \cup {"call_function"}
      BY <1>11 DEF CatchBreak, CatchReturn, Unwinding
    <2>2. PICK h \in DOMAIN blocks : blocks[h] = Top.cur /\ Height(stack[Len(stack) - 1]) =< h
      <3>1. CASE Top.op = "call_function"
        BY <1>2, <3>1, TopFacts, HeightBelow
      <3>2. CASE Top.op \in Loop
        <4>1. PICK m \in DOMAIN blocks : Anchor(stack, blocks, Len(stack), m)
          BY <1>2, <3>2, TopFacts
        <4>2. blocks[m] = Top.cur
          BY <4>1 DEF Anchor, Top
        <4> QED BY <1>2, <4>1, <4>2, HeightBelow
      <3> QED BY <2>1, <3>1, <3>2
    <2>3. blocks' = StabilizedBlocks(Top.cur)
      BY <1>11 DEF CatchBreak, CatchReturn, StabilizeBlocks
    <2>4. \/ local_values' = StabilizedValues(Top.cur)
          \/ local_values' = Front(StabilizedValues(Top.cur))
      BY <1>11 DEF CatchBreak, CatchReturn, StabilizeBlocks
    <2>5. /\ StabilizedBlocks(Top.cur) \in Seq(Block)
          /\ h =< Len(StabilizedBlocks(Top.cur))
          /\ \A m \in 1 .. Len(StabilizedBlocks(Top.cur)) : StabilizedBlocks(Top.cur)[m] = blocks[m]
          /\ StabilizedValues(Top.cur) \in Seq(Frame)
      BY <1>1, <2>2, StabilizeFacts
    <2>6. local_values' \in Seq(Frame)
      BY <2>4, <2>5, FrontType
    <2>7. Len(StabilizedBlocks(Top.cur)) \in Nat
      BY <2>5, LenFacts
    <2>8. h \in Nat /\ \A m \in 1 .. h : m \in 1 .. Len(StabilizedBlocks(Top.cur))
      BY <1>3, <2>5, <2>7
    <2> QED BY <2>2, <2>3, <2>5, <2>6, <2>8
  <1> QED BY <1>8, <1>9, <1>10, <1>11

(* The steps of an exception that goes on, and of a goto that stops.       *)
LEMMA Inv1Unwind ==
  ASSUME Inv1, \/ CatchGoto \/ RethrowGoto \/ Propagate
  PROVE  Inv1'
  <1>1. /\ stack \in Seq(Activation) /\ blocks \in Seq(Block) /\ local_values \in Seq(Frame)
        /\ functions \in Seq(Body) /\ defined \in SUBSET Body /\ escaped \in BOOLEAN
        /\ status \in Status /\ exn \in Exception /\ Shape(stack, blocks)
        /\ prog \in [Block -> BlockCode]
    BY DEF Inv1, TypeOK
  <1>2. /\ defined' = defined /\ prog' = prog /\ functions' = functions
        /\ status' = status /\ stack # << >> /\ Top.op # "visitChunk"
    BY DEF CatchGoto, RethrowGoto, Propagate, Unwinding, Method, Loop, stores
  <1>3. /\ Top \in Activation /\ Height(Top) \in DOMAIN blocks /\ blocks[Height(Top)] = Current(Top)
        /\ Top = stack[Len(stack)] /\ Height(Top) \in Nat
    BY <1>2, TopFacts DEF Top
  <1>4. exn' \in Exception /\ escaped' \in BOOLEAN
    <2>1. exn' = exn \/ exn' = [kind |-> "None", label |-> Nil]
      BY DEF CatchGoto, RethrowGoto, Propagate, None
    <2>2. escaped' = escaped \/ escaped' = (escaped \/ Top.op = "call_function")
      BY DEF CatchGoto, RethrowGoto, Propagate
    <2>3. escaped' \in BOOLEAN
      BY <1>1, <2>2
    <2>4. exn' \in Exception
      BY <1>1, <2>1 DEF Exception
    <2> QED BY <2>3, <2>4
  <1>5. CASE Propagate
    <2>1. stack' = Front(stack) /\ blocks' = blocks /\ local_values' = local_values
      BY <1>5 DEF Propagate, Pop, stores
    <2>2. stack' \in Seq(Activation) /\ Shape(stack', blocks')
      BY <1>1, <1>2, <2>1, ShapePop, FrontType
    <2> QED BY <1>1, <1>2, <1>4, <2>1, <2>2, Inv1Next
  <1>6. CASE CatchGoto \/ RethrowGoto
    <2>1. Top.op = "visitBlock" /\ StabilizeBlocks(Top.ctx)
      BY <1>6 DEF CatchGoto, RethrowGoto, Unwinding
    <2>2. blocks[Height(Top)] = Top.ctx
      BY <1>3, <2>1 DEF Current
    <2>3. /\ blocks' \in Seq(Block) /\ local_values' \in Seq(Frame)
          /\ Height(Top) =< Len(blocks')
          /\ \A m \in 1 .. Len(blocks') : blocks'[m] = blocks[m]
      BY <1>1, <1>3, <2>1, <2>2, StabilizeFacts DEF StabilizeBlocks
    <2>4. Shape(stack, blocks')
      <3>1. Len(blocks') \in Nat
        BY <2>3, LenFacts
      <3>2. \A m \in 1 .. Height(stack[Len(stack)]) : m \in DOMAIN blocks => blocks'[m] = blocks[m]
        BY <1>3, <2>3, <3>1
      <3> QED BY <1>1, <1>2, <1>3, <2>3, <3>2, ShapeBlocks
    <2>5. stack' \in Seq(Activation) /\ Shape(stack', blocks')
      <3>1. CASE CatchGoto
        <4> DEFINE a == [Top EXCEPT !.i = Len(Stats) + 1]
        <4>1. Len(Stats) + 1 \in Nat
          BY <1>1, <1>3, LenFacts DEF Stats, Activation, BlockCode
        <4>2. a \in Activation /\ SameShape(a, Top)
          BY <1>3, <4>1 DEF Activation, SameShape
        <4>3. stack' = [stack EXCEPT ![Len(stack)] = a]
          BY <3>1 DEF CatchGoto, Replace
        <4> HIDE DEF a
        <4> QED BY <1>1, <1>2, <1>3, <2>3, <2>4, <4>2, <4>3, ShapeReplace, ReplaceFacts
      <3>2. CASE RethrowGoto
        BY <1>1, <1>2, <2>3, <2>4, <3>2, ShapePop, FrontType DEF RethrowGoto, Pop
      <3> QED BY <1>6, <3>1, <3>2
    <2> QED BY <1>1, <1>2, <1>4, <2>3, <2>5, Inv1Next
  <1> QED BY <1>5, <1>6

(* The first and the last steps.                                           *)
LEMMA Inv1Ends ==
  ASSUME Inv1, \/ VisitChunk \/ FinishChunk \/ LeaveChunk
  PROVE  Inv1'
  <1>1. /\ stack \in Seq(Activation) /\ blocks \in Seq(Block) /\ local_values \in Seq(Frame)
        /\ functions \in Seq(Body) /\ defined \in SUBSET Body /\ escaped \in BOOLEAN
        /\ status \in Status /\ exn \in Exception
    BY DEF Inv1, TypeOK
  <1>2. /\ defined' = defined /\ prog' = prog /\ functions' = functions /\ escaped' = escaped
        /\ status' \in {"run", "done", "failed"} /\ exn' \in {exn, None}
    BY DEF VisitChunk, FinishChunk, LeaveChunk, stores
  <1>3. status' \in Status /\ exn' \in Exception
    BY <1>1, <1>2 DEF Status, Exception, None
  <1>4. CASE FinishChunk \/ LeaveChunk
    <2>1. stack' = << >> /\ blocks' = blocks /\ local_values' = local_values
      BY <1>4 DEF FinishChunk, LeaveChunk, stores
    <2>2. Shape(stack', blocks')
      BY <2>1 DEF Shape
    <2> QED BY <1>1, <1>2, <1>3, <2>1, <2>2, Inv1Next
  <1>5. CASE VisitChunk
    <2> DEFINE b == NewBlock(Main, FALSE, 0, 1)
    <2>1. /\ stack' = <<Chunk, b>> /\ blocks' = <<Main>>
          /\ local_values' = <<[x \in Block |-> {}]>>
      BY <1>5 DEF VisitChunk
    <2>2. Main \in Block
      BY TreeAssumption
    <2>3. [x \in Block |-> {}] \in Frame
      BY DEF Frame
    <2>4. Chunk \in Activation /\ b \in Activation
      BY <2>2 DEF Chunk, NewBlock, Activation, Method, Phase
    <2>5. /\ Chunk.op = "visitChunk" /\ Height(Chunk) = 0 /\ b.op = "visitBlock" /\ b.base = 0
          /\ Height(b) = 1 /\ Current(b) = Main
      BY DEF Chunk, NewBlock, Height, Owns, Current, ForLoop
    <2> HIDE DEF b
    <2>6. stack' \in Seq(Activation) /\ blocks' \in Seq(Block) /\ local_values' \in Seq(Frame)
      BY <2>1, <2>2, <2>3, <2>4
    <2>7. /\ DOMAIN stack' = {1, 2} /\ stack'[1] = Chunk /\ stack'[2] = b
          /\ 1 \in DOMAIN blocks' /\ blocks'[1] = Main
      BY <2>1
    <2>8. Shape(stack', blocks')
      BY <2>5, <2>7 DEF Shape, Loop, PlainLoop, ForLoop
    <2> QED BY <1>1, <1>2, <1>3, <2>6, <2>8, Inv1Next
  <1> QED BY <1>4, <1>5

LEMMA Inv1Init == Init => Inv1
  <1> SUFFICES ASSUME Init PROVE Inv1
    OBVIOUS
  <1>1. prog \in [Block -> BlockCode] /\ WellFormed(prog)
    BY ProgramsAssumption DEF Init, WellFormed
  <1>2. Shape(stack, blocks)
    BY DEF Init, Shape
  <1>3. status \in Status /\ exn \in Exception
    BY DEF Init, Status, Exception, None
  <1>4. /\ stack \in Seq(Activation) /\ blocks \in Seq(Block) /\ local_values \in Seq(Frame)
        /\ functions \in Seq(Body) /\ defined \in SUBSET Body /\ escaped \in BOOLEAN
    <2>1. \A A : << >> \in Seq(A)
      OBVIOUS
    <2> QED BY <2>1 DEF Init
  <1> QED BY <1>1, <1>2, <1>3, <1>4 DEF Inv1, TypeOK

LEMMA Inv1Step == Inv1 /\ [Next]_vars => Inv1'
  <1> SUFFICES ASSUME Inv1, [Next]_vars PROVE Inv1'
    OBVIOUS
  <1>1. CASE Step
    BY <1>1, Inv1Still, Inv1Move, Inv1Enter, Inv1Call, Inv1Return, Inv1Unwind, Inv1Ends DEF Step
  <1>2. CASE Ended \/ UNCHANGED vars
    BY <1>2, Inv1Still DEF Ended
  <1> QED BY <1>1, <1>2 DEF Next

(* Every chunk, however it mixes loops, calls and the exceptions that leave *)
(* them, keeps the interpreter's stores and its C++ stack well typed.       *)
THEOREM TypeCorrect == Spec => []TypeOK
  <1>1. Inv1 => TypeOK
    BY DEF Inv1
  <1> QED BY <1>1, Inv1Init, Inv1Step, PTL DEF Spec

(* stabilize_blocks always finds the block it looks for, in every run, sane *)
(* or not: its search never leaves the vector _blocks.                      *)
THEOREM SearchesStop == Spec => []SearchStops
  <1>1. Inv1 => SearchStops
    <2> SUFFICES ASSUME Inv1, stack # << >> PROVE SearchStops
      BY DEF SearchStops
    <2>1. Top.op \in Loop \cup {"call_function"} => \E m \in DOMAIN blocks : blocks[m] = Top.cur
      <3>1. Top.op \in Loop => \E m \in DOMAIN blocks : Anchor(stack, blocks, Len(stack), m)
        BY TopFacts
      <3> QED BY <3>1, TopFacts DEF Anchor, Top
    <2>2. Top.op = "visitBlock" => Height(Top) \in DOMAIN blocks /\ blocks[Height(Top)] = Top.ctx
      BY TopFacts DEF Current
    <2> QED BY <2>1, <2>2 DEF SearchStops
  <1> QED BY <1>1, Inv1Init, Inv1Step, PTL DEF Spec

-----------------------------------------------------------------------------
(* The locals of the caller.                                               *)

(* Replacing the last element keeps the length and everything before it.   *)
LEMMA LastReplaced ==
  ASSUME NEW A, NEW s \in Seq(A), NEW x
  PROVE  Len([s EXCEPT ![Len(s)] = x]) = Len(s)
  <1>1. s \in Seq(A \cup {x})
    OBVIOUS
  <1> QED BY <1>1, ExceptFacts

LEMMA EraseFacts ==
  ASSUME NEW lv \in Seq(Frame), NEW bs
  PROVE  /\ Len(EraseBlocks(lv, bs)) = Len(lv)
         /\ lv # << >> => Front(EraseBlocks(lv, bs)) = Front(lv)
  <1>1. /\ EraseBlocks(lv, bs) \in Seq(Frame) /\ Len(EraseBlocks(lv, bs)) = Len(lv)
        /\ Len(lv) \in Nat /\ DOMAIN lv = 1 .. Len(lv)
    BY FrameFacts, LenFacts
  <1>2. \A k \in 1 .. (Len(lv) - 1) : EraseBlocks(lv, bs)[k] = lv[k]
    <2> DEFINE x == [b \in Block |-> IF b \in bs THEN {} ELSE lv[Len(lv)][b]]
    <2>1. EraseBlocks(lv, bs) = [lv EXCEPT ![Len(lv)] = x]
      BY DEF EraseBlocks
    <2> HIDE DEF x
    <2>2. \A k \in DOMAIN lv : k # Len(lv) => [lv EXCEPT ![Len(lv)] = x][k] = lv[k]
      OBVIOUS
    <2>3. \A k \in 1 .. (Len(lv) - 1) : k \in DOMAIN lv /\ k # Len(lv)
      BY <1>1
    <2> QED BY <2>1, <2>2, <2>3, Zenon
  <1>3. ASSUME lv # << >> PROVE Front(EraseBlocks(lv, bs)) = Front(lv)
    <2>1. EraseBlocks(lv, bs) # << >>
      BY <1>1, <1>3, LenFacts
    <2>2. /\ Front(lv) \in Seq(Frame) /\ Len(Front(lv)) = Len(lv) - 1
          /\ Front(EraseBlocks(lv, bs)) \in Seq(Frame) /\ Len(Front(EraseBlocks(lv, bs))) = Len(lv) - 1
          /\ \A k \in 1 .. (Len(lv) - 1) : Front(EraseBlocks(lv, bs))[k] = Front(lv)[k]
      BY <1>1, <1>2, <1>3, <2>1, FrontFacts
    <2> QED BY <2>2
  <1> QED BY <1>1, <1>3

(* Before the chunk is visited there is no frame.                          *)
Started == status = "start" => local_values = << >>

(* Only visitChunk runs at the start.                                      *)
LEMMA RunSteps ==
  ASSUME Step, ~ VisitChunk
  PROVE  status = "run" /\ status' # "start"
  <1>1. CASE VisitNested \/ SkipStat \/ ProcessLocal \/ NullParlist \/ ProcessFunction \/ ProcessBreak
    BY <1>1 DEF AtStat, In, Running, VisitNested, SkipStat, ProcessLocal, NullParlist,
                ProcessFunction, ProcessBreak
  <1>2. CASE ProcessGoto \/ ThrowBadType \/ CallStat \/ ExpectFailure \/ FatalError \/ ProcessWhile
    BY <1>2 DEF AtStat, In, Running, ProcessGoto, ThrowBadType, CallStat, ExpectFailure, FatalError,
                ProcessWhile
  <1>3. CASE \/ ProcessRepeat \/ LoopCondition \/ LoopAgain \/ LoopEnd
             \/ ProcessForLoop \/ ForBadStep \/ ForStart \/ ForAgain
    BY <1>3 DEF AtStat, In, Running, ProcessRepeat, LoopCondition, LoopAgain, LoopEnd, LoopTested,
                ProcessForLoop, ForBadStep, ForStart, ForAgain
  <1>4. CASE ForStep \/ ForStepFreed \/ ForEnd \/ ProcessForIn \/ ForInIterate \/ ForInClear
    BY <1>4 DEF AtStat, In, Running, ForStep, ForStepFreed, ForEnd, ProcessForIn, ForInIterate,
                ForInClear
  <1>5. CASE ForInBind \/ ForInBreak \/ VisitRetstat \/ FinishBlock \/ UnbalancedBlocks \/ FinishCall
    BY <1>5 DEF AtEnd, In, Running, ForInBind, ForInBreak, VisitRetstat, FinishBlock,
                UnbalancedBlocks, FinishCall
  <1>6. CASE CatchGoto \/ RethrowGoto \/ CatchBreak \/ CatchReturn \/ CatchBadType \/ Propagate
    BY <1>6 DEF Unwinding, CatchGoto, RethrowGoto, CatchBreak, CatchReturn, CatchBadType, Propagate
  <1>7. CASE FinishChunk \/ LeaveChunk \/ CutRun
    BY <1>7 DEF In, Running, Unwinding, FinishChunk, LeaveChunk, CutRun
  <1> QED BY <1>1, <1>2, <1>3, <1>4, <1>5, <1>6, <1>7 DEF Step

LEMMA StartedNext == Started /\ [Next]_vars => Started'
  <1> SUFFICES ASSUME Started, [Next]_vars PROVE Started'
    OBVIOUS
  <1>1. CASE VisitChunk
    BY <1>1 DEF VisitChunk, Started
  <1>2. CASE Step /\ ~ VisitChunk
    BY <1>2, RunSteps DEF Started
  <1>3. CASE Ended \/ UNCHANGED vars
    BY <1>3 DEF Ended, Started, vars, stores
  <1> QED BY <1>1, <1>2, <1>3 DEF Next

(* What a step does to the frames: nothing, a new one on top, a change of  *)
(* the top one, or the removal of the top one.                             *)
LEMMA FrameSteps ==
  ASSUME Inv1, Step, ~ VisitChunk, Len(local_values') < Len(local_values)
  PROVE  local_values' = Front(local_values)
  <1>1. local_values \in Seq(Frame) /\ Len(local_values) \in Nat
    BY LenFacts DEF Inv1, TypeOK
  <1>2. \/ FinishChunk \/ VisitNested \/ SkipStat \/ NullParlist \/ ProcessFunction \/ ProcessBreak
        \/ ProcessGoto \/ ThrowBadType \/ FatalError \/ ProcessWhile \/ ProcessRepeat
        \/ LoopAgain \/ LoopEnd \/ ForAgain \/ ForStepFreed \/ ProcessForIn \/ ForInBreak
        \/ VisitRetstat \/ CatchBadType \/ Propagate \/ LeaveChunk \/ CutRun \/ ForBadStep \/ ForStart
        => local_values' = local_values
    BY DEF FinishChunk, VisitNested, SkipStat, NullParlist, ProcessFunction, ProcessBreak,
           ProcessGoto, ThrowBadType, FatalError, ProcessWhile, ProcessRepeat, LoopAgain, LoopEnd,
           ForAgain, ForStepFreed, ProcessForIn, ForInBreak, VisitRetstat, CatchBadType, Propagate,
           LeaveChunk, CutRun, ForBadStep, ForStart, stores
  <1>3. ASSUME CallStat \/ ExpectFailure \/ LoopCondition \/ ForInIterate
        PROVE  Len(local_values') = Len(local_values) + 1
    <2>1. \E x : local_values' = Append(local_values, x)
      BY <1>3 DEF CallStat, ExpectFailure, LoopCondition, ForInIterate, CallFunction
    <2>2. PICK x : local_values' = Append(local_values, x)
      BY <2>1
    <2>3. local_values \in Seq(Frame \cup {x})
      BY <1>1
    <2> QED BY <2>2, <2>3, AppendFacts
  <1>4. ASSUME ProcessLocal \/ ProcessForLoop \/ ForStep \/ ForInClear \/ ForInBind
        PROVE  Len(local_values') = Len(local_values)
    <2>1. \E x : local_values' = [local_values EXCEPT ![Len(local_values)] = x]
      BY <1>4 DEF ProcessLocal, ProcessForLoop, ForStep, ForInClear, ForInBind, Bind, Keep
    <2> QED BY <1>1, <2>1, LastReplaced
  <1>5. ASSUME \/ ForEnd \/ FinishBlock \/ UnbalancedBlocks \/ CatchGoto \/ RethrowGoto \/ CatchBreak
        PROVE  Len(local_values') = Len(local_values)
    <2>1. local_values' = local_values \/ \E bs : local_values' = EraseBlocks(local_values, bs)
      BY <1>5 DEF ForEnd, FinishBlock, UnbalancedBlocks, CatchGoto, RethrowGoto, CatchBreak, Erased,
                  StabilizeBlocks, StabilizedValues
    <2> QED BY <1>1, <2>1, EraseFacts
  <1>6. FinishCall => local_values' = Front(local_values)
    BY DEF FinishCall
  <1>7. ASSUME CatchReturn PROVE local_values' = Front(local_values)
    <2>1. \/ local_values' = Front(local_values)
          \/ \E bs : local_values' = Front(EraseBlocks(local_values, bs))
      BY <1>7 DEF CatchReturn, StabilizedValues
    <2>2. local_values # << >>
      <3>1. local_values = << >> => Len(local_values) = 0
        OBVIOUS
      <3>2. Len(local_values') < 0 => FALSE
        BY <1>1
      <3> QED BY <3>1, <3>2
    <2> QED BY <1>1, <2>1, <2>2, EraseFacts
  <1> QED BY <1>1, <1>2, <1>3, <1>4, <1>5, <1>6, <1>7 DEF Step

(* The handler of a call erases blocks of the caller by name, and still    *)
(* leaves the locals of the caller alone: it does so in the frame of the   *)
(* call, before it pops it.                                                *)
THEOREM CallersKeepTheirLocals == Spec => CallerFrameUntouched
  <1>1. Init => Started
    BY DEF Init, Started
  <1>2. Inv1 /\ Started /\ [Next]_vars =>
          [Len(local_values') < Len(local_values) => local_values' = Front(local_values)]_vars
    <2> SUFFICES ASSUME Inv1, Started, Next, Len(local_values') < Len(local_values)
                 PROVE  local_values' = Front(local_values)
      OBVIOUS
    <2>1. local_values \in Seq(Frame) /\ Len(local_values) \in Nat
      BY LenFacts DEF Inv1, TypeOK
    <2>2. CASE VisitChunk
      <3>1. local_values = << >> /\ local_values' = <<[b \in Block |-> {}]>>
        BY <2>2 DEF VisitChunk, Started
      <3>2. Len(local_values) = 0 /\ Len(local_values') = 1
        BY <3>1
      <3> QED BY <3>2
    <2>3. CASE Step /\ ~ VisitChunk
      BY <2>3, FrameSteps
    <2>4. CASE Ended
      <3>1. local_values' = local_values
        BY <2>4 DEF Ended, vars, stores
      <3> QED BY <2>1, <3>1
    <2> QED BY <2>2, <2>3, <2>4 DEF Next
  <1> QED BY <1>1, <1>2, Inv1Init, Inv1Step, StartedNext, PTL DEF Spec, CallerFrameUntouched
-----------------------------------------------------------------------------
(* A sane run keeps _blocks, _local_values and _functions in step with the *)
(* C++ stack: every handler puts back exactly what the block it resumes    *)
(* found when it was entered.                                              *)

(* The invariant of a sane run as a predicate on the stores, so that its   *)
(* lemmas can speak of stacks that are being built.                        *)

Balanced(st, lv, fs) ==
  /\ Chain(st)
  /\ CallsMatch(st, fs)
  /\ Len(lv) = Frames(st[Len(st)]) /\ Len(fs) = Frames(st[Len(st)]) - 1

(* Every block above the top activation is one an exception left behind.   *)
OnlyLeftBehind(a, bl) ==
  /\ a.op # "expect_failure"
  /\ \A m \in DOMAIN bl : m > Height(a) => LeftBehind(a, bl[m])

InStep(st, bl, lv, fs, e) ==
  /\ Balanced(st, lv, fs)
  /\ e = None => Len(bl) = Height(st[Len(st)])
  /\ e # None => OnlyLeftBehind(st[Len(st)], bl)

LEMMA ExactIsInStep ==
  /\ Exact => (Sane /\ stack # << >> => InStep(stack, blocks, local_values, functions, exn))
  /\ (Sane' /\ stack' # << >> => InStep(stack', blocks', local_values', functions', exn')) => Exact'
  BY DEF Exact, Balanced, OnlyLeftBehind, InStep, Top

-----------------------------------------------------------------------------
(* How pushing, popping and moving along act on the chain.                 *)

(* A link only reads the shape of the activations it joins.                *)
LEMMA LinkShape ==
  ASSUME NEW a \in Activation, NEW b \in Activation, Link(a, b),
         NEW c \in Activation, NEW d \in Activation, SameShape(c, a), SameShape(d, b)
  PROVE  Link(c, d)
  <1>1. Height(c) = Height(a) /\ Frames(c) = Frames(a) /\ Current(c) = Current(a)
    BY SameShapeFacts
  <1>2. /\ c.op = a.op /\ c.ctx = a.ctx
        /\ d.op = b.op /\ d.ctx = b.ctx /\ d.cur = b.cur /\ d.from_for = b.from_for
        /\ d.base = b.base /\ d.frame = b.frame /\ d.fn = b.fn
    BY DEF SameShape
  <1> QED BY <1>1, <1>2 DEF Link

LEMMA SameShapeReflexive == \A a : SameShape(a, a)
  BY DEF SameShape

LEMMA ChainReplace ==
  ASSUME NEW st \in Seq(Activation), st # << >>, Chain(st), NEW fs, CallsMatch(st, fs),
         NEW a \in Activation, SameShape(a, st[Len(st)]),
         NEW t \in Seq(Activation), Len(t) = Len(st), t[Len(st)] = a,
         \A k \in 1 .. (Len(st) - 1) : t[k] = st[k]
  PROVE  Chain(t) /\ CallsMatch(t, fs)
  <1>1. /\ Len(st) \in Nat /\ Len(st) >= 1 /\ DOMAIN st = 1 .. Len(st) /\ DOMAIN t = 1 .. Len(st)
        /\ \A k \in DOMAIN st : st[k] \in Activation /\ t[k] \in Activation
    BY LenFacts
  <1>2. \A k \in DOMAIN st : SameShape(t[k], st[k])
    BY <1>1, SameShapeReflexive
  <1>3. \A k \in DOMAIN st : /\ Frames(t[k]) = Frames(st[k]) /\ t[k].frame = st[k].frame
                             /\ t[k].op = st[k].op /\ t[k].ctx = st[k].ctx
    BY <1>1, <1>2, SameShapeFacts DEF SameShape
  <1>4. \A k \in 1 .. (Len(t) - 1) : Link(t[k], t[k + 1])
    <2> SUFFICES ASSUME NEW k \in 1 .. (Len(st) - 1) PROVE Link(t[k], t[k + 1])
      OBVIOUS
    <2>1. k \in DOMAIN st /\ k + 1 \in DOMAIN st
      BY <1>1
    <2>2. Link(st[k], st[k + 1])
      BY DEF Chain
    <2> QED BY <1>1, <1>2, <2>1, <2>2, LinkShape
  <1>5. \A j, k \in DOMAIN t : j < k => Frames(t[j]) =< t[k].frame
    BY <1>1, <1>3 DEF Chain
  <1>6. CallsMatch(t, fs)
    BY <1>1, <1>3 DEF CallsMatch
  <1> QED BY <1>4, <1>5, <1>6 DEF Chain

LEMMA ChainPush ==
  ASSUME NEW st \in Seq(Activation), st # << >>, Chain(st), NEW fs, CallsMatch(st, fs),
         NEW a \in Activation, Link(st[Len(st)], a),
         a.op = "call_function" => a.frame \in DOMAIN fs /\ fs[a.frame] = a.ctx
  PROVE  Chain(Append(st, a)) /\ CallsMatch(Append(st, a), fs)
  <1> DEFINE n == Len(st)
             t == Append(st, a)
  <1>1. /\ n \in Nat /\ n >= 1 /\ DOMAIN st = 1 .. n /\ n \in DOMAIN st
        /\ \A k \in DOMAIN st : st[k] \in Activation
    BY LenFacts
  <1>2. /\ Len(t) = n + 1 /\ DOMAIN t = 1 .. (n + 1)
        /\ \A k \in 1 .. n : t[k] = st[k]
        /\ t[n + 1] = a
    BY AppendFacts
  <1>3. \A j \in DOMAIN st : Frames(st[j]) =< a.frame
    <2> SUFFICES ASSUME NEW j \in DOMAIN st PROVE Frames(st[j]) =< a.frame
      OBVIOUS
    <2>1. a.frame = Frames(st[n])
      BY DEF Link
    <2>2. Frames(st[j]) \in Nat /\ Frames(st[n]) \in Nat /\ st[n].frame \in Nat
          /\ st[n].frame =< Frames(st[n])
      BY <1>1, HeightFacts
    <2>3. CASE j = n BY <2>1, <2>2, <2>3
    <2>4. CASE j # n
      <3>1. j < n BY <1>1, <2>4
      <3>2. Frames(st[j]) =< st[n].frame BY <1>1, <3>1 DEF Chain
      <3> QED BY <2>1, <2>2, <3>2
    <2> QED BY <2>3, <2>4
  <1> HIDE DEF t
  <1>4. \A k \in DOMAIN t : k = n + 1 \/ (k \in DOMAIN st /\ t[k] = st[k] /\ k < n + 1)
    BY <1>1, <1>2
  <1>5. \A j, k \in DOMAIN t : j < k => Frames(t[j]) =< t[k].frame
    BY <1>1, <1>2, <1>3, <1>4 DEF Chain
  <1>6. \A k \in 1 .. (Len(t) - 1) : Link(t[k], t[k + 1])
    <2> SUFFICES ASSUME NEW k \in 1 .. n PROVE Link(t[k], t[k + 1])
      BY <1>1, <1>2
    <2>1. CASE k = n BY <1>1, <1>2, <2>1
    <2>2. CASE k # n
      <3> HIDE DEF n
      <3>0. n \in Nat BY <1>1
      <3>1. k \in 1 .. (n - 1) /\ k + 1 \in 1 .. n BY <2>2, <3>0
      <3> USE DEF n
      <3>2. Link(st[k], st[k + 1]) BY <3>1 DEF Chain
      <3> QED BY <1>2, <3>1, <3>2
    <2> QED BY <2>1, <2>2
  <1>7. CallsMatch(t, fs)
    BY <1>1, <1>2, <1>4 DEF CallsMatch
  <1> QED BY <1>5, <1>6, <1>7 DEF Chain, t

LEMMA ChainPop ==
  ASSUME NEW st \in Seq(Activation), st # << >>, Chain(st), NEW fs, CallsMatch(st, fs)
  PROVE  Chain(Front(st)) /\ CallsMatch(Front(st), fs)
  <1>1. /\ Front(st) \in Seq(Activation) /\ Len(Front(st)) = Len(st) - 1
        /\ \A k \in 1 .. (Len(st) - 1) : Front(st)[k] = st[k]
    BY FrontFacts
  <1>2. Len(st) \in Nat /\ Len(st) >= 1 /\ DOMAIN st = 1 .. Len(st)
    BY LenFacts
  <1>3. DOMAIN Front(st) = 1 .. (Len(st) - 1)
    BY <1>1, LenFacts
  <1>4. \A k \in DOMAIN Front(st) : k \in DOMAIN st /\ Front(st)[k] = st[k]
    BY <1>1, <1>2, <1>3
  <1>5. \A k \in 1 .. (Len(Front(st)) - 1) : Link(Front(st)[k], Front(st)[k + 1])
    <2> SUFFICES ASSUME NEW k \in 1 .. (Len(st) - 2) PROVE Link(Front(st)[k], Front(st)[k + 1])
      BY <1>1, <1>2
    <2>1. k \in DOMAIN Front(st) /\ k + 1 \in DOMAIN Front(st) /\ k \in 1 .. (Len(st) - 1)
      BY <1>2, <1>3
    <2>2. Link(st[k], st[k + 1])
      BY <2>1 DEF Chain
    <2> QED BY <1>4, <2>1, <2>2
  <1>6. \A j, k \in DOMAIN Front(st) : j < k => Frames(Front(st)[j]) =< Front(st)[k].frame
    BY <1>4 DEF Chain
  <1>7. CallsMatch(Front(st), fs)
    BY <1>4 DEF CallsMatch
  <1> QED BY <1>5, <1>6, <1>7 DEF Chain

(* The activation below the top one, and what the top one is to it.        *)
LEMMA LinkBelow ==
  ASSUME NEW st \in Seq(Activation), Chain(st), Len(st) > 1
  PROVE  /\ Len(st) - 1 \in DOMAIN st /\ st[Len(st) - 1] \in Activation
         /\ Link(st[Len(st) - 1], st[Len(st)])
  <1>1. Len(st) \in Nat /\ DOMAIN st = 1 .. Len(st) /\ \A k \in DOMAIN st : st[k] \in Activation
    BY LenFacts
  <1>2. Len(st) - 1 \in 1 .. (Len(st) - 1) /\ (Len(st) - 1) + 1 = Len(st)
    BY <1>1
  <1>3. Link(st[Len(st) - 1], st[(Len(st) - 1) + 1])
    BY <1>2 DEF Chain
  <1> QED BY <1>1, <1>2, <1>3

-----------------------------------------------------------------------------
(* The five things a step does to the stack, in a sane run.                *)

(* The top activation moves along.                                         *)
LEMMA StepMoves ==
  ASSUME NEW st \in Seq(Activation), st # << >>,
         NEW bl, NEW lv, NEW fs, NEW e, InStep(st, bl, lv, fs, e),
         NEW a \in Activation, SameShape(a, st[Len(st)]),
         NEW t \in Seq(Activation), Len(t) = Len(st), t[Len(st)] = a,
         \A k \in 1 .. (Len(st) - 1) : t[k] = st[k],
         NEW lv2, Len(lv2) = Len(lv)
  PROVE  InStep(t, bl, lv2, fs, e)
  <1>1. st[Len(st)] \in Activation
    BY LenFacts
  <1>2. Height(a) = Height(st[Len(st)]) /\ Frames(a) = Frames(st[Len(st)])
    BY <1>1, SameShapeFacts
  <1>3. a.op = st[Len(st)].op /\ a.ctx = st[Len(st)].ctx
    BY DEF SameShape
  <1>4. Chain(t) /\ CallsMatch(t, fs)
    BY ChainReplace DEF InStep, Balanced
  <1>5. Balanced(t, lv2, fs)
    BY <1>2, <1>4 DEF InStep, Balanced
  <1>6. e # None => OnlyLeftBehind(a, bl)
    BY <1>2, <1>3 DEF InStep, OnlyLeftBehind, LeftBehind
  <1> QED BY <1>2, <1>5, <1>6 DEF InStep

(* An activation that opens no frame is pushed.                            *)
LEMMA StepPushes ==
  ASSUME NEW st \in Seq(Activation), st # << >>, NEW lv, NEW fs, Balanced(st, lv, fs),
         NEW a \in Activation, ~ OpensFrame(a), Link(st[Len(st)], a),
         NEW lv2, Len(lv2) = Len(lv), NEW bl2, Len(bl2) = Height(a)
  PROVE  InStep(Append(st, a), bl2, lv2, fs, None)
  <1>1. Chain(Append(st, a)) /\ CallsMatch(Append(st, a), fs)
    BY ChainPush DEF Balanced, OpensFrame
  <1>2. Append(st, a)[Len(Append(st, a))] = a
    BY AppendFacts
  <1>3. Frames(a) = Frames(st[Len(st)])
    BY DEF Link, Frames
  <1> QED BY <1>1, <1>2, <1>3 DEF InStep, Balanced

(* A function is called.                                                   *)
LEMMA StepCalls ==
  ASSUME NEW st \in Seq(Activation), st # << >>,
         NEW lv, NEW fs \in Seq(Body), Balanced(st, lv, fs),
         NEW f \in Body, NEW c \in Activation, NEW b \in Activation,
         c.op = "call_function", c.ctx = f, b.op = "visitBlock",
         Link(st[Len(st)], c), Link(c, b),
         NEW lv2, Len(lv2) = Len(lv) + 1, NEW bl2, Len(bl2) = Height(b)
  PROVE  InStep(Append(Append(st, c), b), bl2, lv2, Append(fs, f), None)
  <1> DEFINE gs == Append(fs, f)
  <1>1. /\ Len(gs) = Len(fs) + 1 /\ DOMAIN gs = 1 .. (Len(fs) + 1)
        /\ \A k \in 1 .. Len(fs) : gs[k] = fs[k]
        /\ gs[Len(fs) + 1] = f /\ Len(fs) \in Nat /\ DOMAIN fs = 1 .. Len(fs)
    BY AppendFacts, LenFacts
  <1> HIDE DEF gs
  <1>2. CallsMatch(st, gs)
    BY <1>1 DEF Balanced, CallsMatch
  <1>3. st[Len(st)] \in Activation
    BY LenFacts
  <1>4. Frames(st[Len(st)]) \in Nat
    BY <1>3, HeightFacts
  <1>5. c.frame = Frames(st[Len(st)]) /\ c.frame = Len(fs) + 1
    BY <1>1, <1>4 DEF Link, Balanced
  <1>6. Chain(Append(st, c)) /\ CallsMatch(Append(st, c), gs)
    <2>1. c.frame \in DOMAIN gs /\ gs[c.frame] = c.ctx
      BY <1>1, <1>5
    <2> QED BY <1>2, <2>1, ChainPush DEF Balanced
  <1>7. /\ Append(st, c) \in Seq(Activation) /\ Append(st, c)[Len(Append(st, c))] = c
        /\ Append(st, c) # << >>
    BY AppendFacts, LenFacts
  <1>8. Frames(c) = c.frame + 1 /\ b.frame = c.frame + 1 /\ Frames(b) = b.frame
    BY DEF Link, Frames, OpensFrame
  <1>9. Chain(Append(Append(st, c), b)) /\ CallsMatch(Append(Append(st, c), b), gs)
    <2>1. Link(Append(st, c)[Len(Append(st, c))], b)
      BY <1>7
    <2>2. b.op # "call_function"
      OBVIOUS
    <2> QED BY <1>6, <1>7, <2>1, <2>2, ChainPush
  <1>10. Append(Append(st, c), b)[Len(Append(Append(st, c), b))] = b
    BY <1>7, AppendFacts
  <1>11. Len(lv2) = Frames(b) /\ Len(gs) = Frames(b) - 1
    BY <1>1, <1>4, <1>5, <1>8 DEF Balanced
  <1> QED BY <1>9, <1>10, <1>11 DEF InStep, Balanced, gs

(* The top method returns and has put back what it found.                  *)
LEMMA StepReturns ==
  ASSUME NEW st \in Seq(Activation), Len(st) > 1,
         NEW lv, NEW fs \in Seq(Body), Balanced(st, lv, fs),
         NEW t \in Seq(Activation), Len(t) = Len(st) - 1, t # << >>,
         \A k \in 1 .. (Len(st) - 2) : t[k] = st[k],
         t[Len(st) - 1] \in Activation, SameShape(t[Len(st) - 1], st[Len(st) - 1]),
         NEW lv2, Len(lv2) = st[Len(st)].frame,
         NEW fs2, fs2 = IF st[Len(st)].op = "call_function" THEN Front(fs) ELSE fs,
         NEW bl2, Len(bl2) = st[Len(st)].base,
         st[Len(st)].op # "visitChunk"
  PROVE  InStep(t, bl2, lv2, fs2, None)
  <1> DEFINE n == Len(st)
             b == st[n]
             a == st[n - 1]
             r == Front(st)
  <1>1. n \in Nat /\ DOMAIN st = 1 .. n /\ n \in DOMAIN st /\ n - 1 \in DOMAIN st /\ st # << >>
    BY LenFacts
  <1>2. a \in Activation /\ b \in Activation /\ Link(a, b)
    BY <1>1, LinkBelow, LenFacts DEF Balanced
  <1>3. b.base = Height(a) /\ b.frame = Frames(a) /\ Frames(b) \in Nat /\ b.frame \in Nat
    BY <1>2, HeightFacts DEF Link
  <1>4. /\ r \in Seq(Activation) /\ Len(r) = n - 1 /\ \A k \in 1 .. (n - 1) : r[k] = st[k]
        /\ DOMAIN r = 1 .. (n - 1)
    BY <1>1, FrontFacts, LenFacts
  <1>5. Chain(r) /\ CallsMatch(r, fs)
    BY <1>1, ChainPop DEF Balanced
  <1>6. Len(fs) = Frames(b) - 1
    BY DEF Balanced
  <1>7. r # << >> /\ r[n - 1] = a
    BY <1>1, <1>4, LenFacts
  <1>8. CallsMatch(r, fs2) /\ Len(fs2) = b.frame - 1
    <2>1. CASE b.op # "call_function"
      BY <1>3, <1>5, <1>6, <2>1 DEF Frames, OpensFrame
    <2>2. CASE b.op = "call_function"
      <3>1. fs2 = Front(fs) /\ Frames(b) = b.frame + 1 /\ Len(fs) = b.frame
        <4>1. Frames(b) = b.frame + 1
          BY <2>2 DEF Frames, OpensFrame
        <4>2. fs2 = Front(fs)
          BY <2>2
        <4> HIDE DEF b
        <4> QED BY <1>3, <1>6, <4>1, <4>2
      <3>2. b.frame >= 1
        <4>1. b.frame \in DOMAIN fs
          BY <1>1, <2>2 DEF Balanced, CallsMatch
        <4> QED BY <4>1, LenFacts
      <3>3. /\ fs # << >> /\ Len(fs2) = Len(fs) - 1 /\ DOMAIN fs2 = 1 .. (Len(fs) - 1)
            /\ \A k \in 1 .. (Len(fs) - 1) : fs2[k] = fs[k]
        <4>1. fs # << >>
          BY <1>3, <3>1, <3>2, LenFacts
        <4>2. /\ Front(fs) \in Seq(Body) /\ Len(Front(fs)) = Len(fs) - 1
              /\ \A k \in 1 .. (Len(fs) - 1) : Front(fs)[k] = fs[k]
          BY <4>1, FrontFacts
        <4>3. DOMAIN Front(fs) = 1 .. Len(Front(fs))
          BY <4>2, LenFacts
        <4> QED BY <3>1, <4>1, <4>2, <4>3
      <3>4. \A k \in DOMAIN r : r[k].op = "call_function" =>
               r[k].frame \in DOMAIN fs2 /\ fs2[r[k].frame] = r[k].ctx
        <4> SUFFICES ASSUME NEW k \in DOMAIN r, r[k].op = "call_function"
                     PROVE  r[k].frame \in DOMAIN fs2 /\ fs2[r[k].frame] = r[k].ctx
          OBVIOUS
        <4>1. r[k] = st[k] /\ k < n /\ k \in DOMAIN st /\ st[k] \in Activation
          BY <1>1, <1>4, LenFacts
        <4>2. Frames(st[k]) =< b.frame
          BY <1>1, <4>1 DEF Balanced, Chain
        <4>3. Frames(st[k]) = st[k].frame + 1 /\ st[k].frame \in Nat
          BY <4>1, HeightFacts DEF Frames, OpensFrame
        <4>4. st[k].frame \in DOMAIN fs /\ fs[st[k].frame] = st[k].ctx
          BY <1>5, <4>1 DEF CallsMatch
        <4>5. st[k].frame \in 1 .. (Len(fs) - 1)
          BY <1>3, <3>1, <4>2, <4>3, <4>4, LenFacts
        <4> QED BY <3>3, <4>1, <4>4, <4>5
      <3> QED BY <3>1, <3>3, <3>4 DEF CallsMatch
    <2> QED BY <2>1, <2>2
  <1>9. Chain(t) /\ CallsMatch(t, fs2)
    <2>1. \A k \in 1 .. (Len(r) - 1) : t[k] = r[k]
      <3>1. \A k \in 1 .. (n - 2) : k \in 1 .. (n - 1)
        BY <1>1
      <3> QED BY <1>1, <1>4, <3>1
    <2>2. SameShape(t[Len(r)], r[Len(r)]) /\ Len(t) = Len(r) /\ t[Len(r)] \in Activation
      BY <1>4, <1>7
    <2> HIDE DEF r
    <2> QED BY <1>4, <1>5, <1>7, <1>8, <2>1, <2>2, ChainReplace
  <1>10. Height(t[n - 1]) = Height(a) /\ Frames(t[n - 1]) = Frames(a)
    BY <1>2, SameShapeFacts
  <1> QED BY <1>3, <1>8, <1>9, <1>10 DEF InStep, Balanced

(* An exception leaves a block or a loop: what it leaves behind lies       *)
(* inside the activation below, the block just left included.              *)
LEMMA StepPops ==
  ASSUME NEW st \in Seq(Activation), Len(st) > 1,
         NEW lv, NEW fs, Balanced(st, lv, fs),
         st[Len(st)].op \in Loop \cup {"visitBlock"},
         NEW bl \in Seq(Block), OnlyLeftBehind(st[Len(st)], bl),
         bl[Height(st[Len(st)])] = Current(st[Len(st)]),
         NEW e, e # None, NEW lv2, Len(lv2) = Len(lv)
  PROVE  InStep(Front(st), bl, lv2, fs, e)
  <1> DEFINE n == Len(st)
             b == st[n]
             a == st[n - 1]
             r == Front(st)
  <1>1. n \in Nat /\ DOMAIN st = 1 .. n /\ n \in DOMAIN st /\ n - 1 \in DOMAIN st /\ st # << >>
    BY LenFacts
  <1>2. a \in Activation /\ b \in Activation /\ Link(a, b)
    BY <1>1, LinkBelow, LenFacts DEF Balanced
  <1>3. /\ r \in Seq(Activation) /\ Len(r) = n - 1 /\ r[n - 1] = a
    <2>1. n - 1 \in 1 .. (n - 1)
      BY <1>1
    <2>2. /\ r \in Seq(Activation) /\ Len(r) = n - 1 /\ \A k \in 1 .. (n - 1) : r[k] = st[k]
      BY <1>1, FrontFacts
    <2> HIDE DEF r
    <2> QED BY <2>1, <2>2
  <1>4. Chain(r) /\ CallsMatch(r, fs)
    BY <1>1, ChainPop DEF Balanced
  <1>5. Frames(b) = Frames(a)
    BY <1>2 DEF Link, Frames, OpensFrame, Loop, PlainLoop, ForLoop
  <1>6. Balanced(r, lv2, fs)
    BY <1>3, <1>4, <1>5 DEF Balanced
  <1>7. a.op # "expect_failure"
    BY <1>2 DEF Link, Loop, PlainLoop, ForLoop
  <1>8. ASSUME NEW m \in DOMAIN bl, m > Height(a) PROVE LeftBehind(a, bl[m])
    <2>1. /\ a.ctx \in Block /\ b.ctx \in Block /\ bl[m] \in Block
          /\ Depth[a.ctx] \in Nat /\ Depth[b.ctx] \in Nat /\ Depth[bl[m]] \in Nat
      <3>1. a.ctx \in Block /\ b.ctx \in Block /\ bl[m] \in Block
        BY <1>2, LenFacts DEF Activation
      <3> HIDE DEF a, b
      <3> QED BY <3>1, TreeAssumption
    <2>2. /\ Height(a) \in Nat /\ Height(b) \in Nat /\ Height(b) =< Height(a) + 1 /\ m \in Nat
          /\ b.base = Height(a)
      <3>1. m \in Nat
        BY LenFacts
      <3>2. b.base = Height(a)
        BY <1>2 DEF Link
      <3> HIDE DEF a, b
      <3>3. /\ Height(a) \in Nat /\ Height(b) \in Nat /\ b.base \in Nat
            /\ Height(b) =< b.base + 1
        BY <1>2, HeightFacts
      <3> QED BY <3>1, <3>2, <3>3
    <2>3. CASE m = Height(b)
      <3>1. Owns(b) /\ bl[m] = b.ctx
        <4>1. Owns(b)
          BY <1>8, <2>2, <2>3 DEF Height
        <4>2. Current(b) = b.ctx
          BY <4>1 DEF Owns, Current
        <4> QED BY <2>3, <4>1, <4>2
      <3>2. \/ Deeper(a.ctx, b.ctx)
            \/ b.ctx = a.ctx /\ a.op # "visitBlock" /\ a.op \notin ForLoop
        BY <1>2, <3>1 DEF Link, Owns, Loop, PlainLoop, ForLoop
      <3> HIDE DEF a, b
      <3> QED BY <2>1, <3>1, <3>2 DEF LeftBehind, Deeper
    <2>4. CASE m # Height(b)
      <3>1. m > Height(b)
        BY <1>8, <2>2, <2>4
      <3>2. LeftBehind(b, bl[m])
        BY <1>8, <3>1 DEF OnlyLeftBehind
      <3>3. CASE b.op = "visitBlock"
        <4>1. Deeper(a.ctx, b.ctx) \/ b.ctx = a.ctx
          BY <1>2, <3>3 DEF Link, Loop, PlainLoop, ForLoop
        <4> HIDE DEF a, b
        <4> QED BY <2>1, <3>2, <3>3, <4>1 DEF LeftBehind, Deeper
      <3>4. CASE b.op \in Loop
        <4>1. Deeper(a.ctx, b.ctx)
          BY <1>2, <3>4 DEF Link, Loop, PlainLoop, ForLoop
        <4> HIDE DEF a, b
        <4> QED BY <2>1, <3>2, <4>1 DEF LeftBehind, Deeper
      <3> QED BY <3>3, <3>4
    <2> QED BY <2>3, <2>4
  <1>9. OnlyLeftBehind(a, bl)
    BY <1>7, <1>8 DEF OnlyLeftBehind
  <1> QED BY <1>3, <1>6, <1>9 DEF InStep

-----------------------------------------------------------------------------
(* The invariant of a sane run is inductive.                               *)

(* A sane state: the stores are in step with the stack and, when no        *)
(* exception is in flight, the block at the back is the current one.       *)
LEMMA SaneFacts ==
  ASSUME Inv1, Exact, Sane, stack # << >>
  PROVE  /\ InStep(stack, blocks, local_values, functions, exn)
         /\ Balanced(stack, local_values, functions)
         /\ Len(local_values) = Frames(Top) /\ Len(local_values) \in Nat
         /\ Len(functions) = Frames(Top) - 1
         /\ exn = None => Len(blocks) = Height(Top)
         /\ exn # None => OnlyLeftBehind(Top, blocks)
         /\ exn = None /\ Top.op # "visitChunk" => Last(blocks) = Current(Top)
         /\ Top.op # "visitChunk" => /\ Len(stack) > 1 /\ stack[Len(stack) - 1] \in Activation
                                     /\ Link(stack[Len(stack) - 1], Top)
  <1>1. InStep(stack, blocks, local_values, functions, exn)
    BY ExactIsInStep
  <1>2. Balanced(stack, local_values, functions)
    BY <1>1 DEF InStep
  <1>3. /\ Len(local_values) = Frames(Top) /\ Len(functions) = Frames(Top) - 1
        /\ exn = None => Len(blocks) = Height(Top)
        /\ exn # None => OnlyLeftBehind(Top, blocks)
    BY <1>1, <1>2 DEF InStep, Balanced, Top
  <1>4. stack \in Seq(Activation) /\ blocks \in Seq(Block) /\ local_values \in Seq(Frame)
    BY DEF Inv1, TypeOK
  <1>5. Len(local_values) \in Nat
    BY <1>4, LenFacts
  <1>6. Top.op # "visitChunk" => /\ Len(stack) > 1 /\ blocks # << >>
                                 /\ blocks[Height(Top)] = Current(Top)
    BY TopFacts
  <1>7. exn = None /\ Top.op # "visitChunk" => Last(blocks) = Current(Top)
    BY <1>3, <1>4, <1>6, LenFacts
  <1>8. Top.op # "visitChunk" => /\ stack[Len(stack) - 1] \in Activation
                                 /\ Link(stack[Len(stack) - 1], Top)
    BY <1>2, <1>4, <1>6, LinkBelow DEF Balanced, Top
  <1> QED BY <1>1, <1>2, <1>3, <1>5, <1>6, <1>7, <1>8

(* The steps that throw, stop, or change nothing.                          *)
LEMMA ExactStill ==
  ASSUME Inv1, Exact,
         \/ ProcessBreak \/ ProcessGoto \/ ThrowBadType \/ VisitRetstat \/ ForInBreak \/ ForBadStep
         \/ NullParlist \/ FatalError \/ ForStepFreed \/ UnbalancedBlocks \/ CutRun
         \/ UNCHANGED vars
  PROVE  Exact'
  <1>1. /\ stack' = stack /\ blocks' = blocks /\ functions' = functions
        /\ escaped' = escaped /\ prog' = prog
    BY DEF ProcessBreak, ProcessGoto, ThrowBadType, VisitRetstat, ForInBreak, ForBadStep, NullParlist,
           FatalError, ForStepFreed, UnbalancedBlocks, CutRun, vars, stores
  <1>2. SUFFICES ASSUME Sane, stack # << >>
                 PROVE  InStep(stack, blocks, local_values', functions, exn')
    BY <1>1, ExactIsInStep DEF Sane
  <1>3. Balanced(stack, local_values, functions)
    BY <1>2, SaneFacts
  <1>4. Len(local_values') = Len(local_values)
    <2>1. local_values' = local_values \/ local_values' = EraseBlocks(local_values, {Top.ctx})
      BY DEF ProcessBreak, ProcessGoto, ThrowBadType, VisitRetstat, ForInBreak, ForBadStep, NullParlist,
             FatalError, ForStepFreed, UnbalancedBlocks, CutRun, vars, stores, Erased
    <2> QED BY <2>1, EraseFacts DEF Inv1, TypeOK
  <1>5. Balanced(stack, local_values', functions)
    BY <1>3, <1>4 DEF Balanced
  <1>6. CASE ProcessBreak \/ ProcessGoto \/ ThrowBadType \/ VisitRetstat \/ ForInBreak \/ ForBadStep
    <2>1. exn = None /\ Top.op \in {"visitBlock", "process_for_in", "process_for_head"}
      BY <1>6 DEF ProcessBreak, ProcessGoto, ThrowBadType, VisitRetstat, ForInBreak, ForBadStep, AtStat,
                  AtEnd, In, Running
    <2>2. Len(blocks) = Height(Top)
      BY <1>2, <2>1, SaneFacts
    <2>3. OnlyLeftBehind(Top, blocks)
      BY <1>2, <2>1, <2>2, TopFacts DEF OnlyLeftBehind
    <2> QED BY <1>5, <2>2, <2>3 DEF InStep, Top
  <1>7. CASE \/ NullParlist \/ FatalError \/ ForStepFreed \/ UnbalancedBlocks \/ CutRun
             \/ UNCHANGED vars
    <2>1. exn' = exn
      BY <1>7 DEF NullParlist, FatalError, ForStepFreed, UnbalancedBlocks, CutRun, vars
    <2> QED BY <1>2, <1>5, <2>1, SaneFacts DEF InStep
  <1> QED BY <1>6, <1>7

(* The steps that move the top activation along and leave _blocks alone.   *)
LEMMA ExactMove ==
  ASSUME Inv1, Exact, \/ SkipStat \/ ProcessLocal \/ ProcessFunction \/ ForStep \/ ForInClear
  PROVE  Exact'
  <1>1. /\ blocks' = blocks /\ functions' = functions /\ escaped' = escaped /\ prog' = prog
        /\ exn' = exn /\ stack # << >>
    BY DEF SkipStat, ProcessLocal, ProcessFunction, ForStep, ForInClear, stores, AtStat, In, Running
  <1>2. SUFFICES ASSUME Sane
                 PROVE  InStep(stack', blocks, local_values', functions, exn)
    BY <1>1, ExactIsInStep DEF Sane
  <1>3. stack' = Advanced \/ stack' = Phased("test") \/ stack' = Phased("start")
    BY DEF SkipStat, ProcessLocal, ProcessFunction, ForStep, ForInClear
  <1>4. PICK a \in Activation : SameShape(a, Top) /\ stack' = Replace(a)
    <2>1. "test" \in Phase /\ "start" \in Phase
      BY DEF Phase
    <2> QED BY <1>1, <1>3, <2>1, PhasedFacts, AdvancedFacts
  <1>5. Len(local_values') = Len(local_values)
    <2>1. \/ local_values' = local_values
          \/ \E x : local_values' = [local_values EXCEPT ![Len(local_values)] = x]
      BY DEF SkipStat, ProcessLocal, ProcessFunction, ForStep, ForInClear, Bind, Keep, stores
    <2> QED BY <2>1, LastReplaced DEF Inv1, TypeOK
  <1>6. InStep(stack, blocks, local_values, functions, exn)
    BY <1>1, <1>2, SaneFacts
  <1>7. /\ stack' \in Seq(Activation) /\ Len(stack') = Len(stack) /\ stack'[Len(stack)] = a
        /\ \A k \in 1 .. (Len(stack) - 1) : stack'[k] = stack[k]
    BY <1>1, <1>4, MoveFacts
  <1>8. stack \in Seq(Activation) /\ SameShape(a, stack[Len(stack)])
    BY <1>4 DEF Inv1, TypeOK, Top
  <1> QED BY <1>1, <1>5, <1>6, <1>7, <1>8, StepMoves

(* What New and NewBlock build.                                            *)
LEMMA NewFacts ==
  ASSUME NEW op, NEW b, NEW s, NEW at, NEW for, NEW base, NEW frame
  PROVE  LET a == New(op, b, s, at)
             c == NewBlock(b, for, base, frame)
         IN  /\ a.op = op /\ a.ctx = b /\ a.cur = Last(blocks) /\ a.fn = s.fn
             /\ a.base = Len(blocks) /\ a.frame = Len(local_values)
             /\ c.op = "visitBlock" /\ c.ctx = b /\ c.from_for = for
             /\ c.base = base /\ c.frame = frame
  BY DEF New, NewBlock

(* The statement reached nests its blocks in the block visited, and calls  *)
(* another function than the one it is in.                                 *)
LEMMA SaneStat ==
  ASSUME Inv1, Sane, NEW ops, AtStat(ops)
  PROVE  /\ Top.op = "visitBlock" /\ Current(Top) = Top.ctx /\ S.op \in ops
         /\ \A j \in DOMAIN S.blks : S.blks[j] \in Block /\ Deeper(Top.ctx, S.blks[j])
         /\ S.op \in BlockOps => 1 \in DOMAIN S.blks
         /\ S.op \in LoopOps \cup CallOps => S.fn # Fun[Top.ctx]
  <1>1. /\ Top.op = "visitBlock" /\ Top.ctx \in Block /\ Top.i \in DOMAIN prog[Top.ctx].stats
        /\ S \in Stat /\ S.op \in ops /\ WellFormedStat(Top.ctx, S)
        /\ S = prog[Top.ctx].stats[Top.i]
    BY StatFacts
  <1>2. Current(Top) = Top.ctx
    BY <1>1 DEF Current
  <1>3. S.blks \in Seq(Block)
    BY <1>1 DEF Stat
  <1>4. \A j \in DOMAIN S.blks : S.blks[j] \in Block /\ Deeper(Top.ctx, S.blks[j])
    BY <1>1, <1>3, LenFacts DEF WellFormedStat, Deeper
  <1>5. S.op \in BlockOps => 1 \in DOMAIN S.blks
    <2>1. S.op \in BlockOps => Len(S.blks) >= 1
      BY <1>1 DEF WellFormedStat
    <2>2. Len(S.blks) \in Nat /\ DOMAIN S.blks = 1 .. Len(S.blks)
      BY <1>3, LenFacts
    <2> QED BY <2>1, <2>2
  <1>6. S.op \in LoopOps \cup CallOps => S.fn # Fun[Top.ctx]
    BY <1>1 DEF Sane, NoSelfCall
  <1> QED BY <1>1, <1>2, <1>4, <1>5, <1>6

(* Where an activation of a sane run starts: at the block it saved.        *)
LEMMA SaneBase ==
  ASSUME Inv1, Exact, Sane, stack # << >>, Top.op \in Loop \cup {"call_function"}
  PROVE  Top.base \in DOMAIN blocks /\ blocks[Top.base] = Top.cur
  <1> DEFINE n == Len(stack)
             a == stack[n - 1]
             z == Top
  <1>1. /\ Top.op # "visitChunk" /\ Top.op # "visitBlock" /\ Top.op # "expect_failure"
    BY DEF Loop, PlainLoop, ForLoop
  <1>2. n > 1 /\ a \in Activation /\ Link(a, z)
    BY <1>1, SaneFacts
  <1>3. stack \in Seq(Activation) /\ Shape(stack, blocks) /\ n \in Nat /\ DOMAIN stack = 1 .. n
    BY LenFacts DEF Inv1, TypeOK
  <1>4. n - 1 \in DOMAIN stack
    BY <1>2, <1>3
  <1> HIDE DEF a, z, n
  <1>5. /\ z.base = Height(a) /\ z.cur = Current(a) /\ a.op # "visitChunk"
    <2>1. z.op \in Loop \cup {"call_function"} /\ z.op # "visitBlock" /\ z.op # "expect_failure"
      BY <1>1 DEF z
    <2>2. z.base = Height(a)
      BY <1>2 DEF Link
    <2>3. CASE z.op \in Loop
      <3>1. z.op # "call_function"
        BY <2>3 DEF Loop, PlainLoop, ForLoop
      <3>2. a.op = "visitBlock" /\ z.cur = a.ctx
        BY <1>2, <2>1, <3>1 DEF Link
      <3> QED BY <2>2, <3>2 DEF Current
    <2>4. CASE z.op = "call_function"
      <3>1. z.op \notin Loop
        BY <2>4 DEF Loop, PlainLoop, ForLoop
      <3>2. a.op \in Loop \cup {"visitBlock", "expect_failure"} /\ z.cur = Current(a)
        BY <1>2, <2>1, <3>1 DEF Link
      <3> QED BY <2>2, <3>2 DEF Loop, PlainLoop, ForLoop
    <2> QED BY <2>1, <2>3, <2>4
  <1>6. n - 1 > 1
    <2>1. n - 1 # 1
      BY <1>3, <1>4, <1>5 DEF Shape, a
    <2> QED BY <1>2, <1>3, <2>1
  <1>7. Height(a) \in DOMAIN blocks /\ blocks[Height(a)] = Current(a)
    <2> DEFINE k == n - 1
    <2>1. k \in DOMAIN stack /\ k > 1 /\ a = stack[k]
      BY <1>4, <1>6 DEF a
    <2> HIDE DEF k
    <2>2. Height(stack[k]) \in DOMAIN blocks /\ blocks[Height(stack[k])] = Current(stack[k])
      BY <1>3, <2>1 DEF Shape
    <2> QED BY <2>1, <2>2
  <1> QED BY <1>5, <1>7 DEF z

(* The top activation changes its method, at the same place in the chain.  *)
LEMMA ChainRetop ==
  ASSUME NEW st \in Seq(Activation), Len(st) > 1, Chain(st), NEW fs, CallsMatch(st, fs),
         NEW a \in Activation, Link(st[Len(st) - 1], a), a.op # "call_function",
         a.frame = st[Len(st)].frame,
         NEW t \in Seq(Activation), Len(t) = Len(st), t[Len(st)] = a,
         \A k \in 1 .. (Len(st) - 1) : t[k] = st[k]
  PROVE  Chain(t) /\ CallsMatch(t, fs)
  <1> DEFINE n == Len(st)
  <1>1. n \in Nat /\ n > 1 /\ DOMAIN st = 1 .. n /\ DOMAIN t = 1 .. n
    BY LenFacts
  <1> HIDE DEF n
  <1>10. \A k \in 1 .. (n - 1) : t[k] = st[k]
    BY DEF n
  <1>2. \A k \in 1 .. n : k = n \/ (k \in 1 .. (n - 1) /\ t[k] = st[k] /\ k < n)
    BY ONLY <1>1, <1>10
  <1>3. t[n] = a /\ Link(st[n - 1], a) /\ a.frame = st[n].frame
    BY DEF n
  <1>4. ASSUME NEW k \in 1 .. (Len(t) - 1) PROVE Link(t[k], t[k + 1])
    <2>1. k \in 1 .. (n - 1) /\ t[k] = st[k] /\ k + 1 \in 1 .. n
      BY <1>1 DEF n
    <2>2. Link(st[k], st[k + 1])
      BY DEF Chain
    <2>3. CASE k + 1 = n
      <3>1. k = n - 1
        BY <1>1, <2>1, <2>3
      <3> QED BY <1>3, <2>1, <2>3, <3>1
    <2>4. CASE k + 1 # n
      BY <1>2, <2>1, <2>2, <2>4
    <2> QED BY <2>3, <2>4
  <1>5. ASSUME NEW j \in DOMAIN t, NEW k \in DOMAIN t, j < k PROVE Frames(t[j]) =< t[k].frame
    <2>1. j \in DOMAIN st /\ k \in DOMAIN st /\ t[j] = st[j]
      BY <1>1, <1>2, <1>5
    <2>2. Frames(st[j]) =< st[k].frame
      BY <1>5, <2>1 DEF Chain
    <2>3. t[k].frame = st[k].frame
      BY <1>1, <1>2, <1>3
    <2> QED BY <2>1, <2>2, <2>3
  <1>6. CallsMatch(t, fs)
    BY <1>1, <1>2, <1>3 DEF CallsMatch
  <1> QED BY <1>4, <1>5, <1>6 DEF Chain

(* A numeric for pushes its block: in a sane run its head is on top of     *)
(* _blocks, so that the loop starts where its head did.                    *)
LEMMA ForStartExact ==
  ASSUME Inv1, Exact, Sane, ForStart
  PROVE  /\ InStep(stack', blocks', local_values', functions, None)
         /\ Top.base = Len(blocks) /\ ForStarted.base = Top.base /\ stack' = Replace(ForStarted)
         /\ ForStarted.op = "process_for_loop" /\ Top.op = "process_for_head"
         /\ Top.op # "visitChunk" /\ exn = None /\ stack # << >>
  <1>1. /\ stack # << >> /\ Top.op = "process_for_head" /\ exn = None
        /\ blocks' = Append(blocks, Top.ctx) /\ stack' = Replace(ForStarted)
        /\ local_values' = local_values
    BY DEF ForStart, In, Running, stores, ForStarted
  <1>2. /\ Balanced(stack, local_values, functions) /\ Len(blocks) = Height(Top)
        /\ Len(stack) > 1 /\ stack[Len(stack) - 1] \in Activation
        /\ Link(stack[Len(stack) - 1], Top)
    BY <1>1, SaneFacts
  <1>3. /\ ForStarted \in Activation /\ ForStarted.op = "process_for_loop"
        /\ ForStarted.ctx = Top.ctx /\ ForStarted.cur = Top.cur /\ ForStarted.base = Len(blocks)
        /\ ForStarted.frame = Top.frame /\ ForStarted.fn = Top.fn
        /\ Height(ForStarted) = Len(blocks) + 1
        /\ Frames(ForStarted) = Frames(Top) /\ Len(blocks) \in Nat /\ Top.ctx \in Block
        /\ Height(Top) = Top.base
    BY <1>1, ForStartedFacts
  <1> DEFINE t == Replace(ForStarted)
             a == ForStarted
             z == Top
             p == stack[Len(stack) - 1]
  <1>4. /\ t \in Seq(Activation) /\ Len(t) = Len(stack) /\ t[Len(stack)] = a
        /\ \A k \in 1 .. (Len(stack) - 1) : t[k] = stack[k]
    BY <1>1, ForStartShape
  <1>5. a.base = z.base /\ a.frame = z.frame /\ a.cur = z.cur /\ a.ctx = z.ctx /\ a.fn = z.fn
        /\ a.op = "process_for_loop" /\ z.op = "process_for_head" /\ Link(p, z) /\ a \in Activation
    BY <1>1, <1>2, <1>3
  <1>6. z = stack[Len(stack)]
    BY DEF Top
  <1> HIDE DEF a, t, z, p
  <1>7. Link(p, a)
    BY <1>5 DEF Link, Loop, PlainLoop, ForLoop
  <1>8. /\ stack \in Seq(Activation) /\ Chain(stack) /\ CallsMatch(stack, functions)
        /\ Link(stack[Len(stack) - 1], a) /\ a.op # "call_function" /\ a.frame = stack[Len(stack)].frame
    BY <1>2, <1>5, <1>6, <1>7 DEF Balanced, Inv1, TypeOK, p
  <1>9. Chain(t) /\ CallsMatch(t, functions)
    BY <1>2, <1>4, <1>5, <1>8, ChainRetop
  <1>10. Frames(a) = Frames(z) /\ Height(a) = Len(blocks) + 1
    BY <1>3 DEF a, z
  <1>11. Balanced(t, local_values, functions)
    BY <1>2, <1>4, <1>6, <1>9, <1>10 DEF Balanced
  <1>12. Len(blocks') = Len(blocks) + 1
    <2> DEFINE c == Top.ctx
    <2>1. blocks \in Seq(Block) /\ c \in Block
      BY <1>3 DEF Inv1, TypeOK
    <2> HIDE DEF c
    <2>2. Len(Append(blocks, c)) = Len(blocks) + 1
      BY ONLY <2>1, AppendFacts
    <2> QED BY <1>1, <2>2 DEF c
  <1>13. stack' = t
    BY <1>1 DEF t
  <1>14. InStep(t, blocks', local_values, functions, None)
    BY <1>4, <1>10, <1>11, <1>12 DEF InStep
  <1> QED BY <1>1, <1>2, <1>3, <1>13, <1>14 DEF t

(* The steps that enter a block or a loop.                                 *)
LEMMA ExactEnter ==
  ASSUME Inv1, Exact, \/ VisitNested \/ ProcessWhile \/ ProcessRepeat \/ LoopAgain
                      \/ ProcessForLoop \/ ForStart \/ ForAgain \/ ProcessForIn \/ ForInBind
  PROVE  Exact'
  <1>1. /\ functions' = functions /\ escaped' = escaped /\ prog' = prog
        /\ exn' = None /\ exn = None /\ stack # << >> /\ Top.op # "visitChunk"
    BY DEF VisitNested, ProcessWhile, ProcessRepeat, LoopAgain, ProcessForLoop, ForStart, ForAgain,
           ProcessForIn, ForInBind, stores, AtStat, LoopTested, In, Running, PlainLoop
  <1>2. SUFFICES ASSUME Sane
                 PROVE  InStep(stack', blocks', local_values', functions, None)
    BY <1>1, ExactIsInStep DEF Sane
  <1>3. /\ stack \in Seq(Activation) /\ blocks \in Seq(Block) /\ local_values \in Seq(Frame)
        /\ Top = stack[Len(stack)] /\ Top \in Activation /\ Inv1' /\ stack' \in Seq(Activation)
    BY <1>1, TopFacts, Inv1Enter DEF Inv1, TypeOK, Top
  <1>4. /\ InStep(stack, blocks, local_values, functions, None)
        /\ Balanced(stack, local_values, functions)
        /\ Len(blocks) = Height(Top) /\ Len(local_values) = Frames(Top)
        /\ Last(blocks) = Current(Top)
    BY <1>1, <1>2, SaneFacts
  <1>5. Len(local_values') = Len(local_values)
    <2>1. \/ local_values' = local_values
          \/ \E x : local_values' = [local_values EXCEPT ![Len(local_values)] = x]
      BY DEF VisitNested, ProcessWhile, ProcessRepeat, LoopAgain, ProcessForLoop, ForStart, ForAgain,
             ProcessForIn, ForInBind, Bind, stores
    <2> QED BY <1>3, <2>1, LastReplaced
  <1>6. /\ Len(blocks) \in Nat /\ Len(local_values) \in Nat
        /\ \A x \in Block : Len(Append(blocks, x)) = Len(blocks) + 1
    BY <1>3, LenFacts, AppendFacts
  <1>7. "body" \in Phase /\ "cond" \in Phase /\ "test" \in Phase /\ "start" \in Phase
    BY DEF Phase
  <1>8. CASE VisitNested
    <2>1. PICK j \in DOMAIN S.blks : Visit(stack, S.blks[j])
      BY <1>8 DEF VisitNested
    <2>2. Top.op = "visitBlock" /\ S.blks[j] \in Block /\ Deeper(Top.ctx, S.blks[j])
      BY <1>2, <1>8, SaneStat DEF VisitNested
    <2> DEFINE a == NewBlock(S.blks[j], FALSE, Len(blocks), Len(local_values))
    <2>3. /\ a.op = "visitBlock" /\ a.ctx = S.blks[j] /\ ~ a.from_for
          /\ a.base = Len(blocks) /\ a.frame = Len(local_values)
      BY DEF NewBlock
    <2>4. a \in Activation
      BY <1>6, <2>2 DEF NewBlock, Activation, Method, Phase
    <2>5. stack' = Append(stack, a) /\ blocks' = Append(blocks, S.blks[j])
      BY <2>1 DEF Visit
    <2> HIDE DEF a
    <2>6. Link(Top, a) /\ ~ OpensFrame(a) /\ Height(a) = Len(blocks) + 1
      BY <1>4, <2>2, <2>3 DEF Link, OpensFrame, Height, Owns
    <2> QED BY <1>1, <1>3, <1>4, <1>5, <1>6, <2>2, <2>4, <2>5, <2>6, StepPushes
  <1>9. CASE ProcessWhile \/ ProcessRepeat \/ ProcessForLoop
    <2>1. AtStat({"while", "repeat", "for"})
      BY <1>9 DEF ProcessWhile, ProcessRepeat, ProcessForLoop, AtStat
    <2>2. /\ Top.op = "visitBlock" /\ Current(Top) = Top.ctx
          /\ S.blks[1] \in Block /\ Deeper(Top.ctx, S.blks[1]) /\ S.fn # Fun[Top.ctx]
      BY <1>2, <2>1, SaneStat DEF BlockOps, LoopOps, PlainLoops, ForLoops
    <2>3. PICK op \in PlainLoop, at \in Phase :
             LET a == New(op, S.blks[1], S, at)
             IN  \/ stack' = Append(stack, a) /\ blocks' = blocks
                 \/ op # "process_for_head" /\ Visit(Append(stack, a), S.blks[1])
      BY <1>7, <1>9 DEF ProcessWhile, ProcessRepeat, ProcessForLoop, PlainLoop
    <2> DEFINE a == New(op, S.blks[1], S, at)
               b == NewBlock(S.blks[1], FALSE, Len(blocks), Len(local_values))
    <2>4. /\ a.op = op /\ a.ctx = S.blks[1] /\ a.cur = Last(blocks) /\ a.fn = S.fn
          /\ a.base = Len(blocks) /\ a.frame = Len(local_values)
      BY NewFacts
    <2>5. /\ b.op = "visitBlock" /\ b.ctx = S.blks[1] /\ b.from_for = FALSE
          /\ b.base = Len(blocks) /\ b.frame = Len(local_values)
      BY DEF NewBlock
    <2>6. S.id \in Name \cup Label \cup {Nil} /\ S.fn \in Body \cup {Nil} /\ Last(blocks) \in Block
      BY <1>1, <2>1, StatFacts, TopFacts DEF Stat
    <2>7. a \in Activation
      BY <1>6, <2>2, <2>6 DEF New, Activation, Method, Loop, PlainLoop
    <2>8. b \in Activation
      BY <1>6, <2>2 DEF NewBlock, Activation, Method, Phase
    <2> HIDE DEF a, b
    <2>9. Link(Top, a) /\ ~ OpensFrame(a) /\ Height(a) = Len(blocks) /\ a.op \in PlainLoop
      BY <1>4, <2>2, <2>4 DEF Link, OpensFrame, Height, Owns, Loop, PlainLoop, ForLoop, Deeper
    <2>10. InStep(Append(stack, a), blocks, local_values', functions, None)
      BY <1>1, <1>3, <1>4, <1>5, <2>7, <2>9, StepPushes
    <2>11. CASE stack' = Append(stack, a) /\ blocks' = blocks
      BY <2>10, <2>11
    <2>12. CASE op # "process_for_head" /\ Visit(Append(stack, a), S.blks[1])
      <3>1. stack' = Append(Append(stack, a), b) /\ blocks' = Append(blocks, S.blks[1])
        BY <2>12 DEF Visit, b
      <3> DEFINE st == Append(stack, a)
      <3>2. st \in Seq(Activation) /\ st # << >> /\ st[Len(st)] = a
        BY <1>3, <2>7, AppendFacts, LenFacts
      <3>3. Balanced(st, local_values', functions)
        BY <2>10 DEF InStep
      <3>4. Frames(a) = a.frame
        BY <2>9 DEF Frames
      <3>5. Link(a, b) /\ ~ OpensFrame(b) /\ Height(b) = Len(blocks) + 1
        <4>1. a.op \in Loop /\ a.op \notin ForLoop
          BY <2>9 DEF Loop, PlainLoop, ForLoop
        <4>2. b.from_for = (a.op \in ForLoop)
          <5>1. b.from_for \in BOOLEAN /\ ~ b.from_for /\ a.op \notin ForLoop
            BY <2>5, <2>8, <4>1 DEF Activation
          <5> QED BY <5>1
        <4>3. Link(a, b)
          BY <2>4, <2>5, <2>9, <2>12, <3>4, <4>1, <4>2 DEF Link
        <4> QED BY <2>5, <4>3 DEF OpensFrame, Height, Owns
      <3> HIDE DEF st
      <3>6. InStep(Append(st, b), blocks', local_values', functions, None)
        BY <1>6, <2>2, <2>8, <3>1, <3>2, <3>3, <3>5, StepPushes
      <3> QED BY <3>1, <3>6 DEF st
    <2> QED BY <2>3, <2>11, <2>12 DEF a
  <1>10. CASE LoopAgain \/ ForAgain \/ ForInBind
    <2> DEFINE st == Phased("body")
               c == st[Len(stack)]
    <2>1. /\ st \in Seq(Activation) /\ st # << >> /\ Len(st) = Len(stack)
          /\ c \in Activation /\ SameShape(c, Top)
          /\ \A k \in 1 .. (Len(stack) - 1) : st[k] = stack[k]
      BY <1>1, <1>7, PhasedStack
    <2>2. Height(c) = Height(Top) /\ Frames(c) = Frames(Top) /\ c.op = Top.op /\ c.ctx = Top.ctx
          /\ c.base = Top.base
      <3> HIDE DEF c
      <3> QED BY <1>3, <2>1, SameShapeFacts DEF SameShape
    <2>3. \/ Top.op \in PlainLoop \ {"process_for_head"} /\ Visit(st, Top.ctx)
          \/ Top.op \in ForLoop /\ VisitFromFor(st, Top.ctx)
      BY <1>10 DEF LoopAgain, ForAgain, ForInBind, LoopTested, In, PlainLoop, ForLoop
    <2> HIDE DEF st
    <2>4. Balanced(st, local_values', functions)
      <3>1. InStep(st, blocks, local_values', functions, None)
        <4>1. st[Len(stack)] = c /\ SameShape(c, stack[Len(stack)])
          BY <1>3, <2>1
        <4> HIDE DEF c
        <4> QED BY <1>1, <1>3, <1>4, <1>5, <2>1, <4>1, StepMoves
      <3> QED BY <3>1 DEF InStep
    <2> DEFINE for == Top.op \in ForLoop
               base == IF for THEN Top.base + 1 ELSE Len(blocks)
               b == NewBlock(Top.ctx, for, base, Len(local_values))
    <2>5. Top.ctx \in Block /\ Top.base \in Nat
      BY <1>3 DEF Activation
    <2>6. /\ b.op = "visitBlock" /\ b.ctx = Top.ctx /\ b.from_for = for
          /\ b.base = base /\ b.frame = Len(local_values)
      BY NewFacts
    <2>7. b \in Activation
      BY <1>6, <2>5 DEF NewBlock, Activation, Method, Phase
    <2>8. stack' = Append(st, b) /\ blocks' = IF for THEN blocks ELSE Append(blocks, Top.ctx)
      <3>1. CASE Top.op \in ForLoop
        <4>1. VisitFromFor(st, Top.ctx) /\ for = TRUE
          BY <2>3, <3>1 DEF PlainLoop, ForLoop
        <4> HIDE DEF for
        <4> QED BY <4>1 DEF VisitFromFor
      <3>2. CASE Top.op \notin ForLoop
        <4>1. Visit(st, Top.ctx) /\ for = FALSE
          BY <2>3, <3>2
        <4> HIDE DEF for
        <4> QED BY <4>1 DEF Visit
      <3> QED BY <3>1, <3>2
    <2>9. /\ base = Height(Top) /\ Top.op \in Loop /\ Len(blocks) = Height(Top)
          /\ Top.op # "process_for_head"
      BY <1>4, <2>3 DEF Height, Owns, Loop, PlainLoop, ForLoop
    <2> HIDE DEF b, base
    <2>10. /\ Link(c, b) /\ ~ OpensFrame(b)
      <3> HIDE DEF c
      <3> QED BY <1>4, <2>2, <2>6, <2>9 DEF Link, OpensFrame
    <2>11. Height(b) = IF for THEN Len(blocks) ELSE Len(blocks) + 1
      BY <2>6, <2>9 DEF Height, Owns, ForLoop
    <2>12. Len(blocks') = Height(b)
      BY <1>6, <2>5, <2>8, <2>11
    <2>13. st[Len(st)] = c
      BY <2>1
    <2> HIDE DEF c
    <2> QED BY <1>5, <2>1, <2>4, <2>7, <2>8, <2>10, <2>12, <2>13, StepPushes
  <1>11. CASE ProcessForIn
    <2>1. AtStat({"forin"})
      BY <1>11 DEF ProcessForIn
    <2>2. /\ Top.op = "visitBlock" /\ Current(Top) = Top.ctx
          /\ S.blks[1] \in Block /\ Deeper(Top.ctx, S.blks[1]) /\ S.fn # Fun[Top.ctx]
      BY <1>2, <2>1, SaneStat DEF BlockOps, LoopOps, ForLoops
    <2>3. PICK op \in ForLoop, at \in Phase : stack' = Append(stack, New(op, S.blks[1], S, at))
      BY <1>7, <1>11 DEF ProcessForIn, ForLoop
    <2>4. blocks' = Append(blocks, S.blks[1])
      BY <1>11 DEF ProcessForIn
    <2> DEFINE a == New(op, S.blks[1], S, at)
    <2>5. /\ a.op = op /\ a.ctx = S.blks[1] /\ a.cur = Last(blocks) /\ a.fn = S.fn
          /\ a.base = Len(blocks) /\ a.frame = Len(local_values)
      BY NewFacts
    <2>6. S.id \in Name \cup Label \cup {Nil} /\ S.fn \in Body \cup {Nil} /\ Last(blocks) \in Block
      BY <1>1, <2>1, StatFacts, TopFacts DEF Stat
    <2>7. a \in Activation
      BY <1>6, <2>2, <2>6 DEF New, Activation, Method, Loop, ForLoop
    <2>8. stack' = Append(stack, a)
      BY <2>3
    <2> HIDE DEF a
    <2>9. Link(Top, a) /\ ~ OpensFrame(a) /\ Height(a) = Len(blocks) + 1
      BY <1>4, <2>2, <2>5 DEF Link, OpensFrame, Height, Owns, Loop, ForLoop, Deeper
    <2>10. Len(blocks') = Height(a)
      BY <1>6, <2>2, <2>4, <2>9
    <2> QED BY <1>1, <1>3, <1>4, <1>5, <2>7, <2>8, <2>9, <2>10, StepPushes
  <1>12. CASE ForStart
    BY <1>2, <1>12, ForStartExact
  <1> QED BY <1>8, <1>9, <1>10, <1>11, <1>12

(* The steps that call a function: it is not the function that the calling *)
(* block belongs to.                                                       *)
LEMMA ExactCall ==
  ASSUME Inv1, Exact, \/ CallStat \/ ExpectFailure \/ LoopCondition \/ ForInIterate
  PROVE  Exact'
  <1>1. /\ escaped' = escaped /\ prog' = prog /\ exn' = None /\ exn = None
        /\ stack # << >> /\ Top.op # "visitChunk"
    BY DEF CallStat, ExpectFailure, LoopCondition, ForInIterate, AtStat, In, Running, PlainLoop
  <1>2. SUFFICES ASSUME Sane
                 PROVE  InStep(stack', blocks', local_values', functions', None)
    BY <1>1, ExactIsInStep DEF Sane
  <1>3. /\ stack \in Seq(Activation) /\ blocks \in Seq(Block) /\ local_values \in Seq(Frame)
        /\ functions \in Seq(Body) /\ defined \in SUBSET Body
        /\ Top = stack[Len(stack)] /\ Top \in Activation /\ Shape(stack, blocks)
    BY <1>1, TopFacts DEF Inv1, TypeOK, Top
  <1>4. /\ InStep(stack, blocks, local_values, functions, None)
        /\ Balanced(stack, local_values, functions)
        /\ Len(blocks) = Height(Top) /\ Len(local_values) = Frames(Top)
        /\ Last(blocks) = Current(Top)
        /\ stack[Len(stack) - 1] \in Activation /\ Link(stack[Len(stack) - 1], Top)
    BY <1>1, <1>2, SaneFacts
  <1>5. /\ Len(blocks) \in Nat /\ Len(local_values) \in Nat /\ blocks # << >> /\ Last(blocks) \in Block
    BY <1>1, <1>3, LenFacts, TopFacts
  <1>6. SUFFICES ASSUME NEW st \in Seq(Activation), NEW f \in Body,
                        st # << >>, Shape(st, blocks), CallFunction(st, f),
                        Balanced(st, local_values, functions),
                        st[Len(st)].op \in Loop \cup {"visitBlock", "expect_failure"},
                        Height(st[Len(st)]) = Len(blocks), Frames(st[Len(st)]) = Len(local_values),
                        Current(st[Len(st)]) = Last(blocks), f # Fun[Last(blocks)]
                 PROVE  InStep(stack', blocks', local_values', functions', None)
    <2>1. CASE CallStat
      <3>1. /\ Top.op = "visitBlock" /\ Current(Top) = Top.ctx /\ S.fn # Fun[Top.ctx]
        BY <1>2, <2>1, SaneStat DEF CallStat, CallOps
      <3>2. S.fn \in Body /\ CallFunction(stack, S.fn)
        BY <1>3, <2>1 DEF CallStat
      <3> QED BY <1>1, <1>3, <1>4, <1>6, <3>1, <3>2
    <2>2. CASE LoopCondition
      <3>1. /\ Top.op \in PlainLoop /\ Top.fn \in Body /\ CallFunction(stack, Top.fn)
        BY <1>3, <2>2 DEF LoopCondition, In
      <3>2. Top.op \in Loop /\ Top.op \notin ForLoop /\ Current(Top) = Top.cur
        BY <3>1 DEF Loop, PlainLoop, ForLoop, Current
      <3>3. Top.fn # Fun[Top.ctx] /\ Fun[Top.cur] = Fun[Top.ctx]
        BY <1>4, <3>2 DEF Link, Deeper, Loop, PlainLoop, ForLoop
      <3> QED BY <1>1, <1>3, <1>4, <1>6, <3>1, <3>2, <3>3
    <2>3. CASE ForInIterate
      <3> DEFINE st == Phased("iter")
                 c == st[Len(stack)]
      <3>1. "iter" \in Phase
        BY DEF Phase
      <3>2. /\ st \in Seq(Activation) /\ st # << >> /\ Shape(st, blocks) /\ Len(st) = Len(stack)
            /\ c \in Activation /\ SameShape(c, Top)
            /\ \A k \in 1 .. (Len(stack) - 1) : st[k] = stack[k]
        BY <1>1, <3>1, PhasedStack
      <3>3. CallFunction(st, Top.fn) /\ Top.op = "process_for_in"
        BY <2>3 DEF ForInIterate, In
      <3>4. Top.fn \in Body
        BY <1>1, <3>3, TopFacts
      <3>5. Top.op \in Loop /\ Top.op \in ForLoop /\ Current(Top) = Top.ctx
        BY <3>3 DEF Loop, ForLoop, Current
      <3>6. Top.fn # Fun[Top.ctx]
        BY <1>4, <3>5 DEF Link, Loop, PlainLoop, ForLoop
      <3> HIDE DEF st
      <3>7. Height(c) = Height(Top) /\ Frames(c) = Frames(Top) /\ Current(c) = Current(Top)
            /\ c.op = Top.op
        <4> HIDE DEF c
        <4> QED BY <1>3, <3>2, SameShapeFacts DEF SameShape
      <3>8. st[Len(st)] = c
        BY <3>2
      <3>9. InStep(st, blocks, local_values, functions, None)
        <4>1. st[Len(stack)] = c /\ SameShape(c, stack[Len(stack)])
          BY <1>3, <3>2
        <4> HIDE DEF c
        <4> QED BY <1>1, <1>3, <1>4, <3>2, <4>1, StepMoves
      <3>10. Balanced(st, local_values, functions)
        BY <3>9 DEF InStep
      <3> HIDE DEF c
      <3> QED BY <1>4, <1>6, <3>2, <3>3, <3>4, <3>5, <3>6, <3>7, <3>8, <3>10
    <2>4. CASE ExpectFailure
      <3> DEFINE s == [id |-> Nil, fn |-> Nil]
                 a == New("expect_failure", Top.ctx, s, "body")
                 st == Append(stack, a)
      <3>1. /\ Top.op = "visitBlock" /\ Current(Top) = Top.ctx /\ S.fn # Fun[Top.ctx]
        BY <1>2, <2>4, SaneStat DEF ExpectFailure, CallOps
      <3>2. S.fn \in Body /\ CallFunction(st, S.fn)
        BY <1>3, <2>4 DEF ExpectFailure
      <3>3. /\ a.op = "expect_failure" /\ a.ctx = Top.ctx /\ a.cur = Last(blocks)
            /\ a.base = Len(blocks) /\ a.frame = Len(local_values)
        BY DEF New
      <3>4. Top.ctx \in Block
        BY <1>3 DEF Activation
      <3>5. a \in Activation
        BY <1>5, <3>4 DEF New, Activation, Method, Phase
      <3> HIDE DEF a, s
      <3>6. Link(Top, a) /\ ~ OpensFrame(a) /\ Height(a) = Len(blocks) /\ Current(a) = Last(blocks)
            /\ Frames(a) = Len(local_values)
        BY <1>4, <3>1, <3>3 DEF Link, OpensFrame, Height, Owns, ForLoop, Current, Frames
      <3>7. InStep(st, blocks, local_values, functions, None)
        BY <1>1, <1>3, <1>4, <3>5, <3>6, StepPushes
      <3>8. st \in Seq(Activation) /\ st # << >> /\ st[Len(st)] = a
        BY <1>3, <3>5, AppendFacts, LenFacts
      <3>9. Balanced(st, local_values, functions)
        BY <3>7 DEF InStep
      <3>10. Shape(st, blocks)
        <4>1. a.op # "visitChunk" /\ a.op \notin Loop /\ a.op # "process_for_in"
          BY <3>3 DEF Loop, PlainLoop, ForLoop
        <4>2. Height(a) \in DOMAIN blocks /\ blocks[Height(a)] = Current(a)
          BY <1>3, <1>5, <3>6, LenFacts
        <4>3. Height(stack[Len(stack)]) =< a.base
          BY <1>3, <1>4, <1>5, <3>3
        <4> QED BY <1>1, <1>3, <3>5, <4>1, <4>2, <4>3, ShapePush
      <3> HIDE DEF st
      <3>11. a.op \in Loop \cup {"visitBlock", "expect_failure"} /\ S.fn # Fun[Last(blocks)]
        BY <1>4, <3>1, <3>3
      <3> QED BY <1>6, <3>2, <3>6, <3>8, <3>9, <3>10, <3>11
    <2> QED BY <2>1, <2>2, <2>3, <2>4
  <1> DEFINE c == New("call_function", f, [id |-> Nil, fn |-> Nil], "body")
             b == NewBlock(f, FALSE, Len(blocks), Len(local_values) + 1)
  <1>7. c \in Activation /\ b \in Activation /\ stack' = Append(Append(st, c), b)
    <2>1. Height(st[Len(st)]) =< Len(blocks)
      BY <1>5, <1>6
    <2> QED BY <1>5, <1>6, <2>1, CallFacts
  <1>8. /\ c.op = "call_function" /\ c.ctx = f /\ c.cur = Last(blocks)
        /\ c.base = Len(blocks) /\ c.frame = Len(local_values)
    BY DEF New
  <1>9. /\ b.op = "visitBlock" /\ b.ctx = f /\ ~ b.from_for
        /\ b.base = Len(blocks) /\ b.frame = Len(local_values) + 1
    BY DEF NewBlock
  <1>10. /\ blocks' = Append(blocks, f) /\ functions' = Append(functions, f)
         /\ Len(local_values') = Len(local_values) + 1
    <2>1. PICK x : local_values' = Append(local_values, x)
      BY <1>6 DEF CallFunction
    <2>2. local_values \in Seq(Frame \cup {x})
      BY <1>3
    <2>3. Len(local_values') = Len(local_values) + 1
      BY <2>1, <2>2, AppendFacts
    <2> QED BY <1>6, <2>3 DEF CallFunction
  <1> HIDE DEF c, b
  <1>11. Link(st[Len(st)], c)
    BY <1>6, <1>8 DEF Link
  <1>12. Height(c) = Len(blocks) /\ Frames(c) = Len(local_values) + 1
    BY <1>8 DEF Height, Owns, ForLoop, Frames, OpensFrame
  <1>13. Link(c, b)
    <2>1. b.from_for \in BOOLEAN /\ ~ b.from_for /\ c.op \notin ForLoop
      BY <1>7, <1>8, <1>9 DEF Activation, ForLoop
    <2>2. b.from_for = (c.op \in ForLoop)
      BY <2>1
    <2> QED BY <1>8, <1>9, <1>12, <2>2 DEF Link
  <1>14. Height(b) = Len(blocks) + 1
    BY <1>9 DEF Height, Owns
  <1>15. f \in Block
    BY TreeAssumption
  <1>16. Len(blocks') = Height(b)
    BY <1>3, <1>10, <1>14, <1>15, AppendFacts
  <1> QED BY <1>3, <1>6, <1>7, <1>8, <1>9, <1>10, <1>11, <1>13, <1>16, StepCalls

(* What stabilize_blocks puts back in a sane run: the blocks there were    *)
(* when the loop, the call or the block whose handler runs was entered.    *)
LEMMA SaneStabilize ==
  ASSUME Inv1, Exact, Sane, stack # << >>, exn # None
  PROVE  /\ Top.op \in Loop \cup {"call_function"} => Len(StabilizedBlocks(Top.cur)) = Top.base
         /\ Top.op = "visitBlock" => Len(StabilizedBlocks(Top.ctx)) = Height(Top)
  <1>1. /\ blocks \in Seq(Block) /\ local_values \in Seq(Frame) /\ Top \in Activation
        /\ DOMAIN blocks = 1 .. Len(blocks) /\ Len(blocks) \in Nat
        /\ \A m \in DOMAIN blocks : blocks[m] \in Block
    BY TopFacts, LenFacts DEF Inv1, TypeOK
  <1>2. OnlyLeftBehind(Top, blocks)
    BY SaneFacts
  <1>3. /\ Top.ctx \in Block /\ Top.base \in Nat /\ Height(Top) \in Nat
        /\ Top.base =< Height(Top) /\ Height(Top) =< Top.base + 1
    BY <1>1, HeightFacts DEF Activation
  <1>4. /\ Fun \in [Block -> Body \cup {Main}] /\ Depth \in [Block -> Nat]
        /\ \A x \in Block : Depth[x] \in Nat
        /\ \A f \in Body : Fun[f] = f
    BY TreeAssumption
  <1>5. ASSUME Top.op \in Loop \cup {"call_function"}
        PROVE  Len(StabilizedBlocks(Top.cur)) = Top.base
    <2>1. Top.op # "visitChunk" /\ Top.op # "visitBlock"
      BY <1>5 DEF Loop, PlainLoop, ForLoop
    <2>2. Top.base \in DOMAIN blocks /\ blocks[Top.base] = Top.cur
      BY <1>5, SaneBase
    <2>3. Link(stack[Len(stack) - 1], Top)
      BY <2>1, SaneFacts
    <2>4. Height(Top) \in DOMAIN blocks /\ blocks[Height(Top)] = Current(Top)
      BY <2>1, TopFacts
    <2>5. ASSUME NEW m \in DOMAIN blocks, m > Top.base PROVE blocks[m] # Top.cur
      <3>1. CASE Top.op \in Loop
        <4>1. Top.cur \in Block /\ Depth[Top.ctx] > Depth[Top.cur]
          <5>1. Deeper(Top.cur, Top.ctx)
            BY <2>3, <3>1 DEF Link, Loop, PlainLoop, ForLoop
          <5> QED BY <1>1, <2>2, <5>1 DEF Deeper
        <4>2. CASE m > Height(Top)
          <5>1. LeftBehind(Top, blocks[m])
            BY <1>2, <4>2 DEF OnlyLeftBehind
          <5>2. Depth[blocks[m]] >= Depth[Top.ctx]
            BY <1>1, <1>3, <1>4, <5>1 DEF LeftBehind
          <5> QED BY <1>1, <1>3, <1>4, <4>1, <5>2
        <4>3. CASE ~ (m > Height(Top))
          <5>1. m = Height(Top) /\ Owns(Top)
            BY <1>1, <1>3, <2>5, <4>3 DEF Height
          <5>2. blocks[m] = Top.ctx
            BY <2>4, <5>1 DEF Current, Owns
          <5> QED BY <1>3, <1>4, <4>1, <5>2
        <4> QED BY <4>2, <4>3
      <3>2. CASE Top.op = "call_function"
        <4>1. Top.ctx \in Body /\ Top.ctx # Fun[Top.cur] /\ Height(Top) = Top.base
          BY <2>3, <3>2 DEF Link, Loop, PlainLoop, ForLoop, Height, Owns
        <4>2. LeftBehind(Top, blocks[m])
          BY <1>2, <2>5, <4>1 DEF OnlyLeftBehind
        <4>3. Fun[blocks[m]] = Top.ctx
          BY <1>4, <4>1, <4>2 DEF LeftBehind
        <4> QED BY <4>1, <4>3
      <3> QED BY <1>5, <3>1, <3>2
    <2> QED BY <1>1, <2>2, <2>5, StabilizeFacts
  <1>6. ASSUME Top.op = "visitBlock"
        PROVE  Len(StabilizedBlocks(Top.ctx)) = Height(Top)
    <2>1. Height(Top) \in DOMAIN blocks /\ blocks[Height(Top)] = Top.ctx
      BY <1>6, TopFacts DEF Current
    <2>2. ASSUME NEW m \in DOMAIN blocks, m > Height(Top) PROVE blocks[m] # Top.ctx
      <3>1. LeftBehind(Top, blocks[m])
        BY <1>2, <2>2 DEF OnlyLeftBehind
      <3>2. Depth[blocks[m]] > Depth[Top.ctx]
        BY <1>6, <3>1 DEF LeftBehind
      <3> QED BY <1>1, <1>3, <1>4, <3>2
    <2> QED BY <1>1, <2>1, <2>2, StabilizeFacts
  <1> QED BY <1>5, <1>6

(* The steps by which a method returns to its caller.                      *)
LEMMA ExactReturn ==
  ASSUME Inv1, Exact, \/ LoopEnd \/ ForEnd \/ FinishBlock \/ FinishCall
                      \/ CatchBreak \/ CatchReturn \/ CatchBadType
  PROVE  Exact'
  <1>1. /\ escaped' = escaped /\ prog' = prog /\ exn' = None
        /\ stack # << >> /\ Top.op # "visitChunk"
    BY DEF LoopEnd, ForEnd, FinishBlock, FinishCall, CatchBreak, CatchReturn, CatchBadType,
           LoopTested, AtEnd, In, Running, Unwinding, Loop, PlainLoop, ForLoop
  <1>2. SUFFICES ASSUME Sane
                 PROVE  InStep(stack', blocks', local_values', functions', None)
    BY <1>1, ExactIsInStep DEF Sane
  <1>3. /\ stack \in Seq(Activation) /\ blocks \in Seq(Block) /\ local_values \in Seq(Frame)
        /\ functions \in Seq(Body) /\ Top = stack[Len(stack)] /\ Top \in Activation
        /\ Top.base \in Nat /\ Top.frame \in Nat /\ Len(blocks) \in Nat /\ Height(Top) \in Nat
    BY <1>1, TopFacts, HeightFacts DEF Inv1, TypeOK, Top
  <1>4. /\ Balanced(stack, local_values, functions) /\ Len(local_values) = Frames(Top)
        /\ exn = None => Len(blocks) = Height(Top)
        /\ exn # None => OnlyLeftBehind(Top, blocks)
        /\ Len(stack) > 1
    BY <1>1, <1>2, SaneFacts
  <1>5. PICK v \in BOOLEAN : ReturnTo(v)
    BY DEF LoopEnd, ForEnd, FinishBlock, FinishCall, CatchBreak, CatchReturn, CatchBadType
  <1>6. /\ stack' \in Seq(Activation) /\ stack' # << >> /\ Len(stack') = Len(stack) - 1
        /\ \A k \in 1 .. (Len(stack) - 2) : stack'[k] = stack[k]
        /\ stack'[Len(stack) - 1] \in Activation
        /\ SameShape(stack'[Len(stack) - 1], stack[Len(stack) - 1])
    <2>1. Top.base =< Len(blocks) /\ \A m \in 1 .. Top.base : m \in DOMAIN blocks => blocks[m] = blocks[m]
      BY <1>1, TopFacts
    <2> QED BY <1>1, <1>3, <1>5, <2>1, ReturnFacts
  <1>7. SUFFICES /\ Len(local_values') = Top.frame /\ Len(blocks') = Top.base
                 /\ functions' = IF Top.op = "call_function" THEN Front(functions) ELSE functions
    BY <1>1, <1>3, <1>4, <1>6, <1>7, StepReturns
  <1>8. CASE LoopEnd
    <2>1. blocks' = blocks /\ local_values' = local_values /\ functions' = functions
          /\ Top.op \in PlainLoop /\ exn = None
      BY <1>8 DEF LoopEnd, stores, LoopTested, In, Running, PlainLoop
    <2> QED BY <1>4, <2>1 DEF Height, Owns, Frames, OpensFrame, PlainLoop, ForLoop
  <1>9. CASE ForEnd \/ FinishBlock
    <2>1. functions' = functions /\ exn = None /\ Top.op \in ForLoop \cup {"visitBlock"}
          /\ blocks' = IF Owns(Top) THEN Front(blocks) ELSE blocks
      BY <1>9 DEF ForEnd, FinishBlock, In, AtEnd, Running, Owns, ForLoop
    <2>2. Len(local_values') = Len(local_values)
      <3>1. local_values' = local_values \/ local_values' = EraseBlocks(local_values, {Top.ctx})
        BY <1>9 DEF ForEnd, FinishBlock, Erased
      <3> QED BY <1>3, <3>1, EraseFacts
    <2>3. Frames(Top) = Top.frame /\ Top.op # "call_function"
      BY <2>1 DEF Frames, OpensFrame, ForLoop
    <2>4. Len(blocks') = Top.base
      <3>1. CASE Owns(Top)
        <4>1. Len(blocks) = Top.base + 1
          BY <1>4, <2>1, <3>1 DEF Height
        <4>2. blocks # << >>
          BY <1>3, <4>1, LenFacts
        <4>3. Len(Front(blocks)) = Len(blocks) - 1
          BY <1>3, <4>2, FrontFacts
        <4>4. blocks' = Front(blocks)
          BY <2>1, <3>1
        <4>5. Len(blocks) - 1 = Top.base
          BY <1>3, <4>1
        <4> QED BY <4>3, <4>4, <4>5
      <3>2. CASE ~ Owns(Top)
        BY <1>4, <2>1, <3>2 DEF Height
      <3> QED BY <3>1, <3>2
    <2> QED BY <1>4, <2>1, <2>2, <2>3, <2>4
  <1>10. Top.op = "call_function" => Frames(Top) = Top.frame + 1 /\ Height(Top) = Top.base
    BY DEF Frames, OpensFrame, Height, Owns, ForLoop
  <1>11. ASSUME NEW lv \in Seq(Frame), Len(lv) = Top.frame + 1
         PROVE  Len(Front(lv)) = Top.frame
    <2>1. lv # << >>
      BY <1>3, <1>11, LenFacts
    <2>2. Len(Front(lv)) = Len(lv) - 1
      BY <1>11, <2>1, FrontFacts
    <2>3. (Top.frame + 1) - 1 = Top.frame
      BY <1>3
    <2> QED BY <1>11, <2>2, <2>3
  <1>12. CASE FinishCall
    <2>1. /\ blocks' = blocks /\ local_values' = Front(local_values) /\ functions' = Front(functions)
          /\ Top.op = "call_function" /\ exn = None
      BY <1>12 DEF FinishCall, In, Running
    <2> QED BY <1>3, <1>4, <1>10, <1>11, <2>1
  <1>13. CASE CatchBreak
    <2>1. /\ Top.op \in Loop /\ exn # None /\ functions' = functions
          /\ blocks' = StabilizedBlocks(Top.cur) /\ local_values' = StabilizedValues(Top.cur)
      BY <1>13 DEF CatchBreak, Unwinding, StabilizeBlocks
    <2>2. Top.base \in DOMAIN blocks /\ blocks[Top.base] = Top.cur
      BY <1>1, <1>2, <2>1, SaneBase
    <2>3. Len(StabilizedValues(Top.cur)) = Len(local_values)
      BY <1>3, <2>2, StabilizeFacts
    <2>4. Len(StabilizedBlocks(Top.cur)) = Top.base
      BY <1>1, <1>2, <2>1, SaneStabilize
    <2>5. Frames(Top) = Top.frame /\ Top.op # "call_function"
      BY <2>1 DEF Frames, OpensFrame, Loop, PlainLoop, ForLoop
    <2> QED BY <1>4, <2>1, <2>3, <2>4, <2>5
  <1>14. CASE CatchReturn
    <2>1. /\ Top.op = "call_function" /\ exn # None /\ functions' = Front(functions)
          /\ blocks' = StabilizedBlocks(Top.cur) /\ local_values' = Front(StabilizedValues(Top.cur))
      BY <1>14 DEF CatchReturn, Unwinding
    <2>2. Top.base \in DOMAIN blocks /\ blocks[Top.base] = Top.cur
      BY <1>1, <2>1, TopFacts
    <2>3. /\ StabilizedValues(Top.cur) \in Seq(Frame)
          /\ Len(StabilizedValues(Top.cur)) = Len(local_values)
      BY <1>3, <2>2, StabilizeFacts
    <2>4. Len(StabilizedBlocks(Top.cur)) = Top.base
      BY <1>1, <1>2, <2>1, SaneStabilize
    <2> QED BY <1>4, <1>10, <1>11, <2>1, <2>3, <2>4
  <1>15. CASE CatchBadType
    <2>1. Top.op = "expect_failure" /\ exn # None
      BY <1>15 DEF CatchBadType, Unwinding
    <2> QED BY <1>4, <2>1 DEF OnlyLeftBehind
  <1> QED BY <1>8, <1>9, <1>12, <1>13, <1>14, <1>15

(* The steps of an exception that goes on, and of a goto that stops.  One  *)
(* that leaves a function ends the sane part of the run.                   *)
LEMMA ExactUnwind ==
  ASSUME Inv1, Exact, \/ CatchGoto \/ RethrowGoto \/ Propagate
  PROVE  Exact'
  <1>1. /\ prog' = prog /\ functions' = functions
        /\ exn # None /\ stack # << >> /\ Top.op # "visitChunk"
    BY DEF CatchGoto, RethrowGoto, Propagate, Unwinding, Method, Loop, stores
  <1>2. Sane' => Sane
    <2>1. escaped' = escaped \/ escaped' = (escaped \/ Top.op = "call_function")
      BY DEF CatchGoto, RethrowGoto, Propagate
    <2> QED BY <1>1, <2>1 DEF Sane
  <1>3. SUFFICES ASSUME Sane, Sane'
                 PROVE  InStep(stack', blocks', local_values', functions, exn')
    BY <1>1, <1>2, ExactIsInStep
  <1>4. /\ stack \in Seq(Activation) /\ blocks \in Seq(Block) /\ local_values \in Seq(Frame)
        /\ Top = stack[Len(stack)] /\ Top \in Activation
        /\ Height(Top) \in DOMAIN blocks /\ blocks[Height(Top)] = Current(Top)
        /\ DOMAIN blocks = 1 .. Len(blocks) /\ Len(blocks) \in Nat
        /\ prog \in [Block -> BlockCode]
    BY <1>1, TopFacts DEF Inv1, TypeOK, Top
  <1>5. /\ Balanced(stack, local_values, functions) /\ OnlyLeftBehind(Top, blocks)
        /\ Len(stack) > 1
    BY <1>1, <1>3, SaneFacts
  <1>6. CASE Propagate
    <2>1. stack' = Front(stack) /\ blocks' = blocks /\ local_values' = local_values /\ exn' = exn
      BY <1>6 DEF Propagate, Pop, stores
    <2>2. Top.op # "call_function"
      <3>1. ~ escaped' /\ escaped' = (escaped \/ Top.op = "call_function")
        BY <1>3, <1>6 DEF Propagate, Sane
      <3> QED BY <3>1
    <2>3. Top.op \in Loop \cup {"visitBlock"}
      BY <1>5, <1>6, <2>2 DEF Propagate, Unwinding, Method, OnlyLeftBehind
    <2> QED BY <1>1, <1>4, <1>5, <2>1, <2>3, StepPops
  <1>7. CASE CatchGoto \/ RethrowGoto
    <2>1. Top.op = "visitBlock" /\ StabilizeBlocks(Top.ctx)
      BY <1>7 DEF CatchGoto, RethrowGoto, Unwinding
    <2>2. blocks' = StabilizedBlocks(Top.ctx) /\ local_values' = StabilizedValues(Top.ctx)
      BY <2>1 DEF StabilizeBlocks
    <2>3. blocks[Height(Top)] = Top.ctx
      BY <1>4, <2>1 DEF Current
    <2>4. /\ blocks' \in Seq(Block) /\ Len(local_values') = Len(local_values)
          /\ \A m \in 1 .. Len(blocks') : blocks'[m] = blocks[m]
      BY <1>4, <2>2, <2>3, StabilizeFacts
    <2>5. Len(blocks') = Height(Top)
      BY <1>1, <1>3, <2>1, <2>2, SaneStabilize
    <2>6. Height(Top) \in 1 .. Len(blocks') /\ DOMAIN blocks' = 1 .. Height(Top)
      BY <1>4, <2>4, <2>5, LenFacts
    <2>7. CASE CatchGoto
      <3> DEFINE a == [Top EXCEPT !.i = Len(Stats) + 1]
      <3>1. Len(Stats) + 1 \in Nat
        BY <1>4, LenFacts DEF Stats, Activation, BlockCode
      <3>2. a \in Activation /\ SameShape(a, Top)
        BY <1>4, <3>1 DEF Activation, SameShape
      <3>3. stack' = Replace(a) /\ exn' = None
        BY <2>7 DEF CatchGoto
      <3> HIDE DEF a
      <3>4. /\ stack' \in Seq(Activation) /\ Len(stack') = Len(stack) /\ stack'[Len(stack)] = a
            /\ \A k \in 1 .. (Len(stack) - 1) : stack'[k] = stack[k]
        BY <1>1, <3>2, <3>3, MoveFacts
      <3>5. InStep(stack, blocks', local_values', functions, None)
        BY <1>4, <1>5, <2>4, <2>5 DEF InStep, Balanced
      <3>6. SameShape(a, stack[Len(stack)])
        BY <1>4, <3>2
      <3> QED BY <1>1, <1>4, <3>2, <3>3, <3>4, <3>5, <3>6, StepMoves
    <2>8. CASE RethrowGoto
      <3>1. stack' = Front(stack) /\ exn' = exn
        BY <2>8 DEF RethrowGoto, Pop
      <3>2. OnlyLeftBehind(Top, blocks')
        BY <1>4, <2>1, <2>6 DEF OnlyLeftBehind
      <3>3. blocks'[Height(Top)] = Current(Top)
        BY <1>4, <2>4, <2>6
      <3>4. Top.op \in Loop \cup {"visitBlock"}
        BY <2>1
      <3> QED BY <1>1, <1>4, <1>5, <2>4, <3>1, <3>2, <3>3, <3>4, StepPops
    <2> QED BY <1>7, <2>7, <2>8
  <1> QED BY <1>6, <1>7

(* Before the chunk is visited there are no functions and no exception.    *)
Fresh == status = "start" => functions = << >> /\ exn = None

(* The first and the last steps.                                           *)
LEMMA ExactEnds ==
  ASSUME Inv1, Exact, Fresh, \/ VisitChunk \/ FinishChunk \/ LeaveChunk
  PROVE  Exact'
  <1>1. CASE FinishChunk \/ LeaveChunk
    <2>1. stack' = << >>
      BY <1>1 DEF FinishChunk, LeaveChunk
    <2> QED BY <2>1, ExactIsInStep
  <1>2. CASE VisitChunk
    <2> DEFINE b == NewBlock(Main, FALSE, 0, 1)
    <2>1. /\ stack' = <<Chunk, b>> /\ blocks' = <<Main>> /\ Len(local_values') = 1
          /\ functions' = << >> /\ exn' = None
      BY <1>2 DEF VisitChunk, Fresh
    <2>2. /\ Chunk.op = "visitChunk" /\ Chunk.ctx = Main /\ Height(Chunk) = 0 /\ Frames(Chunk) = 1
      BY DEF Chunk, Height, Owns, ForLoop, Frames, OpensFrame
    <2>3. /\ b.op = "visitBlock" /\ b.ctx = Main /\ b.from_for = FALSE /\ b.base = 0 /\ b.frame = 1
          /\ Height(b) = 1 /\ Frames(b) = 1
      BY DEF NewBlock, Height, Owns, Frames, OpensFrame
    <2> HIDE DEF b
    <2>4. Link(Chunk, b)
      <3>1. b.from_for \in BOOLEAN /\ ~ b.from_for /\ Chunk.op \notin ForLoop
        BY <2>2, <2>3 DEF ForLoop
      <3>2. b.from_for = (Chunk.op \in ForLoop)
        BY <3>1
      <3> QED BY <2>2, <2>3, <3>2 DEF Link
    <2>5. /\ Len(stack') = 2 /\ DOMAIN stack' = {1, 2} /\ stack'[1] = Chunk /\ stack'[2] = b
          /\ Len(blocks') = 1 /\ Len(functions') = 0
      BY <2>1
    <2>6. \A k \in 1 .. (Len(stack') - 1) : k = 1
      BY <2>5
    <2>7. Chain(stack')
      BY <2>2, <2>3, <2>4, <2>5, <2>6 DEF Chain
    <2>8. CallsMatch(stack', functions')
      BY <2>2, <2>3, <2>5 DEF CallsMatch
    <2>9. InStep(stack', blocks', local_values', functions', exn')
      BY <2>1, <2>3, <2>5, <2>7, <2>8 DEF InStep, Balanced
    <2> QED BY <2>9, ExactIsInStep
  <1> QED BY <1>1, <1>2

-----------------------------------------------------------------------------
(* The theorems.                                                           *)

BalanceInv == Inv1 /\ Exact /\ SaneNeverUnbalanced /\ Fresh

LEMMA BalanceInit == Init => BalanceInv
  <1> SUFFICES ASSUME Init PROVE BalanceInv
    OBVIOUS
  <1>1. stack = << >> /\ status = "start" /\ functions = << >> /\ exn = None
    BY DEF Init
  <1> QED BY <1>1, Inv1Init DEF BalanceInv, Exact, SaneNeverUnbalanced, Fresh

(* visitBlock ends with its own block at the back.                         *)
LEMMA NotUnbalanced ==
  ASSUME Inv1, Exact, Sane, UnbalancedBlocks
  PROVE  FALSE
  <1>1. stack # << >> /\ exn = None /\ Top.op = "visitBlock" /\ Last(blocks) # Top.ctx
    BY DEF UnbalancedBlocks, AtEnd, In, Running
  <1>2. Last(blocks) = Current(Top)
    BY <1>1, SaneFacts
  <1> QED BY <1>1, <1>2 DEF Current

LEMMA StatusSteps ==
  ASSUME Step, ~ UnbalancedBlocks
  PROVE  status' = status \/ status' \in {"run", "done", "failed", "freed", "crashed", "cut"}
  <1>1. CASE VisitNested \/ SkipStat \/ ProcessLocal \/ NullParlist \/ ProcessFunction \/ ProcessBreak
    BY <1>1 DEF VisitNested, SkipStat, ProcessLocal, NullParlist, ProcessFunction, ProcessBreak
  <1>2. CASE ProcessGoto \/ ThrowBadType \/ CallStat \/ ExpectFailure \/ FatalError \/ ProcessWhile
    BY <1>2 DEF ProcessGoto, ThrowBadType, CallStat, ExpectFailure, FatalError, ProcessWhile
  <1>3. CASE ProcessRepeat \/ LoopCondition \/ LoopAgain \/ LoopEnd \/ ProcessForLoop \/ ForAgain
    BY <1>3 DEF ProcessRepeat, LoopCondition, LoopAgain, LoopEnd, ProcessForLoop, ForAgain
  <1>4. CASE ForStep \/ ForStepFreed \/ ForEnd \/ ProcessForIn \/ ForInIterate \/ ForInClear
    BY <1>4 DEF ForStep, ForStepFreed, ForEnd, ProcessForIn, ForInIterate, ForInClear
  <1>8. CASE ForBadStep \/ ForStart
    BY <1>8 DEF ForBadStep, ForStart
  <1>5. CASE ForInBind \/ ForInBreak \/ VisitRetstat \/ FinishBlock \/ FinishCall
    BY <1>5 DEF ForInBind, ForInBreak, VisitRetstat, FinishBlock, FinishCall
  <1>6. CASE CatchGoto \/ RethrowGoto \/ CatchBreak \/ CatchReturn \/ CatchBadType \/ Propagate
    BY <1>6 DEF CatchGoto, RethrowGoto, CatchBreak, CatchReturn, CatchBadType, Propagate
  <1>7. CASE VisitChunk \/ FinishChunk \/ LeaveChunk \/ CutRun
    BY <1>7 DEF VisitChunk, FinishChunk, LeaveChunk, CutRun
  <1> QED BY <1>1, <1>2, <1>3, <1>4, <1>5, <1>6, <1>7, <1>8 DEF Step

(* A run that is sane was sane before.                                     *)
LEMMA SaneBefore ==
  ASSUME [Next]_vars, Sane'
  PROVE  Sane
  <1>1. prog' = prog /\ (escaped' = escaped \/ escaped' = (escaped \/ Top.op = "call_function"))
    <2>1. CASE VisitNested \/ SkipStat \/ ProcessLocal \/ NullParlist \/ ProcessFunction \/ ProcessBreak
      BY <2>1 DEF VisitNested, SkipStat, ProcessLocal, NullParlist, ProcessFunction, ProcessBreak
    <2>2. CASE ProcessGoto \/ ThrowBadType \/ CallStat \/ ExpectFailure \/ FatalError \/ ProcessWhile
      BY <2>2 DEF ProcessGoto, ThrowBadType, CallStat, ExpectFailure, FatalError, ProcessWhile
    <2>3. CASE ProcessRepeat \/ LoopCondition \/ LoopAgain \/ LoopEnd \/ ProcessForLoop \/ ForAgain
      BY <2>3 DEF ProcessRepeat, LoopCondition, LoopAgain, LoopEnd, ProcessForLoop, ForAgain
    <2>4. CASE ForStep \/ ForStepFreed \/ ForEnd \/ ProcessForIn \/ ForInIterate \/ ForInClear
      BY <2>4 DEF ForStep, ForStepFreed, ForEnd, ProcessForIn, ForInIterate, ForInClear
    <2>5. CASE ForInBind \/ ForInBreak \/ VisitRetstat \/ FinishBlock \/ UnbalancedBlocks \/ FinishCall
      BY <2>5 DEF ForInBind, ForInBreak, VisitRetstat, FinishBlock, UnbalancedBlocks, FinishCall
    <2>6. CASE CatchGoto \/ RethrowGoto \/ CatchBreak \/ CatchReturn \/ CatchBadType \/ Propagate
      BY <2>6 DEF CatchGoto, RethrowGoto, CatchBreak, CatchReturn, CatchBadType, Propagate
    <2>7. CASE VisitChunk \/ FinishChunk \/ LeaveChunk \/ CutRun \/ Ended \/ UNCHANGED vars
      BY <2>7 DEF VisitChunk, FinishChunk, LeaveChunk, CutRun, Ended, vars
    <2>8. CASE ForBadStep \/ ForStart
      BY <2>8 DEF ForBadStep, ForStart
    <2> QED BY <2>1, <2>2, <2>3, <2>4, <2>5, <2>6, <2>7, <2>8 DEF Next, Step
  <1>2. escaped => escaped'
    BY <1>1, Zenon
  <1>3. ~ escaped' /\ NoSelfCall(prog')
    BY DEF Sane
  <1>4. NoSelfCall(prog)
    BY <1>1, <1>3
  <1> QED BY <1>2, <1>3, <1>4 DEF Sane

LEMMA BalanceStep == BalanceInv /\ [Next]_vars => BalanceInv'
  <1> SUFFICES ASSUME Inv1, Exact, SaneNeverUnbalanced, Fresh, [Next]_vars PROVE BalanceInv'
    BY DEF BalanceInv
  <1>1. Inv1'
    BY Inv1Step
  <1>2. Exact'
    <2>1. CASE Step
      BY <2>1, ExactStill, ExactMove, ExactEnter, ExactCall, ExactReturn, ExactUnwind, ExactEnds
         DEF Step
    <2>2. CASE Ended \/ UNCHANGED vars
      BY <2>2, ExactStill DEF Ended
    <2> QED BY <2>1, <2>2 DEF Next
  <1>3. SaneNeverUnbalanced'
    <2> SUFFICES ASSUME Sane' PROVE status' # "unbalanced"
      BY DEF SaneNeverUnbalanced
    <2>1. Sane /\ status # "unbalanced"
      BY SaneBefore DEF SaneNeverUnbalanced
    <2>2. CASE Step
      BY <2>1, <2>2, NotUnbalanced, StatusSteps
    <2>3. CASE Ended \/ UNCHANGED vars
      BY <2>1, <2>3 DEF Ended, vars
    <2> QED BY <2>2, <2>3 DEF Next
  <1>4. Fresh'
    <2>1. CASE Step
      <3>1. status' # "start"
        BY <2>1, RunSteps DEF VisitChunk
      <3> QED BY <3>1 DEF Fresh
    <2>2. CASE Ended \/ UNCHANGED vars
      BY <2>2 DEF Ended, vars, stores, Fresh
    <2> QED BY <2>1, <2>2 DEF Next
  <1> QED BY <1>1, <1>2, <1>3, <1>4 DEF BalanceInv

LEMMA BalanceAlways == Spec => []BalanceInv
  BY BalanceInit, BalanceStep, PTL DEF Spec

(* In every sane run each activation on the C++ stack starts where the one *)
(* below it ends, what an exception in flight leaves behind on _blocks     *)
(* lies strictly inside the activation it has reached, and the check       *)
(* "Unbalanced blocks" of visitBlock never fires.                          *)
THEOREM ChainIsKept == Spec => []IndInv
  <1>1. BalanceInv => IndInv
    BY DEF BalanceInv, Inv1, IndInv
  <1> QED BY <1>1, BalanceAlways, PTL

(* Whatever mix of break, goto, return and calls a sane run goes through,  *)
(* every block being visited finds its own entry of _blocks where it left  *)
(* it; when no exception is in flight nothing is left above it, and there  *)
(* is one frame and one function per open call.                            *)
THEOREM BlocksStayBalanced == Spec => []BlocksBalanced
  <1>1. BalanceInv => BlocksBalanced
    <2> SUFFICES ASSUME Inv1, Exact, Sane, stack # << >> PROVE BlocksBalanced
      BY DEF BalanceInv, BlocksBalanced
    <2>1. /\ Balanced(stack, local_values, functions) /\ Len(local_values) = Frames(Top)
          /\ Len(functions) = Frames(Top) - 1 /\ Len(local_values) \in Nat
          /\ exn = None => Len(blocks) = Height(Top)
      BY SaneFacts
    <2>2. \A k \in 2 .. Len(stack) : /\ Height(stack[k]) \in DOMAIN blocks
                                     /\ blocks[Height(stack[k])] = Current(stack[k])
      <3>1. DOMAIN stack = 1 .. Len(stack) /\ Len(stack) \in Nat
        BY LenFacts DEF Inv1, TypeOK
      <3>2. \A k \in 2 .. Len(stack) : k \in DOMAIN stack /\ k > 1
        BY <3>1
      <3> QED BY <3>2 DEF Inv1, Shape
    <2>3. \A k \in DOMAIN stack : stack[k].op = "call_function" =>
             stack[k].frame \in DOMAIN functions /\ functions[stack[k].frame] = stack[k].ctx
      BY <2>1 DEF Balanced, CallsMatch
    <2> QED BY <2>1, <2>2, <2>3 DEF BlocksBalanced
  <1> QED BY <1>1, BalanceAlways, PTL
-----------------------------------------------------------------------------
(* The locals of a sane run live as long as the block they belong to, in   *)
(* the frame of the call that opened it, and the three stores of the       *)
(* interpreter implement nested scopes.                                    *)

(* The part of _blocks that belongs to a frame, for any stack.             *)

CallsOf(st) == {k \in DOMAIN st : st[k].op = "call_function"}

(* CallBase, for a stack st over n blocks.                                 *)
Base(st, n, r) ==
  LET calls == {k \in DOMAIN st : st[k].op = "call_function" /\ st[k].frame = r}
  IN  IF calls = {} THEN n ELSE st[Min(calls)].base
Low(st, n, r) == IF r = 1 THEN 0 ELSE Base(st, n, r - 1)
Extent(st, n, r) == (Low(st, n, r) + 1) .. Base(st, n, r)

(* Every frame but the top one is one of a call that is still open, and    *)
(* the blocks of each frame are nested in each other.                      *)
Held(st, bl, lv) ==
  /\ \A r \in 1 .. (Len(lv) - 1) : \E k \in CallsOf(st) : st[k].frame = r
  /\ \A r \in DOMAIN lv : \A j, m \in Extent(st, Len(bl), r) :
        j < m => Depth[bl[j]] < Depth[bl[m]]

LocalsInv == Sane /\ status = "run" => stack # << >> /\ Held(stack, blocks, local_values)

(* The frames below a call's are older; no two calls opened the same.      *)
LEMMA CallFrames ==
  ASSUME NEW st \in Seq(Activation), st # << >>, NEW lv, NEW fs, Balanced(st, lv, fs)
  PROVE  /\ Len(lv) \in Nat
         /\ \A k \in CallsOf(st) : /\ st[k].frame \in Nat /\ st[k].frame < Len(lv)
                                   /\ st[k].base \in Nat /\ Height(st[k]) = st[k].base
                                   /\ st[k] \in Activation /\ k \in DOMAIN st
         /\ \A j, k \in CallsOf(st) : st[j].frame =< st[k].frame => j =< k
  <1>1. /\ Len(st) \in Nat /\ Len(st) >= 1 /\ DOMAIN st = 1 .. Len(st)
        /\ \A k \in DOMAIN st : st[k] \in Activation
    BY LenFacts
  <1>2. \A k \in DOMAIN st : /\ Frames(st[k]) \in Nat /\ st[k].frame \in Nat /\ st[k].base \in Nat
                             /\ st[k].frame =< Frames(st[k])
    BY <1>1, HeightFacts
  <1>3. Len(lv) = Frames(st[Len(st)]) /\ Len(st) \in DOMAIN st
    BY <1>1 DEF Balanced
  <1>4. \A k \in CallsOf(st) : /\ k \in DOMAIN st /\ Frames(st[k]) = st[k].frame + 1
                               /\ Height(st[k]) = st[k].base
    BY DEF CallsOf, Frames, OpensFrame, Height, Owns, ForLoop
  <1>5. \A j, k \in DOMAIN st : j < k => Frames(st[j]) =< st[k].frame
    BY DEF Balanced, Chain
  <1>6. ASSUME NEW k \in CallsOf(st) PROVE st[k].frame < Len(lv)
    <2>1. CASE k = Len(st) BY <1>2, <1>3, <1>4, <2>1
    <2>2. CASE k # Len(st)
      <3>1. k < Len(st) /\ k \in DOMAIN st BY <1>1, <1>4, <2>2
      <3>2. Frames(st[k]) =< st[Len(st)].frame BY <1>3, <1>5, <3>1
      <3> QED BY <1>2, <1>3, <1>4, <3>1, <3>2
    <2> QED BY <2>1, <2>2
  <1>7. ASSUME NEW j \in CallsOf(st), NEW k \in CallsOf(st), st[j].frame =< st[k].frame
        PROVE  j =< k
    <2> SUFFICES ASSUME k < j PROVE FALSE
      BY <1>1, <1>4
    <2>1. Frames(st[k]) =< st[j].frame /\ Frames(st[k]) = st[k].frame + 1
      BY <1>4, <1>5
    <2> QED BY <1>2, <1>4, <1>7, <2>1
  <1> QED BY <1>1, <1>2, <1>3, <1>4, <1>6, <1>7

(* Base is what its name says.                                             *)
LEMMA BaseOf ==
  ASSUME NEW st \in Seq(Activation), NEW k \in CallsOf(st), NEW n,
         NEW lv, NEW fs, st # << >>, Balanced(st, lv, fs)
  PROVE  Base(st, n, st[k].frame) = st[k].base
  <1>1. /\ Len(lv) \in Nat
        /\ \A i \in CallsOf(st) : st[i].frame \in Nat /\ st[i].frame < Len(lv) /\ i \in DOMAIN st
        /\ \A i, j \in CallsOf(st) : st[i].frame =< st[j].frame => i =< j
    BY CallFrames
  <1>2. DOMAIN st \subseteq Nat
    <2>1. Len(st) \in Nat /\ DOMAIN st = 1 .. Len(st)
      BY LenFacts
    <2> QED BY <2>1
  <1> DEFINE calls == {i \in DOMAIN st : st[i].op = "call_function" /\ st[i].frame = st[k].frame}
  <1>3. k \in calls
    BY <1>1 DEF CallsOf
  <1>4. \A i \in calls : i = k
    <2> SUFFICES ASSUME NEW i \in calls PROVE i = k
      OBVIOUS
    <2>1. i \in CallsOf(st) /\ st[i].frame = st[k].frame
      BY DEF CallsOf
    <2>2. i =< k /\ k =< i /\ i \in Nat /\ k \in Nat
      BY <1>1, <1>2, <2>1
    <2> QED BY <2>2
  <1>5. k =< k
    BY <1>1, <1>2
  <1> HIDE DEF calls
  <1>6. Min(calls) = k
    BY <1>3, <1>4, <1>5 DEF Min
  <1> QED BY <1>3, <1>6 DEF Base, calls

LEMMA BaseFacts ==
  ASSUME NEW st \in Seq(Activation), st # << >>, NEW lv, NEW fs, Balanced(st, lv, fs), NEW n
  PROVE  /\ \A k \in CallsOf(st) : Base(st, n, st[k].frame) = st[k].base
         /\ \A r : (\A k \in CallsOf(st) : st[k].frame # r) => Base(st, n, r) = n
         /\ Base(st, n, Len(lv)) = n
  <1>1. /\ Len(lv) \in Nat
        /\ \A k \in CallsOf(st) : st[k].frame \in Nat /\ st[k].frame < Len(lv)
    BY CallFrames
  <1>2. ASSUME NEW k \in CallsOf(st) PROVE Base(st, n, st[k].frame) = st[k].base
    BY BaseOf
  <1>3. ASSUME NEW r, \A k \in CallsOf(st) : st[k].frame # r PROVE Base(st, n, r) = n
    <2>1. {i \in DOMAIN st : st[i].op = "call_function" /\ st[i].frame = r} = {}
      BY <1>3 DEF CallsOf
    <2> QED BY <2>1 DEF Base
  <1>4. \A k \in CallsOf(st) : st[k].frame # Len(lv)
    BY <1>1
  <1> QED BY <1>2, <1>3, <1>4

(* Where the blocks of the innermost call begin.                           *)
LEMMA LowFacts ==
  ASSUME NEW st \in Seq(Activation), st # << >>, NEW bl \in Seq(Block), NEW lv,
         NEW fs \in Seq(Body), Balanced(st, lv, fs), Shape(st, bl), Held(st, bl, lv)
  PROVE  LET l == Low(st, Len(bl), Len(lv))
         IN  /\ l \in Nat /\ Len(lv) >= 1 /\ Len(lv) \in Nat
             /\ \A n : Low(st, n, Len(lv)) = l
             /\ Len(lv) = 1 => l = 0 /\ CallsOf(st) = {}
             /\ Len(lv) > 1 => \E k \in CallsOf(st) : l = st[k].base /\ st[k].frame = Len(lv) - 1
             /\ \A k \in CallsOf(st) : st[k].base =< l
  <1> DEFINE l == Low(st, Len(bl), Len(lv))
             N == Len(lv)
  <1>1. /\ N \in Nat
        /\ \A k \in CallsOf(st) : /\ st[k].frame \in Nat /\ st[k].frame < N /\ st[k].base \in Nat
                                  /\ Height(st[k]) = st[k].base /\ k \in DOMAIN st
        /\ \A j, k \in CallsOf(st) : st[j].frame =< st[k].frame => j =< k
    BY CallFrames
  <1>2. N >= 1
    <2>1. Len(fs) \in Nat /\ Len(fs) = N - 1
      BY LenFacts DEF Balanced
    <2> QED BY <1>1, <2>1
  <1>3. \A k \in CallsOf(st) : st[k].frame >= 1
    <2>1. \A k \in CallsOf(st) : st[k].frame \in DOMAIN fs
      BY DEF Balanced, CallsMatch, CallsOf
    <2> QED BY <2>1, LenFacts
  <1>4. CASE N = 1
    <2>1. l = 0 /\ \A n : Low(st, n, N) = 0
      BY <1>4 DEF Low
    <2>2. CallsOf(st) = {}
      BY <1>1, <1>3, <1>4
    <2> QED BY <1>4, <2>1, <2>2
  <1>5. CASE N # 1
    <2>1. N - 1 \in 1 .. (N - 1) /\ N > 1
      <3>1. N \in Nat
        BY <1>1
      <3> HIDE DEF N
      <3> QED BY <1>2, <1>5, <3>1
    <2>2. PICK k \in CallsOf(st) : st[k].frame = N - 1
      BY <2>1 DEF Held
    <2>3. l = st[k].base /\ \A n : Low(st, n, N) = st[k].base
      <3>1. ASSUME NEW n PROVE Low(st, n, N) = st[k].base
        <4>1. Base(st, n, st[k].frame) = st[k].base
          BY BaseOf
        <4>2. Base(st, n, N - 1) = st[k].base
          BY <2>2, <4>1
        <4> QED BY <1>5, <4>2 DEF Low
      <3> QED BY <3>1
    <2>4. ASSUME NEW j \in CallsOf(st) PROVE st[j].base =< l
      <3>1. st[j].frame =< st[k].frame
        BY <1>1, <2>2
      <3>2. j =< k
        BY <1>1, <3>1
      <3>3. CASE j = k
        BY <1>1, <2>3, <3>3
      <3>4. CASE j # k
        <4>1. j \in DOMAIN st /\ k \in DOMAIN st /\ j < k
          <5>1. j \in Nat /\ k \in Nat /\ j \in DOMAIN st /\ k \in DOMAIN st
            BY <1>1, LenFacts
          <5> QED BY <3>2, <3>4, <5>1
        <4>2. Height(st[j]) =< st[k].base
          BY <4>1 DEF Shape
        <4> QED BY <1>1, <2>3, <4>2
      <3> QED BY <3>3, <3>4
    <2> HIDE DEF l
    <2> QED BY <1>1, <1>2, <1>5, <2>2, <2>3, <2>4
  <1> QED BY <1>1, <1>2, <1>4, <1>5

-----------------------------------------------------------------------------
(* What a step other than a call or a return does, in a sane run, to the   *)
(* blocks above position l, those of the innermost call, and to its frame: *)
(* nothing, a change of the locals of the block at the back, a block       *)
(* opened inside it, a local of a block inside it that is not open yet, or *)
(* blocks closed from the back with their locals; the block that is then   *)
(* at the back may lose its own.                                           *)
Closes(n, p, l, bl, bl2, f, f2) ==
  /\ p = n \/ p = n + 1
  /\ p > l /\ bl2 = SubSeq(bl, 1, n)
  /\ \A x \in Block : f2[x] = IF \E m \in p .. Len(bl) : bl[m] = x THEN {} ELSE f[x]

TopStep(l, bl, bl2, f, f2) ==
  \/ bl2 = bl /\ f2 = f
  \/ /\ bl2 = bl /\ l < Len(bl)
     /\ \A x \in Block : x # bl[Len(bl)] => f2[x] = f[x]
  \/ \E b \in Block : /\ bl2 = Append(bl, b) /\ l < Len(bl)
                      /\ Depth[bl[Len(bl)]] < Depth[b]
                      /\ \A x \in Block : x # b => f2[x] = f[x]
  \/ \E b \in Block : /\ bl2 = bl /\ l < Len(bl) /\ Depth[bl[Len(bl)]] < Depth[b]
                      /\ \A x \in Block : x # b => f2[x] = f[x]
  \/ \E n \in l .. (Len(bl) - 1), p \in Nat : Closes(n, p, l, bl, bl2, f, f2)

TopHeld(l, bl) ==
  \A j, m \in (l + 1) .. Len(bl) : j < m => Depth[bl[j]] < Depth[bl[m]]

LEMMA TopKept ==
  ASSUME NEW bl \in Seq(Block), NEW l \in Nat, l =< Len(bl), NEW f, NEW f2, NEW bl2,
         TopHeld(l, bl), TopStep(l, bl, bl2, f, f2)
  PROVE  /\ TopHeld(l, bl2) /\ l =< Len(bl2)
         /\ \A m \in 1 .. l : bl2[m] = bl[m]
  <1>1. /\ Len(bl) \in Nat /\ DOMAIN bl = 1 .. Len(bl) /\ \A m \in 1 .. Len(bl) : bl[m] \in Block
    BY LenFacts
  <1>2. \A x \in Block : Depth[x] \in Nat
    BY TreeAssumption
  <1>3. CASE bl2 = bl
    BY <1>3
  <1>5. ASSUME NEW b \in Block, bl2 = Append(bl, b), l < Len(bl), Depth[bl[Len(bl)]] < Depth[b]
        PROVE  /\ TopHeld(l, bl2) /\ l =< Len(bl2)
               /\ \A m \in 1 .. l : bl2[m] = bl[m]
    <2>1. /\ Len(bl2) = Len(bl) + 1 /\ bl2[Len(bl) + 1] = b
          /\ \A m \in 1 .. Len(bl) : bl2[m] = bl[m]
      BY <1>5, AppendFacts
    <2>3. ASSUME NEW j \in (l + 1) .. Len(bl2), NEW m \in (l + 1) .. Len(bl2), j < m
          PROVE  Depth[bl2[j]] < Depth[bl2[m]]
      <3>1. j \in (l + 1) .. Len(bl) /\ j \in 1 .. Len(bl) /\ Len(bl) \in (l + 1) .. Len(bl)
        BY <1>1, <1>5, <2>1, <2>3
      <3>2. CASE m \in 1 .. Len(bl)
        <4>1. m \in (l + 1) .. Len(bl)
          BY <1>1, <3>2
        <4> QED BY <2>1, <2>3, <3>1, <3>2, <4>1 DEF TopHeld
      <3>3. CASE m = Len(bl) + 1
        <4>1. Depth[bl[j]] =< Depth[bl[Len(bl)]]
          <5>1. j \in Nat /\ j =< Len(bl) /\ Len(bl) \in Nat
            BY <1>1, <3>1
          <5>2. Depth[bl[j]] \in Nat
            BY <1>1, <1>2, <3>1
          <5>3. j < Len(bl) => Depth[bl[j]] < Depth[bl[Len(bl)]]
            BY <3>1 DEF TopHeld
          <5>4. Depth[bl[Len(bl)]] \in Nat
            BY <1>1, <1>2, <3>1
          <5>5. CASE j = Len(bl)
            BY <5>2, <5>5
          <5>6. CASE j # Len(bl)
            <6>1. j < Len(bl)
              BY <5>1, <5>6
            <6> QED BY <5>2, <5>3, <5>4, <6>1
          <5> QED BY <5>5, <5>6
        <4>2. Depth[bl[j]] \in Nat /\ Depth[bl[Len(bl)]] \in Nat /\ Depth[b] \in Nat
          BY <1>1, <1>2, <3>1
        <4> QED BY <1>5, <2>1, <3>1, <3>3, <4>1, <4>2
      <3> QED BY <1>1, <2>1, <3>2, <3>3
    <2>4. \A m \in 1 .. l : m \in 1 .. Len(bl)
      BY <1>1
    <2> QED BY <1>1, <2>1, <2>3, <2>4 DEF TopHeld
  <1>6. ASSUME NEW n \in l .. (Len(bl) - 1), bl2 = SubSeq(bl, 1, n)
        PROVE  /\ TopHeld(l, bl2) /\ l =< Len(bl2)
               /\ \A m \in 1 .. l : bl2[m] = bl[m]
    <2>1. n \in 0 .. Len(bl)
      BY <1>1
    <2>2. Len(bl2) = n /\ \A m \in 1 .. n : bl2[m] = bl[m]
      BY <1>6, <2>1, PrefixFacts
    <2>4. ASSUME NEW j \in (l + 1) .. n, NEW m \in (l + 1) .. n, j < m
          PROVE  Depth[bl2[j]] < Depth[bl2[m]]
      <3>1. /\ j \in (l + 1) .. Len(bl) /\ m \in (l + 1) .. Len(bl)
            /\ j \in 1 .. n /\ m \in 1 .. n
        BY <1>1
      <3> QED BY <2>2, <2>4, <3>1 DEF TopHeld
    <2>5. \A m \in 1 .. l : m \in 1 .. n
      BY <1>1
    <2> QED BY <1>1, <2>2, <2>4, <2>5 DEF TopHeld
  <1> QED BY <1>3, <1>5, <1>6 DEF TopStep, Closes

(* The activations of the calls that are open stay where they are.         *)
CallsKept(st, t) ==
  \A k \in CallsOf(st) : k \in CallsOf(t) /\ t[k].frame = st[k].frame /\ t[k].base = st[k].base

LEMMA HeldTop ==
  ASSUME NEW st \in Seq(Activation), st # << >>, NEW bl \in Seq(Block), NEW lv \in Seq(Frame),
         NEW fs \in Seq(Body), Balanced(st, lv, fs), Shape(st, bl), Held(st, bl, lv)
  PROVE  TopHeld(Low(st, Len(bl), Len(lv)), bl)
  <1>1. Base(st, Len(bl), Len(lv)) = Len(bl)
    BY BaseFacts
  <1>2. Len(lv) \in DOMAIN lv
    BY LowFacts, LenFacts
  <1>3. Extent(st, Len(bl), Len(lv)) = (Low(st, Len(bl), Len(lv)) + 1) .. Len(bl)
    BY <1>1 DEF Extent
  <1>5. \A j, m \in Extent(st, Len(bl), Len(lv)) : j < m => Depth[bl[j]] < Depth[bl[m]]
    BY <1>2 DEF Held
  <1> QED BY <1>3, <1>5 DEF TopHeld

LEMMA HeldKept ==
  ASSUME NEW st \in Seq(Activation), st # << >>, NEW bl \in Seq(Block), NEW lv \in Seq(Frame),
         NEW fs \in Seq(Body), Balanced(st, lv, fs), Shape(st, bl), Held(st, bl, lv),
         NEW t \in Seq(Activation), t # << >>, NEW bl2 \in Seq(Block), NEW lv2 \in Seq(Frame),
         NEW fs2 \in Seq(Body), Balanced(t, lv2, fs2),
         CallsKept(st, t), Len(lv2) = Len(lv),
         \A r \in 1 .. (Len(lv) - 1) : lv2[r] = lv[r],
         Low(st, Len(bl), Len(lv)) =< Len(bl),
         TopStep(Low(st, Len(bl), Len(lv)), bl, bl2, lv[Len(lv)], lv2[Len(lv)])
  PROVE  /\ Held(t, bl2, lv2)
         /\ \A r \in 1 .. (Len(lv) - 1) :
              /\ Extent(t, Len(bl2), r) = Extent(st, Len(bl), r)
              /\ \A m \in Extent(st, Len(bl), r) : m \in 1 .. Len(bl) /\ m \in 1 .. Len(bl2)
                                                   /\ bl2[m] = bl[m]
         /\ Extent(st, Len(bl), Len(lv)) = (Low(st, Len(bl), Len(lv)) + 1) .. Len(bl)
         /\ Extent(t, Len(bl2), Len(lv)) = (Low(st, Len(bl), Len(lv)) + 1) .. Len(bl2)
  <1> DEFINE N == Len(lv)
             l == Low(st, Len(bl), N)
  <1>1. /\ l \in Nat /\ N >= 1 /\ N \in Nat /\ DOMAIN lv = 1 .. N /\ DOMAIN lv2 = 1 .. N
        /\ \A k \in CallsOf(st) : st[k].base =< l
    BY LowFacts, LenFacts
  <1>2. TopHeld(l, bl2) /\ l =< Len(bl2) /\ \A m \in 1 .. l : bl2[m] = bl[m]
    BY <1>1, HeldTop, TopKept
  <1>3. ASSUME NEW r \in 1 .. (N - 1)
        PROVE  \E k \in CallsOf(st) : st[k].frame = r /\ k \in CallsOf(t) /\ t[k].frame = r
                                      /\ t[k].base = st[k].base
    <2>1. PICK k \in CallsOf(st) : st[k].frame = r
      BY DEF Held
    <2> QED BY <2>1 DEF CallsKept
  <1>4. ASSUME NEW r \in 1 .. (N - 1)
        PROVE  /\ Base(t, Len(bl2), r) = Base(st, Len(bl), r)
               /\ Base(st, Len(bl), r) \in Nat /\ Base(st, Len(bl), r) =< l
    <2>1. PICK k \in CallsOf(st) : st[k].frame = r /\ k \in CallsOf(t) /\ t[k].frame = r
                                   /\ t[k].base = st[k].base
      BY <1>3
    <2>2. Base(st, Len(bl), r) = st[k].base
      <3>1. Base(st, Len(bl), st[k].frame) = st[k].base
        BY BaseOf
      <3> QED BY <2>1, <3>1
    <2>3. Base(t, Len(bl2), r) = t[k].base
      <3>1. Base(t, Len(bl2), t[k].frame) = t[k].base
        BY <2>1, BaseOf
      <3> QED BY <2>1, <3>1
    <2>4. st[k].base \in Nat
      BY CallFrames
    <2> QED BY <1>1, <2>1, <2>2, <2>3, <2>4
  <1>5. \A r \in 1 .. N : Low(t, Len(bl2), r) = Low(st, Len(bl), r) /\ Low(st, Len(bl), r) \in Nat
    <2> SUFFICES ASSUME NEW r \in 1 .. N
                 PROVE  Low(t, Len(bl2), r) = Low(st, Len(bl), r) /\ Low(st, Len(bl), r) \in Nat
      OBVIOUS
    <2>1. CASE r = 1
      BY <2>1 DEF Low
    <2>2. CASE r # 1
      <3>1. r - 1 \in 1 .. (N - 1)
        <4>1. N \in Nat BY <1>1
        <4> HIDE DEF N
        <4> QED BY <2>2, <4>1
      <3> QED BY <1>4, <2>2, <3>1 DEF Low
    <2> QED BY <2>1, <2>2
  <1>6. Base(t, Len(bl2), N) = Len(bl2) /\ Base(st, Len(bl), N) = Len(bl)
    <2>1. Base(t, Len(bl2), Len(lv2)) = Len(bl2)
      BY BaseFacts
    <2> QED BY <2>1, BaseFacts
  <1>7. N \in 1 .. N /\ \A r \in 1 .. (N - 1) : r \in 1 .. N
    <2>1. N \in Nat /\ N >= 1 BY <1>1
    <2> HIDE DEF N
    <2> QED BY <2>1
  <1>8. /\ Extent(t, Len(bl2), N) = (l + 1) .. Len(bl2)
        /\ Extent(st, Len(bl), N) = (l + 1) .. Len(bl)
    BY <1>5, <1>6, <1>7 DEF Extent
  <1>9. ASSUME NEW r \in 1 .. (N - 1)
        PROVE  /\ Extent(t, Len(bl2), r) = Extent(st, Len(bl), r)
               /\ \A m \in Extent(st, Len(bl), r) : m \in 1 .. Len(bl) /\ m \in 1 .. Len(bl2)
                                                    /\ bl2[m] = bl[m]
    <2>1. Extent(t, Len(bl2), r) = Extent(st, Len(bl), r)
      BY <1>4, <1>5, <1>7 DEF Extent
    <2>2. \A m \in Extent(st, Len(bl), r) : m \in 1 .. l
      <3>1. /\ Low(st, Len(bl), r) \in Nat /\ Base(st, Len(bl), r) \in Nat
            /\ Base(st, Len(bl), r) =< l /\ l \in Nat
        BY <1>1, <1>4, <1>5, <1>7
      <3> HIDE DEF l
      <3> QED BY <3>1 DEF Extent
    <2>3. \A m \in 1 .. l : m \in 1 .. Len(bl) /\ m \in 1 .. Len(bl2)
      <3>1. l \in Nat /\ Len(bl) \in Nat /\ Len(bl2) \in Nat /\ l =< Len(bl) /\ l =< Len(bl2)
        BY <1>1, <1>2, LenFacts
      <3> HIDE DEF l
      <3> QED BY <3>1
    <2> QED BY <1>2, <2>1, <2>2, <2>3
  <1>10. \A r \in 1 .. (N - 1) : \E k \in CallsOf(t) : t[k].frame = r
    BY <1>3
  <1>11. ASSUME NEW r \in 1 .. N
         PROVE  \A j, m \in Extent(t, Len(bl2), r) : j < m => Depth[bl2[j]] < Depth[bl2[m]]
    <2>1. CASE r = N
      BY <1>2, <1>8, <2>1 DEF TopHeld
    <2>2. CASE r # N
      <3>1. r \in 1 .. (N - 1)
        <4>1. N \in Nat BY <1>1
        <4> HIDE DEF N
        <4> QED BY <2>2, <4>1
      <3>2. r \in DOMAIN lv
        BY <1>1, <3>1
      <3>3. /\ Extent(t, Len(bl2), r) = Extent(st, Len(bl), r)
            /\ \A m \in Extent(st, Len(bl), r) : bl2[m] = bl[m]
        BY <1>9, <3>1
      <3>5. \A j, m \in Extent(st, Len(bl), r) : j < m => Depth[bl[j]] < Depth[bl[m]]
        BY <3>2 DEF Held
      <3> QED BY <3>3, <3>5
    <2> QED BY <2>1, <2>2
  <1>12. Held(t, bl2, lv2)
    BY <1>1, <1>10, <1>11 DEF Held
  <1> QED BY <1>8, <1>9, <1>12

-----------------------------------------------------------------------------
(* A block or a loop of a sane run has a block of its own call below it.   *)

LEMMA BlocksAboveCalls ==
  ASSUME NEW st \in Seq(Activation), NEW bl, Shape(st, bl), Chain(st),
         NEW j \in DOMAIN st, NEW k \in CallsOf(st), k < j,
         st[j].op = "visitBlock" \/ st[j].op \in ForLoop
  PROVE  st[k].base < Height(st[j])
  <1>1. /\ Len(st) \in Nat /\ DOMAIN st = 1 .. Len(st) /\ k \in DOMAIN st
        /\ st[j] \in Activation /\ st[k] \in Activation
    BY LenFacts DEF CallsOf
  <1>2. Height(st[k]) = st[k].base /\ st[k].op = "call_function"
    BY DEF CallsOf, Height, Owns, ForLoop
  <1>3. Height(st[k]) =< st[j].base /\ st[k].base \in Nat /\ st[j].base \in Nat
    BY <1>1, HeightFacts DEF Shape
  <1>4. CASE Owns(st[j])
    BY <1>2, <1>3, <1>4 DEF Height
  <1>5. CASE ~ Owns(st[j])
    <2>1. st[j].op = "visitBlock" /\ st[j].from_for
      BY <1>5 DEF Owns
    <2>2. j - 1 \in 1 .. (Len(st) - 1) /\ (j - 1) + 1 = j /\ j - 1 \in DOMAIN st
      BY <1>1
    <2>3. Link(st[j - 1], st[j])
      <3>1. Link(st[j - 1], st[(j - 1) + 1])
        BY <2>2 DEF Chain
      <3> QED BY <2>2, <3>1
    <2>4. st[j - 1].op \in ForLoop /\ st[j].base = Height(st[j - 1])
      BY <2>1, <2>3 DEF Link, Loop, PlainLoop, ForLoop
    <2>5. k # j - 1
      BY <1>2, <2>4 DEF ForLoop
    <2>6. k < j - 1
      BY <1>1, <2>5
    <2>7. Height(st[k]) =< st[j - 1].base
      BY <1>1, <2>2, <2>6 DEF Shape
    <2>8. Height(st[j - 1]) = st[j - 1].base + 1
      BY <2>4 DEF Height, Owns
    <2>9. st[j - 1] \in Activation
      BY <2>2, LenFacts
    <2>10. st[j - 1].base \in Nat
      BY <2>9, HeightFacts
    <2>11. Height(st[j]) = st[j].base
      BY <1>5 DEF Height
    <2> QED BY <1>2, <1>3, <2>4, <2>7, <2>8, <2>10, <2>11
  <1> QED BY <1>4, <1>5

LEMMA AboveCalls ==
  ASSUME NEW st \in Seq(Activation), NEW bl, Shape(st, bl), Chain(st),
         NEW j \in DOMAIN st, NEW k \in CallsOf(st), k < j,
         st[j].op \in Loop \cup {"expect_failure"}
  PROVE  st[k].base < st[j].base
  <1>1. /\ Len(st) \in Nat /\ DOMAIN st = 1 .. Len(st) /\ k \in DOMAIN st
        /\ st[k].op = "call_function"
    BY LenFacts DEF CallsOf
  <1>2. j - 1 \in 1 .. (Len(st) - 1) /\ (j - 1) + 1 = j /\ j - 1 \in DOMAIN st
    BY <1>1
  <1>3. Link(st[j - 1], st[j])
    <2>1. Link(st[j - 1], st[(j - 1) + 1])
      BY <1>2 DEF Chain
    <2> QED BY <1>2, <2>1
  <1>4. st[j - 1].op = "visitBlock" /\ st[j].base = Height(st[j - 1])
    BY <1>3 DEF Link, Loop, PlainLoop, ForLoop
  <1>5. k < j - 1
    <2>1. k # j - 1
      BY <1>1, <1>4
    <2> QED BY <1>1, <2>1
  <1> QED BY <1>2, <1>4, <1>5, BlocksAboveCalls

(* The state of a sane run, as the next lemmas use it.                     *)
LocalsHere ==
  Inv1 /\ Exact /\ Sane /\ stack # << >> /\ Held(stack, blocks, local_values)

LowHere == Low(stack, Len(blocks), Len(local_values))

LEMMA LowBelow ==
  ASSUME LocalsHere
  PROVE  /\ LowHere \in Nat /\ LowHere =< Len(blocks) /\ Len(blocks) \in Nat
         /\ Len(local_values) \in Nat /\ Len(local_values) >= 1
         /\ Top.op \notin {"call_function", "visitChunk"} => LowHere < Height(Top)
         /\ Top.op \in Loop => LowHere < Top.base
         /\ Top.op = "call_function" => /\ LowHere = Top.base /\ Len(local_values) > 1
                                        /\ Top.frame = Len(local_values) - 1
  <1>1. /\ Inv1 /\ Exact /\ Sane /\ stack # << >> /\ Held(stack, blocks, local_values)
        /\ stack \in Seq(Activation) /\ blocks \in Seq(Block) /\ local_values \in Seq(Frame)
        /\ functions \in Seq(Body) /\ Shape(stack, blocks)
    BY DEF LocalsHere, Inv1, TypeOK
  <1>2. /\ Balanced(stack, local_values, functions) /\ Chain(stack)
        /\ Len(local_values) = Frames(Top) /\ Len(local_values) \in Nat
    BY <1>1, SaneFacts DEF Balanced
  <1>3. /\ LowHere \in Nat /\ Len(local_values) >= 1
        /\ Len(local_values) = 1 => LowHere = 0 /\ CallsOf(stack) = {}
        /\ Len(local_values) > 1 => \E k \in CallsOf(stack) : LowHere = stack[k].base
    BY <1>1, <1>2, LowFacts DEF LowHere
  <1>4. LowHere = 0 \/ \E k \in CallsOf(stack) : LowHere = stack[k].base
    BY <1>2, <1>3
  <1>5. /\ Len(stack) \in Nat /\ Len(stack) >= 1 /\ Len(stack) \in DOMAIN stack
        /\ DOMAIN stack = 1 .. Len(stack)
        /\ Top = stack[Len(stack)] /\ Top \in Activation /\ Height(Top) \in Nat /\ Top.base \in Nat
        /\ Top.base =< Height(Top)
        /\ Len(blocks) \in Nat /\ DOMAIN blocks = 1 .. Len(blocks)
        /\ Top.op # "visitChunk" => Height(Top) \in DOMAIN blocks
        /\ Top.op \in Loop \cup {"call_function"} => Top.base \in DOMAIN blocks
    BY <1>1, TopFacts, SaneBase, LenFacts DEF Top
  <1>6. \A k \in CallsOf(stack) : k \in DOMAIN stack /\ stack[k].op = "call_function" /\ k =< Len(stack)
                                  /\ k \in Nat
    BY <1>5 DEF CallsOf
  <1>7. ASSUME Top.op \notin {"call_function", "visitChunk"} PROVE LowHere < Height(Top)
    <2>1. Height(Top) > 0
      BY <1>5, <1>7
    <2>2. ASSUME NEW k \in CallsOf(stack) PROVE stack[k].base < Height(Top)
      <3>1. k < Len(stack)
        <4>1. k # Len(stack)
          BY <1>5, <1>6, <1>7
        <4> QED BY <1>5, <1>6, <4>1
      <3>2. CASE Top.op = "visitBlock" \/ Top.op \in ForLoop
        BY <1>1, <1>2, <1>5, <3>1, <3>2, BlocksAboveCalls
      <3>3. CASE Top.op \in Loop \cup {"expect_failure"}
        <4>1. stack[k].base < Top.base
          BY <1>1, <1>2, <1>5, <3>1, <3>3, AboveCalls
        <4>2. stack[k].base \in Nat
          <5>1. stack[k] \in Activation
            BY <1>1, <1>6, LenFacts
          <5> QED BY <5>1, HeightFacts
        <4> QED BY <1>5, <4>1, <4>2
      <3> QED BY <1>5, <1>7, <3>2, <3>3 DEF Activation, Method
    <2> QED BY <1>4, <2>1, <2>2
  <1>8. ASSUME Top.op \in Loop PROVE LowHere < Top.base
    <2>1. Top.base > 0
      BY <1>5, <1>8
    <2>2. ASSUME NEW k \in CallsOf(stack) PROVE stack[k].base < Top.base
      <3>1. k < Len(stack)
        <4>1. k # Len(stack)
          BY <1>5, <1>6, <1>8 DEF Loop, PlainLoop, ForLoop
        <4> QED BY <1>5, <1>6, <4>1
      <3> QED BY <1>1, <1>2, <1>5, <1>8, <3>1, AboveCalls
    <2> QED BY <1>4, <2>1, <2>2
  <1>9. ASSUME Top.op = "call_function"
        PROVE  LowHere = Top.base /\ Len(local_values) > 1 /\ Top.frame = Len(local_values) - 1
    <2>1. Frames(Top) = Top.frame + 1 /\ Top.frame \in Nat
      BY <1>5, <1>9, HeightFacts DEF Frames, OpensFrame
    <2>2. Len(stack) \in CallsOf(stack)
      BY <1>5, <1>9 DEF CallsOf
    <2>3. Len(local_values) # 1
      BY <1>3, <2>2
    <2>4. Len(local_values) > 1 /\ Top.frame = Len(local_values) - 1
      BY <1>2, <1>3, <2>1, <2>3
    <2>5. Base(stack, Len(blocks), stack[Len(stack)].frame) = stack[Len(stack)].base
      BY <1>1, <1>2, <2>2, BaseOf
    <2>6. LowHere = Base(stack, Len(blocks), Len(local_values) - 1)
      BY <2>3 DEF LowHere, Low
    <2> QED BY <1>5, <2>4, <2>5, <2>6
  <1>10. LowHere =< Len(blocks)
    <2>1. CASE Top.op \notin {"call_function", "visitChunk"}
      BY <1>3, <1>5, <1>7, <2>1
    <2>2. CASE Top.op = "call_function"
      BY <1>5, <1>9, <2>2
    <2>3. CASE Top.op = "visitChunk"
      <3>1. Len(stack) = 1
        BY <1>1, <1>5, <2>3 DEF Shape
      <3>2. CallsOf(stack) = {}
        BY <1>5, <1>6, <2>3, <3>1
      <3> QED BY <1>4, <1>5, <3>2
    <2> QED BY <2>1, <2>2, <2>3
  <1> QED BY <1>2, <1>3, <1>5, <1>7, <1>8, <1>9, <1>10

-----------------------------------------------------------------------------
(* Changes of the frame of the innermost call.                             *)

OnlyTop(lv, lv2) == Len(lv2) = Len(lv) /\ \A r \in 1 .. (Len(lv) - 1) : lv2[r] = lv[r]

LEMMA FrameReplaced ==
  ASSUME NEW lv \in Seq(Frame), lv # << >>, NEW x
  PROVE  /\ OnlyTop(lv, [lv EXCEPT ![Len(lv)] = x])
         /\ [lv EXCEPT ![Len(lv)] = x][Len(lv)] = x
  <1>1. lv \in Seq(Frame \cup {x}) /\ x \in Frame \cup {x}
    OBVIOUS
  <1> QED BY <1>1, ReplaceFacts DEF OnlyTop

LEMMA FrameBound ==
  ASSUME local_values \in Seq(Frame), local_values # << >>, NEW b \in Block, NEW names
  PROVE  /\ OnlyTop(local_values, Bind(b, names))
         /\ \A x \in Block : x # b =>
               Bind(b, names)[Len(local_values)][x] = local_values[Len(local_values)][x]
  <1>1. local_values[Len(local_values)] \in Frame
    BY LenFacts
  <1>2. DOMAIN local_values[Len(local_values)] = Block
    BY <1>1 DEF Frame
  <1> DEFINE y == [local_values[Len(local_values)] EXCEPT ![b] = @ \cup names]
  <1>3. \A x \in Block : x # b => y[x] = local_values[Len(local_values)][x]
    BY <1>2
  <1>4. [local_values EXCEPT ![Len(local_values)] = y] = Bind(b, names)
    BY DEF Bind
  <1> HIDE DEF y
  <1>5. /\ OnlyTop(local_values, [local_values EXCEPT ![Len(local_values)] = y])
        /\ [local_values EXCEPT ![Len(local_values)] = y][Len(local_values)] = y
    BY FrameReplaced
  <1> QED BY <1>3, <1>4, <1>5

LEMMA FrameKept ==
  ASSUME NEW lv \in Seq(Frame), lv # << >>, NEW b \in Block, NEW names
  PROVE  /\ OnlyTop(lv, Keep(lv, b, names))
         /\ \A x \in Block : x # b => Keep(lv, b, names)[Len(lv)][x] = lv[Len(lv)][x]
  <1>1. lv[Len(lv)] \in Frame
    BY LenFacts
  <1>2. DOMAIN lv[Len(lv)] = Block
    BY <1>1 DEF Frame
  <1> DEFINE y == [lv[Len(lv)] EXCEPT ![b] = @ \cap names]
  <1>3. \A x \in Block : x # b => y[x] = lv[Len(lv)][x]
    BY <1>2
  <1>4. [lv EXCEPT ![Len(lv)] = y] = Keep(lv, b, names)
    BY DEF Keep
  <1> HIDE DEF y
  <1>5. OnlyTop(lv, [lv EXCEPT ![Len(lv)] = y]) /\ [lv EXCEPT ![Len(lv)] = y][Len(lv)] = y
    BY FrameReplaced
  <1> QED BY <1>3, <1>4, <1>5

LEMMA FrameErased ==
  ASSUME NEW lv \in Seq(Frame), lv # << >>, NEW bs
  PROVE  /\ OnlyTop(lv, EraseBlocks(lv, bs))
         /\ \A x \in Block : EraseBlocks(lv, bs)[Len(lv)][x] = IF x \in bs THEN {} ELSE lv[Len(lv)][x]
  <1> DEFINE y == [x \in Block |-> IF x \in bs THEN {} ELSE lv[Len(lv)][x]]
  <1>1. \A x \in Block : y[x] = IF x \in bs THEN {} ELSE lv[Len(lv)][x]
    OBVIOUS
  <1> HIDE DEF y
  <1>2. OnlyTop(lv, [lv EXCEPT ![Len(lv)] = y]) /\ [lv EXCEPT ![Len(lv)] = y][Len(lv)] = y
    BY FrameReplaced
  <1>3. [lv EXCEPT ![Len(lv)] = y] = EraseBlocks(lv, bs)
    BY DEF y, EraseBlocks
  <1> QED BY <1>1, <1>2, <1>3

LEMMA SameTop == \A lv : OnlyTop(lv, lv)
  BY DEF OnlyTop

(* The activations below position n keep their shape, and no call is open  *)
(* above it.                                                               *)
LEMMA CallsStay ==
  ASSUME NEW st \in Seq(Activation), NEW t \in Seq(Activation), NEW n \in Nat,
         n =< Len(st), n =< Len(t),
         \A k \in 1 .. n : SameShape(t[k], st[k]),
         \A k \in DOMAIN st : k > n => st[k].op # "call_function"
  PROVE  CallsKept(st, t)
  <1>1. DOMAIN st = 1 .. Len(st) /\ DOMAIN t = 1 .. Len(t) /\ Len(st) \in Nat /\ Len(t) \in Nat
    BY LenFacts
  <1> SUFFICES ASSUME NEW k \in CallsOf(st)
               PROVE  k \in CallsOf(t) /\ t[k].frame = st[k].frame /\ t[k].base = st[k].base
    BY DEF CallsKept
  <1>2. k \in DOMAIN st /\ st[k].op = "call_function"
    BY DEF CallsOf
  <1>3. k \in 1 .. n /\ k \in DOMAIN t
    BY <1>1, <1>2
  <1>4. t[k].op = st[k].op /\ t[k].frame = st[k].frame /\ t[k].base = st[k].base
    BY <1>3 DEF SameShape
  <1> QED BY <1>2, <1>3, <1>4 DEF CallsOf

(* What a step that neither calls nor returns from a function does.        *)
InnerStep ==
  /\ stack' # << >> /\ CallsKept(stack, stack')
  /\ OnlyTop(local_values, local_values')
  /\ TopStep(LowHere, blocks, blocks',
             local_values[Len(local_values)], local_values'[Len(local_values)])

LEMMA HereFacts ==
  ASSUME LocalsHere
  PROVE  /\ Inv1 /\ Exact /\ Sane /\ stack # << >> /\ local_values # << >>
         /\ stack \in Seq(Activation) /\ blocks \in Seq(Block) /\ local_values \in Seq(Frame)
         /\ Top = stack[Len(stack)] /\ Top \in Activation /\ Top.ctx \in Block
         /\ Len(stack) \in Nat /\ Len(stack) >= 1 /\ DOMAIN stack = 1 .. Len(stack)
         /\ Shape(stack, blocks)
  <1>1. /\ Inv1 /\ Exact /\ Sane /\ stack # << >>
        /\ stack \in Seq(Activation) /\ blocks \in Seq(Block) /\ local_values \in Seq(Frame)
        /\ Shape(stack, blocks)
    BY DEF LocalsHere, Inv1, TypeOK
  <1>2. Top \in Activation /\ Len(stack) \in Nat /\ Len(stack) >= 1 /\ DOMAIN stack = 1 .. Len(stack)
    BY <1>1, TopFacts, LenFacts
  <1>3. Top.ctx \in Block
    BY <1>2 DEF Activation
  <1>4. local_values # << >>
    BY <1>1, LowBelow, LenFacts
  <1> QED BY <1>1, <1>2, <1>3, <1>4 DEF Top

(* The top activation moved along.                                         *)
LEMMA CallsMove ==
  ASSUME LocalsHere, NEW a \in Activation, SameShape(a, Top)
  PROVE  Replace(a) # << >> /\ CallsKept(stack, Replace(a))
  <1>1. /\ Inv1 /\ stack # << >> /\ stack \in Seq(Activation) /\ Top = stack[Len(stack)]
        /\ Len(stack) \in Nat /\ Len(stack) >= 1 /\ DOMAIN stack = 1 .. Len(stack)
    BY HereFacts
  <1>2. /\ Replace(a) \in Seq(Activation) /\ Replace(a) # << >> /\ Len(Replace(a)) = Len(stack)
        /\ Replace(a)[Len(stack)] = a /\ \A k \in 1 .. (Len(stack) - 1) : Replace(a)[k] = stack[k]
    BY <1>1, MoveFacts
  <1>3. \A k \in 1 .. Len(stack) : SameShape(Replace(a)[k], stack[k])
    BY <1>1, <1>2, SameShapeReflexive
  <1> QED BY <1>1, <1>2, <1>3, CallsStay

(* The top activation is left, and the one below may move along.           *)
LEMMA CallsBelow ==
  ASSUME LocalsHere, Top.op # "call_function", Top.op # "visitChunk",
         stack' = Front(stack) \/ \E v \in BOOLEAN : ReturnTo(v)
  PROVE  stack' # << >> /\ CallsKept(stack, stack')
  <1>1. /\ Inv1 /\ stack # << >> /\ stack \in Seq(Activation) /\ Top = stack[Len(stack)]
        /\ Len(stack) \in Nat /\ Len(stack) >= 1 /\ DOMAIN stack = 1 .. Len(stack)
    BY HereFacts
  <1>2. Len(stack) > 1
    BY <1>1, TopFacts
  <1>3. /\ stack' \in Seq(Activation) /\ Len(stack') = Len(stack) - 1
        /\ \A k \in 1 .. (Len(stack) - 1) : SameShape(stack'[k], stack[k])
    <2>1. CASE stack' = Front(stack)
      <3>1. /\ Front(stack) \in Seq(Activation) /\ Len(Front(stack)) = Len(stack) - 1
            /\ \A k \in 1 .. (Len(stack) - 1) : Front(stack)[k] = stack[k]
        BY <1>1, FrontFacts
      <3> QED BY <2>1, <3>1, SameShapeReflexive
    <2>2. CASE \E v \in BOOLEAN : ReturnTo(v)
      <3>1. PICK v \in BOOLEAN : ReturnTo(v)
        BY <2>2
      <3>2. /\ blocks \in Seq(Block) /\ Top.base =< Len(blocks)
            /\ \A m \in 1 .. Top.base : m \in DOMAIN blocks => blocks[m] = blocks[m]
        BY <1>1, TopFacts DEF Inv1, TypeOK
      <3>3. /\ stack' \in Seq(Activation) /\ Len(stack') = Len(stack) - 1
            /\ \A k \in 1 .. (Len(stack) - 2) : stack'[k] = stack[k]
            /\ SameShape(stack'[Len(stack) - 1], stack[Len(stack) - 1])
        BY <1>1, <3>1, <3>2, ReturnFacts
      <3>4. ASSUME NEW k \in 1 .. (Len(stack) - 1) PROVE SameShape(stack'[k], stack[k])
        <4>1. k \in 1 .. (Len(stack) - 2) \/ k = Len(stack) - 1
          <5>1. Len(stack) \in Nat
            BY <1>1
          <5> QED BY <5>1
        <4> QED BY <3>3, <4>1, SameShapeReflexive
      <3> QED BY <3>3, <3>4
    <2> QED BY <2>1, <2>2
  <1>4. stack' # << >>
    BY <1>1, <1>2, <1>3, LenFacts
  <1>5. \A k \in DOMAIN stack : k > Len(stack) - 1 => stack[k].op # "call_function"
    <2>1. \A k \in DOMAIN stack : k > Len(stack) - 1 => k = Len(stack)
      BY <1>1
    <2> QED BY <1>1, <2>1
  <1> DEFINE n == Len(stack) - 1
  <1>6. n \in Nat /\ n =< Len(stack) /\ n =< Len(stack')
    BY <1>1, <1>3
  <1>7. /\ \A k \in 1 .. n : SameShape(stack'[k], stack[k])
        /\ \A k \in DOMAIN stack : k > n => stack[k].op # "call_function"
        /\ stack \in Seq(Activation) /\ stack' \in Seq(Activation)
    BY <1>1, <1>3, <1>5
  <1> HIDE DEF n
  <1> QED BY <1>4, <1>6, <1>7, CallsStay

(* The steps that change neither the stack nor the stores.                 *)
LEMMA InnerStill ==
  ASSUME LocalsHere,
         \/ ProcessBreak \/ ProcessGoto \/ ThrowBadType \/ VisitRetstat \/ ForInBreak
         \/ NullParlist \/ FatalError \/ ForBadStep \/ ForStepFreed \/ CutRun \/ UNCHANGED vars
  PROVE  InnerStep
  <1>1. /\ stack' = stack /\ blocks' = blocks /\ local_values' = local_values
    BY DEF ProcessBreak, ProcessGoto, ThrowBadType, VisitRetstat, ForInBreak, NullParlist,
           FatalError, ForBadStep, ForStepFreed, CutRun, vars, stores
  <1>2. stack # << >>
    BY HereFacts
  <1>3. CallsKept(stack, stack)
    BY DEF CallsKept
  <1> QED BY <1>1, <1>2, <1>3, SameTop DEF InnerStep, TopStep

(* The block at the back, when no exception is in flight.                  *)
LEMMA BackFacts ==
  ASSUME LocalsHere, exn = None, Top.op \notin {"visitChunk", "call_function"}
  PROVE  /\ LowHere < Len(blocks) /\ Len(blocks) = Height(Top) /\ Len(blocks) \in Nat
         /\ blocks[Len(blocks)] = Current(Top) /\ Last(blocks) = Current(Top)
         /\ Current(Top) \in Block
  <1>1. /\ Inv1 /\ Exact /\ Sane /\ stack # << >> /\ blocks \in Seq(Block)
    BY HereFacts
  <1>2. Len(blocks) = Height(Top) /\ Last(blocks) = Current(Top)
    BY <1>1, SaneFacts
  <1>3. blocks # << >>
    BY <1>1, TopFacts
  <1>4. Last(blocks) = blocks[Len(blocks)] /\ Last(blocks) \in Block /\ Len(blocks) \in Nat
    BY <1>1, <1>3, LenFacts
  <1> QED BY <1>2, <1>4, LowBelow

(* The steps that move the top activation along: a local declared or       *)
(* dropped is one of the block at the back.                                *)
LEMMA InnerMove ==
  ASSUME LocalsHere, \/ SkipStat \/ ProcessLocal \/ ProcessFunction \/ ForStep \/ ForInClear
  PROVE  InnerStep
  <1>1. /\ blocks' = blocks /\ exn = None
        /\ Top.op = "visitBlock" \/ Top.op \in ForLoop
    BY DEF SkipStat, ProcessLocal, ProcessFunction, ForStep, ForInClear, AtStat, In, Running, ForLoop
  <1>2. /\ Inv1 /\ stack # << >> /\ local_values \in Seq(Frame) /\ local_values # << >>
    BY HereFacts
  <1>3. stack' = Advanced \/ stack' = Phased("test") \/ stack' = Phased("start")
    BY DEF SkipStat, ProcessLocal, ProcessFunction, ForStep, ForInClear
  <1>4. PICK a \in Activation : SameShape(a, Top) /\ stack' = Replace(a)
    <2>1. "test" \in Phase /\ "start" \in Phase
      BY DEF Phase
    <2> QED BY <1>2, <1>3, <2>1, PhasedFacts, AdvancedFacts
  <1>5. stack' # << >> /\ CallsKept(stack, stack')
    BY <1>4, CallsMove
  <1>6. Current(Top) = Top.ctx /\ Top.op \notin {"visitChunk", "call_function"}
    BY <1>1 DEF Current, ForLoop
  <1>7. /\ LowHere < Len(blocks) /\ blocks[Len(blocks)] = Top.ctx /\ Last(blocks) = Top.ctx
        /\ Top.ctx \in Block
    BY <1>1, <1>6, BackFacts
  <1>8. \/ local_values' = local_values
        \/ \E ns : local_values' = Bind(Top.ctx, ns)
        \/ \E ns : local_values' = Keep(local_values, Top.ctx, ns)
    BY <1>7 DEF SkipStat, ProcessLocal, ProcessFunction, ForStep, ForInClear, stores
  <1>9. CASE local_values' = local_values
    BY <1>1, <1>5, <1>9, SameTop DEF InnerStep, TopStep
  <1>10. ASSUME NEW ns,
                local_values' = Bind(Top.ctx, ns) \/ local_values' = Keep(local_values, Top.ctx, ns)
         PROVE  InnerStep
    <2>1. /\ OnlyTop(local_values, local_values')
          /\ \A x \in Block : x # Top.ctx =>
               local_values'[Len(local_values)][x] = local_values[Len(local_values)][x]
      BY <1>2, <1>7, <1>10, FrameBound, FrameKept
    <2> QED BY <1>1, <1>5, <1>7, <2>1 DEF InnerStep, TopStep
  <1> QED BY <1>8, <1>9, <1>10

(* A stack with activations pushed on st, whose top may have moved along.  *)
Extends(st, t) ==
  /\ \E A : t \in Seq(A)
  /\ Len(t) >= Len(st) /\ \A k \in 1 .. Len(st) : SameShape(t[k], st[k])

LEMMA ExtendsPush ==
  ASSUME NEW st \in Seq(Activation), NEW t, Extends(st, t), NEW a
  PROVE  Extends(st, Append(t, a))
  <1>1. PICK A : t \in Seq(A)
    BY DEF Extends
  <1>2. t \in Seq(A \cup {a}) /\ a \in A \cup {a}
    BY <1>1
  <1>3. /\ Append(t, a) \in Seq(A \cup {a}) /\ Len(Append(t, a)) = Len(t) + 1
        /\ \A k \in 1 .. Len(t) : Append(t, a)[k] = t[k]
        /\ Len(t) \in Nat /\ Len(st) \in Nat
    BY <1>2, AppendFacts, LenFacts
  <1>4. Len(t) >= Len(st) /\ \A k \in 1 .. Len(st) : SameShape(t[k], st[k])
    BY DEF Extends
  <1>5. \A k \in 1 .. Len(st) : k \in 1 .. Len(t)
    BY <1>3, <1>4
  <1>6. \A k \in 1 .. Len(st) : SameShape(Append(t, a)[k], st[k])
    BY <1>3, <1>4, <1>5
  <1>7. Len(Append(t, a)) >= Len(st)
    BY <1>3, <1>4
  <1> QED BY <1>3, <1>6, <1>7 DEF Extends

LEMMA ExtendsCalls ==
  ASSUME NEW st \in Seq(Activation), NEW t, Extends(st, t), st # << >>
  PROVE  CallsKept(st, t) /\ t # << >>
  <1>1. PICK A : t \in Seq(A)
    BY DEF Extends
  <1>2. /\ DOMAIN st = 1 .. Len(st) /\ Len(st) \in Nat /\ Len(st) >= 1
        /\ DOMAIN t = 1 .. Len(t) /\ Len(t) \in Nat
    BY <1>1, LenFacts
  <1>3. Len(t) >= Len(st) /\ \A k \in 1 .. Len(st) : SameShape(t[k], st[k])
    BY DEF Extends
  <1>4. t # << >>
    <2>1. Len(t) >= 1
      BY <1>2, <1>3
    <2> QED BY <1>1, <2>1, LenFacts
  <1>5. ASSUME NEW k \in CallsOf(st)
        PROVE  k \in CallsOf(t) /\ t[k].frame = st[k].frame /\ t[k].base = st[k].base
    <2>1. k \in 1 .. Len(st) /\ st[k].op = "call_function"
      BY <1>2 DEF CallsOf
    <2>2. k \in DOMAIN t
      BY <1>2, <1>3, <2>1
    <2>3. t[k].op = st[k].op /\ t[k].frame = st[k].frame /\ t[k].base = st[k].base
      BY <1>3, <2>1 DEF SameShape
    <2> QED BY <2>1, <2>2, <2>3 DEF CallsOf
  <1> QED BY <1>4, <1>5 DEF CallsKept

LEMMA ExtendsHere ==
  ASSUME LocalsHere
  PROVE  /\ Extends(stack, stack)
         /\ \A p \in Phase : Extends(stack, Phased(p))
  <1>1. /\ Inv1 /\ stack # << >> /\ stack \in Seq(Activation) /\ Top = stack[Len(stack)]
        /\ Len(stack) \in Nat /\ Len(stack) >= 1
    BY HereFacts
  <1>2. Extends(stack, stack)
    BY <1>1, SameShapeReflexive DEF Extends
  <1>3. ASSUME NEW p \in Phase PROVE Extends(stack, Phased(p))
    <2>1. /\ Phased(p) \in Seq(Activation) /\ Len(Phased(p)) = Len(stack)
          /\ SameShape(Phased(p)[Len(stack)], Top)
          /\ \A k \in 1 .. (Len(stack) - 1) : Phased(p)[k] = stack[k]
      BY <1>1, PhasedStack
    <2>2. ASSUME NEW k \in 1 .. Len(stack) PROVE SameShape(Phased(p)[k], stack[k])
      <3>1. k \in 1 .. (Len(stack) - 1) \/ k = Len(stack)
        <4>1. Len(stack) \in Nat
          BY <1>1
        <4> QED BY <4>1
      <3> QED BY <1>1, <2>1, <3>1, SameShapeReflexive
    <2>3. Len(Phased(p)) >= Len(stack)
      BY <1>1, <2>1
    <2> QED BY <2>1, <2>2, <2>3 DEF Extends
  <1> QED BY <1>2, <1>3

(* The head of a for becomes its loop.                                     *)
LEMMA CallsStart ==
  ASSUME LocalsHere, ForStart
  PROVE  stack' # << >> /\ CallsKept(stack, stack')
  <1>1. /\ Inv1 /\ stack # << >> /\ stack \in Seq(Activation) /\ Top = stack[Len(stack)]
        /\ Len(stack) \in Nat /\ Len(stack) >= 1 /\ DOMAIN stack = 1 .. Len(stack)
    BY HereFacts
  <1>2. Top.op = "process_for_head" /\ stack' = Replace(ForStarted)
    BY DEF ForStart, ForStarted, In
  <1>3. /\ Replace(ForStarted) \in Seq(Activation) /\ Replace(ForStarted) # << >>
        /\ Len(Replace(ForStarted)) = Len(stack)
        /\ \A k \in 1 .. (Len(stack) - 1) : Replace(ForStarted)[k] = stack[k]
    BY <1>1, <1>2, ForStartShape
  <1> DEFINE n == Len(stack) - 1
             t == Replace(ForStarted)
  <1>4. /\ n \in Nat /\ n =< Len(stack) /\ n =< Len(t) /\ t \in Seq(Activation)
        /\ \A k \in 1 .. n : SameShape(t[k], stack[k])
        /\ \A k \in DOMAIN stack : k > n => stack[k].op # "call_function"
    <2>1. \A k \in DOMAIN stack : k > Len(stack) - 1 => k = Len(stack)
      BY <1>1
    <2> QED BY <1>1, <1>2, <1>3, <2>1, SameShapeReflexive
  <1>5. stack' = t /\ t # << >>
    BY <1>2, <1>3
  <1> HIDE DEF n, t
  <1> QED BY <1>1, <1>4, <1>5, CallsStay

(* The steps that enter a block or a loop: the block pushed lies inside    *)
(* the one at the back, and a loop variable is one of the block pushed or  *)
(* to be pushed.                                                           *)
LEMMA InnerEnter ==
  ASSUME LocalsHere, \/ VisitNested \/ ProcessWhile \/ ProcessRepeat \/ LoopAgain
                     \/ ProcessForLoop \/ ForStart \/ ForAgain \/ ProcessForIn \/ ForInBind
  PROVE  InnerStep
  <1>1. exn = None /\ Top.op \notin {"visitChunk", "call_function"}
    BY DEF VisitNested, ProcessWhile, ProcessRepeat, LoopAgain, ProcessForLoop, ForAgain, ProcessForIn,
           ForStart, ForInBind, AtStat, LoopTested, In, Running, PlainLoop
  <1>2. /\ Inv1 /\ Exact /\ Sane /\ stack # << >> /\ local_values \in Seq(Frame)
        /\ local_values # << >> /\ stack \in Seq(Activation) /\ Top.ctx \in Block
    BY HereFacts
  <1>3. /\ LowHere < Len(blocks) /\ Len(blocks) \in Nat
        /\ blocks[Len(blocks)] = Current(Top) /\ Current(Top) \in Block
    BY <1>1, BackFacts
  <1>4. /\ Extends(stack, stack) /\ Extends(stack, Phased("body"))
    BY ExtendsHere DEF Phase
  <1>5. stack' # << >> /\ CallsKept(stack, stack')
    <2>1. \/ \E a : stack' = Append(stack, a)
          \/ \E a, b : stack' = Append(Append(stack, a), b)
          \/ \E a : stack' = Append(Phased("body"), a)
          \/ ForStart
      BY DEF VisitNested, ProcessWhile, ProcessRepeat, LoopAgain, ProcessForLoop, ForAgain,
             ProcessForIn, ForInBind, Visit, VisitFromFor
    <2>2. Extends(stack, stack') \/ ForStart
      BY <1>2, <1>4, <2>1, ExtendsPush
    <2> QED BY <1>2, <2>2, ExtendsCalls, CallsStart
  <1>6. CASE ProcessWhile \/ ForAgain
    <2>1. blocks' = blocks /\ local_values' = local_values
      BY <1>6 DEF ProcessWhile, ForAgain, VisitFromFor, stores
    <2> QED BY <1>5, <2>1, SameTop DEF InnerStep, TopStep
  <1>7. CASE ForInBind
    <2>1. blocks' = blocks /\ local_values' = Bind(Top.ctx, {Top.id}) /\ Top.op \in ForLoop
      BY <1>7 DEF ForInBind, VisitFromFor, In, ForLoop
    <2>2. Current(Top) = Top.ctx
      BY <2>1 DEF Current
    <2>3. /\ OnlyTop(local_values, local_values')
          /\ \A x \in Block : x # Top.ctx =>
               local_values'[Len(local_values)][x] = local_values[Len(local_values)][x]
      BY <1>2, <2>1, FrameBound
    <2> QED BY <1>3, <1>5, <2>1, <2>2, <2>3 DEF InnerStep, TopStep
  <1>8. ASSUME NEW b \in Block, Depth[Current(Top)] < Depth[b], blocks' = Append(blocks, b),
               local_values' = local_values \/ \E ns : local_values' = Bind(b, ns)
        PROVE  InnerStep
    <2>1. /\ OnlyTop(local_values, local_values')
          /\ \A x \in Block : x # b =>
               local_values'[Len(local_values)][x] = local_values[Len(local_values)][x]
      BY <1>2, <1>8, FrameBound, SameTop
    <2> QED BY <1>3, <1>5, <1>8, <2>1 DEF InnerStep, TopStep
  <1>9. CASE VisitNested
    <2>1. PICK j \in DOMAIN S.blks : Visit(stack, S.blks[j])
      BY <1>9 DEF VisitNested
    <2>2. S.blks[j] \in Block /\ Deeper(Top.ctx, S.blks[j]) /\ Current(Top) = Top.ctx
      BY <1>2, <1>9, SaneStat DEF VisitNested
    <2>3. Depth[Current(Top)] < Depth[S.blks[j]]
      <3>1. Depth[Top.ctx] \in Nat /\ Depth[S.blks[j]] \in Nat
        BY <1>2, <2>2, TreeAssumption
      <3> QED BY <2>2, <3>1 DEF Deeper
    <2>4. blocks' = Append(blocks, S.blks[j]) /\ local_values' = local_values
      BY <1>9, <2>1 DEF Visit, VisitNested, stores
    <2> QED BY <1>8, <2>2, <2>3, <2>4
  <1>10. CASE ProcessRepeat \/ ProcessForLoop \/ ProcessForIn
    <2>1. AtStat({"repeat", "for", "forin"}) /\ exn = None
      BY <1>1, <1>10 DEF ProcessRepeat, ProcessForLoop, ProcessForIn, AtStat
    <2>2. S.blks[1] \in Block /\ Deeper(Top.ctx, S.blks[1]) /\ Current(Top) = Top.ctx
      BY <1>2, <2>1, SaneStat DEF BlockOps, LoopOps, PlainLoops, ForLoops
    <2>3. Depth[Current(Top)] < Depth[S.blks[1]]
      <3>1. Depth[Top.ctx] \in Nat /\ Depth[S.blks[1]] \in Nat
        BY <1>2, <2>2, TreeAssumption
      <3> QED BY <2>2, <3>1 DEF Deeper
    <2>4. CASE ~ ProcessForLoop
      <3>1. blocks' = Append(blocks, S.blks[1]) /\ local_values' = local_values
        BY <1>10, <2>4 DEF ProcessRepeat, ProcessForIn, Visit, stores
      <3> QED BY <1>8, <2>2, <2>3, <3>1
    <2>5. CASE ProcessForLoop
      <3>1. blocks' = blocks /\ local_values' = Bind(S.blks[1], {S.id})
        BY <2>5 DEF ProcessForLoop
      <3>2. /\ OnlyTop(local_values, local_values')
            /\ \A x \in Block : x # S.blks[1] =>
                 local_values'[Len(local_values)][x] = local_values[Len(local_values)][x]
        BY <1>2, <2>2, <3>1, FrameBound
      <3>3. TopStep(LowHere, blocks, blocks', local_values[Len(local_values)],
                    local_values'[Len(local_values)])
        BY <1>3, <2>2, <2>3, <3>1, <3>2 DEF TopStep
      <3> QED BY <1>5, <3>2, <3>3 DEF InnerStep
    <2> QED BY <2>4, <2>5
  <1>11. CASE LoopAgain \/ ForStart
    <2>1. Top.op \in PlainLoop /\ blocks' = Append(blocks, Top.ctx) /\ local_values' = local_values
      BY <1>11 DEF LoopAgain, LoopTested, ForStart, In, Visit, stores, PlainLoop
    <2>2. /\ stack[Len(stack) - 1] \in Activation /\ Link(stack[Len(stack) - 1], Top)
      BY <1>1, <1>2, SaneFacts
    <2>3. Deeper(Top.cur, Top.ctx)
      BY <2>1, <2>2 DEF Link, Loop, PlainLoop, ForLoop
    <2>4. Current(Top) = Top.cur
      BY <2>1 DEF Current, PlainLoop, ForLoop
    <2>5. Depth[Current(Top)] < Depth[Top.ctx]
      <3>1. Depth[Top.ctx] \in Nat /\ Depth[Current(Top)] \in Nat
        BY <1>2, <1>3, TreeAssumption
      <3> QED BY <2>3, <2>4, <3>1 DEF Deeper
    <2> QED BY <1>2, <1>8, <2>1, <2>5
  <1> QED BY <1>6, <1>7, <1>9, <1>10, <1>11

(* What stabilize_blocks does to the locals when it stops at position h.   *)
LEMMA StabilizeHere ==
  ASSUME LocalsHere, NEW ctx, NEW h \in DOMAIN blocks, blocks[h] = ctx,
         Len(StabilizedBlocks(ctx)) = h, LowHere < h
  PROVE  /\ OnlyTop(local_values, StabilizedValues(ctx))
         /\ TopStep(LowHere, blocks, StabilizedBlocks(ctx),
                    local_values[Len(local_values)], StabilizedValues(ctx)[Len(local_values)])
  <1>1. /\ local_values \in Seq(Frame) /\ local_values # << >> /\ blocks \in Seq(Block)
    BY HereFacts
  <1>2. Len(blocks) \in Nat /\ DOMAIN blocks = 1 .. Len(blocks) /\ LowHere \in Nat
    BY <1>1, LenFacts, LowBelow
  <1>3. CASE Stable(ctx)
    BY <1>3, SameTop DEF StabilizedBlocks, StabilizedValues, TopStep
  <1>4. CASE ~ Stable(ctx)
    <2>1. Topmost(ctx) \in DOMAIN blocks
      BY <1>1, TopmostFacts
    <2>2. StabilizedBlocks(ctx) = SubSeq(blocks, 1, Topmost(ctx))
      BY <1>4 DEF StabilizedBlocks
    <2>3. Topmost(ctx) = h
      <3>1. Topmost(ctx) \in 0 .. Len(blocks)
        BY <1>2, <2>1
      <3> QED BY <1>1, <2>2, <3>1, PrefixFacts
    <2> DEFINE bs == {blocks[m] : m \in h .. Len(blocks)}
    <2>4. StabilizedValues(ctx) = EraseBlocks(local_values, bs)
      BY <1>4, <2>3 DEF StabilizedValues
    <2>5. /\ OnlyTop(local_values, StabilizedValues(ctx))
          /\ \A x \in Block : StabilizedValues(ctx)[Len(local_values)][x] =
                              IF x \in bs THEN {} ELSE local_values[Len(local_values)][x]
      <3> HIDE DEF bs
      <3> QED BY <1>1, <2>4, FrameErased
    <2>6. \A x \in Block : StabilizedValues(ctx)[Len(local_values)][x] =
             IF \E m \in h .. Len(blocks) : blocks[m] = x
             THEN {} ELSE local_values[Len(local_values)][x]
      BY <2>5
    <2>7. h # Len(blocks)
      <3>1. Last(blocks) = blocks[Len(blocks)]
        BY <1>1, <1>2, LenFacts
      <3> QED BY <1>4, <3>1 DEF Stable
    <2>8. h \in LowHere .. (Len(blocks) - 1) /\ h \in Nat /\ h > LowHere
      BY <1>2, <2>7
    <2>9. StabilizedBlocks(ctx) = SubSeq(blocks, 1, h)
      BY <2>2, <2>3
    <2>10. TopStep(LowHere, blocks, StabilizedBlocks(ctx),
                   local_values[Len(local_values)], StabilizedValues(ctx)[Len(local_values)])
      <3> DEFINE f2 == StabilizedValues(ctx)[Len(local_values)]
                 bl2 == StabilizedBlocks(ctx)
      <3>1. /\ bl2 = SubSeq(blocks, 1, h)
            /\ \A x \in Block : f2[x] = IF \E m \in h .. Len(blocks) : blocks[m] = x
                                       THEN {} ELSE local_values[Len(local_values)][x]
        BY <2>6, <2>9
      <3> HIDE DEF f2, bl2
      <3>2. TopStep(LowHere, blocks, bl2, local_values[Len(local_values)], f2)
        <4>1. Closes(h, h, LowHere, blocks, bl2, local_values[Len(local_values)], f2)
          BY <2>8, <3>1 DEF Closes
        <4> QED BY <2>8, <4>1 DEF TopStep
      <3> QED BY <3>2 DEF f2, bl2
    <2> QED BY <2>5, <2>10
  <1> QED BY <1>3, <1>4

(* The steps that leave a block or a loop.                                 *)
LEMMA InnerReturn ==
  ASSUME LocalsHere, \/ LoopEnd \/ ForEnd \/ FinishBlock \/ CatchBreak \/ CatchBadType
  PROVE  InnerStep
  <1>1. /\ Inv1 /\ Exact /\ Sane /\ stack # << >> /\ blocks \in Seq(Block)
        /\ local_values \in Seq(Frame) /\ local_values # << >> /\ Top.ctx \in Block
    BY HereFacts
  <1>2. Top.op \notin {"visitChunk", "call_function"}
    BY DEF LoopEnd, ForEnd, FinishBlock, CatchBreak, CatchBadType, LoopTested, AtEnd, In, Unwinding,
           Loop, PlainLoop, ForLoop
  <1>3. stack' # << >> /\ CallsKept(stack, stack')
    <2>1. \E v \in BOOLEAN : ReturnTo(v)
      BY DEF LoopEnd, ForEnd, FinishBlock, CatchBreak, CatchBadType
    <2> QED BY <1>2, <2>1, CallsBelow
  <1>4. CASE LoopEnd \/ (FinishBlock /\ Top.from_for)
    <2>1. blocks' = blocks /\ local_values' = local_values
      BY <1>4 DEF LoopEnd, FinishBlock, Erased, stores
    <2> QED BY <1>3, <2>1, SameTop DEF InnerStep, TopStep
  <1>5. CASE ForEnd \/ (FinishBlock /\ ~ Top.from_for)
    <2>1. /\ blocks' = Front(blocks) /\ local_values' = EraseBlocks(local_values, {Top.ctx})
          /\ exn = None /\ (Top.op = "visitBlock" \/ Top.op \in ForLoop)
      BY <1>5 DEF ForEnd, FinishBlock, Erased, In, AtEnd, Running, ForLoop
    <2>2. /\ OnlyTop(local_values, local_values')
          /\ \A x \in Block : local_values'[Len(local_values)][x] =
                              IF x \in {Top.ctx} THEN {} ELSE local_values[Len(local_values)][x]
      BY <1>1, <2>1, FrameErased
    <2>3. exn = None
      BY <1>5 DEF ForEnd, FinishBlock, In, AtEnd, Running
    <2>4. /\ LowHere < Len(blocks) /\ Len(blocks) \in Nat /\ blocks[Len(blocks)] = Current(Top)
      BY <1>2, <2>3, BackFacts
    <2>5. Current(Top) = Top.ctx
      BY <2>1 DEF Current
    <2>6. \A x \in Block : local_values'[Len(local_values)][x] =
             IF \E m \in Len(blocks) .. Len(blocks) : blocks[m] = x
             THEN {} ELSE local_values[Len(local_values)][x]
      <3>1. \A m \in Len(blocks) .. Len(blocks) : m = Len(blocks)
        BY <2>4
      <3>2. Len(blocks) \in Len(blocks) .. Len(blocks)
        BY <2>4
      <3> QED BY <2>2, <2>4, <2>5, <3>1, <3>2
    <2> DEFINE n == Len(blocks) - 1
    <2>7. n \in LowHere .. (Len(blocks) - 1) /\ Len(blocks) = n + 1 /\ Len(blocks) > LowHere
      BY <2>4, LowBelow
    <2>8. blocks' = SubSeq(blocks, 1, n)
      BY <2>1 DEF Front
    <2> HIDE DEF n
    <2>9. TopStep(LowHere, blocks, blocks', local_values[Len(local_values)],
                  local_values'[Len(local_values)])
      <3>1. Closes(n, Len(blocks), LowHere, blocks, blocks', local_values[Len(local_values)],
                   local_values'[Len(local_values)])
        BY <2>6, <2>7, <2>8 DEF Closes
      <3> QED BY <2>4, <2>7, <3>1 DEF TopStep
    <2> QED BY <1>3, <2>2, <2>9 DEF InnerStep
  <1>6. CASE CatchBreak
    <2>1. /\ Top.op \in Loop /\ exn # None
          /\ blocks' = StabilizedBlocks(Top.cur) /\ local_values' = StabilizedValues(Top.cur)
      BY <1>6 DEF CatchBreak, Unwinding, StabilizeBlocks
    <2>2. Top.base \in DOMAIN blocks /\ blocks[Top.base] = Top.cur
      BY <1>1, <2>1, SaneBase
    <2>3. Len(StabilizedBlocks(Top.cur)) = Top.base
      BY <1>1, <2>1, SaneStabilize
    <2>4. LowHere < Top.base
      BY <2>1, LowBelow
    <2>5. /\ OnlyTop(local_values, StabilizedValues(Top.cur))
          /\ TopStep(LowHere, blocks, StabilizedBlocks(Top.cur),
                     local_values[Len(local_values)], StabilizedValues(Top.cur)[Len(local_values)])
      BY <2>2, <2>3, <2>4, StabilizeHere
    <2> QED BY <1>3, <2>1, <2>5 DEF InnerStep
  <1>7. CASE CatchBadType
    <2>1. Top.op = "expect_failure" /\ exn # None
      BY <1>7 DEF CatchBadType, Unwinding
    <2> QED BY <1>1, <2>1, SaneFacts DEF OnlyLeftBehind
  <1> QED BY <1>4, <1>5, <1>6, <1>7

(* The steps of an exception that goes on, and of a goto that stops.       *)
LEMMA InnerUnwind ==
  ASSUME LocalsHere, Sane', \/ CatchGoto \/ RethrowGoto \/ Propagate
  PROVE  InnerStep
  <1>1. /\ Inv1 /\ Exact /\ Sane /\ stack # << >> /\ blocks \in Seq(Block) /\ Top \in Activation
    BY HereFacts
  <1>2. CASE Propagate
    <2>1. /\ stack' = Front(stack) /\ blocks' = blocks /\ local_values' = local_values
          /\ Top.op # "visitChunk"
      BY <1>2 DEF Propagate, Pop, stores, Unwinding
    <2>2. Top.op # "call_function"
      <3>1. ~ escaped' /\ escaped' = (escaped \/ Top.op = "call_function")
        BY <1>2 DEF Propagate, Sane
      <3> QED BY <3>1
    <2>3. stack' # << >> /\ CallsKept(stack, stack')
      BY <2>1, <2>2, CallsBelow
    <2> QED BY <2>1, <2>3, SameTop DEF InnerStep, TopStep
  <1>3. CASE CatchGoto \/ RethrowGoto
    <2>1. /\ Top.op = "visitBlock" /\ exn # None
          /\ blocks' = StabilizedBlocks(Top.ctx) /\ local_values' = StabilizedValues(Top.ctx)
      BY <1>3 DEF CatchGoto, RethrowGoto, Unwinding, StabilizeBlocks
    <2>2. Height(Top) \in DOMAIN blocks /\ blocks[Height(Top)] = Top.ctx
      BY <1>1, <2>1, TopFacts DEF Current
    <2>3. Len(StabilizedBlocks(Top.ctx)) = Height(Top)
      BY <1>1, <2>1, SaneStabilize
    <2>4. LowHere < Height(Top)
      BY <2>1, LowBelow
    <2>5. /\ OnlyTop(local_values, StabilizedValues(Top.ctx))
          /\ TopStep(LowHere, blocks, StabilizedBlocks(Top.ctx),
                     local_values[Len(local_values)], StabilizedValues(Top.ctx)[Len(local_values)])
      BY <2>2, <2>3, <2>4, StabilizeHere
    <2>6. stack' # << >> /\ CallsKept(stack, stack')
      <3>1. CASE RethrowGoto
        <4>1. stack' = Front(stack)
          BY <3>1 DEF RethrowGoto, Pop
        <4> QED BY <2>1, <4>1, CallsBelow
      <3>2. CASE CatchGoto
        <4> DEFINE a == [Top EXCEPT !.i = Len(Stats) + 1]
        <4>1. Len(Stats) + 1 \in Nat
          <5>1. prog \in [Block -> BlockCode]
            BY <1>1 DEF Inv1, TypeOK
          <5> QED BY <1>1, <5>1, LenFacts DEF Stats, Activation, BlockCode
        <4>2. a \in Activation /\ SameShape(a, Top)
          BY <1>1, <4>1 DEF Activation, SameShape
        <4>3. stack' = Replace(a)
          BY <3>2 DEF CatchGoto
        <4> HIDE DEF a
        <4> QED BY <4>2, <4>3, CallsMove
      <3> QED BY <1>3, <3>1, <3>2
    <2> QED BY <2>1, <2>5, <2>6 DEF InnerStep
  <1> QED BY <1>2, <1>3

-----------------------------------------------------------------------------
(* Calls and returns.                                                      *)

(* The extents of the frames of a state: numbers, inside _blocks.          *)
LEMMA ExtentFacts ==
  ASSUME NEW st \in Seq(Activation), st # << >>, NEW bl \in Seq(Block), NEW lv \in Seq(Frame),
         NEW fs \in Seq(Body), Balanced(st, lv, fs), Shape(st, bl), Held(st, bl, lv),
         Low(st, Len(bl), Len(lv)) =< Len(bl)
  PROVE  /\ \A r \in 1 .. Len(lv) : /\ Low(st, Len(bl), r) \in Nat /\ Base(st, Len(bl), r) \in Nat
                                    /\ Base(st, Len(bl), r) =< Len(bl)
         /\ \A r \in 1 .. (Len(lv) - 1) : Base(st, Len(bl), r) =< Low(st, Len(bl), Len(lv))
         /\ Base(st, Len(bl), Len(lv)) = Len(bl)
  <1> DEFINE N == Len(lv)
             l == Low(st, Len(bl), N)
  <1>1. /\ l \in Nat /\ N >= 1 /\ N \in Nat /\ Len(bl) \in Nat
        /\ \A k \in CallsOf(st) : st[k].base =< l
    BY LowFacts, LenFacts
  <1>2. ASSUME NEW r \in 1 .. (N - 1)
        PROVE  Base(st, Len(bl), r) \in Nat /\ Base(st, Len(bl), r) =< l
    <2>1. PICK k \in CallsOf(st) : st[k].frame = r
      BY DEF Held
    <2>2. Base(st, Len(bl), st[k].frame) = st[k].base
      BY BaseOf
    <2>3. st[k].base \in Nat
      BY CallFrames
    <2> QED BY <1>1, <2>1, <2>2, <2>3
  <1>3. Base(st, Len(bl), N) = Len(bl)
    BY BaseFacts
  <1>4. ASSUME NEW r \in 1 .. N
        PROVE  /\ Low(st, Len(bl), r) \in Nat /\ Base(st, Len(bl), r) \in Nat
               /\ Base(st, Len(bl), r) =< Len(bl)
    <2>1. CASE r = N
      BY <1>1, <1>3, <2>1
    <2>2. CASE r # N
      <3>1. r \in 1 .. (N - 1)
        <4>1. N \in Nat BY <1>1
        <4> HIDE DEF N
        <4> QED BY <2>2, <4>1
      <3>2. Base(st, Len(bl), r) \in Nat /\ Base(st, Len(bl), r) =< l
        BY <1>2, <3>1
      <3>3. Base(st, Len(bl), r) =< Len(bl)
        <4>1. l \in Nat /\ l =< Len(bl) /\ Len(bl) \in Nat BY <1>1
        <4> HIDE DEF l
        <4> QED BY <3>2, <4>1
      <3>4. CASE r = 1
        BY <3>2, <3>3, <3>4 DEF Low
      <3>5. CASE r # 1
        <4>1. r - 1 \in 1 .. (N - 1)
          <5>1. N \in Nat BY <1>1
          <5> HIDE DEF N
          <5> QED BY <3>1, <3>5, <5>1
        <4> QED BY <1>2, <3>2, <3>3, <3>5, <4>1 DEF Low
      <3> QED BY <3>4, <3>5
    <2> QED BY <2>1, <2>2
  <1> QED BY <1>2, <1>3, <1>4

(* The first R frames are the same in two states.                          *)
SameBelow(R, st, bl, t, bl2) ==
  \A r \in 1 .. R :
    /\ Extent(t, Len(bl2), r) = Extent(st, Len(bl), r)
    /\ \A m \in Extent(st, Len(bl), r) : m \in 1 .. Len(bl) /\ m \in 1 .. Len(bl2) /\ bl2[m] = bl[m]

LEMMA SameBases ==
  ASSUME NEW st \in Seq(Activation), st # << >>, NEW bl \in Seq(Block), NEW lv \in Seq(Frame),
         NEW fs \in Seq(Body), Balanced(st, lv, fs), Shape(st, bl), Held(st, bl, lv),
         Low(st, Len(bl), Len(lv)) =< Len(bl),
         NEW R \in Nat, R =< Len(lv), NEW t, NEW bl2 \in Seq(Block),
         \A r \in 1 .. R : Base(t, Len(bl2), r) = Base(st, Len(bl), r),
         \A r \in 1 .. R : Base(st, Len(bl), r) =< Len(bl2),
         \A m \in 1 .. Len(bl) : m \in 1 .. Len(bl2) => bl2[m] = bl[m]
  PROVE  SameBelow(R, st, bl, t, bl2)
  <1>1. Len(lv) \in Nat /\ Len(bl) \in Nat /\ Len(bl2) \in Nat
    BY LenFacts
  <1> SUFFICES ASSUME NEW r \in 1 .. R
               PROVE  /\ Extent(t, Len(bl2), r) = Extent(st, Len(bl), r)
                      /\ \A m \in Extent(st, Len(bl), r) :
                            m \in 1 .. Len(bl) /\ m \in 1 .. Len(bl2) /\ bl2[m] = bl[m]
    BY DEF SameBelow
  <1>2. r \in 1 .. Len(lv)
    BY <1>1
  <1>3. /\ Low(st, Len(bl), r) \in Nat /\ Base(st, Len(bl), r) \in Nat
        /\ Base(st, Len(bl), r) =< Len(bl)
    BY <1>2, ExtentFacts
  <1>4. Base(t, Len(bl2), r) = Base(st, Len(bl), r) /\ Base(st, Len(bl), r) =< Len(bl2)
    OBVIOUS
  <1>5. Low(t, Len(bl2), r) = Low(st, Len(bl), r)
    <2>1. CASE r = 1
      BY <2>1 DEF Low
    <2>2. CASE r # 1
      <3>1. r - 1 \in 1 .. R
        BY <2>2
      <3>2. Base(t, Len(bl2), r - 1) = Base(st, Len(bl), r - 1)
        BY <3>1
      <3> QED BY <2>2, <3>2 DEF Low
    <2> QED BY <2>1, <2>2
  <1>6. Extent(t, Len(bl2), r) = Extent(st, Len(bl), r)
    BY <1>4, <1>5 DEF Extent
  <1>7. \A m \in Extent(st, Len(bl), r) : m \in 1 .. Len(bl) /\ m \in 1 .. Len(bl2)
    BY <1>1, <1>3, <1>4 DEF Extent
  <1> QED BY <1>6, <1>7

(* The store before a step, the store after it, and what the step changed. *)
Whole(st, bl, lv, fs) ==
  /\ st \in Seq(Activation) /\ st # << >> /\ bl \in Seq(Block) /\ lv \in Seq(Frame)
  /\ fs \in Seq(Body) /\ Balanced(st, lv, fs) /\ Shape(st, bl) /\ Held(st, bl, lv)
  /\ Low(st, Len(bl), Len(lv)) =< Len(bl)
Reached(t, bl2, lv2, fs2) ==
  /\ t \in Seq(Activation) /\ t # << >> /\ bl2 \in Seq(Block) /\ lv2 \in Seq(Frame)
  /\ fs2 \in Seq(Body) /\ Balanced(t, lv2, fs2)
KeptStep(st, bl, lv, t, bl2, lv2) ==
  /\ CallsKept(st, t) /\ Len(lv2) = Len(lv) /\ \A r \in 1 .. (Len(lv) - 1) : lv2[r] = lv[r]
  /\ TopStep(Low(st, Len(bl), Len(lv)), bl, bl2, lv[Len(lv)], lv2[Len(lv)])
KeptHeld(st, bl, lv, t, bl2, lv2) ==
  /\ Held(t, bl2, lv2) /\ SameBelow(Len(lv) - 1, st, bl, t, bl2)
  /\ Extent(st, Len(bl), Len(lv)) = (Low(st, Len(bl), Len(lv)) + 1) .. Len(bl)
  /\ Extent(t, Len(bl2), Len(lv)) = (Low(st, Len(bl), Len(lv)) + 1) .. Len(bl2)
CalledStep(st, bl, lv, t, bl2, lv2, f, g) ==
  /\ bl2 = Append(bl, f) /\ lv2 = Append(lv, g)
  /\ f \in Block /\ g \in Frame /\ CallsKept(st, t) /\ \A x \in Block : x # f => g[x] = {}
  /\ \E c \in CallsOf(t) : t[c].frame = Len(lv) /\ t[c].base = Len(bl)
CalledHeld(st, bl, lv, t, bl2, lv2) ==
  /\ Held(t, bl2, lv2) /\ SameBelow(Len(lv), st, bl, t, bl2)
  /\ Extent(t, Len(bl2), Len(lv) + 1) = (Len(bl) + 1) .. (Len(bl) + 1)

(* A function is called: the caller's extent ends where the call begins.   *)
LEMMA HeldCall ==
  ASSUME NEW st, NEW bl, NEW lv, NEW fs, NEW t, NEW bl2, NEW lv2, NEW fs2, NEW f, NEW g,
         Whole(st, bl, lv, fs), Reached(t, bl2, lv2, fs2),
         CalledStep(st, bl, lv, t, bl2, lv2, f, g)
  PROVE  CalledHeld(st, bl, lv, t, bl2, lv2)
  <1> DEFINE N == Len(lv)
  <1> USE DEF Whole, Reached
  <1>1. PICK c \in CallsOf(t) : t[c].frame = Len(lv) /\ t[c].base = Len(bl)
    BY DEF CalledStep
  <1>2. /\ N >= 1 /\ N \in Nat /\ DOMAIN lv = 1 .. N /\ Len(bl) \in Nat /\ DOMAIN bl = 1 .. Len(bl)
    BY LowFacts, LenFacts
  <1>3. /\ Len(lv2) = N + 1 /\ DOMAIN lv2 = 1 .. (N + 1) /\ lv2[N + 1] = g
        /\ \A r \in 1 .. N : lv2[r] = lv[r]
    BY AppendFacts DEF CalledStep
  <1>4. /\ Len(bl2) = Len(bl) + 1 /\ bl2[Len(bl) + 1] = f /\ bl2 \in Seq(Block)
        /\ \A m \in 1 .. Len(bl) : bl2[m] = bl[m]
    BY AppendFacts DEF CalledStep
  <1>5. /\ CallsKept(st, t) /\ \A x \in Block : x # f => g[x] = {}
    BY DEF CalledStep
  <1>6. /\ \A r \in 1 .. N : Base(st, Len(bl), r) \in Nat /\ Base(st, Len(bl), r) =< Len(bl)
        /\ Base(st, Len(bl), N) = Len(bl)
    BY ExtentFacts
  <1>7. Base(t, Len(bl2), N) = Len(bl)
    <2>1. Base(t, Len(bl2), t[c].frame) = t[c].base
      BY BaseOf
    <2> QED BY <1>1, <2>1
  <1>8. ASSUME NEW r \in 1 .. N
        PROVE  /\ Base(t, Len(bl2), r) = Base(st, Len(bl), r)
               /\ Base(st, Len(bl), r) =< Len(bl2)
               /\ \E k \in CallsOf(t) : t[k].frame = r
    <2>1. CASE r = N
      <3>1. Len(bl) =< Len(bl) + 1 BY <1>2
      <3>2. t[c].frame = r BY <1>1, <2>1
      <3> QED BY <1>4, <1>6, <1>7, <2>1, <3>1, <3>2
    <2>2. CASE r # N
      <3>1. r \in 1 .. (N - 1)
        <4>1. N \in Nat BY <1>2
        <4> HIDE DEF N
        <4> QED BY <2>2, <4>1
      <3>2. PICK k \in CallsOf(st) : st[k].frame = r
        BY <3>1 DEF Held
      <3>3. k \in CallsOf(t) /\ t[k].frame = r /\ t[k].base = st[k].base
        BY <1>5, <3>2 DEF CallsKept
      <3>4. Base(st, Len(bl), st[k].frame) = st[k].base
        BY BaseOf
      <3>5. Base(t, Len(bl2), t[k].frame) = t[k].base
        BY <3>3, BaseOf
      <3>6. Base(st, Len(bl), r) =< Len(bl2)
        <4>1. Base(st, Len(bl), r) \in Nat /\ Base(st, Len(bl), r) =< Len(bl)
          BY <1>6
        <4> QED BY <1>2, <1>4, <4>1
      <3> QED BY <3>2, <3>3, <3>4, <3>5, <3>6
    <2> QED BY <2>1, <2>2
  <1>9. SameBelow(N, st, bl, t, bl2)
    <2>1. /\ \A r \in 1 .. N : Base(t, Len(bl2), r) = Base(st, Len(bl), r)
          /\ \A r \in 1 .. N : Base(st, Len(bl), r) =< Len(bl2)
      BY <1>8
    <2>2. N \in Nat /\ N =< Len(lv) /\ \A m \in 1 .. Len(bl) : m \in 1 .. Len(bl2) => bl2[m] = bl[m]
      BY <1>2, <1>4
    <2> QED BY <1>4, <2>1, <2>2, SameBases
  <1>10. Extent(t, Len(bl2), N + 1) = (Len(bl) + 1) .. (Len(bl) + 1)
    <2>1. Base(t, Len(bl2), N + 1) = Len(bl2)
      <3>1. Base(t, Len(bl2), Len(lv2)) = Len(bl2)
        BY BaseFacts
      <3> QED BY <1>3, <3>1
    <2>2. N + 1 # 1 /\ (N + 1) - 1 = N
      <3>1. N \in Nat /\ N >= 1 BY <1>2
      <3> HIDE DEF N
      <3> QED BY <3>1
    <2>3. Low(t, Len(bl2), N + 1) = Len(bl)
      BY <1>7, <2>2 DEF Low
    <2> QED BY <1>4, <2>1, <2>3 DEF Extent
  <1>11. \A r \in 1 .. (Len(lv2) - 1) : \E k \in CallsOf(t) : t[k].frame = r
    <2>1. Len(lv2) - 1 = N
      <3>1. N \in Nat BY <1>2
      <3> HIDE DEF N
      <3> QED BY <1>3, <3>1
    <2> QED BY <1>8, <2>1
  <1>12. ASSUME NEW r \in DOMAIN lv2
         PROVE  \A j, m \in Extent(t, Len(bl2), r) : j < m => Depth[bl2[j]] < Depth[bl2[m]]
    <2>1. CASE r = N + 1
      <3>1. \A m \in (Len(bl) + 1) .. (Len(bl) + 1) : m = Len(bl) + 1
        BY <1>2
      <3>3. \A j, m \in Extent(t, Len(bl2), r) : ~ (j < m)
        BY <1>2, <1>10, <2>1, <3>1
      <3> QED BY <3>3
    <2>2. CASE r # N + 1
      <3>1. r \in 1 .. N
        <4>1. N \in Nat BY <1>2
        <4>2. r \in 1 .. (N + 1) BY <1>3
        <4> HIDE DEF N
        <4> QED BY <2>2, <4>1, <4>2
      <3>2. r \in DOMAIN lv
        BY <1>2, <3>1
      <3>3. /\ Extent(t, Len(bl2), r) = Extent(st, Len(bl), r)
            /\ \A m \in Extent(st, Len(bl), r) : bl2[m] = bl[m]
        BY <1>9, <3>1 DEF SameBelow
      <3>5. \A j, m \in Extent(st, Len(bl), r) : j < m => Depth[bl[j]] < Depth[bl[m]]
        BY <3>2 DEF Held
      <3>6. ASSUME NEW j \in Extent(t, Len(bl2), r), NEW m \in Extent(t, Len(bl2), r), j < m
            PROVE  Depth[bl2[j]] < Depth[bl2[m]]
        <4>1. j \in Extent(st, Len(bl), r) /\ m \in Extent(st, Len(bl), r)
          BY <3>3
        <4>2. bl2[j] = bl[j] /\ bl2[m] = bl[m]
          BY <3>3, <4>1
        <4>3. Depth[bl[j]] < Depth[bl[m]]
          BY ONLY <3>5, <3>6, <4>1
        <4> QED BY ONLY <4>2, <4>3
      <3> QED BY <3>6
    <2> QED BY <2>1, <2>2
  <1>13. Held(t, bl2, lv2)
    BY <1>11, <1>12 DEF Held
  <1> QED BY <1>9, <1>10, <1>13 DEF CalledHeld

(* A call ends: its frame goes and _blocks is cut back to where it began.  *)
LEMMA HeldReturn ==
  ASSUME NEW st \in Seq(Activation), st # << >>, NEW bl \in Seq(Block), NEW lv \in Seq(Frame),
         NEW fs \in Seq(Body), Balanced(st, lv, fs), Shape(st, bl), Held(st, bl, lv),
         Len(lv) > 1, NEW B \in Nat, B = Low(st, Len(bl), Len(lv)), B =< Len(bl),
         Len(st) \in CallsOf(st), st[Len(st)].frame = Len(lv) - 1, st[Len(st)].base = B,
         NEW t \in Seq(Activation), t # << >>, NEW bl2 \in Seq(Block), NEW lv2 \in Seq(Frame),
         NEW fs2 \in Seq(Body), Balanced(t, lv2, fs2),
         \A k \in CallsOf(st) : k # Len(st) =>
            k \in CallsOf(t) /\ t[k].frame = st[k].frame /\ t[k].base = st[k].base,
         Len(lv2) = Len(lv) - 1, \A r \in 1 .. (Len(lv) - 1) : lv2[r] = lv[r],
         Len(bl2) = B, \A m \in 1 .. B : bl2[m] = bl[m]
  PROVE  Held(t, bl2, lv2) /\ SameBelow(Len(lv) - 1, st, bl, t, bl2)
  <1> DEFINE N == Len(lv)
             M == N - 1
  <1>1. /\ N \in Nat /\ DOMAIN lv = 1 .. N /\ DOMAIN lv2 = 1 .. M
        /\ Len(bl) \in Nat /\ Len(bl2) \in Nat
    BY LenFacts
  <1>2. M \in Nat /\ M >= 1 /\ M =< N /\ \A r \in 1 .. M : r \in 1 .. N
    <2>1. N \in Nat /\ N > 1 BY <1>1
    <2> HIDE DEF N
    <2> QED BY <2>1
  <1>3. /\ \A r \in 1 .. M : Base(st, Len(bl), r) =< B
        /\ \A r \in 1 .. N : Base(st, Len(bl), r) \in Nat
    BY ExtentFacts
  <1>4. Base(st, Len(bl), M) = B
    <2>1. Base(st, Len(bl), st[Len(st)].frame) = st[Len(st)].base
      BY BaseOf
    <2> QED BY <2>1
  <1>5. Base(t, Len(bl2), M) = B
    <2>1. Base(t, Len(bl2), Len(lv2)) = Len(bl2)
      BY BaseFacts
    <2> QED BY <2>1
  <1>6. ASSUME NEW r \in 1 .. (M - 1)
        PROVE  /\ Base(t, Len(bl2), r) = Base(st, Len(bl), r)
               /\ \E k \in CallsOf(t) : t[k].frame = r
    <2>1. r \in 1 .. (N - 1) /\ r # N - 1
      <3>1. N \in Nat BY <1>1
      <3> HIDE DEF N
      <3> QED BY <3>1
    <2>2. PICK k \in CallsOf(st) : st[k].frame = r
      BY <2>1 DEF Held
    <2>3. k # Len(st)
      BY <2>1, <2>2
    <2>4. k \in CallsOf(t) /\ t[k].frame = r /\ t[k].base = st[k].base
      BY <2>2, <2>3
    <2>5. Base(st, Len(bl), st[k].frame) = st[k].base
      BY BaseOf
    <2>6. Base(t, Len(bl2), t[k].frame) = t[k].base
      BY <2>4, BaseOf
    <2> QED BY <2>2, <2>4, <2>5, <2>6
  <1>7. \A r \in 1 .. M : Base(t, Len(bl2), r) = Base(st, Len(bl), r)
    <2> SUFFICES ASSUME NEW r \in 1 .. M PROVE Base(t, Len(bl2), r) = Base(st, Len(bl), r)
      OBVIOUS
    <2>1. r = M \/ r \in 1 .. (M - 1)
      <3>1. M \in Nat BY <1>2
      <3> HIDE DEF M
      <3> QED BY <3>1
    <2> QED BY <1>4, <1>5, <1>6, <2>1
  <1> HIDE DEF M
  <1>8. SameBelow(M, st, bl, t, bl2)
    <2>1. \A r \in 1 .. M : Base(st, Len(bl), r) =< Len(bl2)
      BY <1>3
    <2>2. \A m \in 1 .. Len(bl) : m \in 1 .. Len(bl2) => bl2[m] = bl[m]
      OBVIOUS
    <2>3. Low(st, Len(bl), Len(lv)) =< Len(bl)
      OBVIOUS
    <2> QED BY <1>2, <1>7, <2>1, <2>2, <2>3, SameBases
  <1>9. \A r \in 1 .. (Len(lv2) - 1) : \E k \in CallsOf(t) : t[k].frame = r
    <2>1. Len(lv2) = M
      BY DEF M
    <2> QED BY <1>6, <2>1
  <1>10. ASSUME NEW r \in DOMAIN lv2
         PROVE  \A j, m \in Extent(t, Len(bl2), r) : j < m => Depth[bl2[j]] < Depth[bl2[m]]
    <2>1. r \in 1 .. M
      BY <1>1
    <2>2. r \in DOMAIN lv
      BY <1>1, <1>2, <2>1 DEF M
    <2>3. /\ Extent(t, Len(bl2), r) = Extent(st, Len(bl), r)
          /\ \A m \in Extent(st, Len(bl), r) : bl2[m] = bl[m]
      BY <1>8, <2>1 DEF SameBelow
    <2>5. \A j, m \in Extent(st, Len(bl), r) : j < m => Depth[bl[j]] < Depth[bl[m]]
      BY <2>2 DEF Held
    <2> QED BY <2>3, <2>5
  <1>11. Held(t, bl2, lv2)
    BY <1>9, <1>10 DEF Held
  <1> QED BY <1>8, <1>11 DEF M

(* What a call does to the stores and to the calls that are open.          *)
EnterStep ==
  \E f \in Block, g \in Frame :
    /\ stack' # << >> /\ CallsKept(stack, stack')
    /\ \E c \in CallsOf(stack') : /\ stack'[c].frame = Len(local_values)
                                  /\ stack'[c].base = Len(blocks)
    /\ blocks' = Append(blocks, f) /\ local_values' = Append(local_values, g)
    /\ \A x \in Block : x # f => g[x] = {}

LEMMA TwoPushed ==
  ASSUME NEW A, NEW s \in Seq(A), NEW x, NEW y
  PROVE  /\ s \o <<x, y>> \in Seq(A \cup {x, y}) /\ Len(s \o <<x, y>>) = Len(s) + 2
         /\ \A k \in 1 .. Len(s) : (s \o <<x, y>>)[k] = s[k]
         /\ (s \o <<x, y>>)[Len(s) + 1] = x
  <1>1. s \in Seq(A \cup {x, y}) /\ <<x, y>> \in Seq(A \cup {x, y}) /\ Len(<<x, y>>) = 2
    OBVIOUS
  <1> QED BY <1>1

LEMMA EnterCalls ==
  ASSUME LocalsHere, \/ CallStat \/ ExpectFailure \/ LoopCondition \/ ForInIterate
  PROVE  EnterStep /\ Extends(stack, stack')
  <1>1. /\ Inv1 /\ stack # << >> /\ stack \in Seq(Activation) /\ blocks \in Seq(Block)
        /\ local_values \in Seq(Frame) /\ defined \in SUBSET Body /\ prog \in [Block -> BlockCode]
    BY HereFacts DEF Inv1, TypeOK
  <1>2. \E st : \E f \in Body : Extends(stack, st) /\ CallFunction(st, f)
    <2>1. Extends(stack, stack) /\ Extends(stack, Phased("iter"))
      BY ExtendsHere DEF Phase
    <2>2. CASE CallStat \/ LoopCondition
      <3>1. \E f \in Body : CallFunction(stack, f)
        BY <1>1, <2>2 DEF CallStat, LoopCondition
      <3> QED BY <2>1, <3>1
    <2>3. CASE ExpectFailure
      <3>1. \E a : \E f \in Body : CallFunction(Append(stack, a), f)
        BY <1>1, <2>3 DEF ExpectFailure
      <3>2. \A a : Extends(stack, Append(stack, a))
        BY <1>1, <2>1, ExtendsPush
      <3> QED BY <3>1, <3>2
    <2>4. CASE ForInIterate
      <3>1. CallFunction(Phased("iter"), Top.fn) /\ Top.op = "process_for_in"
        BY <2>4 DEF ForInIterate, In
      <3>2. Top.fn \in Body
        BY <1>1, <3>1, TopFacts
      <3> QED BY <2>1, <3>1, <3>2
    <2> QED BY <2>2, <2>3, <2>4
  <1>3. PICK st : \E f \in Body : Extends(stack, st) /\ CallFunction(st, f)
    BY <1>2
  <1>4. PICK f \in Body : Extends(stack, st) /\ CallFunction(st, f)
    BY <1>3
  <1> DEFINE c == New("call_function", f, [id |-> Nil, fn |-> Nil], "body")
             b == NewBlock(f, FALSE, Len(blocks), Len(local_values) + 1)
             g == [x \in Block |-> IF x = f THEN prog[f].params ELSE {}]
  <1>5. /\ stack' = st \o <<c, b>> /\ blocks' = Append(blocks, f)
        /\ local_values' = Append(local_values, g)
    BY <1>4 DEF CallFunction
  <1>6. c.op = "call_function" /\ c.frame = Len(local_values) /\ c.base = Len(blocks)
    BY DEF New
  <1>7. f \in Block
    BY TreeAssumption
  <1>8. g \in Frame /\ \A x \in Block : x # f => g[x] = {}
    BY <1>1, <1>7 DEF Frame, BlockCode
  <1> HIDE DEF c, b, g
  <1>9. PICK A : st \in Seq(A)
    BY <1>4 DEF Extends
  <1>10. /\ stack' \in Seq(A \cup {c, b}) /\ Len(stack') = Len(st) + 2
         /\ \A k \in 1 .. Len(st) : stack'[k] = st[k]
         /\ stack'[Len(st) + 1] = c /\ Len(st) \in Nat /\ Len(stack) \in Nat
    BY <1>1, <1>5, <1>9, TwoPushed, LenFacts
  <1>11. Extends(stack, stack')
    <2>1. Len(st) >= Len(stack) /\ \A k \in 1 .. Len(stack) : SameShape(st[k], stack[k])
      BY <1>4 DEF Extends
    <2>2. \A k \in 1 .. Len(stack) : k \in 1 .. Len(st)
      BY <1>10, <2>1
    <2>3. \A k \in 1 .. Len(stack) : SameShape(stack'[k], stack[k])
      BY <1>10, <2>1, <2>2
    <2>4. Len(stack') >= Len(stack)
      BY <1>10, <2>1
    <2> QED BY <1>10, <2>3, <2>4 DEF Extends
  <1>12. stack' # << >> /\ CallsKept(stack, stack')
    BY <1>1, <1>11, ExtendsCalls
  <1>13. Len(st) + 1 \in CallsOf(stack')
    <2>1. DOMAIN stack' = 1 .. Len(stack')
      BY <1>10, LenFacts
    <2>2. Len(st) + 1 \in DOMAIN stack'
      BY <1>10, <2>1
    <2> QED BY <1>6, <1>10, <2>2 DEF CallsOf
  <1>14. stack'[Len(st) + 1].frame = Len(local_values) /\ stack'[Len(st) + 1].base = Len(blocks)
    BY <1>6, <1>10
  <1> QED BY <1>5, <1>7, <1>8, <1>11, <1>12, <1>13, <1>14 DEF EnterStep

(* What a return does.                                                     *)
LeaveStep ==
  /\ stack' # << >> /\ Top.op = "call_function"
  /\ \A k \in CallsOf(stack) : k # Len(stack) =>
        k \in CallsOf(stack') /\ stack'[k].frame = stack[k].frame /\ stack'[k].base = stack[k].base
  /\ Len(blocks') = Top.base /\ \A m \in 1 .. Top.base : blocks'[m] = blocks[m]
  /\ local_values' = Front(local_values)

LEMMA LeaveCalls ==
  ASSUME LocalsHere, FinishCall \/ CatchReturn
  PROVE  LeaveStep
  <1>1. /\ Inv1 /\ Exact /\ Sane /\ stack # << >> /\ stack \in Seq(Activation)
        /\ blocks \in Seq(Block) /\ local_values \in Seq(Frame) /\ local_values # << >>
        /\ Len(stack) \in Nat /\ DOMAIN stack = 1 .. Len(stack)
    BY HereFacts
  <1>2. Top.op = "call_function" /\ Top.op # "visitChunk"
    BY DEF FinishCall, CatchReturn, In, Unwinding
  <1>3. PICK v \in BOOLEAN : ReturnTo(v)
    BY DEF FinishCall, CatchReturn
  <1>4. /\ Top.base \in DOMAIN blocks /\ blocks[Top.base] = Top.cur /\ Len(blocks) \in Nat
        /\ DOMAIN blocks = 1 .. Len(blocks) /\ Top.base \in Nat /\ Top.base =< Len(blocks)
    BY <1>1, <1>2, TopFacts
  <1>5. /\ stack' \in Seq(Activation) /\ stack' # << >> /\ Len(stack') = Len(stack) - 1
        /\ \A k \in 1 .. (Len(stack) - 2) : stack'[k] = stack[k]
        /\ SameShape(stack'[Len(stack) - 1], stack[Len(stack) - 1])
    <2>1. \A m \in 1 .. Top.base : m \in DOMAIN blocks => blocks[m] = blocks[m]
      OBVIOUS
    <2> QED BY <1>1, <1>2, <1>3, <1>4, <2>1, ReturnFacts
  <1>6. ASSUME NEW k \in CallsOf(stack), k # Len(stack)
        PROVE  k \in CallsOf(stack') /\ stack'[k].frame = stack[k].frame
               /\ stack'[k].base = stack[k].base
    <2>1. k \in 1 .. Len(stack) /\ stack[k].op = "call_function"
      BY <1>1 DEF CallsOf
    <2>2. k \in 1 .. (Len(stack) - 1)
      <3>1. Len(stack) \in Nat BY <1>1
      <3> QED BY <1>6, <2>1, <3>1
    <2>3. DOMAIN stack' = 1 .. (Len(stack) - 1)
      BY <1>5, LenFacts
    <2>4. k \in 1 .. (Len(stack) - 2) \/ k = Len(stack) - 1
      <3>1. Len(stack) \in Nat BY <1>1
      <3> QED BY <2>2, <3>1
    <2>5. SameShape(stack'[k], stack[k])
      BY <1>5, <2>4, SameShapeReflexive
    <2>6. stack'[k].op = stack[k].op /\ stack'[k].frame = stack[k].frame
          /\ stack'[k].base = stack[k].base
      BY <2>5 DEF SameShape
    <2> QED BY <2>1, <2>2, <2>3, <2>6 DEF CallsOf
  <1>7. CASE FinishCall
    <2>1. blocks' = blocks /\ local_values' = Front(local_values) /\ exn = None
      BY <1>7 DEF FinishCall, In, Running
    <2>2. Len(blocks) = Top.base
      BY <1>1, <1>2, <2>1, SaneFacts DEF Height, Owns, ForLoop
    <2> QED BY <1>2, <1>5, <1>6, <2>1, <2>2 DEF LeaveStep
  <1>8. CASE CatchReturn
    <2>1. /\ blocks' = StabilizedBlocks(Top.cur) /\ exn # None
          /\ local_values' = Front(StabilizedValues(Top.cur))
      BY <1>8 DEF CatchReturn, Unwinding
    <2>2. Len(StabilizedBlocks(Top.cur)) = Top.base
      BY <1>1, <1>2, <2>1, SaneStabilize
    <2>3. \A m \in 1 .. Len(StabilizedBlocks(Top.cur)) : StabilizedBlocks(Top.cur)[m] = blocks[m]
      BY <1>1, <1>4, StabilizeFacts
    <2>4. local_values' = Front(local_values)
      <3>1. \/ StabilizedValues(Top.cur) = local_values
            \/ \E bs : StabilizedValues(Top.cur) = EraseBlocks(local_values, bs)
        BY DEF StabilizedValues
      <3> QED BY <1>1, <2>1, <3>1, EraseFacts
    <2> QED BY <1>2, <1>5, <1>6, <2>1, <2>2, <2>3, <2>4 DEF LeaveStep
  <1> QED BY <1>7, <1>8

-----------------------------------------------------------------------------
(* The theorems about the locals.                                          *)

(* The steps of a sane run that is under way.                              *)
LEMMA SaneSteps ==
  ASSUME LocalsHere, status = "run", Step, Sane'
  PROVE  InnerStep \/ EnterStep \/ LeaveStep \/ FinishChunk \/ LeaveChunk
  <1>1. ~ VisitChunk
    BY DEF VisitChunk
  <1>2. ~ UnbalancedBlocks
    BY HereFacts, NotUnbalanced
  <1>3. CASE \/ ProcessBreak \/ ProcessGoto \/ ThrowBadType \/ VisitRetstat \/ ForInBreak
             \/ NullParlist \/ FatalError \/ ForBadStep \/ ForStepFreed \/ CutRun
    BY <1>3, InnerStill
  <1>4. CASE \/ SkipStat \/ ProcessLocal \/ ProcessFunction \/ ForStep \/ ForInClear
    BY <1>4, InnerMove
  <1>5. CASE \/ VisitNested \/ ProcessWhile \/ ProcessRepeat \/ LoopAgain
             \/ ProcessForLoop \/ ForStart \/ ForAgain \/ ProcessForIn \/ ForInBind
    BY <1>5, InnerEnter
  <1>6. CASE \/ CallStat \/ ExpectFailure \/ LoopCondition \/ ForInIterate
    BY <1>6, EnterCalls
  <1>7. CASE \/ LoopEnd \/ ForEnd \/ FinishBlock \/ CatchBreak \/ CatchBadType
    BY <1>7, InnerReturn
  <1>8. CASE FinishCall \/ CatchReturn
    BY <1>8, LeaveCalls
  <1>9. CASE CatchGoto \/ RethrowGoto \/ Propagate
    BY <1>9, InnerUnwind
  <1> QED BY <1>1, <1>2, <1>3, <1>4, <1>5, <1>6, <1>7, <1>8, <1>9 DEF Step

(* What the three kinds of steps do to the frames and their extents.       *)
SteppedIn ==
  /\ Held(stack', blocks', local_values')
  /\ SameBelow(Len(local_values) - 1, stack, blocks, stack', blocks')
  /\ Extent(stack, Len(blocks), Len(local_values)) = (LowHere + 1) .. Len(blocks)
  /\ Extent(stack', Len(blocks'), Len(local_values)) = (LowHere + 1) .. Len(blocks')

LEMMA AfterFacts ==
  ASSUME Inv1', Exact', Sane', stack' # << >>
  PROVE  Reached(stack', blocks', local_values', functions')
  BY DEF Inv1, TypeOK, Exact, Balanced, Top, Sane, Reached

LEMMA HereWhole ==
  ASSUME LocalsHere
  PROVE  Whole(stack, blocks, local_values, functions)
  <1>1. /\ Inv1 /\ Exact /\ Sane /\ stack # << >> /\ stack \in Seq(Activation)
        /\ blocks \in Seq(Block) /\ local_values \in Seq(Frame) /\ Shape(stack, blocks)
    BY HereFacts
  <1>2. /\ functions \in Seq(Body) /\ Held(stack, blocks, local_values)
        /\ Balanced(stack, local_values, functions)
    BY <1>1, SaneFacts DEF LocalsHere, Inv1, TypeOK
  <1>3. Low(stack, Len(blocks), Len(local_values)) =< Len(blocks)
    BY LowBelow DEF LowHere
  <1> QED BY <1>1, <1>2, <1>3 DEF Whole

LEMMA KeptIsHeld ==
  ASSUME NEW st, NEW bl, NEW lv, NEW fs, NEW t, NEW bl2, NEW lv2, NEW fs2,
         Whole(st, bl, lv, fs), Reached(t, bl2, lv2, fs2), KeptStep(st, bl, lv, t, bl2, lv2)
  PROVE  KeptHeld(st, bl, lv, t, bl2, lv2)
  <1> USE DEF Whole, Reached, KeptStep
  <1>1. /\ Held(t, bl2, lv2)
        /\ \A r \in 1 .. (Len(lv) - 1) :
             /\ Extent(t, Len(bl2), r) = Extent(st, Len(bl), r)
             /\ \A m \in Extent(st, Len(bl), r) : m \in 1 .. Len(bl) /\ m \in 1 .. Len(bl2)
                                                  /\ bl2[m] = bl[m]
        /\ Extent(st, Len(bl), Len(lv)) = (Low(st, Len(bl), Len(lv)) + 1) .. Len(bl)
        /\ Extent(t, Len(bl2), Len(lv)) = (Low(st, Len(bl), Len(lv)) + 1) .. Len(bl2)
    BY HeldKept
  <1> QED BY <1>1 DEF KeptHeld, SameBelow

LEMMA InnerHeld ==
  ASSUME LocalsHere, Inv1', Exact', Sane', InnerStep
  PROVE  SteppedIn
  <1>1. /\ stack' # << >>
        /\ KeptStep(stack, blocks, local_values, stack', blocks', local_values')
    BY DEF InnerStep, OnlyTop, LowHere, KeptStep
  <1>2. KeptHeld(stack, blocks, local_values, stack', blocks', local_values')
    BY <1>1, HereWhole, AfterFacts, KeptIsHeld
  <1> QED BY <1>2 DEF SteppedIn, KeptHeld, LowHere

SteppedUp ==
  /\ Held(stack', blocks', local_values')
  /\ SameBelow(Len(local_values), stack, blocks, stack', blocks')
  /\ Extent(stack', Len(blocks'), Len(local_values) + 1) = (Len(blocks) + 1) .. (Len(blocks) + 1)

LEMMA EnterHeld ==
  ASSUME LocalsHere, Inv1', Exact', Sane', EnterStep
  PROVE  SteppedUp
  <1>1. PICK f \in Block, g \in Frame :
          /\ stack' # << >> /\ CallsKept(stack, stack')
          /\ \E c \in CallsOf(stack') : /\ stack'[c].frame = Len(local_values)
                                        /\ stack'[c].base = Len(blocks)
          /\ blocks' = Append(blocks, f) /\ local_values' = Append(local_values, g)
          /\ \A x \in Block : x # f => g[x] = {}
    BY DEF EnterStep
  <1>2. CalledStep(stack, blocks, local_values, stack', blocks', local_values', f, g)
    BY <1>1 DEF CalledStep
  <1>3. CalledHeld(stack, blocks, local_values, stack', blocks', local_values')
    BY <1>1, <1>2, HereWhole, AfterFacts, HeldCall
  <1> QED BY <1>3 DEF SteppedUp, CalledHeld

SteppedDown ==
  /\ Held(stack', blocks', local_values')
  /\ SameBelow(Len(local_values) - 1, stack, blocks, stack', blocks')
  /\ Len(local_values) > 1 /\ local_values' = Front(local_values)
  /\ Extent(stack, Len(blocks), Len(local_values)) = (Len(blocks') + 1) .. Len(blocks)

LEMMA LeaveHeld ==
  ASSUME LocalsHere, Inv1', Exact', Sane', LeaveStep
  PROVE  SteppedDown
  <1>1. /\ stack' # << >> /\ Top.op = "call_function"
        /\ \A k \in CallsOf(stack) : k # Len(stack) =>
              /\ k \in CallsOf(stack') /\ stack'[k].frame = stack[k].frame
              /\ stack'[k].base = stack[k].base
        /\ Len(blocks') = Top.base /\ \A m \in 1 .. Top.base : blocks'[m] = blocks[m]
        /\ local_values' = Front(local_values)
    BY DEF LeaveStep
  <1>2. /\ stack' \in Seq(Activation) /\ blocks' \in Seq(Block) /\ local_values' \in Seq(Frame)
        /\ functions' \in Seq(Body) /\ Balanced(stack', local_values', functions')
    BY <1>1, AfterFacts DEF Reached
  <1>3. /\ Inv1 /\ Exact /\ Sane /\ stack # << >> /\ stack \in Seq(Activation)
        /\ blocks \in Seq(Block) /\ local_values \in Seq(Frame) /\ Shape(stack, blocks)
        /\ Top = stack[Len(stack)] /\ local_values # << >>
        /\ Len(stack) \in Nat /\ Len(stack) >= 1 /\ DOMAIN stack = 1 .. Len(stack)
    BY HereFacts
  <1>4. /\ functions \in Seq(Body) /\ Held(stack, blocks, local_values)
        /\ Balanced(stack, local_values, functions)
    BY <1>3, SaneFacts DEF LocalsHere, Inv1, TypeOK
  <1>5. /\ LowHere \in Nat /\ LowHere =< Len(blocks) /\ LowHere = Top.base
        /\ Len(local_values) > 1 /\ Top.frame = Len(local_values) - 1
    BY <1>1, LowBelow
  <1>6. Len(stack) \in CallsOf(stack)
    BY <1>1, <1>3 DEF CallsOf
  <1>7. /\ Len(local_values') = Len(local_values) - 1
        /\ \A r \in 1 .. (Len(local_values) - 1) : local_values'[r] = local_values[r]
    BY <1>1, <1>3, FrontFacts
  <1>8. LowHere = Low(stack, Len(blocks), Len(local_values))
    BY DEF LowHere
  <1> DEFINE B == LowHere
  <1>9. /\ B \in Nat /\ B = Low(stack, Len(blocks), Len(local_values)) /\ B =< Len(blocks)
        /\ stack[Len(stack)].frame = Len(local_values) - 1 /\ stack[Len(stack)].base = B
        /\ Len(blocks') = B /\ \A m \in 1 .. B : blocks'[m] = blocks[m]
    BY <1>1, <1>3, <1>5, <1>8
  <1> HIDE DEF B
  <1>10. /\ Held(stack', blocks', local_values')
         /\ SameBelow(Len(local_values) - 1, stack, blocks, stack', blocks')
    BY <1>1, <1>2, <1>3, <1>4, <1>5, <1>6, <1>7, <1>9, HeldReturn
  <1>11. Base(stack, Len(blocks), Len(local_values)) = Len(blocks)
    BY <1>3, <1>4, BaseFacts
  <1>12. Extent(stack, Len(blocks), Len(local_values)) = (Len(blocks') + 1) .. Len(blocks)
    BY <1>9, <1>11 DEF Extent
  <1> QED BY <1>1, <1>5, <1>10, <1>12 DEF SteppedDown

(* The chunk starts with one frame, one block and no call.                 *)
LEMMA ChunkFacts ==
  ASSUME VisitChunk
  PROVE  /\ stack' # << >> /\ CallsOf(stack') = {} /\ blocks' = <<Main>> /\ Len(blocks') = 1
         /\ local_values' = <<[b \in Block |-> {}]>> /\ Len(local_values') = 1
         /\ DOMAIN local_values' = {1} /\ \A b \in Block : local_values'[1][b] = {}
         /\ status = "start" /\ Main \in Block
  <1> DEFINE b == NewBlock(Main, FALSE, 0, 1)
  <1>1. /\ stack' = <<Chunk, b>> /\ blocks' = <<Main>> /\ status = "start"
        /\ local_values' = <<[x \in Block |-> {}]>>
    BY DEF VisitChunk
  <1>2. Chunk.op = "visitChunk" /\ b.op = "visitBlock"
    BY DEF Chunk, NewBlock
  <1> HIDE DEF b
  <1>3. DOMAIN stack' = {1, 2} /\ stack'[1] = Chunk /\ stack'[2] = b
    BY <1>1
  <1>4. CallsOf(stack') = {}
    BY <1>2, <1>3 DEF CallsOf
  <1> DEFINE g == [x \in Block |-> {}]
  <1>5. \A x \in Block : g[x] = {}
    OBVIOUS
  <1> HIDE DEF g
  <1>6. local_values' = <<g>>
    BY <1>1 DEF g
  <1>7. Len(local_values') = 1 /\ DOMAIN local_values' = {1} /\ local_values'[1] = g
    BY <1>6
  <1>8. Len(blocks') = 1 /\ stack' # << >>
    BY <1>1
  <1>9. Main \in Block
    BY TreeAssumption
  <1> QED BY <1>1, <1>4, <1>5, <1>7, <1>8, <1>9 DEF g

(* Without a call, the blocks are those of the only frame.                 *)
LEMMA NoCalls ==
  ASSUME NEW st, CallsOf(st) = {}, NEW n
  PROVE  /\ \A r : Base(st, n, r) = n
         /\ Low(st, n, 1) = 0 /\ Extent(st, n, 1) = (0 + 1) .. n
  <1>1. ASSUME NEW r PROVE Base(st, n, r) = n
    <2>1. {k \in DOMAIN st : st[k].op = "call_function" /\ st[k].frame = r} = {}
      BY DEF CallsOf
    <2> QED BY <2>1 DEF Base
  <1> QED BY <1>1 DEF Low, Extent

LEMMA ChunkHeld ==
  ASSUME VisitChunk
  PROVE  stack' # << >> /\ Held(stack', blocks', local_values')
  <1>1. /\ stack' # << >> /\ CallsOf(stack') = {} /\ Len(blocks') = 1 /\ Len(local_values') = 1
        /\ DOMAIN local_values' = {1} /\ \A b \in Block : local_values'[1][b] = {}
    BY ChunkFacts
  <1>2. Extent(stack', Len(blocks'), 1) = 1 .. 1
    BY <1>1, NoCalls
  <1>3. \A j, m \in 1 .. 1 : ~ (j < m)
    OBVIOUS
  <1>4. \A r \in 1 .. (Len(local_values') - 1) : FALSE
    BY <1>1
  <1> QED BY <1>1, <1>2, <1>3, <1>4 DEF Held

(* What a sane step that is neither the first nor the last does.           *)
LEMMA HeldSteps ==
  ASSUME BalanceInv, BalanceInv', LocalsInv, status = "run", Step, Sane'
  PROVE  /\ LocalsHere
         /\ \/ InnerStep /\ SteppedIn
            \/ EnterStep /\ SteppedUp
            \/ LeaveStep /\ SteppedDown
            \/ FinishChunk
            \/ LeaveChunk
  <1>1. Inv1 /\ Exact /\ Inv1' /\ Exact'
    BY DEF BalanceInv
  <1>2. Sane
    BY SaneBefore DEF Next
  <1>3. LocalsHere
    BY <1>1, <1>2 DEF LocalsInv, LocalsHere
  <1>4. InnerStep \/ EnterStep \/ LeaveStep \/ FinishChunk \/ LeaveChunk
    BY <1>3, SaneSteps
  <1> QED BY <1>1, <1>3, <1>4, InnerHeld, EnterHeld, LeaveHeld

LEMMA LocalsStep == BalanceInv /\ BalanceInv' /\ LocalsInv /\ [Next]_vars => LocalsInv'
  <1> SUFFICES ASSUME BalanceInv, BalanceInv', LocalsInv, [Next]_vars, Sane', status' = "run"
               PROVE  stack' # << >> /\ Held(stack', blocks', local_values')
    BY DEF LocalsInv
  <1>1. CASE VisitChunk
    BY <1>1, ChunkHeld
  <1>2. CASE Step /\ ~ VisitChunk
    <2>1. status = "run"
      BY <1>2, RunSteps
    <2>2. ~ FinishChunk /\ ~ LeaveChunk
      BY DEF FinishChunk, LeaveChunk
    <2> QED BY <1>2, <2>1, <2>2, HeldSteps
            DEF SteppedIn, SteppedUp, SteppedDown, InnerStep, EnterStep, LeaveStep
  <1>3. CASE Ended \/ UNCHANGED vars
    <2>1. /\ stack' = stack /\ blocks' = blocks /\ local_values' = local_values /\ status' = status
          /\ Sane
      BY <1>3, SaneBefore DEF Ended, vars, stores
    <2> QED BY <2>1 DEF LocalsInv
  <1> QED BY <1>1, <1>2, <1>3 DEF Next

LEMMA LocalsAlways == Spec => [](BalanceInv /\ LocalsInv)
  <1>1. Init => LocalsInv
    BY DEF Init, LocalsInv
  <1> QED BY <1>1, BalanceInit, BalanceStep, LocalsStep, PTL DEF Spec

-----------------------------------------------------------------------------
(* The variable of a numeric for exists before its block is pushed: until  *)
(* then the head of the loop, on the C++ stack, answers for it.            *)

IsHead(a) == a.op = "process_for_head"
HeadsAt(st, r, b) == {k \in DOMAIN st : IsHead(st[k]) /\ st[k].ctx = b /\ st[k].frame = r}
Heads(st, r, b) == {st[k].id : k \in HeadsAt(st, r, b)}

Owned(st, bl, lv) ==
  \A r \in DOMAIN lv : \A b \in Block :
    lv[r][b] # {} => \/ \E m \in Extent(st, Len(bl), r) : bl[m] = b
                     \/ lv[r][b] \subseteq Heads(st, r, b)

(* Of the exceptions, only type errors reach the head of a for.            *)
HeadThrows ==
  Sane /\ stack # << >> /\ exn # None /\ exn.kind # "BadType" => ~ IsHead(Top)
OwnedInv ==
  /\ HeadThrows
  /\ Sane /\ status = "run" /\ exn.kind # "BadType" => Owned(stack, blocks, local_values)

(* Every head there is stays where it is.                                  *)
HeadsStay(st, t) ==
  \A k \in DOMAIN st : IsHead(st[k]) => k \in DOMAIN t /\ SameShape(t[k], st[k])

LEMMA HeadsGrow ==
  ASSUME NEW st, NEW t, HeadsStay(st, t), NEW r, NEW b
  PROVE  Heads(st, r, b) \subseteq Heads(t, r, b)
  <1>1. ASSUME NEW k \in HeadsAt(st, r, b) PROVE k \in HeadsAt(t, r, b) /\ t[k].id = st[k].id
    BY DEF HeadsAt, HeadsStay, SameShape, IsHead
  <1> QED BY <1>1 DEF Heads

LEMMA ExtendsHeads ==
  ASSUME NEW st \in Seq(Activation), NEW t, Extends(st, t)
  PROVE  HeadsStay(st, t)
  <1>1. PICK A : t \in Seq(A)
    BY DEF Extends
  <1>2. /\ DOMAIN st = 1 .. Len(st) /\ Len(st) \in Nat /\ DOMAIN t = 1 .. Len(t) /\ Len(t) \in Nat
        /\ Len(t) >= Len(st) /\ \A k \in 1 .. Len(st) : SameShape(t[k], st[k])
    BY <1>1, LenFacts DEF Extends
  <1> QED BY <1>2 DEF HeadsStay

(* The top activation is left, and it is no head.                          *)
LEMMA PopHeads ==
  ASSUME LocalsHere, ~ IsHead(Top), Top.op # "visitChunk",
         stack' = Front(stack) \/ \E v \in BOOLEAN : ReturnTo(v)
  PROVE  HeadsStay(stack, stack')
  <1>1. /\ Inv1 /\ stack # << >> /\ stack \in Seq(Activation) /\ Top = stack[Len(stack)]
        /\ Len(stack) \in Nat /\ Len(stack) >= 1 /\ DOMAIN stack = 1 .. Len(stack)
    BY HereFacts
  <1>2. Len(stack) > 1
    BY <1>1, TopFacts
  <1>3. /\ stack' \in Seq(Activation) /\ Len(stack') = Len(stack) - 1
        /\ \A k \in 1 .. (Len(stack) - 1) : SameShape(stack'[k], stack[k])
    <2>1. CASE stack' = Front(stack)
      <3>1. /\ Front(stack) \in Seq(Activation) /\ Len(Front(stack)) = Len(stack) - 1
            /\ \A k \in 1 .. (Len(stack) - 1) : Front(stack)[k] = stack[k]
        BY <1>1, FrontFacts
      <3> QED BY <2>1, <3>1, SameShapeReflexive
    <2>2. CASE \E v \in BOOLEAN : ReturnTo(v)
      <3>1. PICK v \in BOOLEAN : ReturnTo(v)
        BY <2>2
      <3>2. /\ blocks \in Seq(Block) /\ Top.base =< Len(blocks)
            /\ \A m \in 1 .. Top.base : m \in DOMAIN blocks => blocks[m] = blocks[m]
        BY <1>1, TopFacts DEF Inv1, TypeOK
      <3>3. /\ stack' \in Seq(Activation) /\ Len(stack') = Len(stack) - 1
            /\ \A k \in 1 .. (Len(stack) - 2) : stack'[k] = stack[k]
            /\ SameShape(stack'[Len(stack) - 1], stack[Len(stack) - 1])
        BY <1>1, <3>1, <3>2, ReturnFacts
      <3>4. ASSUME NEW k \in 1 .. (Len(stack) - 1) PROVE SameShape(stack'[k], stack[k])
        <4>1. k \in 1 .. (Len(stack) - 2) \/ k = Len(stack) - 1
          <5>1. Len(stack) \in Nat
            BY <1>1
          <5> QED BY <5>1
        <4> QED BY <3>3, <4>1, SameShapeReflexive
      <3> QED BY <3>3, <3>4
    <2> QED BY <2>1, <2>2
  <1>4. \A k \in DOMAIN stack : k # Len(stack) => k \in 1 .. (Len(stack) - 1)
    BY <1>1
  <1>5. DOMAIN stack' = 1 .. (Len(stack) - 1)
    BY <1>3, LenFacts
  <1> QED BY <1>1, <1>3, <1>4, <1>5 DEF HeadsStay

(* Unless the head becomes its loop, or a type error passes it.            *)
LEMMA HeadsKept ==
  ASSUME LocalsHere, status = "run", Step, Sane', HeadThrows, exn'.kind # "BadType",
         ~ ForStart, ~ FinishChunk, ~ LeaveChunk
  PROVE  HeadsStay(stack, stack')
  <1>1. /\ Inv1 /\ Exact /\ Sane /\ stack # << >> /\ stack \in Seq(Activation) /\ Top \in Activation
        /\ Top = stack[Len(stack)] /\ exn \in Exception
    BY HereFacts DEF Inv1, TypeOK
  <1>2. ~ VisitChunk /\ ~ UnbalancedBlocks
    BY HereFacts, NotUnbalanced DEF VisitChunk
  <1>3. CASE \/ ProcessBreak \/ ProcessGoto \/ ThrowBadType \/ VisitRetstat \/ ForInBreak
             \/ NullParlist \/ FatalError \/ ForBadStep \/ ForStepFreed \/ CutRun
    <2>1. stack' = stack
      BY <1>3 DEF ProcessBreak, ProcessGoto, ThrowBadType, VisitRetstat, ForInBreak, NullParlist,
             FatalError, ForBadStep, ForStepFreed, CutRun
    <2> QED BY <2>1, SameShapeReflexive DEF HeadsStay
  <1>4. CASE \/ SkipStat \/ ProcessLocal \/ ProcessFunction \/ ForStep \/ ForInClear
    <2>1. stack' = Advanced \/ stack' = Phased("test") \/ stack' = Phased("start")
      BY <1>4 DEF SkipStat, ProcessLocal, ProcessFunction, ForStep, ForInClear
    <2>2. \A p \in {"test", "start"} : Extends(stack, Phased(p))
      BY ExtendsHere DEF Phase
    <2>3. Advanced = stack' => Extends(stack, stack')
      <3>1. PICK a \in Activation : SameShape(a, Top) /\ Advanced = Replace(a)
        BY <1>1, AdvancedFacts
      <3>2. /\ Replace(a) \in Seq(Activation) /\ Len(Replace(a)) = Len(stack)
            /\ Replace(a)[Len(stack)] = a /\ \A k \in 1 .. (Len(stack) - 1) : Replace(a)[k] = stack[k]
            /\ Len(stack) \in Nat
        BY <1>1, <3>1, MoveFacts, LenFacts
      <3>3. \A k \in 1 .. Len(stack) : k = Len(stack) \/ k \in 1 .. (Len(stack) - 1)
        BY <3>2
      <3>4. \A k \in 1 .. Len(stack) : SameShape(Replace(a)[k], stack[k])
        BY <1>1, <3>1, <3>2, <3>3, SameShapeReflexive
      <3>5. Len(Replace(a)) >= Len(stack)
        BY <3>2
      <3> QED BY <3>1, <3>2, <3>4, <3>5 DEF Extends
    <2>4. Extends(stack, stack')
      BY <2>1, <2>2, <2>3
    <2> QED BY <1>1, <2>4, ExtendsHeads
  <1>5. CASE \/ VisitNested \/ ProcessWhile \/ ProcessRepeat \/ LoopAgain
             \/ ProcessForLoop \/ ForAgain \/ ProcessForIn \/ ForInBind
    <2>1. \/ \E a : stack' = Append(stack, a)
          \/ \E a, b : stack' = Append(Append(stack, a), b)
          \/ \E a : stack' = Append(Phased("body"), a)
      BY <1>5 DEF VisitNested, ProcessWhile, ProcessRepeat, LoopAgain, ProcessForLoop, ForAgain,
             ProcessForIn, ForInBind, Visit, VisitFromFor
    <2>2. Extends(stack, stack) /\ Extends(stack, Phased("body"))
      BY ExtendsHere DEF Phase
    <2>3. Extends(stack, stack')
      BY <1>1, <2>1, <2>2, ExtendsPush
    <2> QED BY <1>1, <2>3, ExtendsHeads
  <1>6. CASE \/ CallStat \/ ExpectFailure \/ LoopCondition \/ ForInIterate
    <2>1. Extends(stack, stack')
      BY <1>6, EnterCalls
    <2> QED BY <1>1, <2>1, ExtendsHeads
  <1>7. CASE \/ LoopEnd \/ ForEnd \/ FinishBlock \/ FinishCall \/ CatchReturn \/ CatchBreak
             \/ CatchBadType \/ RethrowGoto
    <2>1. ~ IsHead(Top) /\ Top.op # "visitChunk"
      <3>1. CASE CatchBreak
        <4>1. ~ IsHead(Top)
          BY <1>1, <3>1 DEF CatchBreak, Unwinding, HeadThrows
        <4> QED BY <3>1, <4>1 DEF CatchBreak, Unwinding, Loop, PlainLoop, ForLoop
      <3>2. CASE ~ CatchBreak
        BY <1>7, <3>2 DEF IsHead, LoopEnd, LoopTested, ForEnd, FinishBlock, AtEnd, FinishCall,
           CatchReturn, CatchBadType, RethrowGoto, In, Unwinding
      <3> QED BY <3>1, <3>2
    <2>2. stack' = Front(stack) \/ \E v \in BOOLEAN : ReturnTo(v)
      BY <1>7 DEF LoopEnd, ForEnd, FinishBlock, FinishCall, CatchReturn, CatchBreak, CatchBadType,
         RethrowGoto, Pop
    <2> QED BY <2>1, <2>2, PopHeads
  <1>8. CASE Propagate
    <2>1. /\ stack' = Front(stack) /\ Top.op # "visitChunk" /\ exn' = exn /\ exn # None
      BY <1>8 DEF Propagate, Pop, Unwinding
    <2>3. ~ IsHead(Top)
      BY <1>1, <2>1 DEF HeadThrows
    <2> QED BY <2>1, <2>3, PopHeads
  <1>9. CASE CatchGoto
    <2> DEFINE a == [Top EXCEPT !.i = Len(Stats) + 1]
    <2>1. SameShape(a, Top) /\ a \in Activation
      <3>1. Len(Stats) + 1 \in Nat
        <4>1. prog \in [Block -> BlockCode]
          BY <1>1 DEF Inv1, TypeOK
        <4> QED BY <1>1, <4>1, LenFacts DEF Stats, Activation, BlockCode
      <3> QED BY <1>1, <3>1 DEF Activation, SameShape
    <2>2. stack' = Replace(a)
      BY <1>9 DEF CatchGoto
    <2> HIDE DEF a
    <2>3. /\ stack' \in Seq(Activation) /\ Len(stack') = Len(stack)
          /\ stack'[Len(stack)] = a /\ \A k \in 1 .. (Len(stack) - 1) : stack'[k] = stack[k]
          /\ Len(stack) \in Nat
      BY <1>1, <2>1, <2>2, MoveFacts, LenFacts
    <2>4. \A k \in 1 .. Len(stack) : k = Len(stack) \/ k \in 1 .. (Len(stack) - 1)
      BY <2>3
    <2>5. \A k \in 1 .. Len(stack) : SameShape(stack'[k], stack[k])
      BY <1>1, <2>1, <2>3, <2>4, SameShapeReflexive
    <2>6. Len(stack') >= Len(stack)
      BY <2>3
    <2>7. Extends(stack, stack')
      BY <2>3, <2>5, <2>6 DEF Extends
    <2> QED BY <1>1, <2>7, ExtendsHeads
  <1> QED BY <1>2, <1>3, <1>4, <1>5, <1>6, <1>7, <1>8, <1>9 DEF Step

(* A name added to the frame of the innermost call is one of the block at  *)
(* the back, or the variable of the head that is now on top.               *)
Added ==
  \A b \in Block : b # blocks[Len(blocks)] =>
    local_values'[Len(local_values)][b] \subseteq
      local_values[Len(local_values)][b] \cup Heads(stack', Len(local_values), b)

LEMMA NamesAdded ==
  ASSUME LocalsHere, status = "run", Step, Sane', InnerStep
  PROVE  Added
  <1>1. /\ Inv1 /\ Exact /\ Sane /\ stack # << >> /\ stack \in Seq(Activation) /\ Top \in Activation
        /\ local_values \in Seq(Frame) /\ local_values # << >> /\ Top.ctx \in Block
        /\ Len(stack) \in Nat
    BY HereFacts
  <1>2. ~ VisitChunk /\ ~ UnbalancedBlocks
    BY HereFacts, NotUnbalanced DEF VisitChunk
  <1>3. CASE local_values' = local_values
    BY <1>3 DEF Added
  <1>4. ASSUME NEW ctx, local_values' = StabilizedValues(ctx) PROVE Added
    <2>1. \/ StabilizedValues(ctx) = local_values
          \/ \E bs : StabilizedValues(ctx) = EraseBlocks(local_values, bs)
      BY DEF StabilizedValues
    <2>2. ASSUME NEW bs, local_values' = EraseBlocks(local_values, bs) PROVE Added
      BY <1>1, <2>2, FrameErased DEF Added
    <2> QED BY <1>3, <1>4, <2>1, <2>2
  <1>5. ASSUME NEW bs, local_values' = EraseBlocks(local_values, bs) PROVE Added
    BY <1>1, <1>5, FrameErased DEF Added
  <1>6. CASE \/ ProcessBreak \/ ProcessGoto \/ ThrowBadType \/ VisitRetstat \/ ForInBreak
             \/ NullParlist \/ FatalError \/ ForBadStep \/ ForStepFreed \/ CutRun
             \/ SkipStat \/ ProcessFunction \/ VisitNested \/ ProcessWhile
    BY <1>3, <1>6 DEF ProcessBreak, ProcessGoto, ThrowBadType, VisitRetstat, ForInBreak, NullParlist,
       FatalError, ForBadStep, ForStepFreed, CutRun, SkipStat, ProcessFunction, VisitNested,
       ProcessWhile, stores
  <1>7. CASE \/ ProcessRepeat \/ LoopAgain \/ ForStart \/ ForAgain \/ ProcessForIn \/ LoopEnd
             \/ CatchBadType \/ Propagate \/ FinishChunk \/ LeaveChunk
    BY <1>3, <1>7 DEF ProcessRepeat, LoopAgain, ForStart, ForAgain, ProcessForIn, LoopEnd, CatchBadType,
       Propagate, FinishChunk, LeaveChunk, stores
  <1>8. CASE ProcessLocal \/ ForStep \/ ForInClear \/ ForInBind
    <2>1. /\ exn = None /\ (Top.op = "visitBlock" \/ Top.op \in ForLoop)
      BY <1>8 DEF ProcessLocal, ForStep, ForInClear, ForInBind, AtStat, In, Running, ForLoop
    <2>2. Current(Top) = Top.ctx /\ Top.op \notin {"visitChunk", "call_function"}
      BY <2>1 DEF Current, ForLoop
    <2>3. blocks[Len(blocks)] = Top.ctx /\ Last(blocks) = Top.ctx
      BY <2>1, <2>2, BackFacts
    <2>4. \/ \E ns : local_values' = Bind(Top.ctx, ns)
          \/ \E ns : local_values' = Keep(local_values, Top.ctx, ns)
      BY <1>8, <2>3 DEF ProcessLocal, ForStep, ForInClear, ForInBind
    <2>5. ASSUME NEW ns,
                 local_values' = Bind(Top.ctx, ns) \/ local_values' = Keep(local_values, Top.ctx, ns)
          PROVE  Added
      <3>1. \A x \in Block : x # Top.ctx =>
               local_values'[Len(local_values)][x] = local_values[Len(local_values)][x]
        BY <1>1, <2>5, FrameBound, FrameKept
      <3> QED BY <2>3, <3>1 DEF Added
    <2> QED BY <2>4, <2>5
  <1>9. CASE ProcessForLoop
    <2> DEFINE a == New("process_for_head", S.blks[1], S, "cond")
               f == local_values[Len(local_values)]
               g == local_values'[Len(local_values)]
               N == Len(local_values)
    <2>1. AtStat({"for"}) /\ stack' = Append(stack, a) /\ local_values' = Bind(S.blks[1], {S.id})
      BY <1>9 DEF ProcessForLoop
    <2>2. S.blks[1] \in Block
      BY <1>1, <2>1, SaneStat DEF BlockOps, LoopOps, PlainLoops, ForLoops
    <2>3. /\ IsHead(a) /\ a.ctx = S.blks[1] /\ a.frame = N /\ a.id = S.id
      BY DEF IsHead, New
    <2> HIDE DEF a
    <2>4. /\ Len(stack') = Len(stack) + 1 /\ stack'[Len(stack) + 1] = a
          /\ Len(stack) + 1 \in DOMAIN stack'
      <3>1. stack \in Seq(Activation \cup {a}) /\ a \in Activation \cup {a}
        BY <1>1
      <3> QED BY <1>1, <2>1, <3>1, AppendFacts
    <2>5. Len(stack) + 1 \in HeadsAt(stack', N, S.blks[1])
      BY <2>3, <2>4 DEF HeadsAt
    <2>6. S.id \in Heads(stack', N, S.blks[1])
      BY <2>3, <2>4, <2>5 DEF Heads
    <2>7. \A x \in Block : x # S.blks[1] => g[x] = f[x]
      BY <1>1, <2>1, <2>2, FrameBound
    <2>8. g[S.blks[1]] = f[S.blks[1]] \cup {S.id}
      <3>1. f \in Frame /\ N \in DOMAIN local_values
        BY <1>1, LenFacts
      <3> QED BY <2>1, <2>2, <3>1 DEF Bind, Frame
    <2> HIDE DEF f, g, N
    <2>9. \A b \in Block : g[b] \subseteq f[b] \cup Heads(stack', N, b)
      BY <2>6, <2>7, <2>8
    <2> QED BY <2>9 DEF Added, f, g, N
  <1>10. CASE ForEnd \/ FinishBlock
    BY <1>3, <1>5, <1>10 DEF ForEnd, FinishBlock, Erased, stores
  <1>11. CASE CatchBreak \/ CatchGoto \/ RethrowGoto
    BY <1>4, <1>11 DEF CatchBreak, CatchGoto, RethrowGoto, StabilizeBlocks
  <1>12. CASE CallStat \/ ExpectFailure \/ LoopCondition \/ ForInIterate
    <2>1. EnterStep
      BY <1>12, EnterCalls
    <2>2. PICK g \in Frame : local_values' = Append(local_values, g)
      BY <2>1 DEF EnterStep
    <2>3. Len(local_values') = Len(local_values) + 1 /\ Len(local_values) \in Nat
      BY <1>1, <2>2, AppendFacts, LenFacts
    <2>4. Len(local_values') = Len(local_values)
      BY DEF InnerStep, OnlyTop
    <2> QED BY <2>3, <2>4
  <1>13. CASE FinishCall \/ CatchReturn
    <2>1. LeaveStep
      BY <1>13, LeaveCalls
    <2>2. local_values' = Front(local_values)
      BY <2>1 DEF LeaveStep
    <2>3. Len(local_values') = Len(local_values) - 1 /\ Len(local_values) \in Nat
      BY <1>1, <2>2, FrontFacts, LenFacts
    <2>4. Len(local_values') = Len(local_values)
      BY DEF InnerStep, OnlyTop
    <2> QED BY <2>3, <2>4
  <1> QED BY <1>2, <1>6, <1>7, <1>8, <1>9, <1>10, <1>11, <1>12, <1>13 DEF Step

(* What the heads of a state answered for, those of the next still do, or  *)
(* the block is open by then.                                              *)
HeadsMoved(st, lv, t, bl2) ==
  \A r \in DOMAIN lv : \A b \in Block :
    \/ Heads(st, r, b) \subseteq Heads(t, r, b)
    \/ \E m \in Extent(t, Len(bl2), r) : bl2[m] = b
AddedTo(bl, f, f2, hs) ==
  \A b \in Block : b # bl[Len(bl)] => f2[b] \subseteq f[b] \cup hs[b]

(* The innermost call: hs and hs2 are what its heads answer for.           *)
LEMMA OwnedTop ==
  ASSUME NEW bl \in Seq(Block), NEW l \in Nat, l =< Len(bl), NEW f, NEW f2, NEW bl2,
         NEW hs, NEW hs2, NEW b \in Block, TopStep(l, bl, bl2, f, f2), AddedTo(bl, f, f2, hs2),
         f[b] # {} => (\E m \in (l + 1) .. Len(bl) : bl[m] = b) \/ f[b] \subseteq hs,
         ~ \E m \in (l + 1) .. Len(bl2) : bl2[m] = b,
         hs \subseteq hs2[b], f2[b] # {}
  PROVE  f2[b] \subseteq hs2[b]
  <1>1. Len(bl) \in Nat /\ \A m \in 1 .. Len(bl) : bl[m] \in Block
    BY LenFacts
  <1>2. CASE bl2 = bl
    <2>1. f[b] \subseteq hs2[b]
      BY <1>2
    <2>2. CASE f2 = f
      BY <2>1, <2>2
    <2>3. CASE l < Len(bl)
      <3>1. Len(bl) \in (l + 1) .. Len(bl)
        BY <1>1, <2>3
      <3>2. b # bl[Len(bl)]
        BY <1>2, <3>1
      <3> QED BY <2>1, <3>2 DEF AddedTo
    <2>4. f2 = f \/ l < Len(bl)
      <3>1. CASE \E n \in l .. (Len(bl) - 1), p \in Nat : Closes(n, p, l, bl, bl2, f, f2)
        BY <1>1, <3>1
      <3>2. CASE \E c \in Block : bl2 = Append(bl, c) /\ l < Len(bl)
        BY <3>2
      <3> QED BY <3>1, <3>2 DEF TopStep
    <2> QED BY <2>2, <2>3, <2>4
  <1>3. ASSUME NEW c \in Block, bl2 = Append(bl, c), l < Len(bl),
               \A x \in Block : x # c => f2[x] = f[x]
        PROVE  f2[b] \subseteq hs2[b]
    <2>1. /\ Len(bl2) = Len(bl) + 1 /\ bl2[Len(bl) + 1] = c
          /\ \A m \in 1 .. Len(bl) : bl2[m] = bl[m]
      BY <1>3, AppendFacts
    <2>2. b # c
      <3>1. Len(bl) + 1 \in (l + 1) .. Len(bl2)
        BY <1>1, <1>3, <2>1
      <3> QED BY <2>1, <3>1
    <2>3. ~ \E m \in (l + 1) .. Len(bl) : bl[m] = b
      <3>1. \A m \in (l + 1) .. Len(bl) : m \in (l + 1) .. Len(bl2) /\ m \in 1 .. Len(bl)
        BY <1>1, <2>1
      <3> QED BY <2>1, <3>1
    <2>4. f2[b] = f[b]
      BY <1>3, <2>2
    <2> QED BY <2>3, <2>4
  <1>4. ASSUME NEW n \in l .. (Len(bl) - 1), NEW p \in Nat, Closes(n, p, l, bl, bl2, f, f2)
        PROVE  f2[b] \subseteq hs2[b]
    <2>1. /\ p = n \/ p = n + 1
          /\ bl2 = SubSeq(bl, 1, n)
          /\ f2[b] = IF \E m \in p .. Len(bl) : bl[m] = b THEN {} ELSE f[b]
      BY <1>4 DEF Closes
    <2>2. n \in 0 .. Len(bl)
      BY <1>1
    <2>3. Len(bl2) = n /\ \A m \in 1 .. n : bl2[m] = bl[m]
      BY <2>1, <2>2, PrefixFacts
    <2>4. f2[b] = f[b] /\ ~ \E m \in p .. Len(bl) : bl[m] = b
      BY <2>1
    <2>5. ASSUME NEW m \in (l + 1) .. Len(bl), bl[m] = b PROVE FALSE
      <3>1. m \notin p .. Len(bl)
        BY <2>4, <2>5
      <3>2. m \in (l + 1) .. n /\ m \in 1 .. n
        BY <1>1, <2>1, <3>1
      <3> QED BY <2>3, <2>5, <3>2
    <2> QED BY <2>4, <2>5
  <1> QED BY <1>2, <1>3, <1>4 DEF TopStep

HeadsOver(t, r) == [b \in Block |-> Heads(t, r, b)]

LEMMA OwnedKept ==
  ASSUME NEW st, NEW bl \in Seq(Block), NEW lv \in Seq(Frame), lv # << >>, NEW t,
         NEW bl2 \in Seq(Block), NEW lv2 \in Seq(Frame), NEW l \in Nat, l =< Len(bl),
         Owned(st, bl, lv), OnlyTop(lv, lv2), SameBelow(Len(lv) - 1, st, bl, t, bl2),
         Extent(st, Len(bl), Len(lv)) = (l + 1) .. Len(bl),
         Extent(t, Len(bl2), Len(lv)) = (l + 1) .. Len(bl2),
         TopStep(l, bl, bl2, lv[Len(lv)], lv2[Len(lv)]), HeadsMoved(st, lv, t, bl2),
         AddedTo(bl, lv[Len(lv)], lv2[Len(lv)], HeadsOver(t, Len(lv)))
  PROVE  Owned(t, bl2, lv2)
  <1> DEFINE N == Len(lv)
  <1>1. /\ N \in Nat /\ N >= 1 /\ DOMAIN lv = 1 .. N /\ DOMAIN lv2 = 1 .. N
        /\ \A r \in 1 .. (N - 1) : lv2[r] = lv[r]
    BY LenFacts DEF OnlyTop
  <1> SUFFICES ASSUME NEW r \in DOMAIN lv2, NEW b \in Block, lv2[r][b] # {},
                      ~ \E m \in Extent(t, Len(bl2), r) : bl2[m] = b
               PROVE  lv2[r][b] \subseteq Heads(t, r, b)
    BY DEF Owned
  <1>2. r \in DOMAIN lv /\ Heads(st, r, b) \subseteq Heads(t, r, b)
    BY <1>1 DEF HeadsMoved
  <1>3. CASE r = N
    <2> DEFINE f == lv[N]
               f2 == lv2[N]
               hs == Heads(st, N, b)
               hs2 == HeadsOver(t, N)
    <2>1. /\ f[b] # {} => (\E m \in (l + 1) .. Len(bl) : bl[m] = b) \/ f[b] \subseteq hs
          /\ ~ \E m \in (l + 1) .. Len(bl2) : bl2[m] = b
          /\ f2[b] # {} /\ TopStep(l, bl, bl2, f, f2) /\ AddedTo(bl, f, f2, hs2)
      BY <1>2, <1>3 DEF Owned
    <2>2. hs2[b] = Heads(t, N, b) /\ hs \subseteq hs2[b]
      BY <1>2, <1>3 DEF HeadsOver
    <2> HIDE DEF f, f2, hs, hs2
    <2>3. f2[b] \subseteq hs2[b]
      BY <2>1, <2>2, OwnedTop
    <2> QED BY <1>3, <2>2, <2>3 DEF f2
  <1>4. CASE r # N
    <2>1. r \in 1 .. (N - 1)
      <3>1. N \in Nat /\ r \in 1 .. N BY <1>1
      <3> HIDE DEF N
      <3> QED BY <1>4, <3>1
    <2>2. lv2[r] = lv[r]
      BY <1>1, <2>1
    <2>3. /\ Extent(t, Len(bl2), r) = Extent(st, Len(bl), r)
          /\ \A m \in Extent(st, Len(bl), r) : bl2[m] = bl[m]
      BY <2>1 DEF SameBelow
    <2>4. ~ \E m \in Extent(st, Len(bl), r) : bl[m] = b
      BY <2>3
    <2>5. lv[r][b] \subseteq Heads(st, r, b)
      BY <1>2, <2>2, <2>4 DEF Owned
    <2> QED BY <1>2, <2>2, <2>5
  <1> QED BY <1>3, <1>4

(* The frames there are before and after a call or a return.               *)
LEMMA OwnedBelow ==
  ASSUME NEW st, NEW bl, NEW lv, NEW t, NEW bl2, NEW lv2, NEW R \in Nat,
         Owned(st, bl, lv), SameBelow(R, st, bl, t, bl2), HeadsStay(st, t),
         NEW r \in 1 .. R, r \in DOMAIN lv, lv2[r] = lv[r], NEW b \in Block, lv2[r][b] # {}
  PROVE  (\E m \in Extent(t, Len(bl2), r) : bl2[m] = b) \/ lv2[r][b] \subseteq Heads(t, r, b)
  <1>1. /\ Extent(t, Len(bl2), r) = Extent(st, Len(bl), r)
        /\ \A m \in Extent(st, Len(bl), r) : bl2[m] = bl[m]
    BY DEF SameBelow
  <1>2. Heads(st, r, b) \subseteq Heads(t, r, b)
    BY HeadsGrow
  <1>3. CASE \E m \in Extent(st, Len(bl), r) : bl[m] = b
    BY <1>1, <1>3
  <1>4. CASE lv[r][b] \subseteq Heads(st, r, b)
    BY <1>2, <1>4
  <1> QED BY <1>3, <1>4 DEF Owned

LEMMA InnerOwned ==
  ASSUME LocalsHere, Inv1', InnerStep, SteppedIn, Added, Owned(stack, blocks, local_values),
         HeadsMoved(stack, local_values, stack', blocks')
  PROVE  Owned(stack', blocks', local_values')
  <1>1. /\ blocks \in Seq(Block) /\ local_values \in Seq(Frame) /\ local_values # << >>
        /\ LowHere \in Nat /\ LowHere =< Len(blocks)
    BY HereFacts, LowBelow
  <1>2. blocks' \in Seq(Block) /\ local_values' \in Seq(Frame)
    BY DEF Inv1, TypeOK
  <1> DEFINE l == LowHere
             t == stack'
             bl2 == blocks'
             lv2 == local_values'
             st == stack
             bl == blocks
             lv == local_values
  <1>3. AddedTo(bl, lv[Len(lv)], lv2[Len(lv)], HeadsOver(t, Len(lv)))
    BY DEF Added, AddedTo, HeadsOver
  <1>4. /\ l \in Nat /\ l =< Len(bl) /\ bl \in Seq(Block) /\ lv \in Seq(Frame) /\ lv # << >>
        /\ bl2 \in Seq(Block) /\ lv2 \in Seq(Frame) /\ Owned(st, bl, lv) /\ OnlyTop(lv, lv2)
        /\ SameBelow(Len(lv) - 1, st, bl, t, bl2)
        /\ Extent(st, Len(bl), Len(lv)) = (l + 1) .. Len(bl)
        /\ Extent(t, Len(bl2), Len(lv)) = (l + 1) .. Len(bl2)
        /\ TopStep(l, bl, bl2, lv[Len(lv)], lv2[Len(lv)]) /\ HeadsMoved(st, lv, t, bl2)
    BY <1>1, <1>2 DEF InnerStep, SteppedIn
  <1> HIDE DEF l, t, bl2, lv2, st, bl, lv
  <1>5. Owned(t, bl2, lv2)
    BY ONLY <1>3, <1>4, OwnedKept
  <1> QED BY <1>5 DEF t, bl2, lv2

LEMMA EnterOwned ==
  ASSUME LocalsHere, EnterStep, SteppedUp, Owned(stack, blocks, local_values),
         HeadsStay(stack, stack')
  PROVE  Owned(stack', blocks', local_values')
  <1> DEFINE N == Len(local_values)
  <1>1. local_values \in Seq(Frame) /\ N \in Nat /\ DOMAIN local_values = 1 .. N
    BY HereFacts, LenFacts
  <1>2. PICK f \in Block, g \in Frame :
          /\ blocks' = Append(blocks, f) /\ local_values' = Append(local_values, g)
          /\ \A x \in Block : x # f => g[x] = {}
    BY DEF EnterStep
  <1>3. /\ Len(local_values') = N + 1 /\ DOMAIN local_values' = 1 .. (N + 1)
        /\ local_values'[N + 1] = g /\ \A r \in 1 .. N : local_values'[r] = local_values[r]
    BY <1>1, <1>2, AppendFacts
  <1>4. blocks'[Len(blocks) + 1] = f /\ Len(blocks) \in Nat
    BY <1>2, HereFacts, AppendFacts, LenFacts
  <1> SUFFICES ASSUME NEW r \in DOMAIN local_values', NEW b \in Block, local_values'[r][b] # {}
               PROVE  \/ \E m \in Extent(stack', Len(blocks'), r) : blocks'[m] = b
                      \/ local_values'[r][b] \subseteq Heads(stack', r, b)
    BY DEF Owned
  <1>5. CASE r = N + 1
    <2>1. b = f
      BY <1>2, <1>3, <1>5
    <2>2. Len(blocks) + 1 \in Extent(stack', Len(blocks'), r)
      BY <1>4, <1>5 DEF SteppedUp
    <2> QED BY <1>4, <2>1, <2>2
  <1>6. CASE r # N + 1
    <2>1. r \in 1 .. N
      <3>1. r \in 1 .. (N + 1) /\ N \in Nat BY <1>1, <1>3
      <3> HIDE DEF N
      <3> QED BY <1>6, <3>1
    <2> DEFINE t == stack'
               bl2 == blocks'
               lv2 == local_values'
    <2>2. /\ SameBelow(N, stack, blocks, t, bl2) /\ HeadsStay(stack, t) /\ r \in DOMAIN local_values
          /\ lv2[r] = local_values[r] /\ lv2[r][b] # {} /\ N \in Nat
      BY <1>1, <1>3, <2>1 DEF SteppedUp
    <2> HIDE DEF t, bl2, lv2, N
    <2>3. (\E m \in Extent(t, Len(bl2), r) : bl2[m] = b) \/ lv2[r][b] \subseteq Heads(t, r, b)
      BY <2>1, <2>2, OwnedBelow
    <2> QED BY <2>3 DEF t, bl2, lv2
  <1> QED BY <1>5, <1>6

LEMMA LeaveOwned ==
  ASSUME LocalsHere, SteppedDown, Owned(stack, blocks, local_values), HeadsStay(stack, stack')
  PROVE  Owned(stack', blocks', local_values')
  <1> DEFINE N == Len(local_values)
             M == N - 1
  <1>1. local_values \in Seq(Frame) /\ N \in Nat /\ DOMAIN local_values = 1 .. N /\ N > 1
    BY HereFacts, LenFacts DEF SteppedDown
  <1>2. M \in Nat /\ \A r \in 1 .. M : r \in 1 .. N
    <2>1. N \in Nat /\ N > 1 BY <1>1
    <2> HIDE DEF N
    <2> QED BY <2>1
  <1>3. /\ DOMAIN local_values' = 1 .. M /\ \A r \in 1 .. M : local_values'[r] = local_values[r]
    <2>1. local_values' = Front(local_values)
      BY DEF SteppedDown
    <2>2. local_values # << >>
      BY HereFacts
    <2> QED BY <1>1, <2>1, <2>2, FrontFacts, LenFacts
  <1> SUFFICES ASSUME NEW r \in DOMAIN local_values', NEW b \in Block, local_values'[r][b] # {}
               PROVE  \/ \E m \in Extent(stack', Len(blocks'), r) : blocks'[m] = b
                      \/ local_values'[r][b] \subseteq Heads(stack', r, b)
    BY DEF Owned
  <1> DEFINE t == stack'
             bl2 == blocks'
             lv2 == local_values'
  <1>4. /\ SameBelow(M, stack, blocks, t, bl2) /\ HeadsStay(stack, t) /\ r \in DOMAIN local_values
        /\ lv2[r] = local_values[r] /\ lv2[r][b] # {} /\ M \in Nat /\ r \in 1 .. M
    BY <1>1, <1>2, <1>3 DEF SteppedDown
  <1> HIDE DEF t, bl2, lv2, M
  <1>5. (\E m \in Extent(t, Len(bl2), r) : bl2[m] = b) \/ lv2[r][b] \subseteq Heads(t, r, b)
    BY <1>4, OwnedBelow
  <1> QED BY <1>5 DEF t, bl2, lv2

LEMMA HeadsMove ==
  ASSUME LocalsHere, status = "run", Step, Sane', HeadThrows, exn'.kind # "BadType", InnerStep, SteppedIn
  PROVE  HeadsMoved(stack, local_values, stack', blocks')
  <1>1. ~ FinishChunk /\ ~ LeaveChunk
    BY DEF FinishChunk, LeaveChunk, InnerStep
  <1>2. CASE ~ ForStart
    <2>1. HeadsStay(stack, stack')
      BY <1>1, <1>2, HeadsKept
    <2> QED BY <2>1, HeadsGrow DEF HeadsMoved
  <1>3. CASE ForStart
    <2> DEFINE N == Len(local_values)
    <2>1. /\ Inv1 /\ Exact /\ Sane /\ stack # << >> /\ stack \in Seq(Activation)
          /\ Top = stack[Len(stack)] /\ Len(stack) \in Nat /\ Len(stack) >= 1
          /\ DOMAIN stack = 1 .. Len(stack) /\ blocks \in Seq(Block)
      BY HereFacts
    <2>2. /\ Top.op = "process_for_head" /\ stack' = Replace(ForStarted)
          /\ blocks' = Append(blocks, Top.ctx)
      BY <1>3 DEF ForStart, ForStarted, In
    <2>3. /\ stack' \in Seq(Activation) /\ Len(stack') = Len(stack)
          /\ \A k \in 1 .. (Len(stack) - 1) : stack'[k] = stack[k]
      BY <2>1, <2>2, ForStartShape
    <2>4. Top.frame = N
      BY <2>1, <2>2, SaneFacts DEF Frames, OpensFrame
    <2>5. Len(blocks') = Len(blocks) + 1 /\ blocks'[Len(blocks) + 1] = Top.ctx /\ Len(blocks) \in Nat
      <3>1. Top.ctx \in Block
        BY HereFacts
      <3> QED BY <2>1, <2>2, <3>1, AppendFacts, LenFacts
    <2>6. Len(blocks) + 1 \in Extent(stack', Len(blocks'), N)
      <3>1. LowHere \in Nat /\ LowHere =< Len(blocks)
        BY LowBelow
      <3> QED BY <2>5, <3>1 DEF SteppedIn
    <2>7. ASSUME NEW r \in DOMAIN local_values, NEW b \in Block, ~ (r = N /\ b = Top.ctx)
          PROVE  Heads(stack, r, b) \subseteq Heads(stack', r, b)
      <3>1. ASSUME NEW k \in HeadsAt(stack, r, b)
            PROVE  k \in HeadsAt(stack', r, b) /\ stack'[k].id = stack[k].id
        <4>1. k \in 1 .. Len(stack) /\ stack[k].ctx = b /\ stack[k].frame = r
          BY <2>1 DEF HeadsAt
        <4>2. k # Len(stack)
          BY <2>1, <2>4, <2>7, <4>1
        <4>5. Len(stack) \in Nat /\ Len(stack') = Len(stack) /\ k \in 1 .. Len(stack) /\ k # Len(stack)
          BY <2>1, <2>3, <4>1, <4>2, LenFacts
        <4>3. k \in 1 .. (Len(stack) - 1) /\ k \in 1 .. Len(stack')
          BY ONLY <4>5
        <4>4. stack'[k] = stack[k] /\ k \in DOMAIN stack'
          BY <2>3, <4>3, LenFacts
        <4> QED BY <4>4 DEF HeadsAt
      <3> QED BY <3>1 DEF Heads
    <2> QED BY <2>5, <2>6, <2>7 DEF HeadsMoved
  <1> QED BY <1>2, <1>3

(* The steps that leave an exception in flight.                            *)
LEMMA Thrown ==
  ASSUME Next, exn' # None, ~ VisitChunk
  PROVE  \/ stack' = stack /\ exn' = exn
         \/ /\ stack' = stack /\ stack # << >>
            /\ (~ IsHead(Top) \/ exn'.kind = "BadType")
         \/ RethrowGoto \/ Propagate \/ stack' = << >>
  <1>1. CASE \/ ProcessBreak \/ ProcessGoto \/ ThrowBadType \/ ForInBreak \/ VisitRetstat
    BY <1>1 DEF ProcessBreak, ProcessGoto, ThrowBadType, ForInBreak, VisitRetstat, AtStat, AtEnd, In,
       Running, IsHead
  <1>2. CASE ForBadStep
    BY <1>2 DEF ForBadStep, Throw, In, Running
  <1>3. CASE FinishChunk \/ LeaveChunk
    BY <1>3 DEF FinishChunk, LeaveChunk
  <1>4. CASE Ended \/ CutRun
    BY <1>4 DEF Ended, CutRun, vars
  <1>5. CASE VisitNested \/ SkipStat \/ ProcessLocal \/ NullParlist \/ ProcessFunction \/ CallStat
    BY <1>5 DEF VisitNested, SkipStat, ProcessLocal, NullParlist, ProcessFunction, CallStat, AtStat, In,
       Running
  <1>6. CASE ExpectFailure \/ FatalError \/ ProcessWhile \/ ProcessRepeat \/ LoopCondition
    BY <1>6 DEF ExpectFailure, FatalError, ProcessWhile, ProcessRepeat, LoopCondition, AtStat, In,
       Running
  <1>7. CASE LoopAgain \/ LoopEnd \/ ProcessForLoop \/ ForStart \/ ForAgain \/ ForStep \/ ForStepFreed
    BY <1>7 DEF LoopAgain, LoopEnd, LoopTested, ProcessForLoop, ForStart, ForAgain, ForStep,
       ForStepFreed, AtStat, In, Running
  <1>8. CASE ForEnd \/ ProcessForIn \/ ForInIterate \/ ForInClear \/ ForInBind
    BY <1>8 DEF ForEnd, ProcessForIn, ForInIterate, ForInClear, ForInBind, AtStat, In, Running
  <1>9. CASE FinishBlock \/ UnbalancedBlocks \/ FinishCall
    BY <1>9 DEF FinishBlock, UnbalancedBlocks, FinishCall, AtEnd, In, Running
  <1>10. CASE CatchGoto \/ CatchBreak \/ CatchReturn \/ CatchBadType
    BY <1>10 DEF CatchGoto, CatchBreak, CatchReturn, CatchBadType
  <1> QED BY <1>1, <1>2, <1>3, <1>4, <1>5, <1>6, <1>7, <1>8, <1>9, <1>10 DEF Next, Step

LEMMA HeadThrowsStep ==
  ASSUME BalanceInv, HeadThrows, [Next]_vars
  PROVE  HeadThrows'
  <1> SUFFICES ASSUME Sane', stack' # << >>, exn' # None, exn'.kind # "BadType"
               PROVE  ~ IsHead(Top)'
    BY DEF HeadThrows
  <1>1. Sane /\ Inv1 /\ Exact
    BY SaneBefore DEF BalanceInv
  <1>2. Top' = stack'[Len(stack')]
    BY DEF Top
  <1>3. CASE UNCHANGED vars
    BY <1>1, <1>3 DEF HeadThrows, vars, Top, IsHead
  <1>4. CASE VisitChunk
    <2>1. stack' = <<Chunk, NewBlock(Main, FALSE, 0, 1)>>
      BY <1>4 DEF VisitChunk
    <2> DEFINE b == NewBlock(Main, FALSE, 0, 1)
    <2>2. b.op = "visitBlock"
      BY DEF NewBlock
    <2> HIDE DEF b
    <2>3. Len(stack') = 2 /\ stack'[2] = b
      BY <2>1 DEF b
    <2> QED BY <1>2, <2>2, <2>3 DEF IsHead
  <1>5. CASE Next /\ ~ VisitChunk /\ stack' = stack
    <2>1. \/ exn' = exn
          \/ stack # << >> /\ ~ IsHead(Top)
          \/ RethrowGoto \/ Propagate
      BY <1>5, Thrown
    <2>2. Top' = Top
      BY <1>5 DEF Top
    <2>3. CASE RethrowGoto \/ Propagate
      <3>1. stack' = Front(stack) /\ stack # << >>
        BY <2>3 DEF RethrowGoto, Propagate, Pop, Unwinding
      <3>2. Len(Front(stack)) = Len(stack) - 1 /\ Len(stack) \in Nat
        BY <1>1, <3>1, FrontFacts, LenFacts DEF Inv1, TypeOK
      <3>3. Len(stack') = Len(stack) /\ Len(stack') = Len(stack) - 1 /\ Len(stack) \in Nat
        BY <1>5, <3>1, <3>2
      <3> QED BY ONLY <3>3
    <2>4. IsHead(Top)' <=> IsHead(Top)
      BY <2>2 DEF IsHead
    <2> QED BY <1>1, <1>5, <2>1, <2>3, <2>4 DEF HeadThrows
  <1>6. CASE Next /\ ~ VisitChunk /\ stack' # stack
    <2>1. RethrowGoto \/ Propagate
      BY <1>6, Thrown
    <2>2. stack' = Front(stack) /\ stack # << >> /\ Top.op # "visitChunk"
      BY <2>1 DEF RethrowGoto, Propagate, Pop, Unwinding
    <2>3. stack \in Seq(Activation) /\ Len(stack) \in Nat
      BY <1>1, LenFacts DEF Inv1, TypeOK
    <2>4. /\ Len(stack) > 1 /\ stack[Len(stack) - 1] \in Activation
          /\ Link(stack[Len(stack) - 1], Top)
      BY <1>1, <2>2, SaneFacts
    <2>5. /\ Len(stack') = Len(stack) - 1 /\ stack'[Len(stack) - 1] = stack[Len(stack) - 1]
      <3>1. Len(stack) - 1 \in 1 .. (Len(stack) - 1)
        BY <2>3, <2>4
      <3> QED BY <2>2, <2>3, <3>1, FrontFacts
    <2>6. Top.op # "call_function"
      <3>1. CASE RethrowGoto
        BY <3>1 DEF RethrowGoto, Unwinding
      <3>2. CASE Propagate
        <4>1. ~ escaped' /\ escaped' = (escaped \/ Top.op = "call_function")
          BY <3>2 DEF Propagate, Sane
        <4> QED BY <4>1
      <3> QED BY <2>1, <3>1, <3>2
    <2>7. ~ IsHead(stack[Len(stack) - 1])
      BY <2>4, <2>6 DEF Link, IsHead
    <2> QED BY <1>2, <2>5, <2>7 DEF IsHead
  <1> QED BY <1>3, <1>4, <1>5, <1>6

(* A type error is caught by nobody but expect_failure.                    *)
LEMMA BadTypeSteps ==
  ASSUME Step, exn # None, exn.kind = "BadType", exn'.kind # "BadType", ~ VisitChunk, ~ LeaveChunk
  PROVE  CatchBadType
  <1> SUFFICES ASSUME ~ CatchBadType PROVE FALSE
    OBVIOUS
  <1>1. CASE \/ ProcessBreak \/ ProcessGoto \/ ThrowBadType \/ ForInBreak \/ VisitRetstat
             \/ ForBadStep \/ FinishChunk \/ CutRun
    BY <1>1 DEF ProcessBreak, ProcessGoto, ThrowBadType, ForInBreak, VisitRetstat, ForBadStep,
       FinishChunk, CutRun, AtStat, AtEnd, In, Running
  <1>5. CASE VisitNested \/ SkipStat \/ ProcessLocal \/ NullParlist \/ ProcessFunction \/ CallStat
    BY <1>5 DEF VisitNested, SkipStat, ProcessLocal, NullParlist, ProcessFunction, CallStat, AtStat, In,
       Running
  <1>6. CASE ExpectFailure \/ FatalError \/ ProcessWhile \/ ProcessRepeat \/ LoopCondition
    BY <1>6 DEF ExpectFailure, FatalError, ProcessWhile, ProcessRepeat, LoopCondition, AtStat, In,
       Running
  <1>7. CASE LoopAgain \/ LoopEnd \/ ProcessForLoop \/ ForStart \/ ForAgain \/ ForStep \/ ForStepFreed
    BY <1>7 DEF LoopAgain, LoopEnd, LoopTested, ProcessForLoop, ForStart, ForAgain, ForStep,
       ForStepFreed, AtStat, In, Running
  <1>8. CASE ForEnd \/ ProcessForIn \/ ForInIterate \/ ForInClear \/ ForInBind
    BY <1>8 DEF ForEnd, ProcessForIn, ForInIterate, ForInClear, ForInBind, AtStat, In, Running
  <1>9. CASE FinishBlock \/ UnbalancedBlocks \/ FinishCall
    BY <1>9 DEF FinishBlock, UnbalancedBlocks, FinishCall, AtEnd, In, Running
  <1>10. CASE CatchGoto \/ CatchBreak \/ CatchReturn \/ RethrowGoto \/ Propagate
    BY <1>10 DEF CatchGoto, CatchBreak, CatchReturn, RethrowGoto, Propagate
  <1> QED BY <1>1, <1>5, <1>6, <1>7, <1>8, <1>9, <1>10 DEF Step

LEMMA OwnedStep ==
  ASSUME BalanceInv, BalanceInv', LocalsInv, OwnedInv, [Next]_vars
  PROVE  OwnedInv'
  <1>1. HeadThrows'
    BY HeadThrowsStep DEF OwnedInv
  <1> SUFFICES ASSUME Sane', status' = "run", exn'.kind # "BadType"
               PROVE  Owned(stack', blocks', local_values')
    BY <1>1 DEF OwnedInv
  <1>2. CASE VisitChunk
    <2>1. DOMAIN local_values' = {1} /\ \A b \in Block : local_values'[1][b] = {}
      BY <1>2, ChunkFacts
    <2> QED BY <2>1 DEF Owned
  <1>3. CASE Ended \/ UNCHANGED vars
    <2>1. /\ stack' = stack /\ blocks' = blocks /\ local_values' = local_values /\ status' = status
          /\ exn' = exn /\ Sane
      BY <1>3, SaneBefore DEF Ended, vars, stores
    <2> QED BY <2>1 DEF OwnedInv
  <1>4. CASE Step /\ ~ VisitChunk
    <2>1. status = "run"
      BY <1>4, RunSteps
    <2>2. ~ FinishChunk /\ ~ LeaveChunk
      BY DEF FinishChunk, LeaveChunk
    <2>3. /\ LocalsHere
          /\ \/ InnerStep /\ SteppedIn
             \/ EnterStep /\ SteppedUp
             \/ LeaveStep /\ SteppedDown
      BY <1>4, <2>1, <2>2, HeldSteps
    <2>4. Inv1 /\ Exact /\ Sane /\ stack # << >> /\ Inv1'
      BY <2>3, HereFacts DEF BalanceInv
    <2>5. exn.kind # "BadType"
      <3> SUFFICES ASSUME exn.kind = "BadType" PROVE FALSE
        OBVIOUS
      <3>1. exn # None
        BY DEF None
      <3>2. Top.op # "expect_failure"
        BY <2>4, <3>1, SaneFacts DEF OnlyLeftBehind
      <3>3. CatchBadType
        BY <1>4, <2>2, <3>1, BadTypeSteps
      <3> QED BY <3>2, <3>3 DEF CatchBadType, Unwinding
    <2>6. Owned(stack, blocks, local_values) /\ HeadThrows
      BY <2>1, <2>4, <2>5 DEF OwnedInv
    <2>7. CASE InnerStep /\ SteppedIn
      BY <1>4, <2>1, <2>3, <2>4, <2>6, <2>7, NamesAdded, HeadsMove, InnerOwned
    <2>8. CASE EnterStep /\ SteppedUp
      <3>1. HeadsStay(stack, stack')
        <4>1. ~ ForStart
          <5> SUFFICES ASSUME ForStart PROVE FALSE
            OBVIOUS
          <5>1. local_values' = local_values /\ local_values \in Seq(Frame)
            BY <2>4 DEF ForStart, stores, Inv1, TypeOK
          <5>2. PICK g \in Frame : local_values' = Append(local_values, g)
            BY <2>8 DEF EnterStep
          <5>3. Len(local_values') = Len(local_values) + 1 /\ Len(local_values) \in Nat
            BY <5>1, <5>2, AppendFacts, LenFacts
          <5> QED BY <5>1, <5>3
        <4> QED BY <1>4, <2>1, <2>2, <2>3, <2>6, <4>1, HeadsKept
      <3> QED BY <2>3, <2>6, <2>8, <3>1, EnterOwned
    <2>9. CASE LeaveStep /\ SteppedDown
      <3>1. ~ ForStart
        BY <2>9 DEF ForStart, In, LeaveStep
      <3>2. HeadsStay(stack, stack')
        BY <1>4, <2>1, <2>2, <2>3, <2>6, <3>1, HeadsKept
      <3> QED BY <2>3, <2>6, <2>9, <3>2, LeaveOwned
    <2> QED BY <2>3, <2>7, <2>8, <2>9
  <1> QED BY <1>2, <1>3, <1>4 DEF Next

LEMMA OwnedAlways == Spec => [](BalanceInv /\ LocalsInv /\ OwnedInv)
  <1>1. Init => OwnedInv
    BY DEF Init, OwnedInv, HeadThrows
  <1>2. BalanceInv /\ BalanceInv' /\ LocalsInv /\ OwnedInv /\ [Next]_vars => OwnedInv'
    BY OwnedStep
  <1> QED BY <1>1, <1>2, LocalsAlways, PTL DEF Spec

(* A local only exists while its block is open in the frame of the call    *)
(* that opened it: leaving a block by its end, by break, by goto or by     *)
(* return releases every local of it, in every sane run.  The one local    *)
(* whose block is not open is the variable of a numeric for whose third    *)
(* expression is still being evaluated.                                    *)
THEOREM LocalsLeaveWithTheirBlock == Spec => []NoStaleLocals
  <1>1. OwnedInv => NoStaleLocals
    <2> SUFFICES ASSUME OwnedInv, Sane, status = "run", exn.kind # "BadType",
                        NEW r \in DOMAIN local_values, NEW b \in Block, local_values[r][b] # {}
                 PROVE  b \in BlocksOfFrame(r) \/ local_values[r][b] \subseteq HeadOf(r, b)
      BY DEF NoStaleLocals
    <2>1. \/ \E m \in Extent(stack, Len(blocks), r) : blocks[m] = b
          \/ local_values[r][b] \subseteq Heads(stack, r, b)
      BY DEF OwnedInv, Owned
    <2>2. \A q : CallBase(q) = Base(stack, Len(blocks), q)
      BY DEF CallBase, Base
    <2>3. (IF r = 1 THEN 1 ELSE CallBase(r - 1) + 1) = Low(stack, Len(blocks), r) + 1
      BY <2>2 DEF Low
    <2>4. ASSUME NEW m \in Extent(stack, Len(blocks), r), blocks[m] = b
          PROVE  b \in BlocksOfFrame(r)
      <3>1. m \in (IF r = 1 THEN 1 ELSE CallBase(r - 1) + 1) .. CallBase(r)
        BY <2>2, <2>3 DEF Extent
      <3> QED BY <2>4, <3>1 DEF BlocksOfFrame
    <2>5. Heads(stack, r, b) = HeadOf(r, b)
      BY DEF Heads, HeadsAt, HeadOf, IsHead
    <2> QED BY <2>1, <2>4, <2>5
  <1> QED BY <1>1, OwnedAlways, PTL

(* Only an exception that leaves a call ends the sane part of a run.       *)
LEMMA SaneEnds ==
  ASSUME [Next]_vars, Sane, ~ Sane'
  PROVE  Propagate
  <1> SUFFICES ASSUME ~ Propagate PROVE FALSE
    OBVIOUS
  <1>1. prog' = prog /\ escaped' = escaped
    <2>1. CASE VisitNested \/ SkipStat \/ ProcessLocal \/ NullParlist \/ ProcessFunction \/ ProcessBreak
      BY <2>1 DEF VisitNested, SkipStat, ProcessLocal, NullParlist, ProcessFunction, ProcessBreak
    <2>2. CASE ProcessGoto \/ ThrowBadType \/ CallStat \/ ExpectFailure \/ FatalError \/ ProcessWhile
      BY <2>2 DEF ProcessGoto, ThrowBadType, CallStat, ExpectFailure, FatalError, ProcessWhile
    <2>3. CASE ProcessRepeat \/ LoopCondition \/ LoopAgain \/ LoopEnd \/ ProcessForLoop \/ ForAgain
      BY <2>3 DEF ProcessRepeat, LoopCondition, LoopAgain, LoopEnd, ProcessForLoop, ForAgain
    <2>4. CASE ForStep \/ ForStepFreed \/ ForEnd \/ ProcessForIn \/ ForInIterate \/ ForInClear
      BY <2>4 DEF ForStep, ForStepFreed, ForEnd, ProcessForIn, ForInIterate, ForInClear
    <2>5. CASE ForInBind \/ ForInBreak \/ VisitRetstat \/ FinishBlock \/ UnbalancedBlocks \/ FinishCall
      BY <2>5 DEF ForInBind, ForInBreak, VisitRetstat, FinishBlock, UnbalancedBlocks, FinishCall
    <2>6. CASE CatchGoto \/ RethrowGoto \/ CatchBreak \/ CatchReturn \/ CatchBadType
      BY <2>6 DEF CatchGoto, RethrowGoto, CatchBreak, CatchReturn, CatchBadType
    <2>7. CASE VisitChunk \/ FinishChunk \/ LeaveChunk \/ CutRun \/ Ended \/ UNCHANGED vars
      BY <2>7 DEF VisitChunk, FinishChunk, LeaveChunk, CutRun, Ended, vars
    <2>8. CASE ForBadStep \/ ForStart
      BY <2>8 DEF ForBadStep, ForStart
    <2> QED BY <2>1, <2>2, <2>3, <2>4, <2>5, <2>6, <2>7, <2>8 DEF Next, Step
  <1> QED BY <1>1 DEF Sane

(* The steps that leave a call meet no type error.                         *)
LEMMA NoBadTypeLeaves ==
  ASSUME LeaveStep, Step, status = "run", local_values' # local_values
  PROVE  exn.kind # "BadType"
  <1> SUFFICES ASSUME exn.kind = "BadType" PROVE FALSE
    OBVIOUS
  <1>1. exn # None
    BY DEF None
  <1>2. ~ Propagate /\ ~ FinishChunk /\ ~ LeaveChunk /\ ~ CutRun /\ ~ VisitChunk
    BY DEF Propagate, FinishChunk, LeaveChunk, CutRun, VisitChunk, stores
  <1>3. ~ CatchReturn /\ ~ CatchBreak /\ ~ CatchGoto /\ ~ RethrowGoto
    BY DEF CatchReturn, CatchBreak, CatchGoto, RethrowGoto
  <1>4. ~ CatchBadType
    BY DEF CatchBadType, Unwinding, LeaveStep
  <1>5. CASE \/ ProcessBreak \/ ProcessGoto \/ ThrowBadType \/ ForInBreak \/ VisitRetstat
             \/ ForBadStep
    BY <1>1, <1>5 DEF ProcessBreak, ProcessGoto, ThrowBadType, ForInBreak, VisitRetstat, ForBadStep,
       AtStat, AtEnd, In, Running
  <1>6. CASE VisitNested \/ SkipStat \/ ProcessLocal \/ NullParlist \/ ProcessFunction \/ CallStat
    BY <1>1, <1>6 DEF VisitNested, SkipStat, ProcessLocal, NullParlist, ProcessFunction, CallStat,
       AtStat, In, Running
  <1>7. CASE ExpectFailure \/ FatalError \/ ProcessWhile \/ ProcessRepeat \/ LoopCondition
    BY <1>1, <1>7 DEF ExpectFailure, FatalError, ProcessWhile, ProcessRepeat, LoopCondition, AtStat, In,
       Running
  <1>8. CASE LoopAgain \/ LoopEnd \/ ProcessForLoop \/ ForStart \/ ForAgain \/ ForStep \/ ForStepFreed
    BY <1>1, <1>8 DEF LoopAgain, LoopEnd, LoopTested, ProcessForLoop, ForStart, ForAgain, ForStep,
       ForStepFreed, AtStat, In, Running
  <1>9. CASE ForEnd \/ ProcessForIn \/ ForInIterate \/ ForInClear \/ ForInBind
    BY <1>1, <1>9 DEF ForEnd, ProcessForIn, ForInIterate, ForInClear, ForInBind, AtStat, In, Running
  <1>10. CASE FinishBlock \/ UnbalancedBlocks \/ FinishCall
    BY <1>1, <1>10 DEF FinishBlock, UnbalancedBlocks, FinishCall, AtEnd, In, Running
  <1> QED BY <1>2, <1>3, <1>4, <1>5, <1>6, <1>7, <1>8, <1>9, <1>10 DEF Step

(* The for whose head is still evaluating is never of a frame above the    *)
(* call that is about to end.                                              *)
LEMMA CalleeHasNoHead ==
  ASSUME LocalsHere, LeaveStep, NEW b
  PROVE  Heads(stack, Len(local_values), b) = {}
  <1>1. /\ Inv1 /\ Exact /\ Sane /\ stack # << >> /\ stack \in Seq(Activation)
        /\ Top = stack[Len(stack)] /\ Len(stack) \in Nat /\ DOMAIN stack = 1 .. Len(stack)
        /\ Top \in Activation
    BY HereFacts
  <1>2. Top.op = "call_function"
    BY DEF LeaveStep
  <1>3. Len(local_values) = Top.frame + 1 /\ Top.frame \in Nat
    BY <1>1, <1>2, SaneFacts DEF Frames, OpensFrame, Activation
  <1>4. Chain(stack)
    BY <1>1 DEF Exact
  <1>5. ASSUME NEW k \in DOMAIN stack, IsHead(stack[k])
        PROVE  stack[k].frame # Len(local_values)
    <2>1. k # Len(stack)
      BY <1>1, <1>2, <1>5 DEF IsHead
    <2>2. k \in 1 .. Len(stack) /\ Len(stack) \in Nat
      BY <1>1
    <2>3. k < Len(stack) /\ Len(stack) \in 1 .. Len(stack)
      BY ONLY <2>1, <2>2
    <2>4. Frames(stack[k]) =< stack[Len(stack)].frame
      BY <1>1, <1>4, <2>3 DEF Chain
    <2>5. Frames(stack[k]) = stack[k].frame
      BY <1>5 DEF Frames, OpensFrame, IsHead
    <2>8. stack[k] \in Activation
      BY <1>1, <1>5
    <2>6. stack[k].frame \in Nat
      BY <2>8 DEF Activation
    <2>7. stack[k].frame =< Top.frame
      BY <1>1, <2>4, <2>5
    <2> QED BY ONLY <1>3, <2>6, <2>7
  <1> QED BY <1>5 DEF Heads, HeadsAt

(* When a call ends in a sane run, _local_values.pop_back() drops no local *)
(* of an open block: whatever its frame still holds belongs to a block     *)
(* that the same step takes off _blocks.                                   *)
THEOREM CallsDropNoLocals == Spec => NoLocalsDropped
  <1>1. Init => Started
    BY DEF Init, Started
  <1>2. ASSUME BalanceInv, BalanceInv', LocalsInv, OwnedInv, Started, Next, Sane,
               Len(local_values') < Len(local_values),
               NEW b \in Block, Last(local_values)[b] # {}
        PROVE  \E m \in (Len(blocks') + 1) .. Len(blocks) : blocks[m] = b
    <2>1. /\ local_values \in Seq(Frame) /\ Len(local_values) \in Nat
          /\ DOMAIN local_values = 1 .. Len(local_values)
      BY <1>2, LenFacts DEF BalanceInv, Inv1, TypeOK
    <2>2. local_values' # local_values
      BY <1>2, <2>1
    <2>3. ~ VisitChunk
      <3>1. VisitChunk => Len(local_values') = 1 /\ local_values = << >>
        BY <1>2, ChunkFacts DEF Started
      <3>2. local_values = << >> => Len(local_values) = 0
        OBVIOUS
      <3> QED BY <1>2, <3>1, <3>2
    <2>4. Step /\ status = "run"
      BY <1>2, <2>2, <2>3, RunSteps DEF Next, Ended, vars, stores
    <2>5. Sane'
      BY <1>2, <2>2, SaneEnds DEF Propagate, stores
    <2>6. ~ FinishChunk /\ ~ LeaveChunk
      BY <2>2 DEF FinishChunk, LeaveChunk, stores
    <2>7. ~ InnerStep
      BY <1>2, <2>1 DEF InnerStep, OnlyTop
    <2>8. ~ EnterStep
      <3> SUFFICES ASSUME EnterStep PROVE FALSE
        OBVIOUS
      <3>1. PICK g \in Frame : local_values' = Append(local_values, g)
        BY DEF EnterStep
      <3>2. Len(local_values') = Len(local_values) + 1
        BY <2>1, <3>1, AppendFacts
      <3> QED BY <1>2, <2>1, <3>2
    <2>9. LocalsHere /\ LeaveStep /\ SteppedDown
      BY <1>2, <2>4, <2>5, <2>6, <2>7, <2>8, HeldSteps
    <2>10. Len(local_values) \in DOMAIN local_values
      BY <2>1, <2>9 DEF SteppedDown
    <2>11. Last(local_values) = local_values[Len(local_values)]
      BY DEF Last
    <2>12. Owned(stack, blocks, local_values)
      <3>1. exn.kind # "BadType"
        BY <2>2, <2>4, <2>9, NoBadTypeLeaves
      <3> QED BY <1>2, <2>4, <3>1 DEF OwnedInv
    <2>13. Heads(stack, Len(local_values), b) = {}
      BY <2>9, CalleeHasNoHead
    <2>14. \E m \in Extent(stack, Len(blocks), Len(local_values)) : blocks[m] = b
      BY <1>2, <2>10, <2>11, <2>12, <2>13 DEF Owned
    <2> QED BY <2>9, <2>14 DEF SteppedDown
  <1>3. BalanceInv /\ BalanceInv' /\ LocalsInv /\ OwnedInv /\ Started /\ [Next]_vars =>
          [Sane /\ Len(local_values') < Len(local_values) =>
             \A b \in Block : Last(local_values)[b] # {} =>
               \E m \in (Len(blocks') + 1) .. Len(blocks) : blocks[m] = b]_vars
    BY <1>2
  <1> QED BY <1>1, <1>3, OwnedAlways, StartedNext, PTL DEF Spec, NoLocalsDropped

-----------------------------------------------------------------------------
(* The three stores implement nested scopes.                               *)

Scope == [block: Block, names: SUBSET Name]

(* The scopes of a frame f whose blocks are bl[low + 1] .. bl[high].       *)
ScopeAt(bl, f, i) == [block |-> bl[i], names |-> f[bl[i]]]
ScopeList(bl, f, low, high) == [m \in 1 .. (high - low) |-> ScopeAt(bl, f, low + m)]

LEMMA SeqFromFunction ==
  ASSUME NEW A, NEW n \in Nat, NEW s \in [1 .. n -> A]
  PROVE  s \in Seq(A) /\ Len(s) = n
  OBVIOUS

LEMMA ScopeAtFacts ==
  ASSUME NEW bl \in Seq(Block), NEW f \in Frame, NEW i \in 1 .. Len(bl)
  PROVE  /\ ScopeAt(bl, f, i) \in Scope
         /\ ScopeAt(bl, f, i).block = bl[i] /\ ScopeAt(bl, f, i).names = f[bl[i]]
         /\ bl[i] \in Block /\ f[bl[i]] \in SUBSET Name
  <1>1. bl[i] \in Block
    OBVIOUS
  <1>2. f[bl[i]] \in SUBSET Name
    BY <1>1 DEF Frame
  <1> QED BY <1>1, <1>2 DEF ScopeAt, Scope

LEMMA ScopeListFacts ==
  ASSUME NEW bl \in Seq(Block), NEW f \in Frame, NEW low \in Nat, NEW high \in Nat,
         low =< high, high =< Len(bl)
  PROVE  /\ ScopeList(bl, f, low, high) \in Seq(Scope)
         /\ Len(ScopeList(bl, f, low, high)) = high - low
         /\ \A m \in 1 .. (high - low) :
              ScopeList(bl, f, low, high)[m] = ScopeAt(bl, f, low + m)
  <1> DEFINE L == ScopeList(bl, f, low, high)
  <1>1. \A m \in 1 .. (high - low) : low + m \in 1 .. Len(bl)
    <2>1. Len(bl) \in Nat BY LenFacts
    <2> QED BY <2>1
  <1>2. \A m \in 1 .. (high - low) : ScopeAt(bl, f, low + m) \in Scope
    BY <1>1, ScopeAtFacts
  <1>3. L \in [1 .. (high - low) -> Scope] /\ \A m \in 1 .. (high - low) : L[m] = ScopeAt(bl, f, low + m)
    BY <1>2 DEF ScopeList
  <1>4. high - low \in Nat
    OBVIOUS
  <1> HIDE DEF L
  <1>5. L \in Seq(Scope) /\ Len(L) = high - low
    BY <1>3, <1>4, SeqFromFunction
  <1> QED BY <1>3, <1>5 DEF L

(* Sequences with the same elements are the same.                          *)
LEMMA SameElements ==
  ASSUME NEW A, NEW s \in Seq(A), NEW t \in Seq(A), Len(s) = Len(t),
         \A k \in 1 .. Len(s) : s[k] = t[k]
  PROVE  s = t
  OBVIOUS

(* How the model writes it.                                                *)
ScopesIn(bl, f, low, high) ==
  LET open == SubSeq(bl, low + 1, high)
  IN  [m \in DOMAIN open |-> [block |-> open[m], names |-> f[open[m]]]]

LEMMA ScopesOpen ==
  ASSUME NEW bl \in Seq(Block), NEW f, NEW low \in Nat, NEW high \in Nat, high =< Len(bl)
  PROVE  ScopesIn(bl, f, low, high) = ScopeList(bl, f, low, high)
  <1> DEFINE open == SubSeq(bl, low + 1, high)
  <1>1. DOMAIN open = 1 .. (high - low) /\ \A m \in 1 .. (high - low) : open[m] = bl[low + m]
    OBVIOUS
  <1> HIDE DEF open
  <1> QED BY <1>1 DEF ScopesIn, ScopeList, ScopeAt, open

(* The steps of Scopes on the scopes of the innermost call.                *)
Renamed(s, t) == s # << >> /\ \E ns \in SUBSET Name : t = [s EXCEPT ![Len(s)].names = ns]
Opened(s, t) == \E b \in Block, ns \in SUBSET Name : t = Append(s, [block |-> b, names |-> ns])
Closed(s, t) ==
  \E n \in 0 .. (Len(s) - 1) :
    \/ t = SubSeq(s, 1, n)
    \/ n > 0 /\ t = [SubSeq(s, 1, n) EXCEPT ![n].names = {}]

(* A block occurs once among the open blocks of a frame.                   *)
LEMMA BlocksDiffer ==
  ASSUME NEW bl, NEW l \in Nat, NEW f, TopHeld(l, bl),
         NEW j \in (l + 1) .. Len(bl), NEW m \in (l + 1) .. Len(bl), j < m,
         \A k \in (l + 1) .. Len(bl) : Depth[bl[k]] \in Nat
  PROVE  bl[j] # bl[m]
  <1>1. Depth[bl[j]] < Depth[bl[m]]
    BY DEF TopHeld
  <1> QED BY <1>1

LEMMA OneRenamed ==
  ASSUME NEW b, NEW x, NEW y
  PROVE  [[block |-> b, names |-> x] EXCEPT !.names = y] = [block |-> b, names |-> y]
  OBVIOUS

LEMMA NamesReplaced ==
  ASSUME NEW s \in Seq(Scope), NEW k \in 1 .. Len(s), NEW ns, [s[k] EXCEPT !.names = ns] \in Scope
  PROVE  LET u == [s EXCEPT ![k].names = ns]
         IN  /\ u \in Seq(Scope) /\ Len(u) = Len(s)
             /\ \A m \in 1 .. Len(s) : u[m] = IF m = k THEN [s[m] EXCEPT !.names = ns] ELSE s[m]
  OBVIOUS

LEMMA TopRenamed ==
  ASSUME NEW bl \in Seq(Block), NEW l \in Nat, l < Len(bl), NEW f \in Frame, NEW f2 \in Frame,
         TopHeld(l, bl), \A x \in Block : x # bl[Len(bl)] => f2[x] = f[x]
  PROVE  Renamed(ScopeList(bl, f, l, Len(bl)), ScopeList(bl, f2, l, Len(bl)))
  <1> DEFINE H == Len(bl)
             s == ScopeList(bl, f, l, H)
             t == ScopeList(bl, f2, l, H)
             ns == f2[bl[H]]
  <1>1. H \in Nat /\ l =< H /\ H =< H /\ H \in 1 .. H /\ H \in (l + 1) .. H
    <2>1. H \in Nat BY LenFacts
    <2> HIDE DEF H
    <2>2. l < H BY DEF H
    <2> QED BY <2>1, <2>2
  <1>2. /\ s \in Seq(Scope) /\ t \in Seq(Scope) /\ Len(s) = H - l /\ Len(t) = H - l
        /\ \A m \in 1 .. (H - l) : s[m] = ScopeAt(bl, f, l + m)
        /\ \A m \in 1 .. (H - l) : t[m] = ScopeAt(bl, f2, l + m)
    BY <1>1, ScopeListFacts
  <1>3. \A k \in 1 .. H : bl[k] \in Block /\ Depth[bl[k]] \in Nat
    <2>1. \A k \in 1 .. H : bl[k] \in Block
      OBVIOUS
    <2> QED BY <2>1, TreeAssumption
  <1>4. ns \in SUBSET Name
    BY <1>1, ScopeAtFacts
  <1>5. l + (H - l) = H /\ H - l \in Nat /\ H - l >= 1
    <2>1. H \in Nat BY LenFacts
    <2> HIDE DEF H
    <2>2. l < H BY DEF H
    <2> QED BY <2>1, <2>2
  <1> HIDE DEF H, s, t, ns
  <1>6. \A k \in (l + 1) .. H : bl[k] \in Block /\ Depth[bl[k]] \in Nat
    BY <1>1, <1>3
  <1>7. ASSUME NEW m \in 1 .. (H - l), m # H - l PROVE t[m] = s[m]
    <2>1. l + m \in (l + 1) .. H /\ l + m < H
      BY <1>1, <1>5, <1>7
    <2>2. bl[l + m] # bl[H]
      BY <1>1, <1>6, <2>1, BlocksDiffer DEF H
    <2>3. f2[bl[l + m]] = f[bl[l + m]]
      BY <1>6, <2>1, <2>2 DEF H
    <2> QED BY <1>2, <2>3 DEF ScopeAt
  <1>8. t[H - l] = [s[H - l] EXCEPT !.names = ns]
    <2>1. s[H - l] = ScopeAt(bl, f, H) /\ t[H - l] = ScopeAt(bl, f2, H)
      BY <1>2, <1>5
    <2> QED BY <2>1 DEF ScopeAt, ns
  <1> DEFINE u == [s EXCEPT ![H - l].names = ns]
  <1>9. /\ u \in Seq(Scope) /\ Len(u) = H - l
        /\ \A m \in 1 .. (H - l) : u[m] = IF m = H - l THEN [s[m] EXCEPT !.names = ns] ELSE s[m]
    <2>1. [s[H - l] EXCEPT !.names = ns] \in Scope
      BY <1>2, <1>5, <1>8
    <2> QED BY <1>2, <1>5, <2>1
  <1> HIDE DEF u
  <1>10. t = u
    <2>1. \A m \in 1 .. Len(t) : t[m] = u[m]
      BY <1>2, <1>7, <1>8, <1>9
    <2> QED BY <1>2, <1>9, <2>1, SameElements
  <1>11. s # << >>
    BY <1>2, <1>5, LenFacts
  <1>12. t = [s EXCEPT ![Len(s)].names = ns]
    BY <1>2, <1>10 DEF u
  <1>13. Renamed(s, t)
    BY <1>4, <1>11, <1>12 DEF Renamed
  <1> QED BY <1>13 DEF s, t, H

LEMMA TopOpened ==
  ASSUME NEW bl \in Seq(Block), NEW l \in Nat, l < Len(bl), NEW f \in Frame, NEW f2 \in Frame,
         TopHeld(l, bl), NEW b \in Block, NEW bl2 \in Seq(Block),
         Len(bl2) = Len(bl) + 1, bl2[Len(bl) + 1] = b, \A m \in 1 .. Len(bl) : bl2[m] = bl[m],
         Depth[bl[Len(bl)]] < Depth[b], \A x \in Block : x # b => f2[x] = f[x]
  PROVE  Opened(ScopeList(bl, f, l, Len(bl)), ScopeList(bl2, f2, l, Len(bl2)))
  <1> DEFINE H == Len(bl)
             s == ScopeList(bl, f, l, H)
             G == H + 1
             t == ScopeList(bl2, f2, l, G)
             z == [block |-> b, names |-> f2[b]]
  <1>1. H \in Nat
    BY LenFacts
  <1>2. l < H /\ H =< Len(bl)
    BY <1>1
  <1>3. Len(bl2) = G /\ bl2[G] = b /\ \A m \in 1 .. H : bl2[m] = bl[m]
    OBVIOUS
  <1>4. \A k \in 1 .. H : bl[k] \in Block /\ Depth[bl[k]] \in Nat
    <2>1. \A k \in 1 .. H : bl[k] \in Block
      OBVIOUS
    <2> QED BY <2>1, TreeAssumption
  <1>5. Depth[b] \in Nat /\ f2[b] \in SUBSET Name
    BY TreeAssumption DEF Frame
  <1>6. z \in Scope
    BY <1>5 DEF Scope
  <1>7. \A k \in (l + 1) .. (H - 1) : Depth[bl[k]] < Depth[bl[H]]
    <2>1. \A j, m \in (l + 1) .. H : j < m => Depth[bl[j]] < Depth[bl[m]]
      BY DEF TopHeld
    <2> HIDE DEF H
    <2>2. H \in (l + 1) .. H
      BY <1>1, <1>2
    <2>3. \A k \in (l + 1) .. (H - 1) : k \in (l + 1) .. H /\ k < H
      BY <1>1
    <2> QED BY <2>1, <2>2, <2>3
  <1>8. Depth[bl[H]] < Depth[b]
    OBVIOUS
  <1> HIDE DEF H
  <1>9. /\ l + (G - l) = G /\ H - l \in Nat /\ G - l = (H - l) + 1
        /\ l =< H /\ l =< G /\ G =< G /\ G \in Nat
    BY <1>1, <1>2
  <1> HIDE DEF G
  <1>10. /\ s \in Seq(Scope) /\ Len(s) = H - l
         /\ \A m \in 1 .. (H - l) : s[m] = ScopeAt(bl, f, l + m)
    BY <1>1, <1>2, <1>9, ScopeListFacts
  <1>11. /\ t \in Seq(Scope) /\ Len(t) = G - l
         /\ \A m \in 1 .. (G - l) : t[m] = ScopeAt(bl2, f2, l + m)
    <2>1. G =< Len(bl2)
      BY <1>3, <1>9
    <2> QED BY <1>9, <2>1, ScopeListFacts, SMTT(30)
  <1> HIDE DEF s, t
  <1>12. ASSUME NEW m \in 1 .. (H - l) PROVE t[m] = s[m]
    <2>1. l + m \in (l + 1) .. H /\ l + m \in 1 .. H /\ m \in 1 .. (G - l)
      BY <1>1, <1>2, <1>9
    <2>2. l + m = H \/ l + m \in (l + 1) .. (H - 1)
      BY <1>1, <2>1
    <2>3. H \in 1 .. H
      BY <1>1, <1>2
    <2>4. Depth[bl[l + m]] < Depth[b]
      <3>1. Depth[bl[l + m]] \in Nat /\ Depth[bl[H]] \in Nat
        BY <1>4, <2>1, <2>3
      <3>2. Depth[bl[l + m]] = Depth[bl[H]] \/ Depth[bl[l + m]] < Depth[bl[H]]
        BY <1>7, <2>2
      <3> QED BY <1>5, <1>8, <3>1, <3>2
    <2>5. bl[l + m] # b
      BY <1>5, <2>4
    <2>6. f2[bl[l + m]] = f[bl[l + m]]
      BY <1>4, <2>1, <2>5
    <2> QED BY <1>3, <1>10, <1>11, <2>1, <2>6 DEF ScopeAt
  <1>13. t[(H - l) + 1] = z
    <2>1. (H - l) + 1 \in 1 .. (G - l) /\ l + ((H - l) + 1) = G
      BY <1>1, <1>2, <1>9
    <2> QED BY <1>3, <1>11, <2>1 DEF ScopeAt
  <1> DEFINE u == Append(s, z)
  <1> HIDE DEF z
  <1>14. /\ u \in Seq(Scope) /\ Len(u) = (H - l) + 1 /\ u[(H - l) + 1] = z
         /\ \A m \in 1 .. (H - l) : u[m] = s[m]
    BY <1>6, <1>10, AppendFacts
  <1> HIDE DEF u
  <1>15. t = u
    <2>1. \A m \in 1 .. ((H - l) + 1) : m \in 1 .. (H - l) \/ m = (H - l) + 1
      BY <1>9
    <2>2. \A m \in 1 .. Len(t) : t[m] = u[m]
      BY <1>9, <1>11, <1>12, <1>13, <1>14, <2>1
    <2>3. Len(t) = Len(u)
      BY <1>9, <1>11, <1>14
    <2>4. t \in Seq(Scope) /\ u \in Seq(Scope)
      BY <1>11, <1>14
    <2> QED BY <2>2, <2>3, <2>4, SameElements
  <1>16. Opened(s, t)
    BY <1>5, <1>15 DEF Opened, u, z
  <1> QED BY <1>3, <1>16 DEF s, t, H

LEMMA TopClosed ==
  ASSUME NEW bl \in Seq(Block), NEW l \in Nat, NEW f \in Frame, NEW f2 \in Frame,
         TopHeld(l, bl), NEW n \in l .. (Len(bl) - 1), NEW p \in Nat, NEW bl2,
         Closes(n, p, l, bl, bl2, f, f2)
  PROVE  Closed(ScopeList(bl, f, l, Len(bl)), ScopeList(bl2, f2, l, Len(bl2)))
  <1> DEFINE H == Len(bl)
             s == ScopeList(bl, f, l, H)
             t == ScopeList(bl2, f2, l, n)
             left == SubSeq(s, 1, n - l)
  <1>1. H \in Nat
    BY LenFacts
  <1>2. l =< H /\ H =< Len(bl) /\ n \in Nat /\ l =< n /\ n < H /\ n \in 0 .. H
    BY <1>1
  <1>3. /\ p = n \/ p = n + 1
        /\ p > l /\ bl2 = SubSeq(bl, 1, n)
        /\ \A x \in Block : f2[x] = IF \E m \in p .. H : bl[m] = x THEN {} ELSE f[x]
    BY DEF Closes
  <1>4. /\ bl2 \in Seq(Block) /\ Len(bl2) = n /\ n =< Len(bl2)
        /\ \A m \in 1 .. n : bl2[m] = bl[m]
    BY <1>2, <1>3, PrefixFacts
  <1>5. \A k \in 1 .. H : bl[k] \in Block /\ Depth[bl[k]] \in Nat
    <2>1. \A k \in 1 .. H : bl[k] \in Block
      OBVIOUS
    <2> QED BY <2>1, TreeAssumption
  <1>6. ASSUME NEW j \in (l + 1) .. H, NEW m \in (l + 1) .. H, j < m PROVE bl[j] # bl[m]
    <2>1. \A k \in (l + 1) .. Len(bl) : Depth[bl[k]] \in Nat
      <3>1. \A k \in (l + 1) .. Len(bl) : k \in 1 .. H
        OBVIOUS
      <3> QED BY <1>5, <3>1
    <2> QED BY <1>6, <2>1, BlocksDiffer
  <1> HIDE DEF H
  <1>7. /\ s \in Seq(Scope) /\ Len(s) = H - l
        /\ \A m \in 1 .. (H - l) : s[m] = ScopeAt(bl, f, l + m)
    BY <1>1, <1>2, ScopeListFacts
  <1>8. /\ t \in Seq(Scope) /\ Len(t) = n - l
        /\ \A m \in 1 .. (n - l) : t[m] = ScopeAt(bl2, f2, l + m)
    <2>1. bl2 \in Seq(Block) /\ n \in Nat /\ l =< n /\ n =< Len(bl2)
      BY <1>2, <1>4
    <2> QED BY <2>1, ScopeListFacts
  <1> HIDE DEF s, t
  <1>9. n - l \in 0 .. Len(s) /\ n - l \in Nat /\ n - l \in 0 .. (Len(s) - 1)
    BY <1>1, <1>2, <1>7
  <1>10. left \in Seq(Scope) /\ Len(left) = n - l /\ \A k \in 1 .. (n - l) : left[k] = s[k]
    BY <1>7, <1>9, PrefixFacts
  <1> HIDE DEF left
  <1>11. ASSUME NEW m \in 1 .. (n - l), l + m < p PROVE t[m] = s[m]
    <2>1. /\ l + m \in (l + 1) .. H /\ l + m \in 1 .. n /\ m \in 1 .. (H - l) /\ l + m \in 1 .. H
      BY <1>1, <1>2
    <2>2. \A k \in p .. H : k \in (l + 1) .. H /\ l + m < k
      BY <1>1, <1>2, <1>3, <1>11
    <2>3. \A k \in p .. H : bl[k] # bl[l + m]
      BY <1>6, <2>1, <2>2
    <2>4. f2[bl[l + m]] = f[bl[l + m]]
      BY <1>3, <1>5, <2>1, <2>3
    <2> QED BY <1>4, <1>7, <1>8, <2>1, <2>4 DEF ScopeAt
  <1>12. CASE p = n + 1
    <2>1. \A m \in 1 .. Len(t) : t[m] = left[m]
      <3>1. \A m \in 1 .. (n - l) : l + m < p
        BY <1>2, <1>12
      <3> QED BY <1>8, <1>10, <1>11, <3>1
    <2>2. t = left
      BY <1>8, <1>10, <2>1, SameElements
    <2> QED BY <1>4, <1>9, <2>2 DEF Closed, left, s, t, H
  <1>13. CASE p = n
    <2>1. n - l > 0 /\ n - l \in 1 .. (n - l) /\ l + (n - l) = n /\ n \in 1 .. n /\ n \in 1 .. H
          /\ n - l \in 1 .. (H - l) /\ n \in p .. H
      BY <1>1, <1>2, <1>3, <1>13
    <2> DEFINE no == {}
    <2>2. f2[bl[n]] = no
      BY <1>3, <1>5, <2>1 DEF no
    <2> HIDE DEF no
    <2>3. t[n - l] = [left[n - l] EXCEPT !.names = no]
      <3>1. t[n - l] = ScopeAt(bl2, f2, n) /\ left[n - l] = ScopeAt(bl, f, n)
        BY <1>7, <1>8, <1>10, <2>1
      <3>2. bl2[n] = bl[n]
        BY <1>4, <2>1
      <3>3. t[n - l] = [block |-> bl[n], names |-> no]
        BY <2>2, <3>1, <3>2 DEF ScopeAt
      <3>4. left[n - l] = [block |-> bl[n], names |-> f[bl[n]]]
        BY <3>1 DEF ScopeAt
      <3> QED BY <3>3, <3>4, OneRenamed
    <2> DEFINE u == [left EXCEPT ![n - l].names = no]
    <2>4. /\ u \in Seq(Scope) /\ Len(u) = n - l
          /\ \A m \in 1 .. (n - l) : u[m] = IF m = n - l THEN [left[m] EXCEPT !.names = no] ELSE left[m]
      <3>1. [left[n - l] EXCEPT !.names = no] \in Scope
        BY <1>8, <2>1, <2>3
      <3>2. n - l \in 1 .. Len(left)
        BY <1>10, <2>1
      <3>3. Len(left) = n - l /\ left \in Seq(Scope)
        BY <1>10
      <3> QED BY <3>1, <3>2, <3>3, NamesReplaced
    <2> HIDE DEF u
    <2>5. \A m \in 1 .. Len(t) : t[m] = u[m]
      <3>1. \A m \in 1 .. (n - l) : m # n - l => l + m < p
        BY <1>2, <1>13
      <3> QED BY <1>8, <1>10, <1>11, <2>3, <2>4, <3>1
    <2>6. t = u
      BY <1>8, <2>4, <2>5, SameElements
    <2> QED BY <1>4, <1>9, <2>1, <2>6 DEF Closed, left, s, t, u, no, H
  <1> QED BY <1>3, <1>12, <1>13

(* The steps of Scopes on the list of all calls.                           *)
Entered(c, d) ==
  \E b \in Block, ns \in SUBSET Name : d = Append(c, <<[block |-> b, names |-> ns]>>)
TopChanged(c, d) ==
  /\ c # << >>
  /\ \E x : /\ d = [c EXCEPT ![Len(c)] = x]
            /\ Renamed(c[Len(c)], x) \/ Opened(c[Len(c)], x) \/ Closed(c[Len(c)], x)
Left(c, d) == Len(c) > 1 /\ d = SubSeq(c, 1, Len(c) - 1)

(* The value of the variable calls of Scopes.                              *)
CallsNow == IF Sane THEN [r \in DOMAIN local_values |-> ScopesOfFrame(r)] ELSE << >>

LEMMA ScopesStep ==
  ASSUME Sane, Sane',
         \/ Entered(CallsNow, CallsNow') \/ TopChanged(CallsNow, CallsNow')
         \/ Left(CallsNow, CallsNow')
  PROVE  Abstract!Next
  <1>1. Sane' = Sane
    BY DEF Sane
  <1>2. CASE Entered(CallsNow, CallsNow')
    <2>1. Abstract!Enter
      BY <1>2 DEF Entered, CallsNow, Abstract!Enter
    <2> QED BY <1>1, <2>1 DEF Abstract!Next
  <1>3. CASE Left(CallsNow, CallsNow')
    <2>1. Abstract!Leave
      BY <1>3 DEF Left, CallsNow, Abstract!Leave, Abstract!Level
    <2> QED BY <1>1, <2>1 DEF Abstract!Next
  <1>4. CASE TopChanged(CallsNow, CallsNow')
    <2> DEFINE c == CallsNow
               n == Len(c)
    <2>1. PICK x : /\ CallsNow' = [c EXCEPT ![n] = x]
                   /\ Renamed(c[n], x) \/ Opened(c[n], x) \/ Closed(c[n], x)
      BY <1>4 DEF TopChanged
    <2>2. c # << >>
      BY <1>4 DEF TopChanged
    <2>3. CASE Renamed(c[n], x)
      <3>1. PICK ns \in SUBSET Name : x = [c[n] EXCEPT ![Len(c[n])].names = ns]
        BY <2>3 DEF Renamed
      <3>2. c[n] # << >>
        BY <2>3 DEF Renamed
      <3>3. CallsNow' = [c EXCEPT ![n][Len(c[n])].names = ns]
        BY <2>1, <3>1
      <3>4. Abstract!Rename
        BY <2>2, <3>2, <3>3 DEF CallsNow, Abstract!Rename, Abstract!Level, Abstract!Scopes
      <3> QED BY <1>1, <3>4 DEF Abstract!Next
    <2>4. CASE Opened(c[n], x)
      <3>1. PICK b \in Block, ns \in SUBSET Name : x = Append(c[n], [block |-> b, names |-> ns])
        BY <2>4 DEF Opened
      <3>2. CallsNow' = [c EXCEPT ![n] = Append(c[n], [block |-> b, names |-> ns])]
        BY <2>1, <3>1
      <3>3. Abstract!Open
        BY <2>2, <3>2 DEF CallsNow, Abstract!Open, Abstract!Level
      <3> QED BY <1>1, <3>3 DEF Abstract!Next
    <2>5. CASE Closed(c[n], x)
      <3>1. PICK k \in 0 .. (Len(c[n]) - 1) :
              \/ x = SubSeq(c[n], 1, k)
              \/ k > 0 /\ x = [SubSeq(c[n], 1, k) EXCEPT ![k].names = {}]
        BY <2>5 DEF Closed
      <3>2. \/ CallsNow' = [c EXCEPT ![n] = SubSeq(c[n], 1, k)]
            \/ k > 0 /\ CallsNow' = [c EXCEPT ![n] = [SubSeq(c[n], 1, k) EXCEPT ![k].names = {}]]
        BY <2>1, <3>1
      <3>3. Abstract!Close
        BY <2>2, <3>2 DEF CallsNow, Abstract!Close, Abstract!Level, Abstract!Scopes
      <3> QED BY <1>1, <3>3 DEF Abstract!Next
    <2> QED BY <2>1, <2>3, <2>4, <2>5
  <1> QED BY <1>2, <1>3, <1>4

(* CallsNow in a sane state, for any stores.                               *)
CallList(st, bl, lv) ==
  [r \in DOMAIN lv |-> ScopeList(bl, lv[r], Low(st, Len(bl), r), Base(st, Len(bl), r))]

(* The parts of _blocks that belong to the frames lie within _blocks.      *)
Bounded(st, bl) ==
  \A r : /\ Base(st, Len(bl), r) \in Nat /\ Base(st, Len(bl), r) =< Len(bl)
         /\ Low(st, Len(bl), r) \in Nat

LEMMA BoundsFacts ==
  ASSUME NEW st \in Seq(Activation), NEW bl \in Seq(Block), NEW lv, NEW fs,
         st # << >> => Balanced(st, lv, fs) /\ Shape(st, bl)
  PROVE  Bounded(st, bl)
  <1>1. Len(bl) \in Nat /\ DOMAIN bl = 1 .. Len(bl) /\ Len(bl) =< Len(bl)
    BY LenFacts
  <1>2. ASSUME NEW r PROVE Base(st, Len(bl), r) \in Nat /\ Base(st, Len(bl), r) =< Len(bl)
    <2>1. CASE \E k \in CallsOf(st) : st[k].frame = r
      <3>1. PICK k \in CallsOf(st) : st[k].frame = r
        BY <2>1
      <3>2. st # << >>
        <4>1. k \in DOMAIN st /\ DOMAIN st = 1 .. Len(st) /\ Len(st) \in Nat
          BY LenFacts DEF CallsOf
        <4>2. Len(st) >= 1
          BY <4>1
        <4> QED BY <4>2, LenFacts
      <3>3. Base(st, Len(bl), r) = st[k].base
        BY <3>1, <3>2, BaseOf
      <3>4. /\ st[k].base \in Nat /\ Height(st[k]) = st[k].base /\ k \in DOMAIN st
        BY <3>2, CallFrames
      <3>5. st[k].op # "visitChunk"
        BY DEF CallsOf
      <3>6. k > 1
        <4>1. DOMAIN st = 1 .. Len(st) /\ Len(st) \in Nat
          BY LenFacts
        <4>2. k # 1
          BY <3>2, <3>4, <3>5 DEF Shape
        <4> QED BY <3>4, <4>1, <4>2
      <3>7. st[k].base \in DOMAIN bl
        BY <3>2, <3>4, <3>6 DEF Shape
      <3> QED BY <1>1, <3>3, <3>7
    <2>2. CASE \A k \in CallsOf(st) : st[k].frame # r
      <3>1. {k \in DOMAIN st : st[k].op = "call_function" /\ st[k].frame = r} = {}
        BY <2>2 DEF CallsOf
      <3>2. Base(st, Len(bl), r) = Len(bl)
        BY <3>1 DEF Base
      <3> QED BY <1>1, <3>2
    <2> QED BY <2>1, <2>2
  <1>3. ASSUME NEW r PROVE Low(st, Len(bl), r) \in Nat
    BY <1>2 DEF Low
  <1> QED BY <1>2, <1>3 DEF Bounded

LEMMA MapsNow ==
  ASSUME Inv1, Exact, Sane
  PROVE  CallsNow = CallList(stack, blocks, local_values) /\ Bounded(stack, blocks)
  <1>1. stack \in Seq(Activation) /\ blocks \in Seq(Block)
    BY DEF Inv1, TypeOK
  <1>2. stack # << >> => Balanced(stack, local_values, functions) /\ Shape(stack, blocks)
    BY DEF Inv1, Exact, Balanced, Top
  <1>3. Bounded(stack, blocks)
    BY <1>1, <1>2, BoundsFacts
  <1>4. \A q : CallBase(q) = Base(stack, Len(blocks), q)
    BY DEF CallBase, Base
  <1>5. ASSUME NEW r
        PROVE  ScopesOfFrame(r) = ScopeList(blocks, local_values[r], Low(stack, Len(blocks), r),
                                            Base(stack, Len(blocks), r))
    <2> DEFINE low == Low(stack, Len(blocks), r)
               high == Base(stack, Len(blocks), r)
    <2>1. (IF r = 1 THEN 0 ELSE CallBase(r - 1)) = low
      BY <1>4 DEF Low
    <2>2. ScopesOfFrame(r) = ScopesIn(blocks, local_values[r], low, high)
      BY <1>4, <2>1 DEF ScopesOfFrame, ScopesIn
    <2>3. low \in Nat /\ high \in Nat /\ high =< Len(blocks)
      BY <1>3 DEF Bounded
    <2> HIDE DEF low, high
    <2> QED BY <1>1, <2>2, <2>3, ScopesOpen DEF low, high
  <1> QED BY <1>3, <1>5 DEF CallsNow, CallList

LEMMA MapsNext ==
  ASSUME Inv1', Exact', Sane'
  PROVE  CallsNow' = CallList(stack', blocks', local_values') /\ Bounded(stack', blocks')
  <1>1. stack' \in Seq(Activation) /\ blocks' \in Seq(Block)
    BY DEF Inv1, TypeOK
  <1>2. stack' # << >> => Balanced(stack', local_values', functions') /\ Shape(stack', blocks')
    BY DEF Inv1, Exact, Balanced, Top, Sane
  <1>3. Bounded(stack', blocks')
    BY <1>1, <1>2, BoundsFacts
  <1>4. \A q : CallBase(q)' = Base(stack', Len(blocks'), q)
    BY DEF CallBase, Base
  <1>5. ASSUME NEW CONSTANT r
        PROVE  ScopesOfFrame(r)'
               = ScopeList(blocks', local_values'[r], Low(stack', Len(blocks'), r),
                           Base(stack', Len(blocks'), r))
    <2> DEFINE low == Low(stack', Len(blocks'), r)
               high == Base(stack', Len(blocks'), r)
    <2>1. (IF r = 1 THEN 0 ELSE CallBase(r - 1)') = low
      BY <1>4 DEF Low
    <2>2. ScopesOfFrame(r)' = ScopesIn(blocks', local_values'[r], low, high)
      BY <1>4, <2>1 DEF ScopesOfFrame, ScopesIn
    <2>3. low \in Nat /\ high \in Nat /\ high =< Len(blocks')
      BY <1>3 DEF Bounded
    <2> HIDE DEF low, high
    <2> QED BY <1>1, <2>2, <2>3, ScopesOpen DEF low, high
  <1> QED BY <1>3, <1>5 DEF CallsNow, CallList

(* The scopes of a frame depend on its extent only.                        *)
LEMMA SameExtent ==
  ASSUME NEW bl, NEW bl2, NEW f, NEW low \in Nat, NEW high \in Nat, NEW low2 \in Nat,
         NEW high2 \in Nat, (low2 + 1) .. high2 = (low + 1) .. high,
         \A m \in (low + 1) .. high : bl2[m] = bl[m]
  PROVE  ScopeList(bl2, f, low2, high2) = ScopeList(bl, f, low, high)
  <1>1. CASE high =< low
    <2>1. high2 =< low2
      <3> SUFFICES ASSUME low2 < high2 PROVE FALSE
        OBVIOUS
      <3>1. low2 + 1 \in (low + 1) .. high
        OBVIOUS
      <3> QED BY <1>1, <3>1
    <2>2. 1 .. (high - low) = {} /\ 1 .. (high2 - low2) = {}
      BY <1>1, <2>1
    <2> QED BY <2>2 DEF ScopeList
  <1>2. CASE low < high
    <2>1. low + 1 \in (low2 + 1) .. high2 /\ high \in (low2 + 1) .. high2
      BY <1>2
    <2>2. low2 + 1 \in (low + 1) .. high /\ high2 \in (low + 1) .. high
      BY <2>1
    <2>3. low2 = low /\ high2 = high
      BY <2>1, <2>2
    <2>4. \A m \in 1 .. (high - low) : bl2[low + m] = bl[low + m]
      OBVIOUS
    <2> QED BY <2>3, <2>4 DEF ScopeList, ScopeAt
  <1> QED BY <1>1, <1>2

LEMMA RowFacts ==
  ASSUME NEW st, NEW bl, NEW lv \in Seq(Frame), NEW A,
         \A r \in 1 .. Len(lv) : CallList(st, bl, lv)[r] \in A
  PROVE  /\ CallList(st, bl, lv) \in Seq(A) /\ Len(CallList(st, bl, lv)) = Len(lv)
         /\ DOMAIN CallList(st, bl, lv) = 1 .. Len(lv)
  <1> DEFINE c == CallList(st, bl, lv)
  <1>1. Len(lv) \in Nat /\ DOMAIN lv = 1 .. Len(lv)
    BY LenFacts
  <1>2. c = [r \in 1 .. Len(lv) |-> c[r]]
    BY <1>1 DEF CallList
  <1>3. \A r \in 1 .. Len(lv) : c[r] \in A
    OBVIOUS
  <1> HIDE DEF c
  <1>4. c \in [1 .. Len(lv) -> A]
    BY <1>2, <1>3
  <1>5. c \in Seq(A) /\ Len(c) = Len(lv) /\ DOMAIN c = 1 .. Len(lv)
    BY <1>1, <1>4, SeqFromFunction
  <1> QED BY <1>5 DEF c

KeptRows(R, st, bl, lv, t, bl2, lv2) ==
  /\ lv \in Seq(Frame) /\ lv2 \in Seq(Frame) /\ Bounded(st, bl) /\ Bounded(t, bl2)
  /\ R \in Nat /\ R =< Len(lv) /\ R =< Len(lv2)
  /\ SameBelow(R, st, bl, t, bl2) /\ \A r \in 1 .. R : lv2[r] = lv[r]

LEMMA RowsKept ==
  ASSUME NEW R, NEW st, NEW bl, NEW lv, NEW t, NEW bl2, NEW lv2,
         KeptRows(R, st, bl, lv, t, bl2, lv2)
  PROVE  \A r \in 1 .. R : CallList(t, bl2, lv2)[r] = CallList(st, bl, lv)[r]
  <1> USE DEF KeptRows
  <1> SUFFICES ASSUME NEW r \in 1 .. R
               PROVE  CallList(t, bl2, lv2)[r] = CallList(st, bl, lv)[r]
    OBVIOUS
  <1>1. r \in DOMAIN lv /\ r \in DOMAIN lv2
    <2>1. Len(lv) \in Nat /\ Len(lv2) \in Nat /\ DOMAIN lv = 1 .. Len(lv) /\ DOMAIN lv2 = 1 .. Len(lv2)
      BY LenFacts
    <2> QED BY <2>1
  <1> DEFINE low == Low(st, Len(bl), r)
             high == Base(st, Len(bl), r)
             low2 == Low(t, Len(bl2), r)
             high2 == Base(t, Len(bl2), r)
  <1>2. low \in Nat /\ high \in Nat /\ low2 \in Nat /\ high2 \in Nat
    BY DEF Bounded
  <1>3. (low2 + 1) .. high2 = (low + 1) .. high /\ \A m \in (low + 1) .. high : bl2[m] = bl[m]
    BY DEF SameBelow, Extent
  <1>4. /\ CallList(st, bl, lv)[r] = ScopeList(bl, lv[r], low, high)
        /\ CallList(t, bl2, lv2)[r] = ScopeList(bl2, lv[r], low2, high2)
    BY <1>1 DEF CallList
  <1> HIDE DEF low, high, low2, high2
  <1> QED BY <1>2, <1>3, <1>4, SameExtent

(* The scopes of the frame whose extent is low + 1 .. high.                *)
LEMMA RowOf ==
  ASSUME NEW st, NEW bl, NEW lv \in Seq(Frame), Bounded(st, bl), NEW r \in 1 .. Len(lv),
         NEW low \in Nat, NEW high \in Nat, Extent(st, Len(bl), r) = (low + 1) .. high
  PROVE  CallList(st, bl, lv)[r] = ScopeList(bl, lv[r], low, high)
  <1>1. r \in DOMAIN lv
    BY LenFacts
  <1> DEFINE low2 == Low(st, Len(bl), r)
             high2 == Base(st, Len(bl), r)
  <1>2. low2 \in Nat /\ high2 \in Nat /\ (low2 + 1) .. high2 = (low + 1) .. high
    BY DEF Bounded, Extent
  <1>3. CallList(st, bl, lv)[r] = ScopeList(bl, lv[r], low2, high2)
    BY <1>1 DEF CallList
  <1> HIDE DEF low2, high2
  <1> QED BY <1>2, <1>3, SameExtent

LEMMA TopMoves ==
  ASSUME NEW bl \in Seq(Block), NEW l \in Nat, l =< Len(bl), NEW f \in Frame, NEW f2 \in Frame,
         NEW bl2 \in Seq(Block), TopHeld(l, bl), TopStep(l, bl, bl2, f, f2),
         NEW s, s = ScopeList(bl, f, l, Len(bl)), NEW t, t = ScopeList(bl2, f2, l, Len(bl2))
  PROVE  t = s \/ Renamed(s, t) \/ Opened(s, t) \/ Closed(s, t)
  <1>1. CASE bl2 = bl /\ f2 = f
    BY <1>1
  <1>2. CASE bl2 = bl /\ l < Len(bl) /\ \A x \in Block : x # bl[Len(bl)] => f2[x] = f[x]
    BY <1>2, TopRenamed
  <1>3. ASSUME NEW b \in Block, bl2 = Append(bl, b), l < Len(bl),
               Depth[bl[Len(bl)]] < Depth[b], \A x \in Block : x # b => f2[x] = f[x]
        PROVE  Opened(s, t)
    <2>1. /\ Len(bl2) = Len(bl) + 1 /\ bl2[Len(bl) + 1] = b
          /\ \A m \in 1 .. Len(bl) : bl2[m] = bl[m]
      BY <1>3, AppendFacts
    <2> QED BY <1>3, <2>1, TopOpened
  <1>4. ASSUME NEW n \in l .. (Len(bl) - 1), NEW p \in Nat, Closes(n, p, l, bl, bl2, f, f2)
        PROVE  Closed(s, t)
    BY <1>4, TopClosed
  <1>5. ASSUME NEW b \in Block, bl2 = bl, l < Len(bl), Depth[bl[Len(bl)]] < Depth[b],
               \A x \in Block : x # b => f2[x] = f[x]
        PROVE  t = s
    <2> DEFINE H == Len(bl)
    <2>1. H \in Nat /\ \A k \in 1 .. H : bl[k] \in Block
      BY LenFacts
    <2>2. Depth[b] \in Nat /\ \A k \in 1 .. H : Depth[bl[k]] \in Nat
      BY <2>1, TreeAssumption
    <2>3. ASSUME NEW k \in (l + 1) .. H PROVE ScopeAt(bl, f2, k) = ScopeAt(bl, f, k)
      <3>1. k \in 1 .. H /\ H \in (l + 1) .. H /\ H \in 1 .. H
        BY <1>5, <2>1
      <3>2. k < H => Depth[bl[k]] < Depth[bl[H]]
        BY <3>1 DEF TopHeld
      <3>3. bl[k] # b
        <4>1. CASE k = H
          BY <1>5, <2>2, <3>1, <4>1
        <4>2. CASE k # H
          <5>1. k < H
            BY <2>1, <3>1, <4>2
          <5>2. Depth[bl[H]] < Depth[b]
            BY <1>5
          <5> HIDE DEF H
          <5> QED BY <2>2, <3>1, <3>2, <5>1, <5>2
        <4> QED BY <4>1, <4>2
      <3>4. f2[bl[k]] = f[bl[k]]
        BY <1>5, <2>1, <3>1, <3>3
      <3> QED BY <3>4 DEF ScopeAt
    <2>4. \A m \in 1 .. (H - l) : l + m \in (l + 1) .. H
      <3> HIDE DEF H
      <3> QED BY <2>1
    <2>5. \A m \in 1 .. (H - l) : ScopeAt(bl, f2, l + m) = ScopeAt(bl, f, l + m)
      BY <2>3, <2>4
    <2>6. ScopeList(bl, f2, l, H) = ScopeList(bl, f, l, H)
      BY <2>5 DEF ScopeList
    <2> QED BY <1>5, <2>6
  <1> QED BY <1>1, <1>2, <1>3, <1>4, <1>5 DEF TopStep

(* Inside a call only the scopes of that call change.                      *)
LEMMA InnerScopes ==
  ASSUME LocalsHere, Inv1', Exact', Sane', InnerStep, SteppedIn
  PROVE  CallsNow' = CallsNow \/ TopChanged(CallsNow, CallsNow')
  <1> DEFINE N == Len(local_values)
             c == CallList(stack, blocks, local_values)
             d == CallList(stack', blocks', local_values')
             A == {c[r] : r \in 1 .. N} \cup {d[r] : r \in 1 .. N}
  <1>1. /\ Inv1 /\ Exact /\ Sane /\ stack # << >> /\ stack \in Seq(Activation)
        /\ blocks \in Seq(Block) /\ local_values \in Seq(Frame) /\ Shape(stack, blocks)
    BY HereFacts
  <1>2. /\ LowHere \in Nat /\ LowHere =< Len(blocks) /\ Len(blocks) \in Nat
        /\ N \in Nat /\ N >= 1
    BY LowBelow
  <1>3. /\ Len(local_values') = N /\ \A r \in 1 .. (N - 1) : local_values'[r] = local_values[r]
        /\ TopStep(LowHere, blocks, blocks', local_values[N], local_values'[N])
    BY DEF InnerStep, OnlyTop
  <1>4. /\ blocks' \in Seq(Block) /\ local_values' \in Seq(Frame) /\ Len(blocks') \in Nat
    BY LenFacts DEF Inv1, TypeOK
  <1>5. /\ CallsNow = c /\ Bounded(stack, blocks) /\ CallsNow' = d /\ Bounded(stack', blocks')
    BY <1>1, MapsNow, MapsNext
  <1>6. /\ SameBelow(N - 1, stack, blocks, stack', blocks')
        /\ Extent(stack, Len(blocks), N) = (LowHere + 1) .. Len(blocks)
        /\ Extent(stack', Len(blocks'), N) = (LowHere + 1) .. Len(blocks')
    BY DEF SteppedIn
  <1>7. TopHeld(LowHere, blocks)
    <2>1. Held(stack, blocks, local_values) /\ functions \in Seq(Body)
          /\ Balanced(stack, local_values, functions)
      BY HereWhole DEF Whole
    <2> QED BY <1>1, <2>1, HeldTop DEF LowHere
  <1>8. \A r \in 1 .. N : c[r] \in A /\ d[r] \in A
    OBVIOUS
  <1> HIDE DEF A
  <1>9. /\ c \in Seq(A) /\ Len(c) = N /\ DOMAIN c = 1 .. N
        /\ d \in Seq(A) /\ Len(d) = N /\ DOMAIN d = 1 .. N
    <2>1. c \in Seq(A) /\ Len(c) = N /\ DOMAIN c = 1 .. N
      BY <1>1, <1>8, RowFacts
    <2>2. \A r \in 1 .. Len(local_values') : d[r] \in A
      BY <1>3, <1>8
    <2>3. d \in Seq(A) /\ Len(d) = Len(local_values') /\ DOMAIN d = 1 .. Len(local_values')
      BY <1>4, <2>2, RowFacts
    <2> QED BY <1>3, <2>1, <2>3
  <1>10. N - 1 \in Nat /\ N - 1 =< N /\ N \in 1 .. N /\ \A r \in 1 .. N : r = N \/ r \in 1 .. (N - 1)
    <2>1. N \in Nat /\ N >= 1 BY <1>2
    <2> HIDE DEF N
    <2> QED BY <2>1
  <1>11. \A r \in 1 .. (N - 1) : d[r] = c[r]
    <2>1. KeptRows(N - 1, stack, blocks, local_values, stack', blocks', local_values')
      BY <1>1, <1>3, <1>4, <1>5, <1>6, <1>10 DEF KeptRows
    <2> QED BY <2>1, RowsKept
  <1>12. /\ c[N] = ScopeList(blocks, local_values[N], LowHere, Len(blocks))
         /\ d[N] = ScopeList(blocks', local_values'[N], LowHere, Len(blocks'))
    BY <1>1, <1>2, <1>3, <1>4, <1>5, <1>6, <1>10, RowOf
  <1>13. local_values[N] \in Frame /\ local_values'[N] \in Frame
    BY <1>1, <1>3, <1>4, <1>10, LenFacts
  <1>14. d[N] = c[N] \/ Renamed(c[N], d[N]) \/ Opened(c[N], d[N]) \/ Closed(c[N], d[N])
    BY <1>1, <1>2, <1>3, <1>4, <1>7, <1>12, <1>13, TopMoves
  <1> HIDE DEF c, d, N
  <1>15. d = [c EXCEPT ![N] = d[N]]
    BY <1>9, <1>10, <1>11
  <1>16. d[N] = c[N] => d = c
    <2>1. d[N] = c[N] => \A r \in 1 .. Len(d) : d[r] = c[r]
      BY <1>9, <1>10, <1>11
    <2> QED BY <1>9, <2>1, SameElements
  <1>17. c # << >>
    BY <1>2, <1>9, LenFacts
  <1> QED BY <1>5, <1>9, <1>14, <1>15, <1>16, <1>17 DEF TopChanged

(* A call appends a list with one scope.                                   *)
LEMMA OneScope ==
  ASSUME NEW bl \in Seq(Block), NEW g \in Frame, NEW n \in Nat, Len(bl) = n + 1
  PROVE  ScopeList(bl, g, n, n + 1) = <<[block |-> bl[n + 1], names |-> g[bl[n + 1]]]>>
  <1> DEFINE s == ScopeList(bl, g, n, n + 1)
             z == ScopeAt(bl, g, n + 1)
  <1>1. n =< n + 1 /\ n + 1 =< Len(bl) /\ n + 1 \in Nat /\ (n + 1) - n = 1 /\ n + 1 \in 1 .. Len(bl)
    OBVIOUS
  <1>2. s \in Seq(Scope) /\ Len(s) = 1 /\ \A m \in 1 .. 1 : s[m] = ScopeAt(bl, g, n + m)
    <2> DEFINE k == n + 1
    <2>1. k \in Nat /\ n =< k /\ k =< Len(bl) /\ k - n = 1
      BY <1>1
    <2> HIDE DEF k
    <2>2. LET v == ScopeList(bl, g, n, k)
          IN  /\ v \in Seq(Scope) /\ Len(v) = k - n
              /\ \A m \in 1 .. (k - n) : v[m] = ScopeAt(bl, g, n + m)
      BY <2>1, ScopeListFacts
    <2> QED BY <2>1, <2>2 DEF k
  <1>3. z \in Scope
    BY <1>1, ScopeAtFacts
  <1>4. s[1] = z
    BY <1>2
  <1> HIDE DEF s, z
  <1>5. s = <<z>>
    BY <1>2, <1>3, <1>4
  <1> QED BY <1>5 DEF s, z, ScopeAt

LEMMA EnterScopes ==
  ASSUME LocalsHere, Inv1', Exact', Sane', EnterStep, SteppedUp
  PROVE  Entered(CallsNow, CallsNow')
  <1> DEFINE N == Len(local_values)
             c == CallList(stack, blocks, local_values)
             d == CallList(stack', blocks', local_values')
             A == {c[r] : r \in 1 .. N} \cup {d[r] : r \in 1 .. (N + 1)}
  <1>1. /\ Inv1 /\ Exact /\ Sane /\ blocks \in Seq(Block) /\ local_values \in Seq(Frame)
    BY HereFacts
  <1>2. Len(blocks) \in Nat /\ N \in Nat
    BY <1>1, LenFacts
  <1>3. PICK f \in Block, g \in Frame :
          blocks' = Append(blocks, f) /\ local_values' = Append(local_values, g)
    BY DEF EnterStep
  <1>4. /\ blocks' \in Seq(Block) /\ Len(blocks') = Len(blocks) + 1 /\ blocks'[Len(blocks) + 1] = f
        /\ local_values' \in Seq(Frame) /\ Len(local_values') = N + 1 /\ local_values'[N + 1] = g
        /\ \A r \in 1 .. N : local_values'[r] = local_values[r]
    BY <1>1, <1>3, AppendFacts
  <1>5. /\ CallsNow = c /\ Bounded(stack, blocks) /\ CallsNow' = d /\ Bounded(stack', blocks')
    BY <1>1, MapsNow, MapsNext
  <1>6. /\ SameBelow(N, stack, blocks, stack', blocks')
        /\ Extent(stack', Len(blocks'), N + 1) = (Len(blocks) + 1) .. (Len(blocks) + 1)
    BY DEF SteppedUp
  <1>7. /\ N =< N /\ N =< N + 1 /\ N + 1 \in 1 .. (N + 1) /\ Len(blocks) + 1 \in Nat
        /\ \A r \in 1 .. (N + 1) : r = N + 1 \/ r \in 1 .. N
    <2>1. N \in Nat /\ Len(blocks) \in Nat BY <1>2
    <2> HIDE DEF N
    <2> QED BY <2>1
  <1>8. (\A r \in 1 .. N : c[r] \in A) /\ \A r \in 1 .. (N + 1) : d[r] \in A
    OBVIOUS
  <1> HIDE DEF A
  <1>9. /\ c \in Seq(A) /\ Len(c) = N /\ d \in Seq(A) /\ Len(d) = N + 1
    BY <1>1, <1>4, <1>8, RowFacts
  <1>10. \A r \in 1 .. N : d[r] = c[r]
    <2>1. KeptRows(N, stack, blocks, local_values, stack', blocks', local_values')
      BY <1>1, <1>2, <1>4, <1>5, <1>6, <1>7 DEF KeptRows
    <2> QED BY <2>1, RowsKept
  <1>11. d[N + 1] = ScopeList(blocks', g, Len(blocks), Len(blocks) + 1)
    <2> DEFINE H == Len(blocks)
               G == H + 1
               M == N + 1
    <2>1. /\ local_values' \in Seq(Frame) /\ Bounded(stack', blocks') /\ M \in 1 .. Len(local_values')
          /\ H \in Nat /\ G \in Nat /\ Extent(stack', Len(blocks'), M) = (H + 1) .. G
          /\ local_values'[M] = g
      BY <1>2, <1>4, <1>5, <1>6, <1>7
    <2> HIDE DEF H, G, M
    <2>2. d[M] = ScopeList(blocks', local_values'[M], H, G)
      BY <2>1, RowOf
    <2> QED BY <2>1, <2>2 DEF H, G, M
  <1>12. d[N + 1] = <<[block |-> f, names |-> g[f]]>>
    BY <1>2, <1>4, <1>11, OneScope
  <1>13. g[f] \in SUBSET Name
    BY DEF Frame
  <1> DEFINE z == d[N + 1]
             u == Append(c, z)
  <1>14. z \in A
    BY <1>7, <1>8
  <1> HIDE DEF c, d, N, z
  <1>15. u \in Seq(A) /\ Len(u) = N + 1 /\ u[N + 1] = z /\ \A r \in 1 .. N : u[r] = c[r]
    BY <1>9, <1>14, AppendFacts
  <1> HIDE DEF u
  <1>16. d = u
    <2>1. \A r \in 1 .. Len(d) : d[r] = u[r]
      BY <1>7, <1>9, <1>10, <1>15 DEF z
    <2> QED BY <1>9, <1>15, <2>1, SameElements
  <1> QED BY <1>5, <1>12, <1>13, <1>16 DEF Entered, u, z

LEMMA LeaveScopes ==
  ASSUME LocalsHere, Inv1', Exact', Sane', SteppedDown
  PROVE  Left(CallsNow, CallsNow')
  <1> DEFINE N == Len(local_values)
             c == CallList(stack, blocks, local_values)
             d == CallList(stack', blocks', local_values')
             A == {c[r] : r \in 1 .. N} \cup {d[r] : r \in 1 .. (N - 1)}
  <1>1. /\ Inv1 /\ Exact /\ Sane /\ blocks \in Seq(Block) /\ local_values \in Seq(Frame)
        /\ local_values # << >>
    BY HereFacts
  <1>2. N \in Nat
    BY <1>1, LenFacts
  <1>3. /\ local_values' \in Seq(Frame) /\ Len(local_values') = N - 1
        /\ \A r \in 1 .. (N - 1) : local_values'[r] = local_values[r]
    BY <1>1, FrontFacts DEF SteppedDown
  <1>4. /\ CallsNow = c /\ Bounded(stack, blocks) /\ CallsNow' = d /\ Bounded(stack', blocks')
    BY <1>1, MapsNow, MapsNext
  <1>5. SameBelow(N - 1, stack, blocks, stack', blocks') /\ N > 1
    BY DEF SteppedDown
  <1>6. N - 1 \in Nat /\ N - 1 =< N /\ N - 1 =< N - 1 /\ N - 1 \in 0 .. N
    <2>1. N \in Nat /\ N > 1 BY <1>2, <1>5
    <2> HIDE DEF N
    <2> QED BY <2>1
  <1>7. (\A r \in 1 .. N : c[r] \in A) /\ \A r \in 1 .. (N - 1) : d[r] \in A
    OBVIOUS
  <1> HIDE DEF A
  <1>8. c \in Seq(A) /\ Len(c) = N /\ d \in Seq(A) /\ Len(d) = N - 1
    BY <1>1, <1>3, <1>7, RowFacts
  <1>9. \A r \in 1 .. (N - 1) : d[r] = c[r]
    <2>1. KeptRows(N - 1, stack, blocks, local_values, stack', blocks', local_values')
      BY <1>1, <1>3, <1>4, <1>5, <1>6 DEF KeptRows
    <2> QED BY <2>1, RowsKept
  <1> DEFINE u == SubSeq(c, 1, N - 1)
  <1> HIDE DEF c, d, N
  <1>10. u \in Seq(A) /\ Len(u) = N - 1 /\ \A r \in 1 .. (N - 1) : u[r] = c[r]
    BY <1>6, <1>8, PrefixFacts
  <1> HIDE DEF u
  <1>11. d = u
    <2>1. \A r \in 1 .. Len(d) : d[r] = u[r]
      BY <1>8, <1>9, <1>10
    <2> QED BY <1>8, <1>10, <2>1, SameElements
  <1> QED BY <1>4, <1>5, <1>8, <1>11 DEF Left, u

LEMMA OneRow ==
  ASSUME NEW st, NEW bl \in Seq(Block), NEW lv \in Seq(Frame), Bounded(st, bl),
         NEW n \in Nat, Len(bl) = n + 1, NEW r \in 1 .. Len(lv),
         Extent(st, Len(bl), r) = (n + 1) .. (n + 1)
  PROVE  CallList(st, bl, lv)[r] = <<[block |-> bl[n + 1], names |-> lv[r][bl[n + 1]]]>>
  <1>1. lv[r] \in Frame
    BY LenFacts
  <1> DEFINE k == n + 1
  <1>2. k \in Nat /\ Extent(st, Len(bl), r) = (n + 1) .. k
    OBVIOUS
  <1> HIDE DEF k
  <1>3. CallList(st, bl, lv)[r] = ScopeList(bl, lv[r], n, k)
    BY <1>2, RowOf
  <1> QED BY <1>1, <1>3, OneScope DEF k

(* Before the chunk there is no scope; it starts with its own.             *)
LEMMA ChunkScopes ==
  ASSUME Started, Inv1', Exact', Sane, Sane', VisitChunk
  PROVE  Entered(CallsNow, CallsNow')
  <1>1. /\ CallsOf(stack') = {} /\ blocks' = <<Main>> /\ Len(blocks') = 1
        /\ Len(local_values') = 1 /\ \A b \in Block : local_values'[1][b] = {}
        /\ local_values = << >> /\ Main \in Block
    BY ChunkFacts DEF Started
  <1>2. CallsNow = << >>
    BY <1>1 DEF CallsNow
  <1>3. /\ blocks' \in Seq(Block) /\ local_values' \in Seq(Frame)
    BY DEF Inv1, TypeOK
  <1>4. CallsNow' = CallList(stack', blocks', local_values') /\ Bounded(stack', blocks')
    BY MapsNext
  <1> DEFINE n == 0
  <1>5. /\ n \in Nat /\ Len(blocks') = n + 1 /\ n + 1 = 1
        /\ Extent(stack', Len(blocks'), 1) = (n + 1) .. (n + 1) /\ 1 \in 1 .. Len(local_values')
    BY <1>1, NoCalls
  <1> DEFINE d == CallList(stack', blocks', local_values')
             z == d[1]
  <1>6. z = <<[block |-> blocks'[n + 1], names |-> local_values'[1][blocks'[n + 1]]]>>
    <2> HIDE DEF n
    <2>1. /\ n \in Nat /\ Len(blocks') = n + 1 /\ Bounded(stack', blocks')
          /\ Extent(stack', Len(blocks'), 1) = (n + 1) .. (n + 1) /\ 1 \in 1 .. Len(local_values')
      BY <1>4, <1>5
    <2> QED BY <1>3, <2>1, OneRow, SMTT(30)
  <1>7. blocks'[1] = Main
    BY <1>1
  <1>8. z = <<[block |-> Main, names |-> {}]>>
    <2>1. local_values'[1][Main] = {}
      BY <1>1
    <2> HIDE DEF d, z
    <2> QED BY <1>5, <1>6, <1>7, <2>1
  <1>9. d \in Seq({z}) /\ Len(d) = 1
    <2> DEFINE A == {z}
    <2>1. \A r \in 1 .. Len(local_values') : d[r] \in A
      BY <1>1
    <2> HIDE DEF z, A
    <2>2. d \in Seq(A) /\ Len(d) = Len(local_values')
      BY <1>3, <2>1, RowFacts
    <2> QED BY <1>1, <2>2 DEF A
  <1> HIDE DEF d, z
  <1>10. d = <<z>>
    <2>1. <<z>> \in Seq({z}) /\ Len(<<z>>) = 1 /\ <<z>>[1] = z
      OBVIOUS
    <2>2. \A r \in 1 .. Len(d) : d[r] = <<z>>[r]
      BY <1>9, <2>1 DEF z
    <2> QED BY <1>9, <2>1, <2>2, SameElements
  <1>11. Append(<< >>, z) = <<z>>
    OBVIOUS
  <1>12. CallsNow' = Append(CallsNow, z)
    BY <1>2, <1>4, <1>10, <1>11 DEF d
  <1> QED BY <1>1, <1>8, <1>12 DEF Entered

(* The end of the chunk leaves the stores as they are.                     *)
LEMMA LastScopes ==
  ASSUME LocalsHere, Inv1', Exact', Sane', FinishChunk \/ LeaveChunk
  PROVE  CallsNow' = CallsNow
  <1>1. /\ Inv1 /\ Exact /\ Sane /\ stack # << >> /\ Shape(stack, blocks)
        /\ Top = stack[Len(stack)]
        /\ Len(stack) \in Nat /\ Len(stack) >= 1 /\ DOMAIN stack = 1 .. Len(stack)
    BY HereFacts
  <1>2. Top.op = "visitChunk" /\ stack' = << >> /\ blocks' = blocks /\ local_values' = local_values
    BY DEF FinishChunk, LeaveChunk, In, Unwinding, stores
  <1>3. Len(stack) = 1
    BY <1>1, <1>2 DEF Shape
  <1>4. CallsOf(stack) = {}
    <2>1. \A k \in DOMAIN stack : k = 1
      BY <1>1, <1>3
    <2> QED BY <1>1, <1>2, <1>3, <2>1 DEF CallsOf
  <1>5. CallsOf(stack') = {}
    BY <1>2 DEF CallsOf
  <1>6. \A n, r : Base(stack', n, r) = Base(stack, n, r)
    <2> SUFFICES ASSUME NEW n, NEW r PROVE Base(stack', n, r) = Base(stack, n, r)
      OBVIOUS
    <2>1. Base(stack, n, r) = n
      BY <1>4, NoCalls
    <2>2. Base(stack', n, r) = n
      BY <1>5, NoCalls
    <2> QED BY <2>1, <2>2
  <1>7. \A n, r : Low(stack', n, r) = Low(stack, n, r)
    BY <1>6 DEF Low
  <1>8. CallList(stack', blocks', local_values') = CallList(stack, blocks, local_values)
    BY <1>2, <1>6, <1>7 DEF CallList
  <1> QED BY <1>1, <1>8, MapsNow, MapsNext

LEMMA StepIsScopeStep ==
  BalanceInv /\ BalanceInv' /\ LocalsInv /\ Started /\ [Next]_vars
    => [Abstract!Next]_<<CallsNow, Sane>>
  <1> SUFFICES ASSUME BalanceInv, BalanceInv', LocalsInv, Started, [Next]_vars
               PROVE  Abstract!Next \/ (CallsNow' = CallsNow /\ Sane' = Sane)
    OBVIOUS
  <1>1. CASE ~ Sane
    <2>1. ~ Sane'
      BY <1>1, SaneBefore
    <2>2. CallsNow = << >> /\ CallsNow' = << >>
      BY <1>1, <2>1 DEF CallsNow
    <2>3. Sane' = Sane
      BY <1>1, <2>1 DEF Sane
    <2> QED BY <2>2, <2>3
  <1>2. CASE Sane /\ ~ Sane'
    <2>1. CallsNow' = << >>
      BY <1>2 DEF CallsNow
    <2>2. Abstract!Void
      BY <1>2, <2>1 DEF CallsNow, Abstract!Void
    <2> QED BY <2>2 DEF Abstract!Next
  <1>3. CASE Sane /\ Sane'
    <2>1. Inv1 /\ Exact /\ Inv1' /\ Exact'
      BY DEF BalanceInv
    <2>2. Sane' = Sane
      BY <1>3 DEF Sane
    <2>3. CASE VisitChunk
      BY <1>3, <2>1, <2>3, ChunkScopes, ScopesStep
    <2>4. CASE Step /\ ~ VisitChunk
      <3>1. status = "run"
        BY <2>4, RunSteps
      <3>2. /\ LocalsHere
            /\ \/ InnerStep /\ SteppedIn
               \/ EnterStep /\ SteppedUp
               \/ LeaveStep /\ SteppedDown
               \/ FinishChunk
               \/ LeaveChunk
        BY <1>3, <2>4, <3>1, HeldSteps
      <3>3. \/ CallsNow' = CallsNow
            \/ TopChanged(CallsNow, CallsNow')
            \/ Entered(CallsNow, CallsNow')
            \/ Left(CallsNow, CallsNow')
        BY <1>3, <2>1, <3>2, InnerScopes, EnterScopes, LeaveScopes, LastScopes
      <3> QED BY <1>3, <2>2, <3>3, ScopesStep
    <2>5. CASE Ended \/ UNCHANGED vars
      <3>1. /\ stack' = stack /\ blocks' = blocks /\ local_values' = local_values
        BY <2>5 DEF Ended, vars, stores
      <3>2. CallsNow' = CallsNow
        BY <1>3, <2>1, <3>1, MapsNow, MapsNext
      <3> QED BY <2>2, <3>2
    <2> QED BY <2>3, <2>4, <2>5 DEF Next
  <1> QED BY <1>1, <1>2, <1>3

(* _blocks, _local_values and _functions together implement the nested     *)
(* scopes of module Scopes: every step of the interpreter opens, closes or *)
(* fills scopes of the innermost call only, from the innermost outwards,   *)
(* or starts or ends a call, and leaves every other scope as it was, until *)
(* an exception leaves a call without ending it.                           *)
THEOREM StoresImplementScopes == Spec => ImplementsScopes
  <1>1. Init => Started
    BY DEF Init, Started
  <1>2. Init => Abstract!Init
    <2> SUFFICES ASSUME Init PROVE Abstract!Init
      OBVIOUS
    <2>1. local_values = << >>
      BY DEF Init
    <2>2. CallsNow = << >>
      BY <2>1 DEF CallsNow
    <2>3. Sane \in BOOLEAN
      BY DEF Sane
    <2> QED BY <2>2, <2>3 DEF CallsNow, Abstract!Init
  <1>3. [Abstract!Next]_<<CallsNow, Sane>>
        => [Abstract!Next]_<<IF Sane THEN [r \in DOMAIN local_values |-> ScopesOfFrame(r)] ELSE << >>, Sane>>
    BY DEF CallsNow
  <1> QED BY <1>1, <1>2, <1>3, StepIsScopeStep, LocalsAlways, StartedNext, PTL
          DEF Spec, ImplementsScopes, Abstract!Spec
=============================================================================
