---------------------------- MODULE MemoryProofs ----------------------------
(***************************************************************************)
(* Proofs about the reference counts of the interpreter, for every program *)
(* and every sequence of files: the counts of cells and functions say who  *)
(* still holds them, also between the updates of a cascade, and nothing    *)
(* that was deleted is used.                                               *)
(***************************************************************************)
EXTENDS ClosuresProofs

-----------------------------------------------------------------------------
(* The steps, one by one.                                                  *)
LEMMA QuietWork ==
  ASSUME work = << >>, NEW w, NoUnrefs(w)
  PROVE  SameUnrefs(work, w)
  BY CountEmpty, NoUnrefsCount DEF SameUnrefs

LEMMA NoPlaceMoves ==
  ASSUME Counted, frames' = frames, globals' = globals, lost' = lost, cells' = cells,
         SameCaptures(objs, objs'), work = << >>, NoUnrefs(work')
  PROVE  Counted'
  <1>1. SameUnrefs(work, work')
    BY QuietWork
  <1>2. SameRefs(cells, cells')
    BY DEF SameRefs
  <1> QED BY <1>1, <1>2, SameStep

LEMMA SameCapturesSame == \A os : SameCaptures(os, os)
  BY DEF SameCaptures

LEMMA DropsQuiet ==
  ASSUME NEW vs \in Seq(AnyValue)
  PROVE  NoUnrefs(Drops(vs))
  <1>1. DOMAIN Drops(vs) = DOMAIN vs /\ \A k \in DOMAIN vs : Drops(vs)[k] = Drop(vs[k])
    BY DropsFacts
  <1>2. \A v : Drop(v).op = "drop"
    BY DEF Drop
  <1> QED BY <1>1, <1>2 DEF NoUnrefs

LEMMA FinishFileCells ==
  ASSUME Inv1, Counted, FinishFile \/ FailFile \/ StoreAssign \/ Discard \/ Enter \/ Round \/ ReturnFromChunk
  PROVE  Counted'
  <1>1. frames' = frames /\ globals' = globals /\ lost' = lost /\ cells' = cells /\ objs' = objs /\ work = << >>
    BY DEF FinishFile, FailFile, StoreAssign, Discard, Enter, Round, ReturnFromChunk, stores, memory,
           Running, AtStore, AtBlock, AtStat, AtFor
  <1>2. NoUnrefs(work')
    <2>1. CASE FinishFile \/ FailFile \/ Enter \/ Round
      BY <1>1, <2>1 DEF FinishFile, FailFile, Enter, Round, NoUnrefs
    <2>2. CASE StoreAssign
      BY <2>2 DEF StoreAssign, AssignOps, NoUnrefs, DropOld, Write, Add, Drop
    <2>3. CASE Discard \/ ReturnFromChunk
      BY <2>3 DEF Discard, ReturnFromChunk, NoUnrefs, Drop
    <2> QED BY <2>1, <2>2, <2>3
  <1>3. SameCaptures(objs, objs')
    BY <1>1, SameCapturesSame
  <1> QED BY <1>1, <1>2, <1>3, NoPlaceMoves

LEMMA UnwindCells ==
  ASSUME Inv1, Counted, Unwind
  PROVE  Counted'
  <1>1. /\ work = << >> /\ work' = Drops(Append(Top.held, Top.val)) /\ Top.held \in Seq(AnyValue) /\ Top.val \in AnyValue
        /\ UNCHANGED <<frames, globals, cells, objs, lost>>
    BY UnwindForm
  <1>2. Append(Top.held, Top.val) \in Seq(AnyValue)
    BY <1>1, AppendFacts
  <1>3. NoUnrefs(work')
    BY <1>1, <1>2, DropsQuiet
  <1>4. SameCaptures(objs, objs')
    BY <1>1, SameCapturesSame
  <1> QED BY <1>1, <1>3, <1>4, NoPlaceMoves

LEMMA RunFileCells ==
  ASSUME Inv1, Counted, RunFile
  PROVE  Counted'
  <1>1. /\ work = << >> /\ work' = work /\ frames' = Append(frames, NoStore)
        /\ globals' = globals /\ lost' = lost /\ cells' = cells /\ objs' = objs
    BY DEF RunFile, memory
  <1>2. frames \in Seq(AnyStore) /\ Roots(frames, globals, lost) /\ Len(cells) \in Nat
    BY KeptTypes DEF Counted
  <1> DEFINE t == frames'
  <1>3. t = Append(frames, NoStore)
    BY <1>1
  <1> HIDE DEF t
  <1>4. Roots(t, globals, lost) /\ \A c : c # 0 => (Rooted(t, globals, lost, c) <=> Rooted(frames, globals, lost, c))
    BY <1>2, <1>3, EmptyFrame
  <1>5. \A c \in 1 .. Len(cells) : c # 0 /\ ~ (c > Len(cells))
    BY <1>2
  <1>6. RootsGrow(frames, globals, lost, Len(cells), Len(cells), t, globals, lost)
    BY <1>4, <1>5 DEF RootsGrow
  <1>7. RootsGrow(frames, globals, lost, Len(cells), Len(cells'), frames', globals', lost')
    BY <1>1, <1>6 DEF t
  <1>8. Captures(objs, objs', NoNames) /\ CellsGrow(cells, cells', NoNames) /\ NamesIn(NoNames, Len(cells))
    BY <1>1, <1>2, NoCapture, SameCapturesSame, CellsKept, NothingCaptured
  <1>9. NoUnrefs(work')
    BY <1>1 DEF NoUnrefs
  <1> QED BY <1>1, <1>7, <1>8, <1>9, GrowStep

LEMMA EvalValueCells ==
  ASSUME Inv1, Counted, EvalValue
  PROVE  Counted'
  <1> DEFINE ops == {"local", "assign", "return"}
  <1>1. /\ AtStat(ops) /\ globals' = GlobalsWithTarget /\ cells' = WithTarget(cells)
        /\ UNCHANGED <<frames, objs, lost>> /\ \E v : work' = <<Add(v)>>
    BY DEF EvalValue
  <1> HIDE DEF ops
  <1>2. work = << >> /\ Len(cells) = Len(cells)
    BY <1>1, StatFacts
  <1>3. NoUnrefs(work')
    BY <1>1 DEF NoUnrefs, Add
  <1>4. CellsGrow(cells, cells, NoNames)
    BY CellsKept
  <1>5. /\ CellsGrow(cells, cells', NoNames)
        /\ RootsGrow(frames, globals, lost, Len(cells), Len(cells'), frames, GlobalsWithTarget, lost)
    BY <1>1, <1>2, <1>4, TargetGrows
  <1>6. RootsGrow(frames, globals, lost, Len(cells), Len(cells'), frames', globals', lost')
    BY <1>1, <1>5
  <1>7. Captures(objs, objs', NoNames) /\ NamesIn(NoNames, Len(cells))
    BY <1>1, NoCapture, SameCapturesSame, NothingCaptured, StateFacts
  <1> QED BY <1>2, <1>3, <1>5, <1>6, <1>7, GrowStep

(* A new function, whose closure is g.                                     *)
LEMMA FunctionCells ==
  ASSUME Inv1, Counted, NEW ops, AtStat(ops), NEW x \in AnyObj, x.live, ObjIn(x, Len(cells)),
         \A n \in Name : x.closure[n] # 0 => \E b \in Block : Frame[b][n] = x.closure[n],
         objs' = Append(objs, x), cells' = WithTarget(Referenced(x.closure)), globals' = GlobalsWithTarget,
         frames' = frames, lost' = lost, NoUnrefs(work')
  PROVE  Counted'
  <1> DEFINE g == x.closure
             r == Referenced(g)
  <1>1. work = << >> /\ status = "run"
    BY StatFacts
  <1>2. NamesDistinct(g) /\ NamesIn(g, Len(cells))
    BY <1>1, ClosureDistinct DEF ObjIn
  <1>3. CellsGrow(cells, r, g) /\ Len(r) = Len(cells)
    BY <1>2, CellsCaptured
  <1>4. Captures(objs, objs', g)
    BY <1>2, NewCapture
  <1>5. cells' = WithTarget(r)
    OBVIOUS
  <1> HIDE DEF r, g
  <1>6. /\ CellsGrow(cells, cells', g)
        /\ RootsGrow(frames, globals, lost, Len(cells), Len(cells'), frames, GlobalsWithTarget, lost)
    BY <1>3, <1>5, TargetGrows
  <1>7. RootsGrow(frames, globals, lost, Len(cells), Len(cells'), frames', globals', lost')
    BY <1>6
  <1> QED BY <1>1, <1>2, <1>4, <1>6, <1>7, GrowStep

LEMMA EvalFunctionCells ==
  ASSUME Inv1, Counted, EvalFunction
  PROVE  Counted'
  <1> DEFINE ops == {"local", "assign", "return"}
             x == NewObj(S.e.f, Top.env, 1)
  <1>1. /\ AtStat(ops) /\ S.e.k = "fun" /\ objs' = Append(objs, x)
        /\ globals' = GlobalsWithTarget /\ cells' = WithTarget(Referenced(Closure(S.e.f)))
        /\ frames' = frames /\ work' = work /\ lost' = lost
    BY DEF EvalFunction
  <1> HIDE DEF ops
  <1>2. status = "run" /\ S.e.f \in Body /\ work = << >>
    BY <1>1, StatFacts
  <1>3. x \in AnyObj /\ ObjIn(x, Len(cells)) /\ x.closure = Closure(S.e.f) /\ x.live
    BY <1>2, NewObjFacts
  <1> HIDE DEF x
  <1>4. \A n \in Name : x.closure[n] # 0 => \E b \in Block : Frame[b][n] = x.closure[n]
    BY <1>2, <1>3, ClosureFacts
  <1>5. NoUnrefs(work') /\ cells' = WithTarget(Referenced(x.closure))
    BY <1>1, <1>2, <1>3 DEF NoUnrefs
  <1> QED BY <1>1, <1>3, <1>4, <1>5, FunctionCells

LEMMA ThrowErrorCells ==
  ASSUME Inv1, Counted, ThrowError
  PROVE  Counted'
  <1>1. /\ AtStat(ThrowOps) /\ status = "run" /\ work = << >> /\ globals' = GlobalsWithTarget
        /\ frames' = frames /\ work' = work /\ lost' = lost
    BY ThrowErrorForm
  <1>2. NoUnrefs(work')
    BY <1>1 DEF NoUnrefs
  <1>3. CASE cells' = WithTarget(cells) /\ objs' = objs
    <2>1. CellsGrow(cells, cells, NoNames) /\ Len(cells) = Len(cells)
      BY CellsKept
    <2>2. /\ CellsGrow(cells, cells', NoNames)
          /\ RootsGrow(frames, globals, lost, Len(cells), Len(cells'), frames, GlobalsWithTarget, lost)
      BY <1>1, <1>3, <2>1, TargetGrows
    <2>3. RootsGrow(frames, globals, lost, Len(cells), Len(cells'), frames', globals', lost')
      BY <1>1, <2>2
    <2>4. Captures(objs, objs', NoNames) /\ NamesIn(NoNames, Len(cells))
      BY <1>3, NoCapture, SameCapturesSame, NothingCaptured, StateFacts
    <2> QED BY <1>1, <1>2, <2>2, <2>3, <2>4, GrowStep
  <1>4. ASSUME S.e.f \in Body, NEW captured \in SUBSET Name,
               cells' = WithTarget(Referenced(Part(S.e.f, captured))), objs' = Append(objs, Broken(S.e.f, captured))
        PROVE  Counted'
    <2> DEFINE x == Broken(S.e.f, captured)
               g == Part(S.e.f, captured)
    <2>1. /\ x \in AnyObj /\ ObjIn(x, Len(cells)) /\ x.closure = g /\ x.live
          /\ \A n \in Name : g[n] # 0 => g[n] = Closure(S.e.f)[n]
      BY <1>1, <1>4, BrokenFacts
    <2>2. objs' = Append(objs, x) /\ cells' = WithTarget(Referenced(g))
      BY <1>4
    <2> HIDE DEF x, g
    <2>3. \A n \in Name : x.closure[n] # 0 => \E b \in Block : Frame[b][n] = x.closure[n]
      BY <1>1, <2>1, ClosureFacts
    <2>4. cells' = WithTarget(Referenced(x.closure))
      BY <2>1, <2>2
    <2> QED BY <1>1, <1>2, <2>1, <2>2, <2>3, <2>4, FunctionCells
  <1> QED BY <1>3, <1>4, ThrowErrorForm

LEMMA RootsNow ==
  ASSUME Inv1, Counted
  PROVE  /\ Len(cells) \in Nat /\ Len(cells) + 1 \in Nat /\ Len(cells) + 1 # 0 /\ ~ Rooted(frames, globals, lost, Len(cells) + 1)
         /\ \A c \in Nat : c > Len(cells) => ~ Rooted(frames, globals, lost, c)
         /\ Roots(frames, globals, lost) /\ frames \in Seq(AnyStore) /\ globals \in [Name -> Nat]
  <1> DEFINE n == Len(cells)
  <1>1. /\ n \in Nat /\ frames \in Seq(AnyStore) /\ FramesIn(frames, n) /\ globals \in [Name -> Nat]
        /\ NamesIn(globals, n) /\ lost \subseteq 1 .. n /\ Roots(frames, globals, lost)
    BY KeptTypes DEF Counted
  <1>2. \A c \in Nat : c > n => ~ Rooted(frames, globals, lost, c)
    <2> HIDE DEF n
    <2> QED BY <1>1, NotRooted
  <1>3. n + 1 \in Nat /\ n + 1 # 0 /\ n + 1 > n
    BY <1>1
  <1>4. ~ Rooted(frames, globals, lost, n + 1)
    BY <1>2, <1>3
  <1> QED BY <1>1, <1>2, <1>3, <1>4

LEMMA NewLocalRoot ==
  ASSUME Inv1, Counted, status = "run", NEW b \in Block, NEW n \in Name, NEW t, t = SetFrame(Put(Frame, b, n, Len(cells) + 1)),
         NEW lo, lo = lost \cup ({Frame[b][n]} \ {0}), NEW m, m = Len(cells) + 1
  PROVE  RootsGrow(frames, globals, lost, Len(cells), m, t, globals, lo)
  <1> DEFINE e == Frame[b][n]
  <1>1. /\ Len(cells) \in Nat /\ m \in Nat /\ m # 0 /\ ~ Rooted(frames, globals, lost, m)
        /\ \A c \in Nat : c > Len(cells) => ~ Rooted(frames, globals, lost, c)
        /\ Roots(frames, globals, lost)
    BY RootsNow
  <1>2. TakesPlace(frames, t, m, e)
    BY <1>1, EntryTaken
  <1>3. lo = lost \cup ({e} \ {0})
    OBVIOUS
  <1> HIDE DEF e
  <1>4. /\ Roots(t, globals, lost \cup ({e} \ {0}))
        /\ \A c : c # 0 => (Rooted(t, globals, lost \cup ({e} \ {0}), c) <=> Rooted(frames, globals, lost, c) \/ c = m)
    BY <1>1, <1>2, NewEntry, SMTT(60)
  <1>5. /\ Roots(t, globals, lo)
        /\ \A c : c # 0 => (Rooted(t, globals, lo, c) <=> Rooted(frames, globals, lost, c) \/ c = m)
    BY <1>3, <1>4
  <1> QED BY <1>1, <1>5, OneRoot

LEMMA NewGlobalRoot ==
  ASSUME Inv1, Counted, NEW n \in Name, NEW gl, gl = PutName(globals, n, Len(cells) + 1),
         NEW lo, lo = lost \cup ({globals[n]} \ {0}), NEW m, m = Len(cells) + 1
  PROVE  RootsGrow(frames, globals, lost, Len(cells), m, frames, gl, lo)
  <1>1. /\ Len(cells) \in Nat /\ m \in Nat /\ m # 0 /\ ~ Rooted(frames, globals, lost, m)
        /\ \A c \in Nat : c > Len(cells) => ~ Rooted(frames, globals, lost, c)
        /\ Roots(frames, globals, lost) /\ globals \in [Name -> Nat]
    BY RootsNow
  <1>2. /\ Roots(frames, PutName(globals, n, m), lost \cup ({globals[n]} \ {0}))
        /\ \A c : c # 0 => (Rooted(frames, PutName(globals, n, m), lost \cup ({globals[n]} \ {0}), c) <=> Rooted(frames, globals, lost, c) \/ c = m)
    BY <1>1, NewName, ZenonT(60)
  <1>3. gl = PutName(globals, n, m)
    OBVIOUS
  <1>4. /\ Roots(frames, gl, lo)
        /\ \A c : c # 0 => (Rooted(frames, gl, lo, c) <=> Rooted(frames, globals, lost, c) \/ c = m)
    BY <1>2, <1>3
  <1> QED BY <1>1, <1>4, OneRoot

LEMMA OverwriteSame ==
  ASSUME Inv1, NEW o \in DOMAIN objs
  PROVE  SameCaptures(objs, Overwrite(o))
  BY OverwriteFacts DEF SameCaptures

LEMMA ForgetSame ==
  ASSUME Inv1, NEW v \in AnyValue, ValueIn(v, Len(objs))
  PROVE  SameCaptures(objs, Forget(v))
  BY ForgetFacts DEF SameCaptures

LEMMA StoreLocalCells ==
  ASSUME Inv1, Counted, StoreLocal
  PROVE  Counted'
  <1> DEFINE old == Frame[Top.ctx][S.id]
             c == IF old = 0 THEN Len(cells) + 1 ELSE old
             f == Put(Frame, Top.ctx, S.id, c)
  <1>1. /\ status = "run" /\ work = << >> /\ Top.ctx \in Block /\ S.id \in Name
        /\ old \in 0 .. Len(cells) /\ c \in 1 .. Len(cells')
        /\ cells' = IF old = 0 THEN Append(cells, NewCell(Nil)) ELSE cells
        /\ frames' = SetFrame(f)
        /\ objs' = IF old # 0 /\ cells[old].value # Nil THEN Overwrite(cells[old].value) ELSE objs
        /\ work' = <<Write(c, Top.val), Add(Top.val), Drop(Top.val)>>
        /\ globals' = globals /\ lost' = lost /\ (old = 0 => Len(cells') = Len(cells) + 1)
    BY StoreLocalForm DEF Put
  <1>2. old = Frame[Top.ctx][S.id] /\ c = (IF old = 0 THEN Len(cells) + 1 ELSE old)
    OBVIOUS
  <1>3. f = Put(Frame, Top.ctx, S.id, c)
    OBVIOUS
  <1>4. NoUnrefs(work')
    <2>1. \A u, v : Write(u, v).op = "write" /\ Add(v).op = "add" /\ Drop(v).op = "drop"
      BY DEF Write, Add, Drop
    <2> HIDE DEF c
    <2>2. \A i \in DOMAIN work' : work'[i] \in {Write(c, Top.val), Add(Top.val), Drop(Top.val)}
      BY <1>1
    <2> QED BY <2>1, <2>2 DEF NoUnrefs
  <1>5. SameCaptures(objs, objs')
    <2>1. CASE old # 0 /\ cells[old].value # Nil
      <3>1. old \in DOMAIN cells
        BY <1>1, <2>1, StateFacts, ZenonT(60)
      <3>2. cells[old].value \in DOMAIN objs
        BY <2>1, <3>1, StateFacts DEF ValueIn
      <3> QED BY <1>1, <2>1, <3>2, OverwriteSame, SMTT(60)
    <2>2. CASE ~ (old # 0 /\ cells[old].value # Nil)
      BY <1>1, <2>2, SameCapturesSame
    <2> QED BY <2>1, <2>2
  <1> HIDE DEF old, c, f
  <1>6. CASE old = 0
    <2>1. cells' = Append(cells, NewCell(Nil)) /\ c = Len(cells) + 1 /\ Len(cells') = Len(cells) + 1
      BY <1>1, <1>2, <1>6
    <2>2. lost' = lost \cup ({Frame[Top.ctx][S.id]} \ {0})
      BY <1>1, <1>2, <1>6
    <2>3. frames' = SetFrame(Put(Frame, Top.ctx, S.id, Len(cells) + 1))
      BY <1>1, <1>3, <2>1
    <2>4. RootsGrow(frames, globals, lost, Len(cells), Len(cells'), frames', globals, lost')
      BY <1>1, <2>1, <2>2, <2>3, NewLocalRoot
    <2>5. Nil \in AnyValue /\ cells \in Seq(AnyCell) /\ Len(cells) \in Nat
      BY KeptTypes DEF AnyValue
    <2>6. CellsGrow(cells, cells', NoNames)
      BY <2>1, <2>5, CellsKept, CellsGrowMore
    <2>7. Captures(objs, objs', NoNames) /\ NamesIn(NoNames, Len(cells))
      BY <1>5, <2>5, NoCapture, NothingCaptured
    <2> QED BY <1>1, <1>4, <2>4, <2>6, <2>7, GrowStep
  <1>7. CASE old # 0
    <2>1. c = Frame[Top.ctx][S.id] /\ cells' = cells /\ Frame \in AnyStore /\ c \in Nat
      BY <1>1, <1>2, <1>7, RunFacts
    <2> DEFINE b == Top.ctx
               n == S.id
    <2>6. b \in Block /\ n \in Name /\ Frame \in AnyStore /\ c \in Nat /\ f = Put(Frame, b, n, c)
      BY <1>1, <1>3, <2>1
    <2> HIDE DEF b, n
    <2>7. f \in AnyStore /\ \A x \in Block, k \in Name : f[x][k] = IF x = b /\ k = n THEN c ELSE Frame[x][k]
      BY <2>6, EntryPut
    <2>5. f \in AnyStore /\ \A x \in Block, k \in Name : f[x][k] = IF x = Top.ctx /\ k = S.id THEN c ELSE Frame[x][k]
      BY <2>7 DEF b, n
    <2>2. f \in AnyStore /\ \A x \in Block, k \in Name : f[x][k] = Frame[x][k]
      BY <2>1, <2>5
    <2>3. f = Frame
      <3>1. ASSUME NEW x \in Block PROVE f[x] = Frame[x]
        <4>1. f[x] \in [Name -> Nat] /\ Frame[x] \in [Name -> Nat] /\ \A k \in Name : f[x][k] = Frame[x][k]
          BY <2>1, <2>2 DEF AnyStore
        <4> QED BY <4>1
      <3> QED BY <2>1, <2>2, <3>1 DEF AnyStore
    <2>4. frames' = frames
      <3>1. frames \in Seq(AnyStore) /\ Frame = frames[Len(frames)]
        BY <1>1, KeptTypes, RunFacts
      <3> QED BY <1>1, <2>3, <3>1 DEF SetFrame
    <2> QED BY <1>1, <1>4, <1>5, <2>1, <2>4, NoPlaceMoves
  <1> QED BY <1>6, <1>7

(* The block of a loop that begins has no entries.                         *)
LEMMA LoopIsNew ==
  ASSUME Inv1, status = "run", Top.op # "chunk", NEW b \in Block, Parent[b] = Top.ctx, NEW n \in Name
  PROVE  Frame[b][n] = 0
  <1>1. /\ Owned(acts, frames) /\ Shape(acts) /\ acts \in Seq(AnyAct) /\ Top = acts[Len(acts)] /\ Top.level = Len(frames)
        /\ Frame = frames[Len(frames)] /\ Len(frames) \in DOMAIN frames
    BY RunFacts
  <1>2. /\ acts[1].level =< Top.level /\ DOMAIN acts = 1 .. Len(acts) /\ Len(acts) \in Nat /\ Top.ctx \in Block
        /\ \A k \in DOMAIN acts : acts[k].ctx \in Block
        /\ acts[1].level \in Nat /\ Top.level \in Nat
    BY <1>1, StackFacts
  <1>3. Depth[b] = Depth[Top.ctx] + 1 /\ Depth[Top.ctx] \in Nat
    BY <1>2, TreeFacts
  <1>4. SUFFICES ASSUME Frame[b][n] # 0 PROVE FALSE
    OBVIOUS
  <1>5. Len(frames) >= acts[1].level
    BY <1>1, <1>2
  <1>6. PICK k \in DOMAIN acts : acts[k].op \in Owner /\ acts[k].level = Len(frames) /\ acts[k].ctx = b
    BY <1>1, <1>4, <1>5 DEF Owned
  <1>7. CASE k = Len(acts)
    BY <1>1, <1>3, <1>6, <1>7
  <1>8. CASE k # Len(acts)
    <2>1. k < Len(acts) /\ Len(acts) \in DOMAIN acts
      BY <1>2, <1>8
    <2>2. Nested(acts[k], Top)
      BY <1>1, <2>1 DEF Shape
    <2>3. Depth[b] =< Depth[Top.ctx]
      BY <1>1, <1>6, <2>2 DEF Nested
    <2> QED BY <1>3, <2>3
  <1> QED BY <1>7, <1>8

LEMMA StartForCells ==
  ASSUME Inv1, Counted, StartFor
  PROVE  Counted'
  <1>1. /\ status = "run" /\ work = << >> /\ Top.op # "chunk" /\ Top.ctx \in Block /\ S.id \in Name
        /\ S.blk \in Block /\ Parent[S.blk] = Top.ctx
        /\ cells' = Append(cells, NewCell(Nil))
        /\ frames' = SetFrame(Put(Frame, S.blk, S.id, Len(cells) + 1))
        /\ globals' = globals /\ objs' = objs /\ work' = work /\ lost' = lost
    BY StartForForm
  <1>2. Frame[S.blk][S.id] = 0
    BY <1>1, LoopIsNew
  <1>3. lost' = lost \cup ({Frame[S.blk][S.id]} \ {0})
    BY <1>1, <1>2
  <1>4. Nil \in AnyValue /\ cells \in Seq(AnyCell) /\ Len(cells) \in Nat
    BY KeptTypes DEF AnyValue
  <1>5. CellsGrow(cells, cells', NoNames) /\ Len(cells') = Len(cells) + 1
    BY <1>1, <1>4, CellsKept, CellsGrowMore
  <1>6. RootsGrow(frames, globals, lost, Len(cells), Len(cells'), frames', globals, lost')
    BY <1>1, <1>3, <1>5, NewLocalRoot
  <1>7. Captures(objs, objs', NoNames) /\ NamesIn(NoNames, Len(cells))
    BY <1>1, <1>4, NoCapture, SameCapturesSame, NothingCaptured
  <1>8. NoUnrefs(work')
    BY <1>1 DEF NoUnrefs
  <1> QED BY <1>1, <1>5, <1>6, <1>7, <1>8, GrowStep, SMTT(60)

LEMMA DefineFunctionCells ==
  ASSUME Inv1, Counted, DefineFunction
  PROVE  Counted'
  <1> DEFINE b == Top.ctx
             n == S.id
             c == Len(cells) + 1
             old == IF S.op = "function" THEN globals[n] ELSE Frame[b][n]
             x == NewObj(S.e.f, Top.env, 1)
             g == x.closure
             r == Referenced(g)
             y == Len(objs) + 1
  <1>1. /\ status = "run" /\ work = << >> /\ b \in Block /\ n \in Name /\ S.e.f \in Body
        /\ S.op \in {"function", "localfunction"}
        /\ objs' = Append(objs, x)
        /\ cells' = Append(Referenced(Closure(S.e.f)), NewCell(y))
        /\ lost' = lost \cup ({old} \ {0})
        /\ S.op = "function" => globals' = PutName(globals, n, c) /\ frames' = frames
        /\ S.op = "localfunction" => frames' = SetFrame(Put(Frame, b, n, c)) /\ globals' = globals
        /\ work' = work
    <2>1. /\ status = "run" /\ work = << >> /\ b \in Block /\ n \in Name /\ S.e.f \in Body
          /\ S.op \in {"function", "localfunction"}
          /\ objs' = Append(objs, x)
          /\ cells' = Append(Referenced(Closure(S.e.f)), NewCell(y))
          /\ lost' = lost \cup ({old} \ {0})
          /\ work' = work
      BY DefineFunctionForm DEF OldEntry
    <2>2. /\ S.op = "function" => globals' = PutName(globals, n, c) /\ frames' = frames
          /\ S.op = "localfunction" => frames' = SetFrame(Put(Frame, b, n, c)) /\ globals' = globals
      BY DefineFunctionForm DEF OldEntry
    <2> QED BY <2>1, <2>2
  <1>2. x \in AnyObj /\ ObjIn(x, Len(cells)) /\ x.closure = Closure(S.e.f) /\ x.live
    BY <1>1, NewObjFacts
  <1>3. (\A k \in Name : g[k] # 0 => \E a \in Block : Frame[a][k] = g[k]) /\ cells' = Append(r, NewCell(y))
    BY <1>1, <1>2, ClosureFacts
  <1>4. cells \in Seq(AnyCell) /\ y \in AnyValue /\ Len(cells) \in Nat
    BY KeptTypes DEF AnyValue
  <1>5. old = IF S.op = "function" THEN globals[n] ELSE Frame[b][n]
    OBVIOUS
  <1> HIDE DEF b, n, x, y, old
  <1>6. NamesDistinct(g) /\ NamesIn(g, Len(cells))
    BY <1>1, <1>2, <1>3, ClosureDistinct DEF ObjIn
  <1>7. Captures(objs, objs', g)
    BY <1>1, <1>2, <1>6, NewCapture
  <1> HIDE DEF g
  <1>8. CellsGrow(cells, r, g) /\ Len(r) = Len(cells)
    BY <1>6, CellsCaptured
  <1> HIDE DEF r
  <1>9. CellsGrow(cells, cells', g) /\ Len(cells') = Len(cells) + 1
    BY <1>3, <1>4, <1>8, CellsGrowMore
  <1>10. RootsGrow(frames, globals, lost, Len(cells), Len(cells'), frames', globals', lost')
    <2>1. CASE S.op = "function"
      <3>1. globals' = PutName(globals, n, Len(cells) + 1) /\ frames' = frames /\ lost' = lost \cup ({globals[n]} \ {0})
        BY <1>1, <1>5, <2>1
      <3>2. RootsGrow(frames, globals, lost, Len(cells), Len(cells'), frames, globals', lost')
        BY <1>1, <1>9, <3>1, NewGlobalRoot
      <3> QED BY <3>1, <3>2
    <2>2. CASE S.op = "localfunction"
      <3>1. frames' = SetFrame(Put(Frame, b, n, Len(cells) + 1)) /\ globals' = globals /\ lost' = lost \cup ({Frame[b][n]} \ {0})
        BY <1>1, <1>5, <2>2
      <3>2. RootsGrow(frames, globals, lost, Len(cells), Len(cells'), frames', globals, lost')
        BY <1>1, <1>9, <3>1, NewLocalRoot
      <3> QED BY <3>1, <3>2
    <2> QED BY <1>1, <2>1, <2>2
  <1>11. NoUnrefs(work')
    BY <1>1 DEF NoUnrefs
  <1> QED BY <1>1, <1>6, <1>7, <1>9, <1>10, <1>11, GrowStep

(* A call: the cells and functions it makes, before its parameter.         *)
LEMMA CalledGrow ==
  ASSUME Inv1, Counted, AtStat(CallOps), S.e.k \in CallKinds, Callable
  PROVE  \E g : /\ NamesIn(g, Len(cells)) /\ Captures(objs, CalledObjs, g) /\ CellsGrow(cells, CalledCells, g)
                /\ RootsGrow(frames, globals, lost, Len(cells), Len(CalledCells), frames, GlobalsWithTarget, lost)
  <1>1. status = "run" /\ (S.e.n = Nil => S.e.f \in Body)
    BY StatFacts
  <1>2. Len(cells) \in Nat
    BY StateFacts
  <1>3. CASE S.e.n = Nil
    <2> DEFINE x == NewObj(S.e.f, Top.env, 0)
               g == x.closure
               r == Referenced(g)
    <2>1. x \in AnyObj /\ ObjIn(x, Len(cells)) /\ x.closure = Closure(S.e.f) /\ x.live
      BY <1>1, <1>3, NewObjFacts
    <2>2. (\A k \in Name : g[k] # 0 => \E a \in Block : Frame[a][k] = g[k])
      BY <1>1, <2>1, ClosureFacts
    <2>3. CalledObjs = Append(objs, x) /\ CalledCells = WithTarget(r)
      BY <1>3, <2>1 DEF CalledObjs, CalledCells
    <2> HIDE DEF x
    <2>4. NamesDistinct(g) /\ NamesIn(g, Len(cells))
      BY <1>1, <2>1, <2>2, ClosureDistinct DEF ObjIn
    <2>5. Captures(objs, CalledObjs, g)
      BY <2>1, <2>3, <2>4, NewCapture
    <2> HIDE DEF g
    <2>6. CellsGrow(cells, r, g) /\ Len(r) = Len(cells)
      BY <2>4, CellsCaptured
    <2> HIDE DEF r
    <2>7. /\ CellsGrow(cells, CalledCells, g)
          /\ RootsGrow(frames, globals, lost, Len(cells), Len(CalledCells), frames, GlobalsWithTarget, lost)
      BY <2>3, <2>6, TargetGrows
    <2> QED BY <2>4, <2>5, <2>7
  <1>4. CASE S.e.n # Nil
    <2>1. CalledObjs = objs /\ CalledCells = WithTarget(cells)
      BY <1>4 DEF CalledObjs, CalledCells
    <2>2. CellsGrow(cells, cells, NoNames) /\ Len(cells) = Len(cells)
      BY CellsKept
    <2>3. /\ CellsGrow(cells, CalledCells, NoNames)
          /\ RootsGrow(frames, globals, lost, Len(cells), Len(CalledCells), frames, GlobalsWithTarget, lost)
      BY <2>1, <2>2, TargetGrows
    <2>4. Captures(objs, CalledObjs, NoNames) /\ NamesIn(NoNames, Len(cells))
      BY <1>2, <2>1, NoCapture, SameCapturesSame, NothingCaptured
    <2> QED BY <2>3, <2>4
  <1> QED BY <1>3, <1>4

(* ... and the frame of the call, with the parameter's cell.               *)
LEMMA ParamRoot ==
  ASSUME NEW fr \in Seq(AnyStore), NEW gl, NEW lo, NEW n \in Nat, NEW m \in Nat, n =< m, NEW gl2 \in [Name -> Nat],
         RootsGrow(fr, gl, lo, n, m, fr, gl2, lo), FramesIn(fr, n), NamesIn(gl2, m), lo \subseteq 1 .. n,
         \A c \in Nat : c > n => ~ Rooted(fr, gl, lo, c)
  PROVE  /\ RootsGrow(fr, gl, lo, n, m, Append(fr, NoStore), gl2, lo)
         /\ \A b \in Block, p \in Name : RootsGrow(fr, gl, lo, n, m + 1, Append(fr, Put(NoStore, b, p, m + 1)), gl2, lo)
  <1> DEFINE t == Append(fr, NoStore)
             d == m + 1
  <1>1. Roots(fr, gl2, lo) /\ \A c \in 1 .. m : Rooted(fr, gl2, lo, c) <=> Rooted(fr, gl, lo, c) \/ c > n
    BY DEF RootsGrow
  <1>2. Roots(t, gl2, lo) /\ \A c : c # 0 => (Rooted(t, gl2, lo, c) <=> Rooted(fr, gl2, lo, c))
    BY <1>1, EmptyFrame
  <1>3. \A c \in 1 .. m : c # 0
    OBVIOUS
  <1> HIDE DEF t
  <1>4. RootsGrow(fr, gl, lo, n, m, t, gl2, lo)
    BY <1>1, <1>2, <1>3 DEF RootsGrow
  <1>5. ~ Rooted(fr, gl2, lo, d) /\ d # 0 /\ d \in Nat
    <2>1. FramesIn(fr, m)
      BY BoundsGrowSeq
    <2>2. lo \subseteq 1 .. m
      OBVIOUS
    <2>3. d \in Nat /\ d > m
      OBVIOUS
    <2> HIDE DEF d
    <2> QED BY <2>1, <2>2, <2>3, NotRooted
  <1>6. ~ Rooted(t, gl2, lo, d)
    BY <1>2, <1>5
  <1>7. d > n /\ (\A c \in 1 .. d : c # 0 /\ (c # d => c \in 1 .. m)) /\ d = m + 1 /\ lo \cup ({0} \ {0}) = lo
    OBVIOUS
  <1>8. ASSUME NEW b \in Block, NEW p \in Name PROVE RootsGrow(fr, gl, lo, n, d, Append(fr, Put(NoStore, b, p, d)), gl2, lo)
    <2> DEFINE u == Append(fr, Put(NoStore, b, p, d))
    <2> HIDE DEF d
    <2>1. TakesPlace(t, u, d, 0)
      BY <1>5, ParamFrame DEF t
    <2> HIDE DEF u
    <2>2. /\ Roots(u, gl2, lo)
          /\ \A c : c # 0 => (Rooted(u, gl2, lo, c) <=> Rooted(t, gl2, lo, c) \/ c = d)
      <3>1. Roots(t, gl2, lo) /\ d # 0 /\ ~ Rooted(t, gl2, lo, d)
        BY <1>2, <1>5, <1>6
      <3> QED BY <2>1, <3>1, NewEntryEmpty, ZenonT(60)
    <2>3. /\ Roots(u, gl2, lo)
          /\ \A c : c # 0 => (Rooted(u, gl2, lo, c) <=> Rooted(fr, gl2, lo, c) \/ c = d)
      BY <1>2, <2>2
    <2>4. ASSUME NEW c \in 1 .. d PROVE Rooted(u, gl2, lo, c) <=> Rooted(fr, gl, lo, c) \/ c > n
      <3>1. CASE c = d
        BY <1>5, <1>7, <2>3, <3>1
      <3>2. CASE c # d
        BY <1>1, <1>7, <2>3, <3>2
      <3> QED BY <3>1, <3>2
    <2>5. RootsGrow(fr, gl, lo, n, d, u, gl2, lo)
      BY <2>3, <2>4 DEF RootsGrow
    <2> QED BY <2>5 DEF u
  <1> QED BY <1>4, <1>8 DEF t

LEMMA EvalCallCells ==
  ASSUME Inv1, Counted, EvalCall
  PROVE  Counted'
  <1>1. /\ AtStat(CallOps) /\ S.e.k \in CallKinds /\ Callable
        /\ cells' = IF Param # Nil THEN Append(CalledCells, NewCell(Arg)) ELSE CalledCells
        /\ objs' = CalledObjs
        /\ frames' = Append(frames, ParamStore)
        /\ work' = IF Param # Nil THEN <<Add(Source), Add(Source), Add(Arg), Add(Arg), Add(Arg)>>
                                  ELSE <<Add(Source), Add(Source), Add(Arg), Add(Arg)>>
        /\ globals' = GlobalsWithTarget /\ lost' = lost
    BY EvalCallForm
  <1>2. work = << >>
    BY <1>1, StatFacts
  <1>3. NoUnrefs(work')
    <2>1. \A v : Add(v).op = "add"
      BY DEF Add
    <2>2. \A i \in DOMAIN work' : work'[i] = Add(Source) \/ work'[i] = Add(Arg)
      BY <1>1
    <2> QED BY <2>1, <2>2 DEF NoUnrefs
  <1> DEFINE n == Len(cells)
             m == Len(CalledCells)
             gl == GlobalsWithTarget
  <1>4. /\ BodyOf \in Block /\ Param \in Name \cup {Nil} /\ Arg \in AnyValue
        /\ n =< m /\ m \in Nat /\ gl \in [Name -> Nat] /\ NamesIn(gl, m)
    BY <1>1, CallFacts
  <1>5. PICK g : /\ NamesIn(g, n) /\ Captures(objs, CalledObjs, g) /\ CellsGrow(cells, CalledCells, g)
                 /\ RootsGrow(frames, globals, lost, n, m, frames, gl, lost)
    BY <1>1, CalledGrow
  <1>6. /\ n \in Nat /\ frames \in Seq(AnyStore) /\ FramesIn(frames, n) /\ lost \subseteq 1 .. n /\ cells \in Seq(AnyCell)
        /\ \A c \in Nat : c > n => ~ Rooted(frames, globals, lost, c)
    BY KeptTypes, RootsNow
  <1>7. m = Len(CalledCells)
    OBVIOUS
  <1> HIDE DEF m, gl
  <1>8. /\ RootsGrow(frames, globals, lost, n, m, Append(frames, NoStore), gl, lost)
        /\ \A b \in Block, p \in Name : RootsGrow(frames, globals, lost, n, m + 1, Append(frames, Put(NoStore, b, p, m + 1)), gl, lost)
    <2> HIDE DEF n
    <2> QED BY <1>4, <1>5, <1>6, ParamRoot
  <1>9. CASE Param = Nil
    <2>1. cells' = CalledCells /\ frames' = Append(frames, NoStore)
      BY <1>1, <1>9 DEF ParamStore
    <2>2. RootsGrow(frames, globals, lost, Len(cells), Len(cells'), frames', globals', lost')
      BY <1>1, <1>7, <1>8, <2>1 DEF gl
    <2> QED BY <1>1, <1>2, <1>3, <1>5, <2>1, <2>2, GrowStep
  <1>10. CASE Param # Nil
    <2>1. cells' = Append(CalledCells, NewCell(Arg)) /\ frames' = Append(frames, Put(NoStore, BodyOf, Param, m + 1)) /\ Param \in Name
      BY <1>1, <1>4, <1>7, <1>10 DEF ParamStore
    <2>2. CellsGrow(cells, cells', g) /\ Len(cells') = m + 1
      BY <1>4, <1>5, <1>6, <1>7, <2>1, CellsGrowMore
    <2>3. RootsGrow(frames, globals, lost, n, m + 1, frames', gl, lost)
      BY <1>4, <1>8, <2>1
    <2>4. RootsGrow(frames, globals, lost, Len(cells), Len(cells'), frames', globals', lost')
      BY <1>1, <2>2, <2>3 DEF gl
    <2> QED BY <1>1, <1>2, <1>3, <1>5, <2>2, <2>4, GrowStep
  <1> QED BY <1>9, <1>10

(* The end of a block, of a round, of a call: the entries that go are the  *)
(* cells that are released.                                                *)
LEMMA UnrefsOwe ==
  ASSUME NEW cs, IsFiniteSet(cs), cs \subseteq Nat
  PROVE  Owes(Unrefs(cs), cs)
  BY UnrefsFacts DEF Owes

LEMMA EraseTrims ==
  ASSUME NEW f \in AnyStore, NEW b \in Block
  PROVE  Trims(f, Erase(f, {b}), CellsOf(f, {b}))
  <1>1. \A x \in Block, n \in Name : Erase(f, {b})[x][n] = IF x \in {b} THEN 0 ELSE f[x][n]
    BY EraseFacts
  <1>2. {b} \subseteq Block
    OBVIOUS
  <1>3. \A c : c \in CellsOf(f, {b}) <=> c # 0 /\ \E x \in {b}, n \in Name : f[x][n] = c
    BY <1>2, CellsOfFacts
  <1> DEFINE t == Erase(f, {b})
             cs == CellsOf(f, {b})
  <1> HIDE DEF t, cs
  <1>4. \A x \in Block, n \in Name : t[x][n] = IF x = b THEN 0 ELSE f[x][n]
    BY <1>1 DEF t
  <1>5. \A c : c \in cs <=> c # 0 /\ \E n \in Name : f[b][n] = c
    BY <1>3 DEF cs
  <1>6. \A x \in Block, n \in Name : t[x][n] = f[x][n] \/ t[x][n] = 0
    BY <1>4
  <1>7. ASSUME NEW c PROVE c \in cs <=> c # 0 /\ \E x \in Block, n \in Name : f[x][n] = c /\ t[x][n] = 0
    BY <1>4, <1>5
  <1> QED BY <1>6, <1>7 DEF Trims, t, cs

LEMMA BlockEndsCells ==
  ASSUME Inv1, Counted, status = "run", work = << >>, Top.ctx \in Block,
         frames' = SetFrame(Erase(Frame, {Top.ctx})), work' = Unrefs(CellsOf(Frame, {Top.ctx})),
         UNCHANGED <<globals, lost, cells, objs>>
  PROVE  Counted'
  <1> DEFINE b == Top.ctx
             f == Erase(Frame, {b})
             cs == CellsOf(Frame, {b})
  <1>1. Frame \in AnyStore /\ Frame = frames[Len(frames)] /\ frames # << >> /\ frames \in Seq(AnyStore)
    BY RunFacts, KeptTypes
  <1>2. f \in AnyStore /\ Trims(Frame, f, cs)
    BY <1>1, EraseFacts, EraseTrims
  <1>3. {b} \subseteq Block
    OBVIOUS
  <1>4. IsFiniteSet(cs) /\ cs \subseteq Nat
    BY <1>1, <1>3, CellsOfFacts
  <1>5. frames' = SetFrame(f) /\ work' = Unrefs(cs)
    OBVIOUS
  <1> HIDE DEF f, cs
  <1>6. Replaces(frames, frames', f) /\ frames' \in Seq(AnyStore)
    BY <1>2, <1>5, FrameReplaced
  <1>7. Trims(frames[Len(frames)], f, cs)
    BY <1>1, <1>2
  <1>8. Sheds(frames, frames', 0, cs)
    BY <1>1, <1>6, <1>7, ShedLast
  <1>9. Owes(work', cs)
    BY <1>4, <1>5, UnrefsOwe
  <1>10. SameCaptures(objs, objs') /\ 0 \in Nat
    BY SameCapturesSame
  <1> QED BY <1>6, <1>8, <1>9, <1>10, ShedStep

LEMMA EndForCells ==
  ASSUME Inv1, Counted, EndFor
  PROVE  Counted'
  <1>1. /\ status = "run" /\ work = << >> /\ frames' = SetFrame(Erase(Frame, {Top.ctx})) /\ work' = Unrefs(CellsOf(Frame, {Top.ctx}))
        /\ UNCHANGED <<globals, lost, cells, objs>>
    BY DEF EndFor, AtFor, Running, memory
  <1>2. Top.ctx \in Block
    BY <1>1, RunFacts, ActFacts
  <1> QED BY <1>1, <1>2, BlockEndsCells

LEMMA FinishBlockCells ==
  ASSUME Inv1, Counted, FinishBlock
  PROVE  Counted'
  <1>1. status = "run" /\ work = << >> /\ UNCHANGED <<globals, lost, cells, objs>> /\ Top.op \in {"block", "forblock"}
    BY DEF FinishBlock, AtEnd, AtBlock, Running, memory
  <1>2. Top.ctx \in Block
    BY <1>1, RunFacts, ActFacts
  <1>3. CASE Top.op = "forblock"
    <2>1. frames' = frames /\ work' = work
      BY <1>3 DEF FinishBlock
    <2>2. SameCaptures(objs, objs') /\ NoUnrefs(work')
      BY <1>1, <2>1, SameCapturesSame DEF NoUnrefs
    <2> QED BY <1>1, <2>1, <2>2, NoPlaceMoves
  <1>4. CASE Top.op = "block"
    <2>1. frames' = SetFrame(Erase(Frame, {Top.ctx})) /\ work' = Unrefs(CellsOf(Frame, {Top.ctx}))
      BY <1>4 DEF FinishBlock, Released
    <2> QED BY <1>1, <1>2, <2>1, BlockEndsCells
  <1> QED BY <1>1, <1>3, <1>4

LEMMA KeepTrims ==
  ASSUME NEW f \in AnyStore, NEW b \in Block, NEW m, NEW cs,
         \A c : c \in cs <=> c # 0 /\ \E n \in Name : n # m /\ f[b][n] = c
  PROVE  Trims(f, Keep(f, b, m), cs)
  <1> DEFINE t == Keep(f, b, m)
  <1>1. \A x \in Block, n \in Name : t[x][n] = IF x = b /\ n # m THEN 0 ELSE f[x][n]
    BY KeepFacts
  <1> HIDE DEF t
  <1>2. \A x \in Block, n \in Name : t[x][n] = f[x][n] \/ t[x][n] = 0
    BY <1>1
  <1>3. ASSUME NEW c PROVE c \in cs <=> c # 0 /\ \E x \in Block, n \in Name : f[x][n] = c /\ t[x][n] = 0
    BY <1>1
  <1> QED BY <1>2, <1>3 DEF Trims, t

LEMMA NextRoundCells ==
  ASSUME Inv1, Counted, NextRound
  PROVE  Counted'
  <1> DEFINE b == Top.ctx
             e == Top.cell
             m == Top.name
             f == Keep(Frame, b, m)
             cs == Others
             u == Write(e, Nil)
  <1>1. /\ status = "run" /\ work = << >> /\ b \in Block /\ e \in DOMAIN cells
        /\ frames' = SetFrame(f) /\ work' = Append(Unrefs(cs), u)
        /\ objs' = Forget(cells[e].value)
        /\ globals' = globals /\ cells' = cells /\ lost' = lost
    BY NextRoundForm
  <1>2. Frame \in AnyStore /\ Frame = frames[Len(frames)] /\ frames # << >> /\ frames \in Seq(AnyStore)
    BY <1>1, RunFacts, KeptTypes
  <1>3. f \in AnyStore /\ Trims(Frame, f, cs)
    <2>1. \A c : c \in cs <=> c # 0 /\ \E n \in Name : n # m /\ Frame[b][n] = c
      BY <1>1, OthersFacts
    <2> HIDE DEF cs, m, b
    <2> QED BY <1>1, <1>2, <2>1, KeepFacts, KeepTrims
  <1>4. IsFiniteSet(cs) /\ cs \subseteq Nat
    <2>1. IsFiniteSet(cs) /\ cs \subseteq 1 .. Len(cells)
      BY <1>1, OthersFacts
    <2> HIDE DEF cs
    <2> QED BY <2>1
  <1>5. SameCaptures(objs, objs')
    <2>1. cells[e].value \in AnyValue /\ ValueIn(cells[e].value, Len(objs))
      BY <1>1, StateFacts
    <2> QED BY <1>1, <2>1, ForgetSame
  <1>6. u \in AnyUpdate /\ \A c : u # Unref(c)
    <2>1. e \in AnyValue /\ Nil \in AnyValue
      BY <1>1, StateFacts DEF AnyValue
    <2> HIDE DEF e
    <2> QED BY <2>1 DEF Write, Unref, AnyUpdate
  <1> HIDE DEF f, cs, u
  <1>7. Owes(work', cs)
    <2>1. Unrefs(cs) \in Seq(AnyUpdate) /\ Owes(Unrefs(cs), cs)
      BY <1>4, UnrefsFacts, UnrefsOwe
    <2>2. ASSUME NEW c PROVE Count(Append(Unrefs(cs), u), Unref(c)) = B(c \in cs)
      <3>1. Count(Append(Unrefs(cs), u), Unref(c)) = Count(Unrefs(cs), Unref(c)) + B(u = Unref(c))
        BY <1>6, <2>1, CountAppend
      <3>2. B(u = Unref(c)) = 0 /\ Count(Unrefs(cs), Unref(c)) = B(c \in cs) /\ B(c \in cs) \in Nat
        BY <1>6, <2>1 DEF Owes, B
      <3> QED BY <3>1, <3>2
    <2> QED BY <1>1, <2>2 DEF Owes
  <1>8. Replaces(frames, frames', f) /\ frames' \in Seq(AnyStore)
    BY <1>1, <1>3, FrameReplaced
  <1>9. Trims(frames[Len(frames)], f, cs)
    BY <1>2, <1>3
  <1>10. Sheds(frames, frames', 0, cs) /\ 0 \in Nat
    BY <1>2, <1>8, <1>9, ShedLast
  <1> QED BY <1>1, <1>5, <1>7, <1>8, <1>10, ShedStep

LEMMA FrontStep ==
  ASSUME Inv1, Counted, status = "run", work = << >>, frames' = Front(frames),
         UNCHANGED <<globals, lost, cells>>, SameCaptures(objs, objs'),
         NEW cs, Holds(Frame, cs), Owes(work', cs)
  PROVE  Counted'
  <1>1. Frame = frames[Len(frames)] /\ frames # << >> /\ frames \in Seq(AnyStore)
    BY RunFacts, KeptTypes
  <1>2. Holds(frames[Len(frames)], cs)
    BY <1>1
  <1>3. Sheds(frames, frames', 0, cs) /\ 0 \in Nat
    BY <1>1, <1>2, ShedFront
  <1>4. frames' \in Seq(AnyStore)
    BY <1>1, FrontFacts
  <1> QED BY <1>3, <1>4, ShedStep

(* The blocks of the innermost call are those above its caller's.          *)
LEMMA CallFrame ==
  ASSUME Inv1, status = "run", Top.op # "chunk", NEW k \in DOMAIN acts, acts[k].op = "call", acts[k].level = Len(frames),
         NEW b \in Block, NEW n \in Name, Frame[b][n] # 0
  PROVE  \E j \in DOMAIN acts : j > k /\ acts[j].op \in Owner /\ acts[j].ctx = b /\ acts[j].base \in DOMAIN blocks
                                /\ blocks[acts[j].base] = b /\ acts[j].base >= acts[k].base
  <1>1. /\ Owned(acts, frames) /\ Shape(acts) /\ Stack(acts, blocks) /\ acts \in Seq(AnyAct)
        /\ Frame = frames[Len(frames)] /\ Len(frames) \in DOMAIN frames
    BY RunFacts
  <1>2. /\ acts[1].level =< acts[k].level /\ DOMAIN acts = 1 .. Len(acts) /\ Len(acts) \in Nat
        /\ acts[1].level \in Nat /\ acts[k].level \in Nat
        /\ \A j \in DOMAIN acts : acts[j].base \in Nat /\ acts[j].level \in Nat
    BY <1>1, StackFacts
  <1>3. Len(frames) >= acts[1].level
    BY <1>2
  <1>4. PICK j \in DOMAIN acts : acts[j].op \in Owner /\ acts[j].level = Len(frames) /\ acts[j].ctx = b
    BY <1>1, <1>3 DEF Owned
  <1>5. j # k
    BY <1>4 DEF Owner
  <1>6. ~ (j < k)
    <2> SUFFICES ASSUME j < k PROVE FALSE
      OBVIOUS
    <2>1. Nested(acts[j], acts[k])
      BY <1>1 DEF Shape
    <2>2. acts[j].level < acts[k].level
      BY <2>1 DEF Nested
    <2> QED BY <1>2, <1>4, <2>2
  <1>7. j > k
    BY <1>2, <1>5, <1>6
  <1>8. Nested(acts[k], acts[j])
    BY <1>1, <1>7 DEF Shape
  <1>9. acts[k].base =< acts[j].base
    BY <1>8 DEF Nested
  <1>10. acts[j].base >= acts[k].base
    BY <1>2, <1>9
  <1>11. acts[j].op \in InBlock
    BY <1>4 DEF Owner, InBlock
  <1>12. acts[j].base \in DOMAIN blocks /\ blocks[acts[j].base] = acts[j].ctx
    BY <1>1, <1>11 DEF Stack, OnBlocks
  <1> QED BY <1>4, <1>7, <1>10, <1>12

LEMMA FinishCallForm ==
  ASSUME Inv1, FinishCall
  PROVE  /\ status = "run" /\ work = << >> /\ Top.op = "call" /\ Top = acts[Len(acts)] /\ Len(acts) \in DOMAIN acts /\ Top.level = Len(frames)
         /\ functions' = Front(functions) /\ frames' = Front(frames)
         /\ objs' = Forget(Top.held[1]) /\ work' = Drops(Tail(Top.held)) /\ acts' = Front(acts)
         /\ UNCHANGED <<scenario, file, status, failed, blocks, globals, cells, lost>>
         /\ Top.held \in Seq(AnyValue) /\ Len(Top.held) = 4 /\ Top.held[1] \in AnyValue /\ ValueIn(Top.held[1], Len(objs))
         /\ Tail(Top.held) \in Seq(AnyValue)
  <1> DEFINE k == Len(acts)
             n == k - 1
  <1>1. /\ status = "run" /\ work = << >> /\ Top.op = "call" /\ functions' = Front(functions) /\ frames' = Front(frames)
        /\ objs' = Forget(Top.held[1]) /\ work' = Drops(Tail(Top.held)) /\ acts' = Front(acts)
        /\ UNCHANGED <<scenario, file, status, failed, blocks, globals, cells, lost>>
    BY DEF FinishCall, Running
  <1>2. k \in DOMAIN acts /\ Top = acts[k] /\ Top.level = Len(frames)
    BY <1>1, RunFacts
  <1>3. acts[k].op = "call"
    BY <1>1, <1>2
  <1>4. n = k - 1
    OBVIOUS
  <1> HIDE DEF k, n
  <1>5. /\ acts[k].held \in Seq(AnyValue) /\ Len(acts[k].held) = 4
        /\ \A i \in DOMAIN acts[k].held : ValueIn(acts[k].held[i], Len(objs))
    BY <1>1, <1>2, <1>3, <1>4, CallerFacts
  <1>6. Top.held[1] \in AnyValue /\ ValueIn(Top.held[1], Len(objs))
    <2> DEFINE vs == acts[k].held
    <2>1. vs \in Seq(AnyValue) /\ Len(vs) = 4 /\ \A i \in DOMAIN vs : ValueIn(vs[i], Len(objs))
      BY <1>5
    <2>2. vs = Top.held
      BY <1>2
    <2> HIDE DEF vs
    <2>3. DOMAIN vs = 1 .. 4 /\ \A i \in DOMAIN vs : vs[i] \in AnyValue
      BY <2>1, LenFacts
    <2>4. 1 \in 1 .. 4
      OBVIOUS
    <2>5. vs[1] \in AnyValue /\ ValueIn(vs[1], Len(objs))
      BY <2>1, <2>3, <2>4
    <2> QED BY <2>2, <2>5
  <1>7. Top.held \in Seq(AnyValue) /\ Len(Top.held) = 4 /\ Top.held # << >>
    <2> DEFINE vs == acts[k].held
    <2>1. vs \in Seq(AnyValue) /\ Len(vs) = 4
      BY <1>5
    <2> HIDE DEF vs
    <2>2. vs # << >>
      BY <2>1, LenFacts
    <2> QED BY <1>2, <2>1, <2>2 DEF vs
  <1>8. Tail(Top.held) \in Seq(AnyValue)
    BY <1>7, TailFacts
  <1> QED BY <1>1, <1>2, <1>6, <1>7, <1>8 DEF k

LEMMA FinishCallCells ==
  ASSUME Inv1, Counted, FinishCall
  PROVE  Counted'
  <1>1. /\ status = "run" /\ work = << >> /\ Top.op = "call" /\ Top = acts[Len(acts)] /\ Len(acts) \in DOMAIN acts /\ Top.level = Len(frames)
        /\ frames' = Front(frames) /\ objs' = Forget(Top.held[1]) /\ work' = Drops(Tail(Top.held))
        /\ UNCHANGED <<globals, cells, lost>>
        /\ Top.held[1] \in AnyValue /\ ValueIn(Top.held[1], Len(objs)) /\ Tail(Top.held) \in Seq(AnyValue)
    BY FinishCallForm
  <1>2. Holds(Frame, {})
    <2> SUFFICES ASSUME NEW b \in Block, NEW n \in Name, Frame[b][n] # 0 PROVE FALSE
      BY DEF Holds
    <2> DEFINE k == Len(acts)
    <2>1. k \in DOMAIN acts /\ acts[k].op = "call" /\ acts[k].level = Len(frames) /\ Top.op # "chunk"
      BY <1>1
    <2>2. DOMAIN acts = 1 .. k /\ k \in Nat
      BY <1>1, RunFacts
    <2> HIDE DEF k
    <2>3. PICK j \in DOMAIN acts : j > k
      BY <1>1, <2>1, CallFrame
    <2> QED BY <2>2, <2>3
  <1>3. Owes(work', {})
    <2>1. NoUnrefs(work')
      BY <1>1, DropsQuiet
    <2> QED BY <2>1, NoUnrefsCount DEF Owes, B
  <1>4. SameCaptures(objs, objs')
    BY <1>1, ForgetSame
  <1> QED BY <1>1, <1>2, <1>3, <1>4, FrontStep

LEMMA CatchReturnCells ==
  ASSUME Inv1, Counted, CatchReturn
  PROVE  Counted'
  <1>1. /\ status = "run" /\ work = << >> /\ Top.op # "chunk" /\ frames' = Front(frames)
        /\ UNCHANGED <<globals, cells, objs, lost>>
    BY CatchReturnForm DEF memory
  <1>2. PICK k \in DOMAIN acts :
          /\ acts[k].op = "call" /\ acts[k].level = Len(frames)
          /\ work' = Unrefs(CellsOf(Frame, Above(acts[k - 1].base))) \o Drops(acts[k].held)
    BY CatchReturnForm
  <1> DEFINE n == k - 1
             p == acts[n].base
             cs == CellsOf(Frame, Above(p))
             vs == acts[k].held
  <1>3. vs \in Seq(AnyValue) /\ acts[k].base = acts[n].base
    BY <1>1, <1>2, CallerFacts
  <1>4. p \in DOMAIN blocks
    BY <1>1, <1>2, CallerBlock
  <1>5. DOMAIN blocks = 1 .. Len(blocks) /\ Len(blocks) \in Nat /\ blocks \in Seq(Block)
    BY StateFacts DEF Inv1, Loose
  <1>6. work' = Unrefs(cs) \o Drops(vs) /\ acts[k].base = p
    BY <1>2, <1>3
  <1> HIDE DEF n, p, vs
  <1>7. Above(p) \subseteq Block
    <2>1. \A m \in p .. Len(blocks) : m \in DOMAIN blocks
      BY <1>4, <1>5
    <2>2. \A m \in DOMAIN blocks : blocks[m] \in Block
      BY <1>5, LenFacts
    <2> QED BY <2>1, <2>2 DEF Above
  <1>8. IsFiniteSet(cs) /\ cs \subseteq 1 .. Len(cells) /\ \A c : c \in cs <=> c # 0 /\ \E b \in Above(p), m \in Name : Frame[b][m] = c
    BY <1>1, <1>7, FrameCells
  <1>9. ASSUME NEW b \in Block, NEW m \in Name, Frame[b][m] # 0 PROVE b \in Above(p)
    <2>1. PICK j \in DOMAIN acts : acts[j].base \in DOMAIN blocks /\ blocks[acts[j].base] = b /\ acts[j].base >= acts[k].base
      BY <1>1, <1>2, <1>9, CallFrame
    <2> DEFINE q == acts[j].base
    <2>2. q \in 1 .. Len(blocks) /\ blocks[q] = b /\ q >= p
      BY <1>5, <1>6, <2>1
    <2> HIDE DEF q
    <2>3. q \in p .. Len(blocks)
      BY <1>4, <1>5, <2>2
    <2> QED BY <2>2, <2>3 DEF Above
  <1> HIDE DEF cs
  <1>10. Holds(Frame, cs)
    BY <1>7, <1>8, <1>9 DEF Holds
  <1>11. cs \subseteq Nat
    BY <1>8, StateFacts
  <1>12. Owes(work', cs)
    <2>1. Unrefs(cs) \in Seq(AnyUpdate) /\ Owes(Unrefs(cs), cs) /\ Drops(vs) \in Seq(AnyUpdate) /\ NoUnrefs(Drops(vs))
      BY <1>3, <1>8, <1>11, UnrefsFacts, UnrefsOwe, DropsFacts, DropsQuiet
    <2> DEFINE s == Unrefs(cs)
               t == Drops(vs)
    <2>2. s \in Seq(AnyUpdate) /\ Owes(s, cs) /\ t \in Seq(AnyUpdate) /\ NoUnrefs(t)
      BY <2>1
    <2> HIDE DEF s, t
    <2>3. ASSUME NEW c PROVE Count(s \o t, Unref(c)) = B(c \in cs)
      <3>1. Count(s \o t, Unref(c)) = Count(s, Unref(c)) + Count(t, Unref(c))
        BY <2>2, CountConcat
      <3>2. Count(s, Unref(c)) = B(c \in cs) /\ Count(t, Unref(c)) = 0 /\ B(c \in cs) \in Nat
        BY <2>2, NoUnrefsCount DEF Owes, B
      <3> QED BY <3>1, <3>2
    <2> QED BY <1>6, <2>3 DEF Owes, s, t
  <1>13. SameCaptures(objs, objs')
    BY <1>1, SameCapturesSame
  <1> QED BY <1>1, <1>10, <1>12, <1>13, FrontStep

(* ~Interpreter: the globals, then the frames.                             *)
LEMMA NoGlobals ==
  ASSUME NEW fr, NEW gl \in [Name -> Nat], NEW lo, 0 \notin lo, Roots(fr, gl, lo)
  PROVE  /\ Roots(fr, NoNames, lo)
         /\ \A c : c # 0 => B(Rooted(fr, gl, lo, c)) = B(Rooted(fr, NoNames, lo, c)) + B(c \in NamesOf(gl))
  <1>1. NoNames \in [Name -> Nat] /\ \A n \in Name : NoNames[n] = 0
    BY DEF NoNames
  <1>2. ASSUME NEW c, c # 0 PROVE ~ InNames(NoNames, c) /\ (c \in NamesOf(gl) <=> InNames(gl, c))
    BY <1>1, <1>2, NamesOfFacts DEF InNames
  <1>3. Roots(fr, NoNames, lo)
    <2>1. NamesDistinct(NoNames)
      BY <1>1 DEF NamesDistinct
    <2>2. Apart(fr, NoNames, lo)
      BY <1>1, <1>2 DEF Apart, Roots
    <2> QED BY <2>1, <2>2 DEF Roots
  <1>4. ASSUME NEW c, c # 0 PROVE B(Rooted(fr, gl, lo, c)) = B(Rooted(fr, NoNames, lo, c)) + B(c \in NamesOf(gl))
    <2>1. ~ InNames(NoNames, c) /\ (c \in NamesOf(gl) <=> InNames(gl, c))
      BY <1>2, <1>4
    <2>2. InNames(gl, c) => ~ InFrames(fr, c) /\ c \notin lo
      BY <1>4 DEF Roots, Apart, InNames
    <2> QED BY <2>1, <2>2 DEF Rooted, B
  <1> QED BY <1>3, <1>4

LEMMA DestroyCells ==
  ASSUME Inv1, Counted, Destroy
  PROVE  Counted'
  <1> DEFINE w == Unrefs(NamesOf(globals))
  <1>1. /\ work = << >> /\ work' = w /\ globals' = NoNames
        /\ UNCHANGED <<frames, cells, objs, lost>>
    BY DEF Destroy, memory, NamesOf
  <1>2. globals \in [Name -> Nat] /\ 0 \notin lost /\ Roots(frames, globals, lost) /\ objs \in Seq(AnyObj)
    BY KeptTypes DEF Counted
  <1>3. /\ Roots(frames, NoNames, lost)
        /\ \A c : c # 0 => B(Rooted(frames, globals, lost, c)) = B(Rooted(frames, NoNames, lost, c)) + B(c \in NamesOf(globals))
    BY <1>2, NoGlobals
  <1>4. Owes(w, NamesOf(globals))
    BY <1>2, NamesOfFacts, UnrefsOwe
  <1> HIDE DEF w
  <1>5. ASSUME NEW c \in DOMAIN cells PROVE cells[c].refs = Due(frames, NoNames, lost, objs, w, c)
    <2>1. c # 0
      BY StateFacts
    <2>2. cells[c].refs = Due(frames, globals, lost, objs, work, c)
      BY DEF Counted, CellLedger
    <2>3. Count(work, Unref(c)) = 0 /\ Count(w, Unref(c)) = B(c \in NamesOf(globals))
      BY <1>1, <1>4, CountEmpty DEF Owes
    <2>4. Cardinality(CapturersIn(objs, c)) \in Nat
      BY <1>2, CapturersType
    <2>5. B(Rooted(frames, globals, lost, c)) = B(Rooted(frames, NoNames, lost, c)) + B(c \in NamesOf(globals))
      BY <1>3, <2>1
    <2>6. B(Rooted(frames, NoNames, lost, c)) \in Nat /\ B(c \in NamesOf(globals)) \in Nat
      BY DEF B
    <2> QED BY <2>2, <2>3, <2>4, <2>5, <2>6 DEF Due
  <1> QED BY <1>1, <1>3, <1>5 DEF Counted, CellLedger

LEMMA DestroyFrameCells ==
  ASSUME Inv1, Counted, DestroyFrame
  PROVE  Counted'
  <1> DEFINE f == Head(frames)
             cs == CellsOf(f, Block)
             t == Tail(frames)
  <1>1. /\ work = << >> /\ frames # << >> /\ work' = Unrefs(cs) /\ frames' = t
        /\ globals' = globals /\ cells' = cells /\ objs' = objs /\ lost' = lost
    BY DEF DestroyFrame, memory
  <1>2. frames \in Seq(AnyStore)
    BY KeptTypes
  <1>3. f \in AnyStore /\ t \in Seq(AnyStore)
    BY <1>1, <1>2, TailFacts
  <1>4. /\ IsFiniteSet(cs) /\ cs \subseteq Nat
        /\ \A c : c \in cs <=> c # 0 /\ \E b \in Block, n \in Name : f[b][n] = c
    <2> HIDE DEF f
    <2> QED BY <1>3, CellsOfFacts
  <1> HIDE DEF cs
  <1>5. Holds(f, cs)
    BY <1>4 DEF Holds
  <1>6. Owes(Unrefs(cs), cs)
    BY <1>4, UnrefsOwe
  <1>7. Sheds(frames, t, 1, cs)
    BY <1>1, <1>2, <1>5, ShedFirst
  <1>8. /\ SameCaptures(objs, objs') /\ frames' \in Seq(AnyStore) /\ 1 \in Nat
        /\ Sheds(frames, frames', 1, cs) /\ Owes(work', cs)
    BY <1>1, <1>3, <1>6, <1>7, SameCapturesSame
  <1> QED BY <1>1, <1>8, ShedStep

-----------------------------------------------------------------------------
(* The counter updates.                                                    *)

LEMMA TailUnrefs ==
  ASSUME Inv1, work # << >>, W.op # "unref"
  PROVE  SameUnrefs(work, Tail(work))
  <1>1. work \in Seq(AnyUpdate) /\ W = Head(work) /\ W \in AnyUpdate /\ Tail(work) \in Seq(AnyUpdate)
    BY WorkFacts, KeptTypes
  <1>2. ASSUME NEW c PROVE Count(Tail(work), Unref(c)) = Count(work, Unref(c))
    <2>1. Head(work) # Unref(c)
      BY <1>1 DEF Unref
    <2>2. Count(work, Unref(c)) = B(Head(work) = Unref(c)) + Count(Tail(work), Unref(c))
      BY <1>1, CountTail
    <2>3. Count(Tail(work), Unref(c)) \in Nat
      BY <1>1, CountType
    <2> QED BY <2>1, <2>2, <2>3 DEF B
  <1> QED BY <1>2 DEF SameUnrefs

LEMMA RecountedSame ==
  ASSUME Inv1, NEW o \in DOMAIN objs, NEW n \in Nat, NEW live \in BOOLEAN, live = objs[o].live
  PROVE  SameCaptures(objs, Recounted(o, n, live))
  BY RecountedFacts DEF SameCaptures

LEMMA AddReferenceCells ==
  ASSUME Inv1, Counted, AddReference
  PROVE  Counted'
  <1>1. /\ work # << >> /\ W.op = "add" /\ work' = Tail(work)
        /\ UNCHANGED <<cells, frames, globals, lost>>
    BY AddReferenceForm
  <1>2. SameCaptures(objs, objs')
    <2>1. CASE objs' = objs
      BY <2>1, SameCapturesSame
    <2>2. CASE /\ W.x \in DOMAIN objs /\ objs[W.x].count + 1 \in Nat
               /\ objs' = Recounted(W.x, objs[W.x].count + 1, objs[W.x].live) /\ objs[W.x].live \in BOOLEAN
      <3> DEFINE o == W.x
                 n == objs[o].count + 1
                 l == objs[o].live
      <3>1. o \in DOMAIN objs /\ n \in Nat /\ l \in BOOLEAN /\ objs' = Recounted(o, n, l) /\ l = objs[o].live
        BY <2>2
      <3> HIDE DEF o, n, l
      <3>2. SameCaptures(objs, Recounted(o, n, l))
        BY <3>1, RecountedSame
      <3> QED BY <3>1, <3>2
    <2> QED BY <2>1, <2>2, AddReferenceForm
  <1>3. SameUnrefs(work, work')
    BY <1>1, TailUnrefs
  <1>4. SameRefs(cells, cells')
    BY <1>1 DEF SameRefs
  <1> QED BY <1>1, <1>2, <1>3, <1>4, SameStep

LEMMA WriteCellCells ==
  ASSUME Inv1, Counted, WriteCell
  PROVE  Counted'
  <1> DEFINE c == W.x
             v == W.v
             r == cells[c].refs
             t == Recelled(c, v, r)
  <1>1. /\ work # << >> /\ c \in DOMAIN cells /\ r \in Nat /\ v \in AnyValue /\ ValueIn(v, Len(objs)) /\ W.op = "write"
        /\ cells' = t /\ work' = Tail(work) /\ r = cells[c].refs
        /\ UNCHANGED <<objs, frames, globals, lost>>
    BY WriteCellForm
  <1> HIDE DEF c, v, r
  <1>2. DOMAIN t = DOMAIN cells /\ \A x \in DOMAIN cells : t[x].refs = IF x = c THEN r ELSE cells[x].refs
    BY <1>1, RecelledFacts
  <1> HIDE DEF t
  <1>3. SameRefs(cells, t)
    BY <1>1, <1>2 DEF SameRefs
  <1>4. SameUnrefs(work, work')
    BY <1>1, TailUnrefs
  <1>5. SameRefs(cells, cells') /\ SameCaptures(objs, objs')
    BY <1>1, <1>3, SameCapturesSame
  <1> QED BY <1>1, <1>4, <1>5, SameStep

(* A release of a function: when it is deleted, the references of its      *)
(* closure become releases to be made.                                     *)
LEMMA ReleaseCells ==
  ASSUME Inv1, Counted, work # << >>, W.op # "unref", NEW o \in AnyValue, ValueIn(o, Len(objs)), Release(o, Tail(work)),
         UNCHANGED <<cells, frames, globals, lost>>
  PROVE  Counted'
  <1> DEFINE rest == Tail(work)
  <1>1. SameUnrefs(work, rest) /\ rest \in Seq(AnyUpdate) /\ Release(o, rest)
    BY TailUnrefs, WorkFacts
  <1>2. SameRefs(cells, cells')
    BY DEF SameRefs
  <1> HIDE DEF rest
  <1>3. CASE objs' = objs /\ work' = rest
    <2>1. SameCaptures(objs, objs') /\ SameUnrefs(work, work')
      BY <1>1, <1>3, SameCapturesSame
    <2> QED BY <1>2, <2>1, SameStep
  <1>4. CASE /\ o \in DOMAIN objs /\ objs[o].live /\ objs[o].count > 1 /\ objs[o].count - 1 \in Nat
             /\ objs' = Recounted(o, objs[o].count - 1, TRUE) /\ work' = rest
    <2> DEFINE n == objs[o].count - 1
    <2>1. n \in Nat /\ objs' = Recounted(o, n, TRUE) /\ o \in DOMAIN objs
      BY <1>4
    <2>4. TRUE = objs[o].live
      <3>1. objs[o] \in AnyObj
        BY <2>1, StateFacts
      <3>2. objs[o].live \in BOOLEAN
        BY <3>1 DEF AnyObj
      <3> QED BY <1>4, <3>2
    <2> HIDE DEF n
    <2>2. SameCaptures(objs, Recounted(o, n, TRUE))
      BY <2>1, <2>4, RecountedSame
    <2>3. SameCaptures(objs, objs') /\ SameUnrefs(work, work')
      BY <1>1, <1>4, <2>1, <2>2
    <2> QED BY <1>2, <2>3, SameStep
  <1>5. CASE /\ o \in DOMAIN objs /\ objs[o].live /\ objs[o].count =< 1
             /\ objs' = Recounted(o, 0, FALSE) /\ work' = Unrefs(NamesOf(objs[o].closure)) \o rest
    <2> DEFINE os == Recounted(o, 0, FALSE)
               g == objs[o].closure
               u == Unrefs(NamesOf(g))
               w == u \o rest
    <2>1. g \in [Name -> Nat] /\ objs \in Seq(AnyObj) /\ o \in DOMAIN objs /\ g = objs[o].closure
      BY <1>5, StateFacts, KeptTypes
    <2>2. /\ DOMAIN os = DOMAIN objs
          /\ \A x \in DOMAIN objs : os[x].closure = objs[x].closure /\ os[x].live = IF x = o THEN FALSE ELSE objs[x].live
      <3> DEFINE z == 0
                 dead == FALSE
      <3>1. os = Recounted(o, z, dead) /\ z \in Nat /\ dead \in BOOLEAN
        OBVIOUS
      <3>3. dead = FALSE
        OBVIOUS
      <3> HIDE DEF z, dead, os
      <3>2. /\ DOMAIN Recounted(o, z, dead) = DOMAIN objs
            /\ \A x \in DOMAIN objs : Recounted(o, z, dead)[x].closure = objs[x].closure
            /\ \A x \in DOMAIN objs : Recounted(o, z, dead)[x].live = IF x = o THEN dead ELSE objs[x].live
        BY <2>1, <3>1, RecountedFacts
      <3> QED BY <3>1, <3>2, <3>3
    <2>3. objs' = os /\ work' = w
      BY <1>5
    <2> HIDE DEF os, g
    <2>4. Deletes(objs, os, o)
      BY <1>5, <2>1, <2>2 DEF Deletes
    <2>5. /\ ClosuresDistinct(os)
          /\ \A c : /\ Cardinality(CapturersIn(os, c)) \in Nat
                    /\ Cardinality(CapturersIn(objs, c)) = Cardinality(CapturersIn(os, c)) + B(InNames(objs[o].closure, c))
      BY <2>1, <2>4, CapturersDeleted DEF Counted
    <2>6. u \in Seq(AnyUpdate) /\ \A c : Count(u, Unref(c)) = B(c \in NamesOf(g))
      BY <2>1, NamesOfFacts, UnrefsFacts
    <2> HIDE DEF u
    <2>7. ASSUME NEW c PROVE Count(w, Unref(c)) = B(c \in NamesOf(g)) + Count(work, Unref(c))
      <3>1. Count(w, Unref(c)) = Count(u, Unref(c)) + Count(rest, Unref(c))
        BY <1>1, <2>6, CountConcat
      <3>2. Count(rest, Unref(c)) = Count(work, Unref(c))
        BY <1>1 DEF SameUnrefs
      <3>3. Count(u, Unref(c)) = B(c \in NamesOf(g))
        BY <2>6
      <3> HIDE DEF w
      <3> QED BY <3>1, <3>2, <3>3
    <2> HIDE DEF w
    <2>8. ASSUME NEW c \in DOMAIN cells PROVE cells[c].refs = Due(frames, globals, lost, os, w, c)
      <3>1. c # 0
        BY StateFacts
      <3>2. cells[c].refs = Due(frames, globals, lost, objs, work, c)
        BY DEF Counted, CellLedger
      <3>3. B(c \in NamesOf(g)) = B(InNames(g, c))
        BY <2>1, <3>1, NamesOfFacts DEF B, InNames
      <3>4. B(InNames(g, c)) \in Nat /\ B(Rooted(frames, globals, lost, c)) \in Nat
        BY DEF B
      <3>5. Count(work, Unref(c)) \in Nat
        BY KeptTypes, CountType
      <3>6. Cardinality(CapturersIn(os, c)) \in Nat /\ Cardinality(CapturersIn(objs, c)) = Cardinality(CapturersIn(os, c)) + B(InNames(g, c))
        BY <2>1, <2>5
      <3>7. Count(w, Unref(c)) = B(InNames(g, c)) + Count(work, Unref(c))
        BY <2>7, <3>3
      <3> QED BY <3>2, <3>4, <3>5, <3>6, <3>7 DEF Due
    <2>9. Roots(frames, globals, lost)
      BY DEF Counted
    <2> QED BY <2>3, <2>5, <2>8, <2>9 DEF Counted, CellLedger
  <1> QED BY <1>1, <1>3, <1>4, <1>5, ReleaseForm

LEMMA RemoveReferenceCells ==
  ASSUME Inv1, Counted, RemoveReference
  PROVE  Counted'
  <1> DEFINE o == W.x
  <1>1. /\ work # << >> /\ W.op # "unref" /\ o \in AnyValue /\ ValueIn(o, Len(objs)) /\ Release(o, Tail(work))
        /\ UNCHANGED <<cells, frames, globals, lost>>
    BY RemoveReferenceForm
  <1> HIDE DEF o
  <1> QED BY <1>1, ReleaseCells

LEMMA ReleaseOldCells ==
  ASSUME Inv1, Counted, ReleaseOld
  PROVE  Counted'
  <1> DEFINE o == cells[W.x].value
  <1>1. /\ work # << >> /\ W.op # "unref" /\ o \in AnyValue /\ ValueIn(o, Len(objs)) /\ Release(o, Tail(work))
        /\ UNCHANGED <<cells, frames, globals, lost>>
    BY ReleaseOldForm
  <1> HIDE DEF o
  <1> QED BY <1>1, ReleaseCells

LEMMA RemoveCellReferenceCells ==
  ASSUME Inv1, Counted, RemoveCellReference, status' # "dangling"
  PROVE  Counted'
  <1> DEFINE c == W.x
             v == cells[c].value
             r == cells[c].refs
             rest == Tail(work)
             m == r - 1
             cs == Recelled(c, v, m)
             w == work'
  <1>1. /\ work # << >> /\ c \in DOMAIN cells /\ r \in Nat /\ v \in AnyValue /\ ValueIn(v, Len(objs)) /\ r # 0
        /\ (r = 1 => cells' = Recelled(c, v, 0) /\ work' = <<Drop(v)>> \o rest)
        /\ (r > 1 => cells' = Recelled(c, v, r - 1) /\ work' = rest)
        /\ objs' = objs /\ frames' = frames /\ globals' = globals /\ lost' = lost
        /\ W.op = "unref" /\ W.v = Nil
    BY RemoveCellReferenceForm
  <1>2. W = Unref(c) /\ W = Head(work) /\ rest \in Seq(AnyUpdate) /\ work \in Seq(AnyUpdate)
    BY <1>1, WorkFacts, UpdateForms, KeptTypes
  <1>3. m \in Nat /\ r = m + 1 /\ cells' = cs /\ w = work' /\ (w = rest \/ w = <<Drop(v)>> \o rest) /\ r = cells[c].refs
    <2>1. r = 1 \/ r > 1
      BY <1>1
    <2>2. m \in Nat /\ r = m + 1 /\ (r = 1 => m = 0)
      BY <1>1
    <2> HIDE DEF c, v, rest, r
    <2>3. r = 1 => cells' = cs
      BY <1>1, <2>2
    <2>4. r > 1 => cells' = cs
      BY <1>1
    <2> QED BY <1>1, <2>1, <2>2, <2>3, <2>4 DEF r
  <1> HIDE DEF c, v, r, rest, m, w
  <1>4. DOMAIN cs = DOMAIN cells /\ \A x \in DOMAIN cells : cs[x].refs = IF x = c THEN m ELSE cells[x].refs
    BY <1>1, <1>3, RecelledFacts
  <1> HIDE DEF cs
  <1>5. ASSUME NEW x PROVE Count(w, Unref(x)) = Count(rest, Unref(x)) /\ Count(rest, Unref(x)) \in Nat
    <2>1. Count(rest, Unref(x)) \in Nat
      BY <1>2, CountType
    <2>2. CASE w = <<Drop(v)>> \o rest
      <3> DEFINE u == <<Drop(v)>>
      <3>1. u \in Seq(AnyUpdate)
        BY <1>1, UpdatesTyped DEF AnyValue
      <3>2. Count(u, Unref(x)) = 0
        <4>1. NoUnrefs(u)
          BY DEF NoUnrefs, Drop
        <4> HIDE DEF u
        <4> QED BY <4>1, NoUnrefsCount
      <3>3. w = u \o rest
        BY <2>2
      <3> HIDE DEF u
      <3>4. Count(u \o rest, Unref(x)) = Count(u, Unref(x)) + Count(rest, Unref(x))
        BY <1>2, <3>1, CountConcat
      <3> QED BY <2>1, <3>2, <3>3, <3>4
    <2> QED BY <1>3, <2>1, <2>2
  <1>6. ASSUME NEW x PROVE Count(work, Unref(x)) = B(c = x) + Count(w, Unref(x))
    <2>1. Count(work, Unref(x)) = B(Head(work) = Unref(x)) + Count(rest, Unref(x))
      BY <1>1, <1>2, CountTail DEF rest
    <2>2. Head(work) = Unref(x) <=> c = x
      BY <1>2, UpdatesDiffer DEF Unref
    <2> QED BY <1>5, <2>1, <2>2 DEF B
  <1>7. ASSUME NEW x \in DOMAIN cs PROVE cs[x].refs = Due(frames, globals, lost, objs, w, x)
    <2>1. x \in DOMAIN cells
      BY <1>4
    <2>2. cells[x].refs = Due(frames, globals, lost, objs, work, x)
      BY <2>1 DEF Counted, CellLedger
    <2>3. Cardinality(CapturersIn(objs, x)) \in Nat
      BY KeptTypes, CapturersType
    <2>4. B(Rooted(frames, globals, lost, x)) \in Nat /\ Count(w, Unref(x)) \in Nat
      BY <1>5 DEF B
    <2>5. cells[x].refs = cs[x].refs + B(c = x) /\ cs[x].refs \in Nat
      <3>1. CASE x = c
        BY <1>3, <1>4, <2>1, <3>1 DEF B
      <3>2. CASE x # c
        <4>1. cs[x].refs = cells[x].refs /\ cells[x].refs \in Nat
          BY <1>4, <2>1, <3>2, StateFacts
        <4> QED BY <3>2, <4>1 DEF B
      <3> QED BY <3>1, <3>2
    <2>6. Count(work, Unref(x)) = B(c = x) + Count(w, Unref(x)) /\ B(c = x) \in Nat
      BY <1>6 DEF B
    <2> DEFINE p == cs[x].refs
               q == cells[x].refs
               k == B(c = x)
               a == Cardinality(CapturersIn(objs, x))
               d == B(Rooted(frames, globals, lost, x))
               y == Count(w, Unref(x))
               z == Count(work, Unref(x))
    <2>7. q = d + a + z /\ q = p + k /\ z = k + y /\ p \in Nat /\ k \in Nat /\ a \in Nat /\ d \in Nat /\ y \in Nat
      BY <2>2, <2>3, <2>4, <2>5, <2>6 DEF Due
    <2>8. p = d + a + y
      <3> HIDE DEF p, q, k, a, d, y, z
      <3> QED BY <2>7
    <2> QED BY <2>8 DEF Due
  <1>8. Roots(frames, globals, lost) /\ ClosuresDistinct(objs)
    BY DEF Counted
  <1> QED BY <1>1, <1>3, <1>7, <1>8 DEF Counted, CellLedger

-----------------------------------------------------------------------------
(* The second invariant holds.                                             *)

LEMMA Inv2Init ==
  ASSUME Init
  PROVE  Inv2
  <1>1. FramesDistinct(frames) /\ ClosuresDistinct(objs) /\ CellLedger
    BY DEF Init, FramesDistinct, ClosuresDistinct, CellLedger
  <1>2. NamesDistinct(globals)
    BY DEF Init, NoNames, NamesDistinct
  <1>3. Apart(frames, globals, lost)
    BY DEF Init, Apart, InFrames
  <1> QED BY <1>1, <1>2, <1>3 DEF Inv2, Counted, Roots

LEMMA VisitSecondCells ==
  ASSUME Inv1, Counted, VisitSecond
  PROVE  Counted'
  <1>1. /\ work = << >> /\ S.id2 \in Name /\ cells' = WithSecond /\ globals' = GlobalsWithSecond
        /\ UNCHANGED <<frames, objs, work, lost>>
    BY VisitSecondForm
  <1>2. SameCaptures(objs, objs') /\ NoUnrefs(work')
    BY <1>1, SameCapturesSame DEF NoUnrefs
  <1>3. CASE Lookup(S.id2) # 0
    <2>1. cells' = cells /\ globals' = globals
      BY <1>1, <1>3 DEF WithSecond, GlobalsWithSecond
    <2> QED BY <1>1, <1>2, <2>1, NoPlaceMoves
  <1>4. CASE Lookup(S.id2) = 0
    <2>1. cells' = Append(cells, NewCell(Nil)) /\ globals' = PutName(globals, S.id2, Len(cells) + 1)
      BY <1>1, <1>4 DEF WithSecond, GlobalsWithSecond
    <2>2. globals[S.id2] = 0
      BY <1>4 DEF Lookup
    <2>3. Nil \in AnyValue /\ cells \in Seq(AnyCell) /\ Len(cells) \in Nat
      BY KeptTypes DEF AnyValue
    <2>4. CellsGrow(cells, cells', NoNames) /\ Len(cells') = Len(cells) + 1
      BY <2>1, <2>3, CellsKept, CellsGrowMore
    <2>5. lost' = lost \cup ({globals[S.id2]} \ {0})
      BY <1>1, <2>2
    <2>6. RootsGrow(frames, globals, lost, Len(cells), Len(cells'), frames, globals', lost')
      BY <1>1, <2>1, <2>4, <2>5, NewGlobalRoot
    <2>7. RootsGrow(frames, globals, lost, Len(cells), Len(cells'), frames', globals', lost')
      BY <1>1, <2>6
    <2>8. Captures(objs, objs', NoNames) /\ NamesIn(NoNames, Len(cells))
      BY <1>2, <2>3, NoCapture, NothingCaptured
    <2> QED BY <1>1, <1>2, <2>4, <2>7, <2>8, GrowStep
  <1> QED BY <1>3, <1>4

LEMMA FillLocalCells ==
  ASSUME Inv1, Counted, FillLocal
  PROVE  Counted'
  <1>1. /\ status = "run" /\ work = << >> /\ Top.ctx \in Block /\ S.id2 \in Name
        /\ cells' = Append(cells, NewCell(Nil))
        /\ lost' = lost \cup ({Frame[Top.ctx][S.id2]} \ {0})
        /\ frames' = SetFrame(Put(Frame, Top.ctx, S.id2, Len(cells) + 1))
        /\ UNCHANGED <<globals, objs, work>>
    BY FillLocalForm
  <1>2. Nil \in AnyValue /\ cells \in Seq(AnyCell) /\ Len(cells) \in Nat
    BY KeptTypes DEF AnyValue
  <1>3. CellsGrow(cells, cells', NoNames) /\ Len(cells') = Len(cells) + 1
    BY <1>1, <1>2, CellsKept, CellsGrowMore
  <1>4. RootsGrow(frames, globals, lost, Len(cells), Len(cells'), frames', globals, lost')
    BY <1>1, <1>3, NewLocalRoot
  <1>5. Captures(objs, objs', NoNames) /\ NamesIn(NoNames, Len(cells))
    BY <1>1, <1>2, NoCapture, SameCapturesSame, NothingCaptured
  <1>6. NoUnrefs(work')
    BY <1>1 DEF NoUnrefs
  <1> QED BY <1>1, <1>3, <1>4, <1>5, <1>6, GrowStep

LEMMA FillAssignCells ==
  ASSUME Inv1, Counted, FillAssign
  PROVE  Counted'
  <1> DEFINE c == Top.fill
             r == cells[c].refs
             v == cells[c].value
  <1>1. /\ c \in DOMAIN cells /\ r \in Nat /\ v \in AnyValue /\ ValueIn(v, Len(objs)) /\ work = << >>
        /\ cells' = Recelled(c, Nil, r) /\ objs' = Forget(v) /\ UNCHANGED <<frames, globals, work, lost>>
    BY FillAssignForm
  <1>2. Nil \in AnyValue /\ ValueIn(Nil, Len(objs))
    BY DEF AnyValue, ValueIn
  <1>3. r = cells[c].refs
    OBVIOUS
  <1> HIDE DEF c, r, v
  <1>4. SameRefs(cells, cells')
    BY <1>1, <1>2, <1>3, RecelledFacts DEF SameRefs
  <1>5. SameCaptures(objs, objs')
    BY <1>1, ForgetSame
  <1>6. SameUnrefs(work, work')
    BY <1>1 DEF SameUnrefs
  <1> QED BY <1>1, <1>4, <1>5, <1>6, SameStep

LEMMA CountedStep ==
  ASSUME Inv1, Counted, Step, Alive'
  PROVE  Counted'
  <1>1. CASE RunFile \/ FinishFile \/ Unwind \/ FailFile \/ Destroy \/ DestroyFrame
    BY <1>1, RunFileCells, FinishFileCells, UnwindCells, DestroyCells, DestroyFrameCells
  <1>2. CASE VisitSecond \/ EvalValue \/ EvalFunction \/ EvalCall \/ ThrowError
    BY <1>2, VisitSecondCells, EvalValueCells, EvalFunctionCells, EvalCallCells, ThrowErrorCells
  <1>3. CASE ReadFreed \/ CallStale \/ Crash \/ CutRun
    BY <1>3 DEF Alive, ReadFreed, CallStale, Crash, CutRun
  <1>4. CASE StoreLocal \/ FillLocal \/ StoreAssign \/ FillAssign \/ Discard \/ DefineFunction
    BY <1>4, StoreLocalCells, FillLocalCells, FillAssignCells, FinishFileCells, DefineFunctionCells
  <1>5. CASE Enter \/ StartFor \/ Round \/ NextRound \/ EndFor
    BY <1>5, FinishFileCells, StartForCells, NextRoundCells, EndForCells
  <1>6. CASE FinishBlock \/ FinishCall \/ CatchReturn \/ ReturnFromChunk
    BY <1>6, FinishBlockCells, FinishCallCells, CatchReturnCells, FinishFileCells
  <1>7. CASE AddReference \/ RemoveReference \/ ReleaseOld \/ WriteCell
    BY <1>7, AddReferenceCells, RemoveReferenceCells, ReleaseOldCells, WriteCellCells
  <1>8. CASE RemoveCellReference
    <2>1. status' # "dangling"
      BY DEF Alive
    <2> QED BY <1>8, <2>1, RemoveCellReferenceCells
  <1> QED BY <1>1, <1>2, <1>3, <1>4, <1>5, <1>6, <1>7, <1>8 DEF Step, Update

LEMMA AliveBefore ==
  ASSUME Step
  PROVE  Alive
  <1>1. CASE RunFile \/ FinishFile \/ Unwind \/ FailFile \/ Destroy \/ DestroyFrame
    BY <1>1, SMTT(60) DEF RunFile, FinishFile, Unwind, FailFile, Destroy, DestroyFrame, Running, Alive
  <1>2. CASE VisitSecond \/ EvalValue \/ EvalFunction \/ EvalCall \/ ThrowError
    BY <1>2 DEF VisitSecond, EvalValue, EvalFunction, EvalCall, ThrowError, AtStat, AtBlock, Running, Alive
  <1>3. CASE ReadFreed \/ CallStale \/ Crash \/ CutRun
    BY <1>3 DEF ReadFreed, CallStale, Crash, CutRun, AtStat, AtBlock, Running, Alive
  <1>4. CASE StoreLocal \/ FillLocal \/ StoreAssign \/ FillAssign \/ Discard \/ DefineFunction
    BY <1>4 DEF StoreLocal, FillLocal, AtFill, StoreAssign, FillAssign, Discard, DefineFunction, AtStore, AtStat, AtBlock, Running, Alive
  <1>5. CASE Enter \/ StartFor \/ Round \/ NextRound \/ EndFor
    BY <1>5 DEF Enter, StartFor, Round, NextRound, EndFor, AtFor, AtStat, AtBlock, Running, Alive
  <1>6. CASE FinishBlock \/ FinishCall \/ CatchReturn \/ ReturnFromChunk
    BY <1>6 DEF FinishBlock, FinishCall, CatchReturn, ReturnFromChunk, AtEnd, AtStore, AtBlock, Running, Alive
  <1>7. CASE AddReference \/ RemoveReference \/ ReleaseOld \/ WriteCell \/ RemoveCellReference
    BY <1>7 DEF AddReference, RemoveReference, ReleaseOld, WriteCell, RemoveCellReference, Updating, Alive
  <1> QED BY <1>1, <1>2, <1>3, <1>4, <1>5, <1>6, <1>7 DEF Step, Update

LEMMA Inv2Next ==
  ASSUME Inv1, Inv2, [Next]_vars
  PROVE  Inv2'
  <1>1. CASE Step
    BY <1>1, AliveBefore, CountedStep DEF Inv2
  <1>2. CASE UNCHANGED vars
    BY <1>2 DEF vars, control, stores, memory, Inv2, Alive, Counted, CellLedger
  <1> QED BY <1>1, <1>2 DEF Next, Ended

LEMMA Inv2Holds == Spec => []Inv2
  <1>1. Init => Inv2
    BY Inv2Init
  <1>2. Inv1 /\ Inv2 /\ [Next]_vars => Inv2'
    BY Inv2Next
  <1> QED BY <1>1, <1>2, Inv1Holds, PTL DEF Spec

-----------------------------------------------------------------------------
(* From the ledger to the places of a cell.                                *)
FramePlaces(c) == {e \in (DOMAIN frames) \X Block \X Name : frames[e[1]][e[2]][e[3]] = c}
GlobalPlaces(c) == {n \in Name : globals[n] = c}
ClosurePlaces(c) == {e \in (DOMAIN objs) \X Name : objs[e[1]].live /\ objs[e[1]].closure[e[2]] = c}

LEMMA AtMostOne ==
  ASSUME NEW T, NEW p, p <=> T # {}, \A a, b \in T : a = b
  PROVE  Cardinality(T) = B(p)
  <1>1. CASE T = {}
    BY <1>1, FS_EmptySet DEF B
  <1>2. CASE T # {}
    <2>1. PICK a \in T : TRUE
      BY <1>2
    <2>2. T = {a}
      OBVIOUS
    <2>3. Cardinality({a}) = 1
      BY FS_Singleton
    <2> QED BY <1>2, <2>2, <2>3 DEF B
  <1> QED BY <1>1, <1>2

LEMMA FramePlacesCount ==
  ASSUME NEW c, c # 0, FramesDistinct(frames)
  PROVE  Cardinality(FramePlaces(c)) = B(InFrames(frames, c))
  <1>1. ASSUME NEW e \in FramePlaces(c)
        PROVE  /\ e[1] \in DOMAIN frames /\ e[2] \in Block /\ e[3] \in Name /\ e = <<e[1], e[2], e[3]>>
               /\ frames[e[1]][e[2]][e[3]] = c
    BY DEF FramePlaces
  <1>2. ASSUME NEW l \in DOMAIN frames, NEW b \in Block, NEW n \in Name, frames[l][b][n] = c
        PROVE  <<l, b, n>> \in FramePlaces(c)
    BY <1>2 DEF FramePlaces
  <1>3. InFrames(frames, c) <=> FramePlaces(c) # {}
    <2>1. InFrames(frames, c) => FramePlaces(c) # {}
      BY <1>2 DEF InFrames
    <2>2. ASSUME NEW e \in FramePlaces(c) PROVE InFrames(frames, c)
      BY <1>1 DEF InFrames
    <2> QED BY <2>1, <2>2
  <1>4. ASSUME NEW d \in FramePlaces(c), NEW e \in FramePlaces(c) PROVE d = e
    <2> DEFINE k == d[1]
               a == d[2]
               m == d[3]
               l == e[1]
               b == e[2]
               n == e[3]
    <2>1. /\ k \in DOMAIN frames /\ a \in Block /\ m \in Name /\ l \in DOMAIN frames /\ b \in Block /\ n \in Name
          /\ frames[k][a][m] = frames[l][b][n] /\ frames[k][a][m] # 0 /\ d = <<k, a, m>> /\ e = <<l, b, n>>
      BY <1>1
    <2> HIDE DEF k, a, m, l, b, n
    <2>2. k = l /\ a = b /\ m = n
      BY <2>1 DEF FramesDistinct
    <2> QED BY <2>1, <2>2
  <1> QED BY <1>3, <1>4, AtMostOne

LEMMA GlobalPlacesCount ==
  ASSUME NEW c, c # 0, NamesDistinct(globals)
  PROVE  Cardinality(GlobalPlaces(c)) = B(InNames(globals, c))
  <1>1. InNames(globals, c) <=> GlobalPlaces(c) # {}
    BY DEF InNames, GlobalPlaces
  <1>2. \A m, n \in GlobalPlaces(c) : m = n
    BY DEF NamesDistinct, GlobalPlaces
  <1> QED BY <1>1, <1>2, AtMostOne

LEMMA ClosurePlacesCount ==
  ASSUME NEW c, c # 0, objs \in Seq(AnyObj), ClosuresDistinct(objs)
  PROVE  Cardinality(ClosurePlaces(c)) = Cardinality(CapturersIn(objs, c))
  <1> DEFINE T == CapturersIn(objs, c)
             P == ClosurePlaces(c)
             at[o \in T] == CHOOSE n \in Name : objs[o].closure[n] = c
             f == [o \in T |-> <<o, at[o]>>]
  <1>1. ASSUME NEW o \in T PROVE at[o] \in Name /\ objs[o].closure[at[o]] = c /\ o \in DOMAIN objs /\ objs[o].live
    BY DEF CapturersIn, InNames
  <1> HIDE DEF at
  <1>2. f \in [T -> P]
    BY <1>1 DEF ClosurePlaces
  <1>3. ASSUME NEW a \in T, NEW b \in T, f[a] = f[b] PROVE a = b
    BY <1>3
  <1>4. ASSUME NEW e \in P PROVE \E o \in T : f[o] = e
    <2>1. /\ e[1] \in DOMAIN objs /\ e[2] \in Name /\ e = <<e[1], e[2]>>
          /\ objs[e[1]].live /\ objs[e[1]].closure[e[2]] = c
      BY DEF ClosurePlaces
    <2>2. e[1] \in T
      BY <2>1 DEF CapturersIn, InNames
    <2>3. at[e[1]] = e[2]
      BY <1>1, <2>1, <2>2 DEF ClosuresDistinct, NamesDistinct
    <2> QED BY <2>1, <2>2, <2>3
  <1> HIDE DEF T, P, f
  <1>5. f \in Bijection(T, P)
    BY <1>2, <1>3, <1>4 DEF Bijection, Injection, Surjection, IsInjective
  <1>6. ExistsBijection(T, P)
    BY <1>5 DEF ExistsBijection
  <1>7. IsFiniteSet(T)
    BY CapturersType DEF T
  <1>8. Cardinality(P) = Cardinality(T)
    BY <1>6, <1>7, FS_Bijection
  <1> QED BY <1>8 DEF T, P

LEMMA LedgerCounts ==
  ASSUME Inv1, Inv2
  PROVE  CellsAreCounted
  <1> SUFFICES ASSUME Settled, NEW c \in DOMAIN cells
               PROVE  cells[c].refs = Cardinality(FramePlaces(c)) + Cardinality(GlobalPlaces(c))
                                        + Cardinality(ClosurePlaces(c)) + Cardinality({c} \cap lost)
    BY TypesFollow DEF CellsAreCounted, FramePlaces, GlobalPlaces, ClosurePlaces
  <1>1. c # 0 /\ objs \in Seq(AnyObj)
    BY StateFacts, KeptTypes
  <1>2. /\ FramesDistinct(frames) /\ NamesDistinct(globals) /\ Apart(frames, globals, lost) /\ ClosuresDistinct(objs)
        /\ cells[c].refs = Due(frames, globals, lost, objs, work, c)
    BY DEF Settled, Inv2, Alive, Counted, Roots, CellLedger
  <1>3. Count(work, Unref(c)) = 0
    BY CountEmpty DEF Settled
  <1>4. Cardinality(FramePlaces(c)) = B(InFrames(frames, c))
    BY <1>1, <1>2, FramePlacesCount
  <1>5. Cardinality(GlobalPlaces(c)) = B(InNames(globals, c))
    BY <1>1, <1>2, GlobalPlacesCount
  <1>6. Cardinality(ClosurePlaces(c)) = Cardinality(CapturersIn(objs, c)) /\ Cardinality(CapturersIn(objs, c)) \in Nat
    BY <1>1, <1>2, ClosurePlacesCount, CapturersType
  <1>7. Cardinality({c} \cap lost) = B(c \in lost)
    <2> DEFINE T == {c} \cap lost
    <2>1. (c \in lost <=> T # {}) /\ \A a, b \in T : a = b
      OBVIOUS
    <2> HIDE DEF T
    <2>2. Cardinality(T) = B(c \in lost)
      BY <2>1, AtMostOne
    <2> QED BY <2>2 DEF T
  <1>8. B(Rooted(frames, globals, lost, c)) = B(InFrames(frames, c)) + B(InNames(globals, c)) + B(c \in lost)
    <2>1. InFrames(frames, c) => ~ InNames(globals, c) /\ c \notin lost
      BY <1>1, <1>2 DEF Apart
    <2>2. InNames(globals, c) => c \notin lost
      BY <1>2 DEF Apart, InNames
    <2> QED BY <2>1, <2>2 DEF Rooted, B
  <1>9. B(InFrames(frames, c)) \in Nat /\ B(InNames(globals, c)) \in Nat /\ B(c \in lost) \in Nat
    BY DEF B
  <1> QED BY <1>2, <1>3, <1>4, <1>5, <1>6, <1>7, <1>8, <1>9 DEF Due

(* Whatever the files declare, close over, assign and return, and also     *)
(* after exceptions and in ~Interpreter: once the updates of a statement   *)
(* are done, Value::_references of a cell is the number of entries of      *)
(* _local_values and _global_values and of closures of functions not       *)
(* deleted that point to it, plus one when `function` or `local function`  *)
(* overwrote its entry.                                                    *)
THEOREM CellCountsAreExact ==
  Spec => []CellsAreCounted
  <1>1. Inv1 /\ Inv2 => CellsAreCounted
    BY LedgerCounts
  <1> QED BY <1>1, Inv1Holds, Inv2Holds, PTL

-----------------------------------------------------------------------------
(* The copies of a value in the activations: slot 0 is val, the others     *)
(* are held.                                                               *)
SlotsOf(a, o) == {i \in 0 .. 4 : (i = 0 /\ a.val = o) \/ (i \in DOMAIN a.held /\ a.held[i] = o)}
SlotsAt(st, j, o) == IF j \in DOMAIN st THEN SlotsOf(st[j], o) ELSE {}
SlotsIn(st, o) == {e \in (DOMAIN st) \X (0 .. 4) : e[2] \in SlotsOf(st[e[1]], o)}
Copies(st, o) == Cardinality(SlotsIn(st, o))
Weight(a, o) == B(a.val = o) + Count(a.held, o)

LEMMA DisjointUnion ==
  ASSUME NEW P, NEW Q, IsFiniteSet(P), IsFiniteSet(Q), P \cap Q = {}
  PROVE  IsFiniteSet(P \cup Q) /\ Cardinality(P \cup Q) = Cardinality(P) + Cardinality(Q)
  <1>1. Cardinality(P \cup Q) = Cardinality(P) + Cardinality(Q) - Cardinality(P \cap Q) /\ IsFiniteSet(P \cup Q)
    BY FS_Union
  <1>2. Cardinality(P) \in Nat /\ Cardinality(Q) \in Nat /\ Cardinality(P \cap Q) = 0
    BY FS_CardinalityType, FS_EmptySet
  <1> QED BY <1>1, <1>2

LEMMA FiveSlots == IsFiniteSet(0 .. 4)
  <1> DEFINE a == 0
             b == 4
  <1>1. a \in Int /\ b \in Int
    OBVIOUS
  <1> HIDE DEF a, b
  <1>2. IsFiniteSet(a .. b)
    BY <1>1, FS_Interval
  <1> QED BY <1>2 DEF a, b

LEMMA SlotsType ==
  ASSUME NEW a, NEW o
  PROVE  IsFiniteSet(SlotsOf(a, o)) /\ Cardinality(SlotsOf(a, o)) \in Nat
  <1>1. IsFiniteSet(0 .. 4)
    BY FiveSlots
  <1>2. SlotsOf(a, o) \in SUBSET (0 .. 4)
    BY DEF SlotsOf
  <1> QED BY <1>1, <1>2, FS_Subset, FS_CardinalityType

LEMMA SlotsAtType ==
  ASSUME NEW st, NEW j, NEW o
  PROVE  IsFiniteSet(SlotsAt(st, j, o)) /\ Cardinality(SlotsAt(st, j, o)) \in Nat /\ SlotsAt(st, j, o) \subseteq 0 .. 4
  <1>1. CASE j \in DOMAIN st
    BY <1>1, SlotsType DEF SlotsAt, SlotsOf
  <1>2. CASE j \notin DOMAIN st
    BY <1>2, FS_EmptySet DEF SlotsAt
  <1> QED BY <1>1, <1>2

LEMMA CopiesType ==
  ASSUME NEW st \in Seq(AnyAct), NEW o
  PROVE  IsFiniteSet(SlotsIn(st, o)) /\ Copies(st, o) \in Nat
  <1>1. IsFiniteSet(0 .. 4) /\ IsFiniteSet(1 .. Len(st)) /\ DOMAIN st = 1 .. Len(st)
    <2>1. Len(st) \in Nat /\ DOMAIN st = 1 .. Len(st)
      BY LenFacts
    <2>2. IsFiniteSet(1 .. Len(st))
      BY <2>1, FS_Interval
    <2> QED BY <2>1, <2>2, FiveSlots
  <1>2. IsFiniteSet((DOMAIN st) \X (0 .. 4))
    BY <1>1, FS_Product
  <1>3. SlotsIn(st, o) \in SUBSET ((DOMAIN st) \X (0 .. 4))
    BY DEF SlotsIn
  <1> QED BY <1>2, <1>3, FS_Subset, FS_CardinalityType DEF Copies

(* An activation has one copy in val and those it holds.                   *)
LEMMA SlotsWeight ==
  ASSUME NEW a \in AnyAct, Len(a.held) =< 4, NEW o
  PROVE  Cardinality(SlotsOf(a, o)) = Weight(a, o) /\ Weight(a, o) \in Nat
  <1> DEFINE P == {i \in {0} : a.val = o}
             Q == Places(a.held, o)
  <1>1. a.held \in Seq(AnyValue) /\ Len(a.held) \in Nat /\ DOMAIN a.held = 1 .. Len(a.held)
    BY ActFacts, LenFacts
  <1>2. IsFiniteSet(Q) /\ Cardinality(Q) = Count(a.held, o) /\ Count(a.held, o) \in Nat
    BY <1>1, CountType DEF Count
  <1>3. IsFiniteSet(P) /\ Cardinality(P) = B(a.val = o)
    <2>1. CASE a.val = o
      <3>1. P = {0}
        BY <2>1
      <3> QED BY <2>1, <3>1, FS_Singleton DEF B
    <2>2. CASE a.val # o
      <3>1. P = {}
        BY <2>2
      <3> QED BY <2>2, <3>1, FS_EmptySet DEF B
    <2> QED BY <2>1, <2>2
  <1>4. P \cap Q = {}
    <2>1. ASSUME NEW i \in Q PROVE i # 0
      BY <1>1 DEF Places
    <2> QED BY <2>1
  <1>5. SlotsOf(a, o) = P \cup Q
    <2>1. \A i \in DOMAIN a.held : i \in 0 .. 4 /\ i # 0
      BY <1>1
    <2>2. 0 \in 0 .. 4
      OBVIOUS
    <2> QED BY <2>1, <2>2 DEF SlotsOf, Places
  <1> HIDE DEF P, Q
  <1>6. Cardinality(P \cup Q) = Cardinality(P) + Cardinality(Q)
    BY <1>2, <1>3, <1>4, DisjointUnion
  <1>7. B(a.val = o) \in Nat
    BY DEF B
  <1> QED BY <1>2, <1>3, <1>5, <1>6, <1>7 DEF Weight

(* The stacks st and st2 have the same copies but for position k.          *)
SlotsBut(st, st2, k, o) == \A j : j # k => SlotsAt(st2, j, o) = SlotsAt(st, j, o)

LEMMA CopiesRow ==
  ASSUME NEW st \in Seq(AnyAct), NEW k, NEW o, NEW Z, Z = {e \in SlotsIn(st, o) : e[1] # k}
  PROVE  IsFiniteSet(Z) /\ Copies(st, o) = Cardinality(Z) + Cardinality(SlotsAt(st, k, o))
  <1> DEFINE T == SlotsAt(st, k, o)
             R == {k} \X T
  <1>1. IsFiniteSet(T) /\ Cardinality(T) \in Nat /\ T \subseteq 0 .. 4
    BY SlotsAtType
  <1>2. IsFiniteSet(Z)
    <2>1. IsFiniteSet(SlotsIn(st, o)) /\ Z \in SUBSET SlotsIn(st, o)
      BY CopiesType
    <2> QED BY <2>1, FS_Subset
  <1>3. SlotsIn(st, o) = Z \cup R
    <2>1. ASSUME NEW e \in SlotsIn(st, o), e[1] = k PROVE e \in R
      <3>1. e \in (DOMAIN st) \X (0 .. 4) /\ e[2] \in SlotsOf(st[e[1]], o)
        BY DEF SlotsIn
      <3>2. e = <<e[1], e[2]>> /\ e[1] \in DOMAIN st
        BY <3>1
      <3> QED BY <2>1, <3>1, <3>2 DEF SlotsAt
    <2>2. ASSUME NEW i \in T PROVE <<k, i>> \in SlotsIn(st, o)
      <3>1. k \in DOMAIN st /\ i \in SlotsOf(st[k], o)
        BY DEF SlotsAt
      <3> QED BY <1>1, <3>1 DEF SlotsIn
    <2>3. \A e \in R : \E i \in T : e = <<k, i>>
      OBVIOUS
    <2>4. R \subseteq SlotsIn(st, o)
      BY <2>2, <2>3
    <2> HIDE DEF R
    <2> QED BY <2>1, <2>4
  <1>4. Z \cap R = {}
    <2>1. \A e \in R : e[1] = k
      OBVIOUS
    <2> HIDE DEF R
    <2> QED BY <2>1
  <1>5. IsFiniteSet(R) /\ Cardinality(R) = Cardinality(T)
    <2> HIDE DEF T
    <2>1. IsFiniteSet({k}) /\ Cardinality({k}) = 1
      BY FS_Singleton
    <2>2. IsFiniteSet({k} \X T) /\ Cardinality({k} \X T) = Cardinality({k}) * Cardinality(T)
      BY <1>1, <2>1, FS_Product
    <2> QED BY <1>1, <2>1, <2>2
  <1> HIDE DEF T, R
  <1>6. Cardinality(Z \cup R) = Cardinality(Z) + Cardinality(R)
    BY <1>2, <1>4, <1>5, DisjointUnion
  <1> QED BY <1>2, <1>3, <1>5, <1>6 DEF Copies, T

LEMMA CopiesMove ==
  ASSUME NEW st \in Seq(AnyAct), NEW st2 \in Seq(AnyAct), NEW k, NEW o, SlotsBut(st, st2, k, o)
  PROVE  Copies(st2, o) + Cardinality(SlotsAt(st, k, o)) = Copies(st, o) + Cardinality(SlotsAt(st2, k, o))
  <1> DEFINE Y == {e \in SlotsIn(st, o) : e[1] # k}
             Z == {e \in SlotsIn(st2, o) : e[1] # k}
  <1>1. IsFiniteSet(Y) /\ Copies(st, o) = Cardinality(Y) + Cardinality(SlotsAt(st, k, o))
    BY CopiesRow
  <1>2. IsFiniteSet(Z) /\ Copies(st2, o) = Cardinality(Z) + Cardinality(SlotsAt(st2, k, o))
    BY CopiesRow
  <1>3. \A e : e \in SlotsIn(st, o) <=> e \in (DOMAIN st) \X (0 .. 4) /\ e[2] \in SlotsAt(st, e[1], o)
    BY DEF SlotsIn, SlotsAt
  <1>4. \A e : e \in SlotsIn(st2, o) <=> e \in (DOMAIN st2) \X (0 .. 4) /\ e[2] \in SlotsAt(st2, e[1], o)
    BY DEF SlotsIn, SlotsAt
  <1>5. ASSUME NEW e \in Y PROVE e \in Z
    <2>1. e \in (DOMAIN st) \X (0 .. 4) /\ e[2] \in SlotsAt(st, e[1], o) /\ e[1] # k
      BY <1>3
    <2>2. e[2] \in SlotsAt(st2, e[1], o)
      BY <2>1 DEF SlotsBut
    <2>3. e[1] \in DOMAIN st2
      BY <2>2 DEF SlotsAt
    <2>4. e \in (DOMAIN st2) \X (0 .. 4)
      BY <2>1, <2>3
    <2> QED BY <1>4, <2>1, <2>2, <2>4
  <1>6. ASSUME NEW e \in Z PROVE e \in Y
    <2>1. e \in (DOMAIN st2) \X (0 .. 4) /\ e[2] \in SlotsAt(st2, e[1], o) /\ e[1] # k
      BY <1>4
    <2>2. e[2] \in SlotsAt(st, e[1], o)
      BY <2>1 DEF SlotsBut
    <2>3. e[1] \in DOMAIN st
      BY <2>2 DEF SlotsAt
    <2>4. e \in (DOMAIN st) \X (0 .. 4)
      BY <2>1, <2>3
    <2> QED BY <1>3, <2>1, <2>2, <2>4
  <1>7. Y = Z
    BY <1>5, <1>6
  <1> HIDE DEF Y, Z
  <1>8. Cardinality(Y) \in Nat /\ Cardinality(SlotsAt(st, k, o)) \in Nat /\ Cardinality(SlotsAt(st2, k, o)) \in Nat
    BY <1>1, FS_CardinalityType, SlotsAtType
  <1> QED BY <1>1, <1>2, <1>7, <1>8

SameCopies(a, b) == a.val = b.val /\ a.held = b.held
NoCopies(a) == a.val = Nil /\ a.held = << >>

LEMMA SlotsSame ==
  ASSUME NEW a, NEW b, SameCopies(a, b), NEW o
  PROVE  SlotsOf(a, o) = SlotsOf(b, o)
  BY DEF SameCopies, SlotsOf

LEMMA SlotsNone ==
  ASSUME NEW a, NoCopies(a), NEW o, o # Nil
  PROVE  SlotsOf(a, o) = {} /\ Weight(a, o) = 0
  <1>1. Count(a.held, o) = 0
    BY CountEmpty DEF NoCopies
  <1>2. DOMAIN a.held = {}
    BY DEF NoCopies
  <1> QED BY <1>1, <1>2 DEF NoCopies, SlotsOf, Weight, B

LEMMA CopiesSome ==
  ASSUME NEW st \in Seq(AnyAct), NEW k \in DOMAIN st, NEW o, SlotsOf(st[k], o) # {}
  PROVE  Copies(st, o) >= 1
  <1>1. PICK i : i \in SlotsOf(st[k], o)
    OBVIOUS
  <1>5. i \in 0 .. 4
    BY <1>1 DEF SlotsOf
  <1>2. <<k, i>> \in SlotsIn(st, o)
    BY <1>1, <1>5 DEF SlotsIn
  <1>3. IsFiniteSet(SlotsIn(st, o)) /\ Copies(st, o) \in Nat
    BY CopiesType
  <1>4. Copies(st, o) # 0
    BY <1>2, <1>3, FS_EmptySet DEF Copies
  <1> QED BY <1>3, <1>4

-----------------------------------------------------------------------------
(* The cells that keep a function.  A cell to be written keeps already     *)
(* what will be written; what it has is kept by the pending release.       *)
WritesTo(w, c) == \E i \in DOMAIN w : w[i].op = "write" /\ w[i].x = c
Keeps(cs, w, o, c) ==
  /\ c \in DOMAIN cs /\ cs[c].refs > 0
  /\ IF WritesTo(w, c) THEN \E i \in DOMAIN w : w[i] = Write(c, o) ELSE cs[c].value = o
Keepers(cs, w, o) == {c \in DOMAIN cs : Keeps(cs, w, o, c)}
DropsOld(cs, w, o) == \E i \in DOMAIN w : w[i].op = "dropold" /\ cs[w[i].x].value = o

LEMMA KeepersType ==
  ASSUME NEW cs \in Seq(AnyCell), NEW w, NEW o
  PROVE  IsFiniteSet(Keepers(cs, w, o)) /\ Cardinality(Keepers(cs, w, o)) \in Nat
  <1>1. DOMAIN cs = 1 .. Len(cs) /\ Len(cs) \in Nat
    BY LenFacts
  <1>2. IsFiniteSet(1 .. Len(cs)) /\ Keepers(cs, w, o) \in SUBSET (1 .. Len(cs))
    BY <1>1, FS_Interval DEF Keepers
  <1> QED BY <1>2, FS_Subset, FS_CardinalityType

KeepersBut(cs, w, cs2, w2, o, k) == \A c : c # k => (Keeps(cs2, w2, o, c) <=> Keeps(cs, w, o, c))

LEMMA KeepersRow ==
  ASSUME NEW cs \in Seq(AnyCell), NEW w, NEW o, NEW k, NEW Z, Z = Keepers(cs, w, o) \ {k}
  PROVE  IsFiniteSet(Z) /\ Cardinality(Z) \in Nat /\ Cardinality(Keepers(cs, w, o)) = Cardinality(Z) + B(Keeps(cs, w, o, k))
  <1>1. IsFiniteSet(Keepers(cs, w, o))
    BY KeepersType
  <1>2. IsFiniteSet(Z) /\ Cardinality(Z) \in Nat
    BY <1>1, FS_Difference, FS_CardinalityType
  <1>3. CASE Keeps(cs, w, o, k)
    <2>1. Keepers(cs, w, o) = Z \cup {k} /\ k \notin Z
      BY <1>3 DEF Keepers, Keeps
    <2>2. Cardinality(Z \cup {k}) = Cardinality(Z) + 1
      BY <1>2, <2>1, FS_AddElement
    <2> QED BY <1>2, <1>3, <2>1, <2>2 DEF B
  <1>4. CASE ~ Keeps(cs, w, o, k)
    <2>1. Keepers(cs, w, o) = Z
      BY <1>4 DEF Keepers
    <2>2. Cardinality(Keepers(cs, w, o)) = Cardinality(Z) /\ B(Keeps(cs, w, o, k)) = 0
      BY <1>4, <2>1 DEF B
    <2> QED BY <1>2, <2>2
  <1> QED BY <1>2, <1>3, <1>4

LEMMA KeepersMove ==
  ASSUME NEW cs \in Seq(AnyCell), NEW w, NEW cs2 \in Seq(AnyCell), NEW w2, NEW o, NEW k, KeepersBut(cs, w, cs2, w2, o, k)
  PROVE  Cardinality(Keepers(cs2, w2, o)) + B(Keeps(cs, w, o, k)) = Cardinality(Keepers(cs, w, o)) + B(Keeps(cs2, w2, o, k))
  <1> DEFINE Y == Keepers(cs, w, o) \ {k}
             Z == Keepers(cs2, w2, o) \ {k}
  <1>1. Cardinality(Y) \in Nat /\ Cardinality(Keepers(cs, w, o)) = Cardinality(Y) + B(Keeps(cs, w, o, k))
    BY KeepersRow
  <1>2. Cardinality(Z) \in Nat /\ Cardinality(Keepers(cs2, w2, o)) = Cardinality(Z) + B(Keeps(cs2, w2, o, k))
    BY KeepersRow
  <1>3. Y = Z
    BY DEF KeepersBut, Keepers, Keeps
  <1>4. B(Keeps(cs, w, o, k)) \in Nat /\ B(Keeps(cs2, w2, o, k)) \in Nat
    BY DEF B
  <1> HIDE DEF Y, Z
  <1> QED BY <1>1, <1>2, <1>3, <1>4

LEMMA KeepersSame ==
  ASSUME NEW cs, NEW w, NEW cs2, NEW w2, NEW o, \A c : Keeps(cs2, w2, o, c) <=> Keeps(cs, w, o, c)
  PROVE  Keepers(cs2, w2, o) = Keepers(cs, w, o)
  BY DEF Keepers, Keeps

(* Updates that only release.                                              *)
Releasing(w) == \A i \in DOMAIN w : w[i].op \in {"unref", "drop"}
NoWrites(w) == \A i \in DOMAIN w : w[i].op # "write"

LEMMA KeepsPlain ==
  ASSUME NEW cs, NEW w, NoWrites(w), NEW o, NEW c
  PROVE  Keeps(cs, w, o, c) <=> c \in DOMAIN cs /\ cs[c].refs > 0 /\ cs[c].value = o
  BY DEF NoWrites, Keeps, WritesTo

LEMMA KeepersPlain ==
  ASSUME NEW cs, NEW w, NoWrites(w), NEW w2, NoWrites(w2), NEW o
  PROVE  Keepers(cs, w, o) = Keepers(cs, w2, o)
  <1>1. ASSUME NEW c PROVE Keeps(cs, w, o, c) <=> Keeps(cs, w2, o, c)
    <2>1. Keeps(cs, w, o, c) <=> c \in DOMAIN cs /\ cs[c].refs > 0 /\ cs[c].value = o
      BY KeepsPlain
    <2>2. Keeps(cs, w2, o, c) <=> c \in DOMAIN cs /\ cs[c].refs > 0 /\ cs[c].value = o
      BY KeepsPlain
    <2> QED BY <2>1, <2>2
  <1> QED BY <1>1, KeepersSame

LEMMA EmptyList ==
  /\ Releasing(<< >>) /\ NoWrites(<< >>) /\ (\A cs, o : ~ DropsOld(cs, << >>, o))
  /\ (\A x : Count(<< >>, x) = 0)
  <1>1. DOMAIN << >> = {}
    OBVIOUS
  <1>2. Releasing(<< >>) /\ NoWrites(<< >>)
    BY <1>1 DEF Releasing, NoWrites
  <1>3. \A cs, o : ~ DropsOld(cs, << >>, o)
    BY <1>1 DEF DropsOld
  <1> QED BY <1>2, <1>3, CountEmpty

LEMMA ReleasingFacts ==
  ASSUME NEW w, Releasing(w)
  PROVE  NoWrites(w) /\ (\A cs, o : ~ DropsOld(cs, w, o)) /\ (\A o : Count(w, Add(o)) = 0)
  <1>1. NoWrites(w) /\ (\A cs, o : ~ DropsOld(cs, w, o))
    BY DEF Releasing, NoWrites, DropsOld
  <1>2. ASSUME NEW o PROVE Count(w, Add(o)) = 0
    <2>1. \A i \in DOMAIN w : w[i] # Add(o)
      BY DEF Releasing, Add
    <2> QED BY <2>1, CountNone
  <1> QED BY <1>1, <1>2

LEMMA UnrefsRelease ==
  ASSUME NEW cs, IsFiniteSet(cs), cs \subseteq Nat
  PROVE  Releasing(Unrefs(cs)) /\ \A o : Count(Unrefs(cs), Drop(o)) = 0
  <1>1. /\ \A k \in DOMAIN Unrefs(cs) : \E c \in cs : Unrefs(cs)[k] = Unref(c)
        /\ \A v : Count(Unrefs(cs), Add(v)) = 0 /\ Count(Unrefs(cs), Drop(v)) = 0
    BY UnrefsFacts
  <1>2. \A c : Unref(c).op = "unref"
    BY DEF Unref
  <1> QED BY <1>1, <1>2 DEF Releasing

LEMMA DropsRelease ==
  ASSUME NEW vs \in Seq(AnyValue)
  PROVE  Releasing(Drops(vs)) /\ \A o : Count(Drops(vs), Drop(o)) = Count(vs, o)
  <1>1. DOMAIN Drops(vs) = DOMAIN vs /\ \A k \in DOMAIN vs : Drops(vs)[k] = Drop(vs[k])
    BY DropsFacts
  <1>2. \A c : Drop(c).op = "drop"
    BY DEF Drop
  <1> QED BY <1>1, <1>2, DropsFacts DEF Releasing

-----------------------------------------------------------------------------
(* The counts of functions.  A function has been counted, or is still to   *)
(* be, once for each cell that keeps it, for each copy, for each leak and  *)
(* for each release still to be made; one that is deleted has no count and *)
(* gets none.                                                              *)
Credit(os, w, o) == os[o].count + Count(w, Add(o))
Debit(os, cs, w, st, o) ==
  Cardinality(Keepers(cs, w, o)) + Copies(st, o) + os[o].leaked + Count(w, Drop(o)) + B(DropsOld(cs, w, o))
Entered(os, cs, w, st, o) ==
  /\ Credit(os, w, o) = Debit(os, cs, w, st, o)
  /\ ~ os[o].live => os[o].count = 0 /\ Count(w, Add(o)) = 0
Books == \A o \in DOMAIN objs : Entered(objs, cells, work, acts, o)

(* A function that is kept, copied or to be released has not been deleted. *)
LEMMA BookFacts ==
  ASSUME Inv1, Books, NEW o \in DOMAIN objs
  PROVE  /\ o # Nil /\ o \in Nat /\ objs[o] \in AnyObj /\ objs[o].count \in Nat /\ objs[o].leaked \in Nat /\ objs[o].live \in BOOLEAN
         /\ Cardinality(Keepers(cells, work, o)) \in Nat /\ Copies(acts, o) \in Nat
         /\ Count(work, Add(o)) \in Nat /\ Count(work, Drop(o)) \in Nat /\ B(DropsOld(cells, work, o)) \in Nat
         /\ objs[o].count + Count(work, Add(o)) =
              Cardinality(Keepers(cells, work, o)) + Copies(acts, o) + objs[o].leaked + Count(work, Drop(o)) + B(DropsOld(cells, work, o))
         /\ ~ objs[o].live => objs[o].count = 0 /\ Count(work, Add(o)) = 0
  <1>1. o \in Nat /\ o # Nil /\ objs[o] \in AnyObj
    BY StateFacts
  <1>2. objs[o].count \in Nat /\ objs[o].leaked \in Nat /\ objs[o].live \in BOOLEAN
    BY <1>1 DEF AnyObj
  <1>3. cells \in Seq(AnyCell) /\ acts \in Seq(AnyAct) /\ work \in Seq(AnyUpdate)
    BY KeptTypes
  <1>4. Cardinality(Keepers(cells, work, o)) \in Nat /\ Copies(acts, o) \in Nat
    BY <1>3, KeepersType, CopiesType
  <1>5. Count(work, Add(o)) \in Nat /\ Count(work, Drop(o)) \in Nat /\ B(DropsOld(cells, work, o)) \in Nat
    BY <1>3, CountType DEF B
  <1>6. Entered(objs, cells, work, acts, o)
    BY DEF Books
  <1> QED BY <1>1, <1>2, <1>4, <1>5, <1>6 DEF Entered, Credit, Debit

LEMMA LiveBecause ==
  ASSUME Inv1, Books, NEW o \in DOMAIN objs,
         \/ \E c : Keeps(cells, work, o, c)
         \/ \E k \in DOMAIN acts : SlotsOf(acts[k], o) # {}
         \/ \E i \in DOMAIN work : work[i] = Drop(o)
  PROVE  objs[o].live
  <1>1. cells \in Seq(AnyCell) /\ acts \in Seq(AnyAct) /\ work \in Seq(AnyUpdate)
    BY KeptTypes
  <1>2. Cardinality(Keepers(cells, work, o)) + Copies(acts, o) + Count(work, Drop(o)) >= 1
    <2>1. ASSUME NEW c, Keeps(cells, work, o, c) PROVE Cardinality(Keepers(cells, work, o)) >= 1
      <3>1. c \in Keepers(cells, work, o)
        BY <2>1 DEF Keepers, Keeps
      <3>2. IsFiniteSet(Keepers(cells, work, o)) /\ Cardinality(Keepers(cells, work, o)) \in Nat
        BY <1>1, KeepersType
      <3>3. Cardinality(Keepers(cells, work, o)) # 0
        BY <3>1, <3>2, FS_EmptySet
      <3> QED BY <3>2, <3>3
    <2>2. ASSUME NEW k \in DOMAIN acts, SlotsOf(acts[k], o) # {} PROVE Copies(acts, o) >= 1
      BY <1>1, <2>2, CopiesSome
    <2>3. ASSUME NEW i \in DOMAIN work, work[i] = Drop(o) PROVE Count(work, Drop(o)) >= 1
      <3>1. Count(work, work[i]) >= 1
        BY <1>1, CountSome
      <3> QED BY <2>3, <3>1
    <2>4. Cardinality(Keepers(cells, work, o)) >= 1 \/ Copies(acts, o) >= 1 \/ Count(work, Drop(o)) >= 1
      BY <2>1, <2>2, <2>3
    <2> QED BY <2>4, BookFacts
  <1> QED BY <1>2, BookFacts

(* Steps from a settled state.                                             *)
LEMMA SettledBook ==
  ASSUME Inv1, Books, work = << >>, NEW o \in DOMAIN objs
  PROVE  objs[o].count = Cardinality(Keepers(cells, << >>, o)) + Copies(acts, o) + objs[o].leaked
  <1>1. Count(work, Add(o)) = 0 /\ Count(work, Drop(o)) = 0 /\ ~ DropsOld(cells, work, o)
    BY EmptyList
  <1>2. B(DropsOld(cells, work, o)) = 0
    BY <1>1 DEF B
  <1> QED BY <1>1, <1>2, BookFacts

LEMMA BookStep ==
  ASSUME Inv1, Books, work = << >>, NEW o \in DOMAIN objs, NEW os, NEW cs \in Seq(AnyCell), NEW w \in Seq(AnyUpdate), NEW st \in Seq(AnyAct),
         os[o].count = objs[o].count, os[o].live = objs[o].live, os[o].leaked \in Nat,
         Count(w, Add(o)) + Cardinality(Keepers(cells, << >>, o)) + Copies(acts, o) + objs[o].leaked =
           Cardinality(Keepers(cs, w, o)) + Copies(st, o) + os[o].leaked + Count(w, Drop(o)) + B(DropsOld(cs, w, o)),
         Count(w, Add(o)) # 0 => objs[o].live
  PROVE  Entered(os, cs, w, st, o)
  <1> DEFINE n == objs[o].count
             l == objs[o].leaked
             h == Cardinality(Keepers(cells, << >>, o))
             p == Copies(acts, o)
             a == Count(w, Add(o))
             r == Cardinality(Keepers(cs, w, o)) + Copies(st, o) + os[o].leaked + Count(w, Drop(o)) + B(DropsOld(cs, w, o))
  <1>1. n = h + p + l
    BY SettledBook
  <1>2. n \in Nat /\ l \in Nat /\ h \in Nat /\ p \in Nat
    BY BookFacts
  <1>3. a \in Nat /\ a + h + p + l = r
    BY CountType
  <1>4. n + a = r
    <2> HIDE DEF n, l, h, p, a, r
    <2> QED BY <1>1, <1>2, <1>3
  <1>5. ~ os[o].live => os[o].count = 0 /\ Count(w, Add(o)) = 0
    BY BookFacts
  <1> QED BY <1>4, <1>5 DEF Entered, Credit, Debit

(* Nothing happens to values.                                              *)
SameBook(os, os2) == \A o \in DOMAIN os : /\ o \in DOMAIN os2 /\ os2[o].count = os[o].count /\ os2[o].live = os[o].live
                                          /\ os2[o].leaked = os[o].leaked
SameKeepers(cs, cs2) == \A o \in Nat : Keepers(cs2, << >>, o) = Keepers(cs, << >>, o)
SameStack(st, st2) == \A o \in Nat : Copies(st2, o) = Copies(st, o)
Silent(w) == Releasing(w) /\ \A o : Count(w, Drop(o)) = 0

LEMMA SilentBook ==
  ASSUME Inv1, Books, work = << >>, NEW o \in DOMAIN objs, NEW os, NEW cs \in Seq(AnyCell), NEW w \in Seq(AnyUpdate), NEW st \in Seq(AnyAct),
         SameBook(objs, os), SameKeepers(cells, cs), SameStack(acts, st), Silent(w)
  PROVE  Entered(os, cs, w, st, o)
  <1>1. o \in Nat /\ objs[o].leaked \in Nat
    BY BookFacts
  <1>2. os[o].count = objs[o].count /\ os[o].live = objs[o].live /\ os[o].leaked = objs[o].leaked
    BY DEF SameBook
  <1>3. Count(w, Add(o)) = 0 /\ ~ DropsOld(cs, w, o) /\ NoWrites(w) /\ Count(w, Drop(o)) = 0
    BY ReleasingFacts DEF Silent
  <1>4. B(DropsOld(cs, w, o)) = 0
    BY <1>3 DEF B
  <1>5. Keepers(cs, w, o) = Keepers(cs, << >>, o)
    BY <1>3, KeepersPlain, EmptyList
  <1>6. Keepers(cs, << >>, o) = Keepers(cells, << >>, o) /\ Copies(st, o) = Copies(acts, o)
    BY <1>1 DEF SameKeepers, SameStack
  <1>7. Cardinality(Keepers(cells, << >>, o)) \in Nat /\ Copies(acts, o) \in Nat
    BY BookFacts
  <1>8. Count(w, Add(o)) + Cardinality(Keepers(cells, << >>, o)) + Copies(acts, o) + objs[o].leaked =
           Cardinality(Keepers(cs, w, o)) + Copies(st, o) + os[o].leaked + Count(w, Drop(o)) + B(DropsOld(cs, w, o))
    BY <1>1, <1>2, <1>3, <1>4, <1>5, <1>6, <1>7
  <1> QED BY <1>1, <1>2, <1>3, <1>8, BookStep

LEMMA SilentStep ==
  ASSUME Inv1, Books, Inv1', work = << >>, objs' = objs, SameKeepers(cells, cells'), SameStack(acts, acts'), Silent(work')
  PROVE  Books'
  <1> DEFINE cs == cells'
             w == work'
             st == acts'
  <1>1. cs \in Seq(AnyCell) /\ w \in Seq(AnyUpdate) /\ st \in Seq(AnyAct) /\ cs = cells' /\ w = work' /\ st = acts'
    BY DEF Inv1, Loose
  <1>2. SameKeepers(cells, cs) /\ SameStack(acts, st) /\ Silent(w) /\ SameBook(objs, objs)
    BY DEF SameBook
  <1> HIDE DEF cs, w, st
  <1>3. ASSUME NEW o \in DOMAIN objs PROVE Entered(objs, cs, w, st, o)
    BY <1>1, <1>2, SilentBook
  <1> QED BY <1>1, <1>3 DEF Books

(* Stacks with the same copies at position j, and copies nowhere else.     *)
Alike(st, st2, j) ==
  /\ j \in DOMAIN st /\ j \in DOMAIN st2 => SameCopies(st[j], st2[j])
  /\ j \in DOMAIN st /\ j \notin DOMAIN st2 => NoCopies(st[j])
  /\ j \in DOMAIN st2 /\ j \notin DOMAIN st => NoCopies(st2[j])
AlikeBut(st, st2, k) == \A j : j # k => Alike(st, st2, j)
WeightAt(st, k, o) == IF k \in DOMAIN st THEN Weight(st[k], o) ELSE 0

LEMMA AlikeSlots ==
  ASSUME NEW st, NEW st2, NEW j, Alike(st, st2, j), NEW o, o # Nil
  PROVE  SlotsAt(st2, j, o) = SlotsAt(st, j, o)
  <1>1. CASE j \in DOMAIN st /\ j \in DOMAIN st2
    BY <1>1, SlotsSame DEF Alike, SlotsAt
  <1>2. CASE j \in DOMAIN st /\ j \notin DOMAIN st2
    BY <1>2, SlotsNone DEF Alike, SlotsAt
  <1>3. CASE j \notin DOMAIN st /\ j \in DOMAIN st2
    BY <1>3, SlotsNone DEF Alike, SlotsAt
  <1>4. CASE j \notin DOMAIN st /\ j \notin DOMAIN st2
    BY <1>4 DEF SlotsAt
  <1> QED BY <1>1, <1>2, <1>3, <1>4

LEMMA WeightFacts ==
  ASSUME NEW st \in Seq(AnyAct), \A i \in DOMAIN st : Len(st[i].held) =< 4, NEW k, NEW o
  PROVE  Cardinality(SlotsAt(st, k, o)) = WeightAt(st, k, o) /\ WeightAt(st, k, o) \in Nat
  <1>1. CASE k \in DOMAIN st
    <2>1. st[k] \in AnyAct
      BY <1>1, LenFacts
    <2> QED BY <1>1, <2>1, SlotsWeight DEF SlotsAt, WeightAt
  <1>2. CASE k \notin DOMAIN st
    BY <1>2, FS_EmptySet DEF SlotsAt, WeightAt
  <1> QED BY <1>1, <1>2

(* What moves when only position k changes.                                *)
LEMMA AlikeMove ==
  ASSUME NEW st \in Seq(AnyAct), \A i \in DOMAIN st : Len(st[i].held) =< 4,
         NEW st2 \in Seq(AnyAct), \A i \in DOMAIN st2 : Len(st2[i].held) =< 4, NEW k, AlikeBut(st, st2, k), NEW o, o # Nil
  PROVE  Copies(st2, o) + WeightAt(st, k, o) = Copies(st, o) + WeightAt(st2, k, o)
  <1>1. SlotsBut(st, st2, k, o)
    <2> SUFFICES ASSUME NEW j, j # k PROVE SlotsAt(st2, j, o) = SlotsAt(st, j, o)
      BY DEF SlotsBut
    <2>1. Alike(st, st2, j)
      BY DEF AlikeBut
    <2> QED BY <2>1, AlikeSlots
  <1>2. Copies(st2, o) + Cardinality(SlotsAt(st, k, o)) = Copies(st, o) + Cardinality(SlotsAt(st2, k, o))
    BY <1>1, CopiesMove
  <1>3. Cardinality(SlotsAt(st, k, o)) = WeightAt(st, k, o) /\ Cardinality(SlotsAt(st2, k, o)) = WeightAt(st2, k, o)
    BY WeightFacts
  <1> QED BY <1>2, <1>3

Short(st) == st \in Seq(AnyAct) /\ \A i \in DOMAIN st : Len(st[i].held) =< 4

LEMMA ShortMove ==
  ASSUME NEW st, Short(st), NEW st2, Short(st2), NEW k, AlikeBut(st, st2, k), NEW o, o # Nil
  PROVE  Copies(st2, o) + WeightAt(st, k, o) = Copies(st, o) + WeightAt(st2, k, o)
  BY AlikeMove DEF Short

LEMMA AlikeSame ==
  ASSUME NEW st \in Seq(AnyAct), NEW st2 \in Seq(AnyAct), \A j : Alike(st, st2, j)
  PROVE  SameStack(st, st2)
  <1> SUFFICES ASSUME NEW o \in Nat PROVE Copies(st2, o) = Copies(st, o)
    BY DEF SameStack
  <1>1. o # Nil
    BY ScenarioAssumption
  <1>2. \A j : SlotsAt(st2, j, o) = SlotsAt(st, j, o)
    BY <1>1, AlikeSlots
  <1>3. SlotsBut(st, st2, 0, o) /\ SlotsAt(st2, 0, o) = SlotsAt(st, 0, o)
    BY <1>2 DEF SlotsBut
  <1> DEFINE z == 0
  <1>4. SlotsBut(st, st2, z, o) /\ SlotsAt(st2, z, o) = SlotsAt(st, z, o)
    BY <1>3
  <1> HIDE DEF z
  <1>5. Copies(st2, o) + Cardinality(SlotsAt(st, z, o)) = Copies(st, o) + Cardinality(SlotsAt(st2, z, o))
    BY <1>4, CopiesMove
  <1>6. Cardinality(SlotsAt(st, z, o)) \in Nat /\ Copies(st, o) \in Nat /\ Copies(st2, o) \in Nat
    BY SlotsAtType, CopiesType
  <1> QED BY <1>4, <1>5, <1>6

(* SetTop changes one activation.                                          *)
LEMMA TopAlike ==
  ASSUME Inv1, status = "run", NEW a \in AnyAct, NEW s, s = SetTop(a)
  PROVE  /\ s \in Seq(AnyAct) /\ DOMAIN s = DOMAIN acts /\ s[Len(acts)] = a /\ \A j \in DOMAIN acts : j # Len(acts) => s[j] = acts[j]
         /\ AlikeBut(acts, s, Len(acts))
  <1>1. acts \in Seq(AnyAct) /\ acts # << >> /\ Len(acts) \in DOMAIN acts
    BY RunFacts, LenFacts
  <1>2. s \in Seq(AnyAct) /\ DOMAIN s = DOMAIN acts /\ s[Len(acts)] = a /\ \A j \in DOMAIN acts : j # Len(acts) => s[j] = acts[j]
    BY <1>1, ReplaceFacts DEF SetTop
  <1>3. AlikeBut(acts, s, Len(acts))
    BY <1>2 DEF AlikeBut, Alike, SameCopies
  <1> QED BY <1>2, <1>3

LEMMA HeldShort ==
  ASSUME Inv1
  PROVE  acts \in Seq(AnyAct) /\ \A k \in DOMAIN acts : Len(acts[k].held) =< 4
  BY KeptTypes

LEMMA PushSame ==
  ASSUME NEW st \in Seq(AnyAct), NEW a \in AnyAct, NoCopies(a), NEW s, s = Append(st, a)
  PROVE  SameStack(st, s)
  <1>1. /\ s \in Seq(AnyAct) /\ DOMAIN s = 1 .. (Len(st) + 1) /\ s[Len(st) + 1] = a /\ \A j \in 1 .. Len(st) : s[j] = st[j]
        /\ DOMAIN st = 1 .. Len(st) /\ Len(st) \in Nat
    BY AppendFacts, LenFacts
  <1>2. ASSUME NEW j PROVE Alike(st, s, j)
    <2>1. CASE j \in DOMAIN st
      BY <1>1, <2>1 DEF Alike, SameCopies
    <2>2. CASE j \notin DOMAIN st /\ j \in DOMAIN s
      <3>1. j = Len(st) + 1
        BY <1>1, <2>2, NotLast
      <3> QED BY <1>1, <2>2, <3>1 DEF Alike
    <2>3. CASE j \notin DOMAIN st /\ j \notin DOMAIN s
      BY <2>3 DEF Alike
    <2> QED BY <2>1, <2>2, <2>3
  <1> QED BY <1>1, <1>2, AlikeSame

LEMMA ReplaceSame ==
  ASSUME Inv1, status = "run", NEW a \in AnyAct, SameCopies(Top, a), NEW s, s = SetTop(a)
  PROVE  SameStack(acts, s) /\ s \in Seq(AnyAct)
  <1>1. /\ s \in Seq(AnyAct) /\ DOMAIN s = DOMAIN acts /\ s[Len(acts)] = a /\ \A j \in DOMAIN acts : j # Len(acts) => s[j] = acts[j]
        /\ acts \in Seq(AnyAct) /\ Top = acts[Len(acts)]
    BY TopAlike, RunFacts
  <1>2. ASSUME NEW j PROVE Alike(acts, s, j)
    <2>1. CASE j \in DOMAIN acts /\ j # Len(acts)
      BY <1>1, <2>1 DEF Alike, SameCopies
    <2>2. CASE j = Len(acts)
      BY <1>1, <2>2 DEF Alike
    <2>3. CASE j \notin DOMAIN acts
      BY <1>1, <2>3 DEF Alike
    <2> QED BY <2>1, <2>2, <2>3
  <1> QED BY <1>1, <1>2, AlikeSame

LEMMA PopSame ==
  ASSUME Inv1, status = "run", Top.op # "chunk", NEW n, n = Len(acts) - 1, NEW a \in AnyAct, SameCopies(acts[n], a), NoCopies(Top),
         NEW s \in Seq(AnyAct), s = [SubSeq(acts, 1, n) EXCEPT ![n] = a]
  PROVE  SameStack(acts, s)
  <1>1. /\ n \in 1 .. Len(acts) /\ n \in Nat /\ Len(acts) = n + 1 /\ acts \in Seq(AnyAct) /\ Top = acts[Len(acts)] /\ DOMAIN acts = 1 .. Len(acts)
        /\ \A k \in DOMAIN acts : k # Len(acts) => k \in 1 .. n
    BY BelowFacts, RunFacts
  <1> DEFINE t == SubSeq(acts, 1, n)
  <1>2. t \in Seq(AnyAct) /\ DOMAIN t = 1 .. n /\ \A k \in 1 .. n : t[k] = acts[k]
    BY <1>1, PrefixFacts
  <1>3. s = [t EXCEPT ![n] = a] /\ n \in DOMAIN t
    BY <1>1, <1>2
  <1> HIDE DEF t
  <1>4. DOMAIN s = DOMAIN t /\ s[n] = a /\ \A k \in DOMAIN t : k # n => s[k] = t[k]
    BY <1>2, <1>3, ReplaceFacts
  <1>5. DOMAIN s = 1 .. n /\ s[n] = a /\ \A k \in 1 .. n : k # n => s[k] = acts[k]
    BY <1>2, <1>4
  <1>6. ASSUME NEW j PROVE Alike(acts, s, j)
    <2>1. CASE j \in 1 .. n /\ j # n
      BY <1>1, <1>5, <2>1 DEF Alike, SameCopies
    <2>2. CASE j = n
      BY <1>1, <1>5, <2>2 DEF Alike
    <2>3. CASE j \in DOMAIN acts /\ j \notin 1 .. n
      <3>1. j = Len(acts)
        BY <1>1, <2>3
      <3> QED BY <1>1, <1>5, <2>3, <3>1 DEF Alike
    <2>4. CASE j \notin DOMAIN acts
      <3>1. j \notin 1 .. n
        BY <1>1, <2>4
      <3> QED BY <1>5, <2>4, <3>1 DEF Alike
    <2> QED BY <1>1, <2>1, <2>2, <2>3, <2>4
  <1> QED BY <1>1, <1>6, AlikeSame

(* The steps that move no value: files begin and end, blocks and loops.    *)
LEMMA NothingSame ==
  /\ \A cs : SameKeepers(cs, cs)
  /\ \A st : SameStack(st, st)
  /\ Silent(<< >>)
  <1>1. Silent(<< >>)
    BY EmptyList DEF Silent
  <1> QED BY <1>1 DEF SameKeepers, SameStack

LEMMA UnrefsSilent ==
  ASSUME NEW cs, IsFiniteSet(cs), cs \subseteq Nat
  PROVE  Silent(Unrefs(cs))
  BY UnrefsRelease DEF Silent

LEMMA NewActCopies ==
  ASSUME NEW op, NEW b, NEW at, NEW env, NEW base, NEW level
  PROVE  NoCopies(NewAct(op, b, at, env, base, level))
  BY DEF NoCopies, NewAct

LEMMA MovedCopies ==
  ASSUME NEW a \in AnyAct
  PROVE  SameCopies(a, NextStat(a)) /\ SameCopies(a, Returned(a)) /\ SameCopies(a, [a EXCEPT !.i = a.i + 1]) /\ SameCopies(a, [a EXCEPT !.at = "stat"])
  BY DEF AnyAct, SameCopies, NextStat, Returned

LEMMA RunFileBooks ==
  ASSUME Inv1, Inv1', Books, RunFile
  PROVE  Books'
  <1> DEFINE st == acts'
  <1>1. /\ status = "idle" /\ work = << >>
        /\ UNCHANGED <<cells, objs, work>>
    BY DEF RunFile, memory
  <1>2. st \in Seq(AnyAct)
    BY DEF Inv1, Loose
  <1>3. acts \in Seq(AnyAct) /\ acts = << >>
    BY <1>1, KeptTypes DEF Inv1, Quiet
  <1>4. \A j \in DOMAIN st : NoCopies(st[j])
    <2>1. \E b, base, level : st = <<NewAct("chunk", b, "body", NoNames, base, level), NewAct("block", b, "stat", NoNames, base + 1, level)>>
      BY DEF RunFile
    <2>2. PICK b, base, level : st = <<NewAct("chunk", b, "body", NoNames, base, level), NewAct("block", b, "stat", NoNames, base + 1, level)>>
      BY <2>1
    <2>3. st[1] = NewAct("chunk", b, "body", NoNames, base, level) /\ st[2] = NewAct("block", b, "stat", NoNames, base + 1, level) /\ DOMAIN st = {1, 2}
      BY <2>2
    <2> HIDE DEF st
    <2> QED BY <2>3, NewActCopies
  <1>5. st = acts'
    OBVIOUS
  <1> HIDE DEF st
  <1>6. \A j : Alike(acts, st, j)
    BY <1>3, <1>4 DEF Alike
  <1>7. SameStack(acts, st)
    BY <1>2, <1>3, <1>6, AlikeSame
  <1>8. SameStack(acts, acts') /\ SameKeepers(cells, cells') /\ Silent(work')
    BY <1>1, <1>5, <1>7, NothingSame
  <1> QED BY <1>1, <1>8, SilentStep

LEMMA FinishFileBooks ==
  ASSUME Inv1, Inv1', Books, FinishFile \/ FailFile
  PROVE  Books'
  <1>1. /\ work = << >> /\ UNCHANGED <<cells, objs, work>>
    BY DEF FinishFile, FailFile, memory, Running
  <1>2. SameStack(acts, acts')
    <2>1. CASE FailFile
      <3>1. acts' = acts
        BY <2>1 DEF FailFile
      <3> QED BY <3>1, NothingSame
    <2>2. CASE FinishFile
      <3> DEFINE st == << >>
      <3>1. status = "run" /\ Top.op = "chunk" /\ acts' = st
        BY <2>2 DEF FinishFile, Running
      <3>2. /\ acts \in Seq(AnyAct) /\ Shape(acts) /\ Top = acts[Len(acts)] /\ Kind(Top) /\ Len(acts) \in DOMAIN acts /\ DOMAIN acts = 1 .. Len(acts)
        BY <3>1, RunFacts
      <3>3. Len(acts) = 1
        BY <3>1, <3>2, StackFacts
      <3>4. NoCopies(Top)
        BY <3>1, <3>2 DEF Kind, Blocky, NoCopies
      <3>5. st \in Seq(AnyAct) /\ DOMAIN st = {}
        OBVIOUS
      <3> HIDE DEF st
      <3>6. ASSUME NEW j PROVE Alike(acts, st, j)
        <4>1. j \in DOMAIN acts => j = 1
          BY <3>2, <3>3
        <4> QED BY <3>2, <3>3, <3>4, <3>5, <4>1 DEF Alike
      <3>7. SameStack(acts, st)
        BY <3>2, <3>5, <3>6, AlikeSame
      <3> QED BY <3>1, <3>7
    <2> QED BY <2>1, <2>2
  <1>3. SameKeepers(cells, cells') /\ Silent(work')
    BY <1>1, NothingSame
  <1> QED BY <1>1, <1>2, <1>3, SilentStep

LEMMA DestroyBooks ==
  ASSUME Inv1, Inv1', Books, Destroy \/ DestroyFrame
  PROVE  Books' /\ Releasing(work')
  <1>1. work = << >> /\ UNCHANGED <<acts, cells, objs>>
    BY DEF Destroy, DestroyFrame, memory
  <1>2. Silent(work')
    <2>1. CASE Destroy
      <3>1. work' = Unrefs(NamesOf(globals))
        BY <2>1 DEF Destroy, NamesOf
      <3>2. globals \in [Name -> Nat]
        BY KeptTypes
      <3>3. IsFiniteSet(NamesOf(globals)) /\ NamesOf(globals) \subseteq Nat
        BY <3>2, NamesOfFacts
      <3> QED BY <3>1, <3>3, UnrefsSilent
    <2>2. CASE DestroyFrame
      <3>1. frames # << >> /\ work' = Unrefs(CellsOf(Head(frames), Block)) /\ frames \in Seq(AnyStore)
        BY <2>2, KeptTypes DEF DestroyFrame
      <3>2. Head(frames) \in AnyStore
        BY <3>1
      <3>3. IsFiniteSet(CellsOf(Head(frames), Block)) /\ CellsOf(Head(frames), Block) \subseteq Nat
        BY <3>2, CellsOfFacts
      <3> QED BY <3>1, <3>3, UnrefsSilent
    <2> QED BY <2>1, <2>2
  <1>3. SameKeepers(cells, cells') /\ SameStack(acts, acts')
    BY <1>1, NothingSame
  <1> QED BY <1>1, <1>2, <1>3, SilentStep DEF Silent

(* The cells of cs are the same in cs2, and new ones but d hold nothing.   *)
CellsLike(cs, cs2, d) ==
  /\ \A c \in DOMAIN cs : c \in DOMAIN cs2 /\ cs2[c].value = cs[c].value /\ (cs2[c].refs > 0 <=> cs[c].refs > 0)
  /\ \A c \in DOMAIN cs2 : c \notin DOMAIN cs /\ c # d => cs2[c].value = Nil

LEMMA LikeKeeps ==
  ASSUME NEW cs, NEW cs2, NEW d, CellsLike(cs, cs2, d), NEW w, NoWrites(w), NEW w2, NoWrites(w2), NEW o, o # Nil
  PROVE  KeepersBut(cs, w, cs2, w2, o, d)
  <1> SUFFICES ASSUME NEW c, c # d PROVE Keeps(cs2, w2, o, c) <=> Keeps(cs, w, o, c)
    BY DEF KeepersBut
  <1>1. Keeps(cs, w, o, c) <=> c \in DOMAIN cs /\ cs[c].refs > 0 /\ cs[c].value = o
    BY KeepsPlain
  <1>2. Keeps(cs2, w2, o, c) <=> c \in DOMAIN cs2 /\ cs2[c].refs > 0 /\ cs2[c].value = o
    BY KeepsPlain
  <1>3. CASE c \in DOMAIN cs
    BY <1>1, <1>2, <1>3 DEF CellsLike
  <1>4. CASE c \notin DOMAIN cs
    BY <1>1, <1>2, <1>4 DEF CellsLike
  <1> QED BY <1>3, <1>4

LEMMA LikeSame ==
  ASSUME NEW cs \in Seq(AnyCell), NEW cs2 \in Seq(AnyCell), CellsLike(cs, cs2, 0)
  PROVE  SameKeepers(cs, cs2)
  <1> SUFFICES ASSUME NEW o \in Nat PROVE Keepers(cs2, << >>, o) = Keepers(cs, << >>, o)
    BY DEF SameKeepers
  <1> DEFINE e == << >>
             z == 0
  <1>1. NoWrites(e) /\ o # Nil /\ CellsLike(cs, cs2, z)
    BY EmptyList, ScenarioAssumption
  <1>2. z \notin DOMAIN cs /\ z \notin DOMAIN cs2
    BY LenFacts
  <1> HIDE DEF e, z
  <1>3. KeepersBut(cs, e, cs2, e, o, z)
    BY <1>1, LikeKeeps
  <1>4. Keepers(cs2, e, o) = Keepers(cs, e, o)
    BY <1>2, <1>3 DEF KeepersBut, Keepers, Keeps
  <1> QED BY <1>4 DEF e

LEMMA LikeMove ==
  ASSUME NEW cs \in Seq(AnyCell), NEW cs2 \in Seq(AnyCell), NEW d, d \in DOMAIN cs2, d \notin DOMAIN cs, CellsLike(cs, cs2, d), cs2[d].refs > 0,
         NEW w, NoWrites(w), NEW o, o # Nil
  PROVE  Cardinality(Keepers(cs2, w, o)) = Cardinality(Keepers(cs, << >>, o)) + B(cs2[d].value = o)
  <1> DEFINE e == << >>
  <1>1. NoWrites(e)
    BY EmptyList
  <1> HIDE DEF e
  <1>2. KeepersBut(cs, e, cs2, w, o, d)
    BY <1>1, LikeKeeps
  <1>3. Cardinality(Keepers(cs2, w, o)) + B(Keeps(cs, e, o, d)) = Cardinality(Keepers(cs, e, o)) + B(Keeps(cs2, w, o, d))
    BY <1>2, KeepersMove
  <1>4. ~ Keeps(cs, e, o, d) /\ (Keeps(cs2, w, o, d) <=> cs2[d].value = o)
    BY KeepsPlain DEF Keeps
  <1>5. B(Keeps(cs, e, o, d)) = 0 /\ B(Keeps(cs2, w, o, d)) = B(cs2[d].value = o)
    BY <1>4 DEF B
  <1>6. Cardinality(Keepers(cs2, w, o)) \in Nat
    BY KeepersType
  <1>7. Cardinality(Keepers(cs2, w, o)) = Cardinality(Keepers(cs, e, o)) + B(cs2[d].value = o)
    BY <1>3, <1>5, <1>6
  <1> QED BY <1>7 DEF e

LEMMA AppendLike ==
  ASSUME NEW cs, NEW r \in Seq(AnyCell), NEW d, CellsLike(cs, r, d), NEW v \in AnyValue, v = Nil \/ d = Len(r) + 1
  PROVE  CellsLike(cs, Append(r, NewCell(v)), d)
  <1> DEFINE t == Append(r, NewCell(v))
  <1>1. NewCell(v) \in AnyCell /\ NewCell(v).value = v
    BY DEF NewCell, AnyCell
  <1>2. /\ DOMAIN t = 1 .. (Len(r) + 1) /\ t[Len(r) + 1] = NewCell(v) /\ (\A k \in 1 .. Len(r) : t[k] = r[k])
        /\ DOMAIN r = 1 .. Len(r) /\ Len(r) \in Nat
    BY <1>1, AppendFacts, LenFacts
  <1> HIDE DEF t
  <1>3. \A k \in DOMAIN r : k \in DOMAIN t /\ t[k] = r[k]
    BY <1>2
  <1>4. \A k \in DOMAIN t : k \notin DOMAIN r => k = Len(r) + 1
    BY <1>2, NotLast
  <1>5. ASSUME NEW c \in DOMAIN cs PROVE c \in DOMAIN t /\ t[c].value = cs[c].value /\ (t[c].refs > 0 <=> cs[c].refs > 0)
    BY <1>3 DEF CellsLike
  <1>6. ASSUME NEW c \in DOMAIN t, c \notin DOMAIN cs, c # d PROVE t[c].value = Nil
    <2>1. CASE c \in DOMAIN r
      BY <1>3, <1>6, <2>1 DEF CellsLike
    <2>2. CASE c \notin DOMAIN r
      BY <1>1, <1>2, <1>4, <1>6, <2>2
    <2> QED BY <2>1, <2>2
  <1>7. CellsLike(cs, t, d)
    BY <1>5, <1>6 DEF CellsLike
  <1> QED BY <1>7 DEF t

LEMMA SelfLike ==
  \A cs, d : CellsLike(cs, cs, d)
  BY DEF CellsLike

LEMMA EnterBooks ==
  ASSUME Inv1, Inv1', Books, Enter
  PROVE  Books'
  <1> DEFINE a == NewAct("block", S.blk, "stat", Top.env, Len(blocks) + 1, Len(frames))
             ops == {"do"}
  <1>1. /\ AtStat(ops) /\ acts' = Append(acts, a) /\ UNCHANGED <<cells, objs, work>>
    BY DEF Enter, memory
  <1> HIDE DEF ops
  <1>2. work = << >>
    BY <1>1, StatFacts
  <1>3. NoCopies(a)
    BY NewActCopies
  <1>4. acts \in Seq(AnyAct) /\ Len(acts) \in Nat /\ acts' \in Seq(AnyAct)
    BY KeptTypes, LenFacts DEF Inv1, Loose
  <1> HIDE DEF a
  <1>5. a \in AnyAct
    <2>1. acts'[Len(acts) + 1] = a /\ DOMAIN acts' = 1 .. (Len(acts) + 1)
      BY <1>1, <1>4
    <2>2. Len(acts) + 1 \in 1 .. (Len(acts) + 1)
      BY <1>4
    <2> QED BY <1>4, <2>1, <2>2, LenFacts
  <1>6. SameStack(acts, acts')
    BY <1>1, <1>3, <1>4, <1>5, PushSame
  <1>7. SameKeepers(cells, cells') /\ Silent(work')
    BY <1>1, <1>2, NothingSame
  <1> QED BY <1>1, <1>2, <1>6, <1>7, SilentStep

LEMMA RoundBooks ==
  ASSUME Inv1, Inv1', Books, Round
  PROVE  Books'
  <1> DEFINE d == [Top EXCEPT !.i = Top.i + 1]
             s == SetTop(d)
             a == NewAct("forblock", Top.ctx, "stat", Top.env, Len(blocks), Len(frames))
  <1>1. status = "run" /\ work = << >> /\ acts' = Append(s, a) /\ UNCHANGED <<cells, objs, work>>
    BY DEF Round, memory, AtFor, Running
  <1>2. Top \in AnyAct
    BY <1>1, RunFacts
  <1>3. d \in AnyAct /\ SameCopies(Top, d)
    <2>2. Top.i + 1 \in Nat
      BY <1>2, SMTT(60) DEF AnyAct
    <2>1. d \in AnyAct
      BY <1>2, <2>2 DEF AnyAct
    <2> QED BY <1>2, <2>1, MovedCopies
  <1>4. NoCopies(a)
    BY NewActCopies
  <1> HIDE DEF d, a
  <1>5. SameStack(acts, s) /\ s \in Seq(AnyAct)
    BY <1>1, <1>3, ReplaceSame
  <1> HIDE DEF s
  <1>6. acts' \in Seq(AnyAct) /\ Len(s) \in Nat
    BY <1>5, LenFacts DEF Inv1, Loose
  <1>7. a \in AnyAct
    <2>1. acts'[Len(s) + 1] = a /\ DOMAIN acts' = 1 .. (Len(s) + 1)
      BY <1>1, <1>5, <1>6
    <2>2. Len(s) + 1 \in 1 .. (Len(s) + 1)
      BY <1>6
    <2> QED BY <1>6, <2>1, <2>2, LenFacts
  <1>8. SameStack(s, acts')
    BY <1>1, <1>4, <1>5, <1>7, PushSame
  <1>9. SameStack(acts, acts')
    BY <1>5, <1>8 DEF SameStack
  <1>10. SameKeepers(cells, cells') /\ Silent(work')
    BY <1>1, NothingSame
  <1> QED BY <1>1, <1>9, <1>10, SilentStep

LEMMA StartForBooks ==
  ASSUME Inv1, Inv1', Books, StartFor
  PROVE  Books'
  <1> DEFINE e == PutName(Top.env, S.id, Len(cells) + 1)
             a == [NewAct("for", S.blk, "stat", e, Len(blocks) + 1, Len(frames)) EXCEPT !.cell = Len(cells) + 1, !.name = S.id]
  <1>1. e = PutName(Top.env, S.id, Len(cells) + 1)
    OBVIOUS
  <1> HIDE DEF e
  <1>2. work = << >> /\ cells' = Append(cells, NewCell(Nil)) /\ acts' = Append(acts, a) /\ UNCHANGED <<objs, work>>
    BY <1>1, StartForForm
  <1>3. NoCopies(a)
    BY DEF NoCopies, NewAct
  <1>4. acts \in Seq(AnyAct) /\ Len(acts) \in Nat /\ acts' \in Seq(AnyAct) /\ cells \in Seq(AnyCell) /\ cells' \in Seq(AnyCell)
    BY KeptTypes, LenFacts DEF Inv1, Loose
  <1> HIDE DEF a
  <1>5. a \in AnyAct
    <2>1. acts'[Len(acts) + 1] = a /\ DOMAIN acts' = 1 .. (Len(acts) + 1)
      BY <1>2, <1>4
    <2>2. Len(acts) + 1 \in 1 .. (Len(acts) + 1)
      BY <1>4
    <2> QED BY <1>4, <2>1, <2>2, LenFacts
  <1>6. SameStack(acts, acts')
    BY <1>2, <1>3, <1>4, <1>5, PushSame
  <1>7. SameKeepers(cells, cells')
    <2> DEFINE z == 0
               v == Nil
    <2>1. CellsLike(cells, cells, z) /\ v \in AnyValue /\ v = Nil
      BY SelfLike DEF AnyValue
    <2> HIDE DEF z, v
    <2>2. CellsLike(cells, Append(cells, NewCell(v)), z)
      BY <1>4, <2>1, AppendLike
    <2>3. CellsLike(cells, cells', 0)
      BY <1>2, <2>1, <2>2 DEF z
    <2> QED BY <1>4, <2>3, LikeSame
  <1>8. Silent(work')
    BY <1>2, NothingSame
  <1> QED BY <1>2, <1>6, <1>7, <1>8, SilentStep

(* Every action at the end of a block, or of a for, has no copies.         *)
LEMMA PopBooks ==
  ASSUME Inv1, Inv1', Books, status = "run", work = << >>, Top.op # "chunk", NoCopies(Top), NEW n, n = Len(acts) - 1, NEW a, SameCopies(acts[n], a),
         acts' = [SubSeq(acts, 1, n) EXCEPT ![n] = a], UNCHANGED <<cells, objs>>, Silent(work')
  PROVE  Books'
  <1>1. acts' \in Seq(AnyAct)
    BY DEF Inv1, Loose
  <1>2. n \in 1 .. Len(acts) /\ n \in Nat /\ acts \in Seq(AnyAct)
    BY BelowFacts, KeptTypes
  <1> DEFINE t == SubSeq(acts, 1, n)
  <1>3. t \in Seq(AnyAct) /\ DOMAIN t = 1 .. n /\ n \in DOMAIN t
    BY <1>2, PrefixFacts
  <1>4. acts' = [t EXCEPT ![n] = a]
    OBVIOUS
  <1> HIDE DEF t
  <1>5. a \in AnyAct
    <2>1. acts'[n] = a /\ DOMAIN acts' = DOMAIN t
      BY <1>3, <1>4
    <2> QED BY <1>1, <1>3, <2>1, LenFacts
  <1>6. SameStack(acts, acts')
    BY <1>1, <1>5, PopSame
  <1>7. SameKeepers(cells, cells')
    BY NothingSame
  <1> QED BY <1>6, <1>7, SilentStep

LEMMA BlockEndsBooks ==
  ASSUME Inv1, Inv1', Books, EndFor \/ FinishBlock
  PROVE  Books' /\ Releasing(work')
  <1> DEFINE n == Len(acts) - 1
  <1>1. /\ status = "run" /\ work = << >> /\ Top.op \in InBlock /\ Top.op # "chunk" /\ UNCHANGED <<cells, objs>> /\ Top.at = "stat"
    BY DEF EndFor, FinishBlock, AtFor, AtEnd, AtBlock, Running, memory, InBlock
  <1>2. acts \in Seq(AnyAct) /\ Kind(Top) /\ Top.val = Nil /\ Frame \in AnyStore /\ Top = acts[Len(acts)] /\ Top \in AnyAct
    BY <1>1, RunFacts DEF Struct, StructOf
  <1>3. NoCopies(Top)
    BY <1>1, <1>2 DEF NoCopies, Kind, InBlock
  <1>4. n \in 1 .. Len(acts) /\ acts[n] \in AnyAct
    BY <1>1, BelowFacts
  <1>5. Top.ctx \in Block
    BY <1>2, ActFacts
  <1>6. Silent(Unrefs(CellsOf(Frame, {Top.ctx}))) /\ Silent(<< >>)
    <2>1. {Top.ctx} \subseteq Block
      BY <1>5
    <2>2. IsFiniteSet(CellsOf(Frame, {Top.ctx})) /\ CellsOf(Frame, {Top.ctx}) \subseteq Nat
      BY <1>2, <2>1, CellsOfFacts
    <2> QED BY <2>2, UnrefsSilent, NothingSame
  <1>7. Silent(work')
    BY <1>1, <1>6 DEF EndFor, FinishBlock, Released
  <1>8. n = Len(acts) - 1
    OBVIOUS
  <1>9. CASE EndFor
    <2> DEFINE a == NextStat(acts[n])
    <2>1. acts' = [SubSeq(acts, 1, n) EXCEPT ![n] = a]
      <3>1. Front(acts) = SubSeq(acts, 1, n) /\ Len(Front(acts)) = n /\ Front(acts)[n] = acts[n]
        BY <1>2, <1>4, FrontPut
      <3>2. acts' = [Front(acts) EXCEPT ![Len(Front(acts))].i = @ + 1]
        BY <1>9 DEF EndFor
      <3> HIDE DEF n
      <3> QED BY <3>1, <3>2 DEF NextStat
    <2>2. SameCopies(acts[n], a)
      BY <1>4, MovedCopies
    <2> HIDE DEF a, n
    <2> QED BY <1>1, <1>3, <1>7, <1>8, <2>1, <2>2, PopBooks DEF Silent
  <1>10. CASE FinishBlock
    <2> DEFINE a == IF acts[n].op \in Blocky THEN NextStat(acts[n]) ELSE Returned(acts[n])
    <2>1. acts' = [SubSeq(acts, 1, n) EXCEPT ![n] = a]
      <3>1. acts' = Below
        BY <1>10 DEF FinishBlock
      <3> QED BY <1>1, <3>1, BelowForm
    <2>2. SameCopies(acts[n], a)
      BY <1>4, MovedCopies
    <2> HIDE DEF a, n
    <2> QED BY <1>1, <1>3, <1>7, <1>8, <2>1, <2>2, PopBooks DEF Silent
  <1> QED BY <1>7, <1>9, <1>10 DEF Silent

(* Steps that release copies, or forget them.                              *)
Tallied(os, os2) == DOMAIN os2 = DOMAIN os /\ \A o \in DOMAIN os : os2[o].count = os[o].count /\ os2[o].live = os[o].live
Settles(os, st, os2, st2, w) ==
  \A o \in DOMAIN os : Copies(st2, o) + Count(w, Drop(o)) + os2[o].leaked = Copies(st, o) + os[o].leaked

LEMMA DropStep ==
  ASSUME Inv1, Inv1', Books, work = << >>, cells' = cells, Tallied(objs, objs'), Releasing(work'), Settles(objs, acts, objs', acts', work')
  PROVE  Books'
  <1> DEFINE cs == cells
             w == work'
             st == acts'
             os == objs'
  <1>1. /\ cs \in Seq(AnyCell) /\ w \in Seq(AnyUpdate) /\ st \in Seq(AnyAct) /\ cs = cells' /\ w = work' /\ st = acts' /\ os = objs'
        /\ os \in Seq(AnyObj) /\ cs = cells
    BY DEF Inv1, Loose
  <1>2. Tallied(objs, os) /\ Releasing(w) /\ Settles(objs, acts, os, st, w)
    OBVIOUS
  <1> HIDE DEF cs, w, st, os
  <1>3. ASSUME NEW o \in DOMAIN objs PROVE Entered(os, cs, w, st, o)
    <2>1. os[o].count = objs[o].count /\ os[o].live = objs[o].live /\ o \in DOMAIN os
      BY <1>2 DEF Tallied
    <2>2. os[o] \in AnyObj
      BY <1>1, <2>1, LenFacts
    <2>3. os[o].leaked \in Nat /\ objs[o].leaked \in Nat
      BY <2>2, BookFacts DEF AnyObj
    <2>4. Count(w, Add(o)) = 0 /\ ~ DropsOld(cs, w, o) /\ NoWrites(w)
      BY <1>2, ReleasingFacts
    <2>5. B(DropsOld(cs, w, o)) = 0
      BY <2>4 DEF B
    <2>6. Keepers(cs, w, o) = Keepers(cells, << >>, o)
      BY <1>1, <2>4, KeepersPlain, EmptyList
    <2>7. Cardinality(Keepers(cells, << >>, o)) \in Nat /\ Copies(acts, o) \in Nat /\ Copies(st, o) \in Nat /\ Count(w, Drop(o)) \in Nat
      BY <1>1, BookFacts, CopiesType, CountType
    <2>8. Copies(st, o) + Count(w, Drop(o)) + os[o].leaked = Copies(acts, o) + objs[o].leaked
      BY <1>2 DEF Settles
    <2>9. Count(w, Add(o)) + Cardinality(Keepers(cells, << >>, o)) + Copies(acts, o) + objs[o].leaked =
             Cardinality(Keepers(cs, w, o)) + Copies(st, o) + os[o].leaked + Count(w, Drop(o)) + B(DropsOld(cs, w, o))
      <3> DEFINE h == Cardinality(Keepers(cells, << >>, o))
                 p == Copies(acts, o)
                 q == Copies(st, o)
                 r == Count(w, Drop(o))
                 l == objs[o].leaked
                 m == os[o].leaked
      <3>1. h \in Nat /\ p \in Nat /\ q \in Nat /\ r \in Nat /\ l \in Nat /\ m \in Nat /\ q + r + m = p + l
        BY <2>3, <2>7, <2>8
      <3>2. Cardinality(Keepers(cs, w, o)) = h
        BY <2>6
      <3> HIDE DEF h, p, q, r, l, m
      <3>3. 0 + h + p + l = h + q + m + r + 0
        BY <3>1
      <3> QED BY <2>4, <2>5, <3>2, <3>3 DEF h, p, q, r, l, m
    <2> QED BY <1>1, <2>1, <2>3, <2>4, <2>9, BookStep
  <1>4. DOMAIN os = DOMAIN objs
    BY <1>2 DEF Tallied
  <1> QED BY <1>1, <1>3, <1>4 DEF Books

LEMMA TalliedSame == \A os : Tallied(os, os)
  BY DEF Tallied

LEMMA DropList ==
  ASSUME NEW v \in AnyValue, NEW w, w = <<Drop(v)>>
  PROVE  Releasing(w) /\ w \in Seq(AnyUpdate) /\ \A o : Count(w, Drop(o)) = B(v = o)
  <1>1. DOMAIN w = {1} /\ w[1] = Drop(v) /\ Drop(v).op = "drop"
    BY DEF Drop
  <1>2. Releasing(w)
    BY <1>1 DEF Releasing
  <1>3. ASSUME NEW o PROVE Count(w, Drop(o)) = B(v = o)
    <2>1. Drop(v) = Drop(o) <=> v = o
      BY DEF Drop
    <2> QED BY <2>1, CountOne DEF B
  <1>4. Drop(v) \in AnyUpdate
    BY UpdatesTyped
  <1> QED BY <1>2, <1>3, <1>4

LEMMA PlainWeight ==
  ASSUME NEW a, a.held = << >>, NEW o
  PROVE  Weight(a, o) = B(a.val = o)
  <1>1. Count(a.held, o) = 0
    BY CountEmpty
  <1>2. B(a.val = o) \in Nat
    BY DEF B
  <1> QED BY <1>1, <1>2 DEF Weight

LEMMA DiscardBooks ==
  ASSUME Inv1, Inv1', Books, Discard
  PROVE  Books' /\ Releasing(work')
  <1> DEFINE ops == {"call"}
             v == Top.val
             a == Advanced
             env == Top.env
  <1>1. AtStore(ops) /\ work' = <<Drop(v)>> /\ acts' = SetTop(a) /\ UNCHANGED <<cells, objs>>
    BY DEF Discard, memory
  <1> HIDE DEF ops
  <1>2. status = "run" /\ work = << >> /\ Top.op \in Blocky /\ Top.held = << >>
    BY <1>1, StoreFacts
  <1>3. Top \in AnyAct /\ Top = acts[Len(acts)] /\ Len(acts) \in DOMAIN acts
    BY <1>2, RunFacts
  <1>4. v \in AnyValue /\ env \in [Name -> Nat] /\ a = Advanced /\ env = Top.env
    BY <1>3, ActFacts
  <1> HIDE DEF a, env
  <1>5. a \in AnyAct /\ a.val = Nil /\ a.held = << >>
    BY <1>2, <1>4, AdvancedFacts
  <1> DEFINE s == acts'
  <1>6. s = SetTop(a) /\ s = acts'
    BY <1>1
  <1>7. s \in Seq(AnyAct) /\ \A k \in DOMAIN s : Len(s[k].held) =< 4
    BY DEF Inv1, Loose, Quiet
  <1> HIDE DEF s, v
  <1>8. AlikeBut(acts, s, Len(acts)) /\ s[Len(acts)] = a /\ DOMAIN s = DOMAIN acts
    BY <1>2, <1>5, <1>6, TopAlike
  <1>9. Releasing(work') /\ \A o : Count(work', Drop(o)) = B(v = o)
    BY <1>1, <1>4, DropList
  <1>10. ASSUME NEW o \in DOMAIN objs PROVE Copies(s, o) + Count(work', Drop(o)) + objs[o].leaked = Copies(acts, o) + objs[o].leaked
    <2>1. o # Nil
      BY BookFacts
    <2>2. Copies(s, o) + WeightAt(acts, Len(acts), o) = Copies(acts, o) + WeightAt(s, Len(acts), o)
      BY <1>7, <1>8, <2>1, HeldShort, AlikeMove
    <2>3. WeightAt(acts, Len(acts), o) = B(v = o)
      BY <1>2, <1>3, PlainWeight DEF WeightAt, v
    <2>4. WeightAt(s, Len(acts), o) = 0
      BY <1>3, <1>5, <1>8, <2>1, PlainWeight DEF WeightAt, B
    <2>5. Count(work', Drop(o)) = B(v = o)
      BY <1>9
    <2>6. Copies(s, o) \in Nat /\ Copies(acts, o) \in Nat
      BY <1>7, CopiesType, BookFacts
    <2> QED BY <2>2, <2>3, <2>4, <2>5, <2>6
  <1>11. Settles(objs, acts, objs', acts', work')
    BY <1>1, <1>6, <1>10 DEF Settles
  <1> QED BY <1>1, <1>2, <1>9, <1>11, TalliedSame, DropStep

LEMMA ReturnFromChunkBooks ==
  ASSUME Inv1, Inv1', Books, ReturnFromChunk
  PROVE  Books' /\ Releasing(work')
  <1> DEFINE ops == {"return"}
             v == Top.val
             s == acts'
             m == Len(acts)
  <1>1. AtStore(ops) /\ CallIndex = {} /\ work' = <<Drop(v)>> /\ s = <<[acts[1] EXCEPT !.at = "store"]>> /\ s = acts' /\ UNCHANGED <<cells, objs>>
    BY DEF ReturnFromChunk, memory
  <1> HIDE DEF ops
  <1>2. status = "run" /\ work = << >> /\ Top.op \in Blocky /\ Top.held = << >> /\ Top.op # "chunk"
    BY <1>1, StoreFacts
  <1>3. Top \in AnyAct /\ Top = acts[m] /\ m \in DOMAIN acts /\ acts \in Seq(AnyAct) /\ Shape(acts) /\ m > 1 /\ DOMAIN acts = 1 .. m
    BY <1>2, RunFacts
  <1>4. v \in AnyValue
    BY <1>3, ActFacts
  <1>5. /\ acts[1] \in AnyAct /\ 1 \in DOMAIN acts
        /\ \A k \in DOMAIN acts : k < m => acts[k].val = Nil
    BY <1>3, StackFacts
  <1>6. \A k \in DOMAIN acts : acts[k].held = << >>
    BY <1>1, <1>3 DEF CallIndex, Shape, Kind
  <1>7. DOMAIN s = {1} /\ SameCopies(acts[1], s[1])
    BY <1>1, <1>5 DEF AnyAct, SameCopies
  <1>8. s \in Seq(AnyAct) /\ \A k \in DOMAIN s : Len(s[k].held) =< 4
    BY DEF Inv1, Loose, Quiet
  <1>9. m # 1 /\ m \in Nat
    BY <1>3
  <1> HIDE DEF s, v, m
  <1>10. AlikeBut(acts, s, m)
    <2> SUFFICES ASSUME NEW j, j # m PROVE Alike(acts, s, j)
      BY DEF AlikeBut
    <2>1. CASE j = 1
      BY <1>5, <1>7, <2>1 DEF Alike
    <2>2. CASE j # 1 /\ j \in DOMAIN acts
      <3>1. j < m
        BY <1>3, <1>9, <2>2
      <3> QED BY <1>5, <1>6, <1>7, <2>2, <3>1 DEF Alike, NoCopies
    <2>3. CASE j # 1 /\ j \notin DOMAIN acts
      BY <1>7, <2>3 DEF Alike
    <2> QED BY <2>1, <2>2, <2>3
  <1>11. Releasing(work') /\ \A o : Count(work', Drop(o)) = B(v = o)
    BY <1>1, <1>4, DropList
  <1>12. ASSUME NEW o \in DOMAIN objs PROVE Copies(s, o) + Count(work', Drop(o)) + objs[o].leaked = Copies(acts, o) + objs[o].leaked
    <2>1. o # Nil
      BY BookFacts
    <2>2. Copies(s, o) + WeightAt(acts, m, o) = Copies(acts, o) + WeightAt(s, m, o)
      BY <1>8, <1>10, <2>1, HeldShort, AlikeMove
    <2>3. WeightAt(acts, m, o) = B(v = o)
      BY <1>2, <1>3, PlainWeight DEF WeightAt, v
    <2>4. WeightAt(s, m, o) = 0
      BY <1>7, <1>9 DEF WeightAt
    <2>5. Count(work', Drop(o)) = B(v = o)
      BY <1>11
    <2>6. Copies(s, o) \in Nat /\ Copies(acts, o) \in Nat
      BY <1>8, CopiesType, BookFacts
    <2> QED BY <2>2, <2>3, <2>4, <2>5, <2>6
  <1>13. Settles(objs, acts, objs', acts', work')
    BY <1>1, <1>12 DEF Settles
  <1> QED BY <1>1, <1>2, <1>11, <1>13, TalliedSame, DropStep

(* The topmost activation goes with its copies.                            *)
LEMMA FrontWeight ==
  ASSUME Inv1, acts # << >>, NEW o, o # Nil
  PROVE  Copies(Front(acts), o) + Weight(acts[Len(acts)], o) = Copies(acts, o) /\ Weight(acts[Len(acts)], o) \in Nat
  <1> DEFINE s == Front(acts)
             m == Len(acts)
  <1>1. acts \in Seq(AnyAct) /\ \A k \in DOMAIN acts : Len(acts[k].held) =< 4
    BY HeldShort
  <1>2. s \in Seq(AnyAct) /\ m \in DOMAIN acts /\ m \in Nat /\ DOMAIN s = 1 .. (m - 1) /\ DOMAIN acts = 1 .. m /\ \A k \in DOMAIN s : s[k] = acts[k]
    <2>1. s \in Seq(AnyAct) /\ DOMAIN s = 1 .. (m - 1) /\ \A k \in 1 .. (m - 1) : s[k] = acts[k]
      BY <1>1, FrontFacts
    <2>2. m \in Nat /\ m >= 1 /\ DOMAIN acts = 1 .. m
      BY <1>1, LenFacts
    <2> QED BY <2>1, <2>2
  <1> HIDE DEF s, m
  <1>3. \A k \in DOMAIN s : k \in DOMAIN acts
    BY <1>2
  <1>4. m \notin DOMAIN s /\ \A k \in DOMAIN acts : k # m => k \in DOMAIN s
    BY <1>2
  <1>5. \A k \in DOMAIN s : Len(s[k].held) =< 4
    BY <1>1, <1>2, <1>3
  <1>6. AlikeBut(acts, s, m)
    BY <1>2, <1>3, <1>4 DEF AlikeBut, Alike, SameCopies
  <1>7. Copies(s, o) + WeightAt(acts, m, o) = Copies(acts, o) + WeightAt(s, m, o)
    <2>1. s \in Seq(AnyAct)
      BY <1>2
    <2> QED BY <1>1, <1>5, <1>6, <2>1, AlikeMove
  <1>8. WeightAt(s, m, o) = 0 /\ WeightAt(acts, m, o) = Weight(acts[m], o)
    BY <1>2, <1>4 DEF WeightAt
  <1>9. Copies(acts, o) \in Nat /\ WeightAt(acts, m, o) \in Nat
    BY <1>1, CopiesType, WeightFacts
  <1> QED BY <1>7, <1>8, <1>9 DEF s, m

LEMMA UnwindBooks ==
  ASSUME Inv1, Inv1', Books, Unwind
  PROVE  Books' /\ Releasing(work')
  <1> DEFINE h == Top.held
             v == Top.val
             vs == Append(h, v)
  <1>1. /\ work = << >> /\ acts # << >> /\ acts' = Front(acts) /\ work' = Drops(vs) /\ cells' = cells /\ objs' = objs
        /\ Top = acts[Len(acts)] /\ h \in Seq(AnyValue) /\ v \in AnyValue
    BY UnwindForm
  <1>2. vs \in Seq(AnyValue)
    BY <1>1, AppendFacts
  <1> HIDE DEF h, v
  <1>3. ASSUME NEW o PROVE Count(vs, o) = Count(h, o) + B(v = o)
    BY <1>1, CountAppend
  <1> HIDE DEF vs
  <1>4. Releasing(work') /\ \A o : Count(work', Drop(o)) = Count(vs, o)
    BY <1>1, <1>2, DropsRelease
  <1>5. ASSUME NEW o \in DOMAIN objs PROVE Copies(acts', o) + Count(work', Drop(o)) + objs[o].leaked = Copies(acts, o) + objs[o].leaked
    <2>1. o # Nil
      BY BookFacts
    <2>2. Copies(Front(acts), o) + Weight(Top, o) = Copies(acts, o) /\ Weight(Top, o) \in Nat
      BY <1>1, <2>1, FrontWeight
    <2>3. Count(work', Drop(o)) = Count(h, o) + B(v = o)
      BY <1>3, <1>4
    <2>4. Count(h, o) \in Nat /\ B(v = o) \in Nat
      BY <1>1, CountType DEF B
    <2>5. Count(work', Drop(o)) = Weight(Top, o)
      BY <2>3, <2>4 DEF Weight, h, v
    <2> QED BY <1>1, <2>2, <2>5
  <1>6. Settles(objs, acts, objs', acts', work')
    BY <1>1, <1>5 DEF Settles
  <1> QED BY <1>1, <1>4, <1>6, TalliedSame, DropStep

LEMMA OverwriteTallied ==
  ASSUME Inv1, NEW o \in DOMAIN objs
  PROVE  Tallied(objs, Overwrite(o)) /\ \A x \in DOMAIN objs : Overwrite(o)[x].leaked = objs[x].leaked + B(x = o)
  BY OverwriteFacts DEF Tallied

LEMMA ForgetTallied ==
  ASSUME Inv1, NEW v \in AnyValue, ValueIn(v, Len(objs))
  PROVE  Tallied(objs, Forget(v)) /\ \A x \in DOMAIN objs : Forget(v)[x].leaked = objs[x].leaked + B(x = v)
  BY ForgetFacts DEF Tallied

LEMMA FinishCallBooks ==
  ASSUME Inv1, Inv1', Books, FinishCall
  PROVE  Books' /\ Releasing(work')
  <1> DEFINE h == Top.held
             t == Tail(h)
             f == h[1]
  <1>1. /\ work = << >> /\ status = "run" /\ acts' = Front(acts) /\ work' = Drops(t) /\ cells' = cells /\ objs' = Forget(f)
        /\ Top = acts[Len(acts)] /\ h \in Seq(AnyValue) /\ t \in Seq(AnyValue) /\ f \in AnyValue /\ ValueIn(f, Len(objs)) /\ Len(h) = 4 /\ Top.op = "call" /\ Len(acts) \in DOMAIN acts
    BY FinishCallForm
  <1>2. acts # << >> /\ Kind(Top)
    BY <1>1, RunFacts
  <1>3. Top.val = Nil
    BY <1>1, <1>2 DEF Kind, Blocky
  <1>4. h # << >> /\ Head(h) = f
    <2>1. h # << >>
      BY <1>1, LenFacts
    <2> QED BY <1>1, <2>1, TailFacts
  <1> HIDE DEF h
  <1>5. ASSUME NEW o PROVE Count(h, o) = B(f = o) + Count(t, o)
    BY <1>1, <1>4, CountTail
  <1> HIDE DEF t, f
  <1>6. Releasing(work') /\ \A o : Count(work', Drop(o)) = Count(t, o)
    BY <1>1, DropsRelease
  <1>7. Tallied(objs, objs') /\ \A x \in DOMAIN objs : objs'[x].leaked = objs[x].leaked + B(x = f)
    BY <1>1, ForgetTallied
  <1>8. ASSUME NEW o \in DOMAIN objs PROVE Copies(acts', o) + Count(work', Drop(o)) + objs'[o].leaked = Copies(acts, o) + objs[o].leaked
    <2>1. o # Nil /\ objs[o].leaked \in Nat
      BY BookFacts
    <2>2. Copies(Front(acts), o) + Weight(Top, o) = Copies(acts, o) /\ Weight(Top, o) \in Nat
      BY <1>1, <1>2, <2>1, FrontWeight
    <2>3. Weight(Top, o) = 0 + Count(h, o)
      BY <1>3, <2>1 DEF Weight, h, B
    <2>4. Count(t, o) \in Nat /\ B(f = o) \in Nat /\ B(o = f) = B(f = o)
      BY <1>1, CountType DEF B
    <2>5. Copies(Front(acts), o) \in Nat
      BY HeldShort, <1>2, FrontFacts, CopiesType
    <2>6. Weight(Top, o) = B(f = o) + Count(t, o)
      BY <1>5, <2>3, <2>4
    <2>7. Count(work', Drop(o)) = Count(t, o) /\ objs'[o].leaked = objs[o].leaked + B(f = o)
      BY <1>6, <1>7, <2>4
    <2> QED BY <1>1, <2>1, <2>2, <2>4, <2>5, <2>6, <2>7, SMTT(60)
  <1>9. Settles(objs, acts, objs', acts', work')
    BY <1>8 DEF Settles
  <1> QED BY <1>1, <1>6, <1>7, <1>9, DropStep

(* The copies that are gone when a call in k has returned: those of the    *)
(* call; the value has moved to the caller.                                *)
LEMMA ReturnMoves ==
  ASSUME Inv1, status = "run", Top.op \in Blocky, Top.at = "store", NEW k \in DOMAIN acts, acts[k].op = "call", \A m \in CallIndex : m =< k, NEW n, n = k - 1,
         NEW s, s = [SubSeq(acts, 1, n) EXCEPT ![n] = WithVal(acts[n], Top.val)], NEW o, o # Nil
  PROVE  Copies(s, o) + Count(acts[k].held, o) = Copies(acts, o)
  <1> DEFINE m == Len(acts)
             v == Top.val
             a == WithVal(Top, Nil)
             s1 == SetTop(a)
             s2 == SubSeq(acts, 1, n)
             b == WithVal(acts[n], v)
  <1>1. /\ acts \in Seq(AnyAct) /\ Top \in AnyAct /\ Top = acts[m] /\ m \in DOMAIN acts /\ Shape(acts) /\ DOMAIN acts = 1 .. m /\ m \in Nat
        /\ ActIn(Top, Len(cells), Len(objs)) /\ Kind(Top)
    BY RunFacts
  <1>2. /\ n \in 1 .. m /\ n < m /\ n \in DOMAIN acts /\ n \in Nat /\ k = n + 1 /\ acts[n] \in AnyAct /\ Kind(acts[n]) /\ acts[n].val = Nil
        /\ acts[n].op \in Blocky /\ acts[n].at = "store" /\ ActIn(acts[n], Len(cells), Len(objs))
        /\ acts[k] \in AnyAct /\ acts[k].held \in Seq(AnyValue) /\ Len(acts[k].held) = 4
    BY CallerFacts
  <1>3. v \in AnyValue /\ ValueIn(v, Len(objs)) /\ Nil \in AnyValue /\ ValueIn(Nil, Len(objs)) /\ v = Top.val
    BY <1>1 DEF ActIn, AnyAct, AnyValue, ValueIn
  <1>4. /\ a \in AnyAct /\ a.val = Nil /\ b \in AnyAct /\ b.val = v /\ Kind(b) /\ a.held = Top.held /\ b.held = acts[n].held
    <2>1. a \in AnyAct /\ a.val = Nil
      BY <1>1, <1>3, WithValFacts
    <2>2. b \in AnyAct /\ b.val = v /\ Kind(b)
      BY <1>2, <1>3, WithValFacts, SMTT(60)
    <2>3. a.held = Top.held /\ b.held = acts[n].held
      BY <1>1, <1>2 DEF WithVal, AnyAct
    <2> QED BY <2>1, <2>2, <2>3
  <1>5. Top.held = << >> /\ acts[n].held = << >> /\ k # m
    BY <1>1, <1>2 DEF Kind, Blocky
  <1>6. s = [s2 EXCEPT ![n] = b]
    OBVIOUS
  <1>7. n \in 0 .. m /\ n \in 1 .. n /\ m \in Nat /\ n \in Nat /\ n >= 1 /\ n < m /\ k = n + 1 /\ k \notin 1 .. n
    BY <1>1, <1>2
  <1>8. s2 \in Seq(AnyAct) /\ DOMAIN s2 = 1 .. n /\ \A j \in 1 .. n : s2[j] = acts[j]
    BY <1>1, <1>7, PrefixFacts
  <1> HIDE DEF s2, b
  <1>9. /\ s1 \in Seq(AnyAct) /\ DOMAIN s1 = DOMAIN acts /\ s1[m] = a /\ \A j \in DOMAIN acts : j # m => s1[j] = acts[j]
        /\ AlikeBut(acts, s1, m)
    BY <1>4, TopAlike
  <1> HIDE DEF s1, a, v
  <1>10. s \in Seq(AnyAct) /\ DOMAIN s = DOMAIN s2 /\ s[n] = b /\ \A j \in DOMAIN s2 : j # n => s[j] = s2[j]
    <2>1. n \in DOMAIN s2
      BY <1>7, <1>8
    <2> QED BY <1>4, <1>6, <1>8, <2>1, ReplaceFacts
  <1>11. \A j \in DOMAIN acts : Len(acts[j].held) =< 4
    BY HeldShort
  <1>12. /\ \A j \in DOMAIN s1 : Len(s1[j].held) =< 4
         /\ \A j \in DOMAIN s2 : Len(s2[j].held) =< 4
         /\ \A j \in DOMAIN s : Len(s[j].held) =< 4
    <2>1. \A j \in DOMAIN s1 : Len(s1[j].held) =< 4
      BY <1>1, <1>4, <1>9, <1>11
    <2>2. \A j \in 1 .. n : j \in DOMAIN acts
      BY <1>1, <1>2
    <2>3. \A j \in DOMAIN s2 : Len(s2[j].held) =< 4
      BY <1>8, <1>11, <2>2
    <2>4. Len(b.held) =< 4
      BY <1>2, <1>4, <1>11
    <2>5. \A j \in DOMAIN s : Len(s[j].held) =< 4
      BY <1>10, <2>3, <2>4
    <2> QED BY <2>1, <2>3, <2>5
  <1>13. Short(s1) /\ Short(s2) /\ Short(s) /\ Short(acts)
    BY <1>1, <1>8, <1>9, <1>10, <1>11, <1>12 DEF Short
  <1>14. AlikeBut(s1, s2, k)
    <2> SUFFICES ASSUME NEW j, j # k PROVE Alike(s1, s2, j)
      BY DEF AlikeBut
    <2>1. CASE j \in 1 .. n
      <3>1. j \in 1 .. m /\ j # m
        BY <1>7, <2>1, SMTT(60)
      <3>2. j \in DOMAIN acts
        BY <1>1, <3>1
      <3>3. j \in DOMAIN s1 /\ j \in DOMAIN s2 /\ s1[j] = s2[j]
        BY <1>8, <1>9, <2>1, <3>1, <3>2
      <3> QED BY <3>3 DEF Alike, SameCopies
    <2>2. CASE j \in DOMAIN acts /\ j \notin 1 .. n
      <3>1. j \in Nat /\ j > k
        BY <1>1, <1>2, <2>2
      <3>2. acts[j].op # "call"
        <4>1. j \notin CallIndex
          BY <1>2, <3>1
        <4> QED BY <2>2, <4>1 DEF CallIndex
      <3>3. acts[j].held = << >>
        BY <1>1, <2>2, <3>2 DEF Shape, Kind
      <3>4. j # m => acts[j].val = Nil
        BY <1>1, <2>2, <3>1, StackFacts, SMTT(60)
      <3>5. NoCopies(s1[j])
        BY <1>4, <1>5, <1>9, <2>2, <3>3, <3>4 DEF NoCopies
      <3>6. j \notin DOMAIN s2 /\ j \in DOMAIN s1
        BY <1>8, <1>9, <2>2
      <3> QED BY <3>5, <3>6 DEF Alike
    <2>3. CASE j \notin DOMAIN acts /\ j \notin 1 .. n
      BY <1>8, <1>9, <2>3 DEF Alike
    <2> QED BY <2>1, <2>2, <2>3
  <1>15. AlikeBut(s2, s, n)
    BY <1>10 DEF AlikeBut, Alike, SameCopies
  <1>16. Copies(s1, o) + WeightAt(acts, m, o) = Copies(acts, o) + WeightAt(s1, m, o)
    BY <1>9, <1>13, ShortMove
  <1>17. Copies(s2, o) + WeightAt(s1, k, o) = Copies(s1, o) + WeightAt(s2, k, o)
    BY <1>13, <1>14, ShortMove
  <1>18. Copies(s, o) + WeightAt(s2, n, o) = Copies(s2, o) + WeightAt(s, n, o)
    BY <1>13, <1>15, ShortMove
  <1>19. WeightAt(acts, m, o) = B(v = o) /\ WeightAt(s1, m, o) = 0
    <2>1. Weight(acts[m], o) = B(v = o)
      BY <1>1, <1>3, <1>5, PlainWeight
    <2>2. Weight(a, o) = B(Nil = o)
      BY <1>4, <1>5, PlainWeight
    <2> QED BY <1>1, <1>9, <2>1, <2>2 DEF WeightAt, B
  <1>20. WeightAt(s1, k, o) = Count(acts[k].held, o) /\ WeightAt(s2, k, o) = 0
    <2>1. s1[k] = acts[k] /\ k \in DOMAIN s1
      BY <1>5, <1>9
    <2>2. acts[k].val = Nil
      <3>1. k < m
        BY <1>1, <1>5
      <3> QED BY <1>1, <3>1, StackFacts
    <2>3. Count(acts[k].held, o) \in Nat
      BY <1>2, CountType
    <2>4. k \notin DOMAIN s2
      BY <1>7, <1>8
    <2> QED BY <2>1, <2>2, <2>3, <2>4 DEF WeightAt, Weight, B
  <1>21. WeightAt(s2, n, o) = 0 /\ WeightAt(s, n, o) = B(v = o)
    <2>1. n \in DOMAIN s2 /\ s2[n] = acts[n] /\ n \in DOMAIN s
      BY <1>7, <1>8, <1>10
    <2>2. Weight(acts[n], o) = B(Nil = o)
      BY <1>2, <1>5, PlainWeight
    <2>3. Weight(b, o) = B(v = o)
      BY <1>4, <1>5, PlainWeight
    <2> QED BY <1>10, <2>1, <2>2, <2>3 DEF WeightAt, B
  <1>22. /\ Copies(s1, o) \in Nat /\ Copies(s2, o) \in Nat /\ Copies(s, o) \in Nat /\ Copies(acts, o) \in Nat /\ B(v = o) \in Nat
         /\ Count(acts[k].held, o) \in Nat
    BY <1>2, <1>13, CopiesType, CountType DEF B, Short
  <1> QED BY <1>16, <1>17, <1>18, <1>19, <1>20, <1>21, <1>22

LEMMA ConcatCase ==
  ASSUME NEW s \in Seq(AnyUpdate), NEW t \in Seq(AnyUpdate), NEW k \in DOMAIN (s \o t)
  PROVE  \/ k \in DOMAIN s /\ (s \o t)[k] = s[k]
         \/ k - Len(s) \in DOMAIN t /\ k \notin DOMAIN s /\ (s \o t)[k] = t[k - Len(s)]
  <1> DEFINE u == s \o t
             m == Len(s)
             n == Len(t)
             j == k - m
  <1>1. k \in DOMAIN u /\ DOMAIN u = 1 .. (m + n) /\ (\A i \in 1 .. m : u[i] = s[i]) /\ (\A i \in 1 .. n : u[m + i] = t[i])
    BY ConcatFacts
  <1>2. m \in Nat /\ n \in Nat /\ DOMAIN s = 1 .. m /\ DOMAIN t = 1 .. n
    BY LenFacts
  <1> HIDE DEF u, m, n
  <1>3. CASE k =< m
    <2>1. k \in DOMAIN s
      BY <1>1, <1>2, <1>3
    <2> QED BY <1>1, <1>2, <2>1 DEF u
  <1>4. CASE ~ k =< m
    <2>1. j \in DOMAIN t /\ k = m + j /\ k \notin DOMAIN s
      BY <1>1, <1>2, <1>4
    <2> HIDE DEF j
    <2>2. u[m + j] = t[j]
      BY <1>1, <1>2, <2>1
    <2>3. u[k] = t[j]
      BY <2>1, <2>2
    <2> QED BY <2>1, <2>3 DEF u, j, m
  <1> QED BY <1>3, <1>4

LEMMA ReleasingConcat ==
  ASSUME NEW s \in Seq(AnyUpdate), NEW t \in Seq(AnyUpdate), Releasing(s), Releasing(t)
  PROVE  Releasing(s \o t)
  <1> SUFFICES ASSUME NEW i \in DOMAIN (s \o t) PROVE (s \o t)[i].op \in {"unref", "drop"}
    BY DEF Releasing
  <1>1. CASE i \in DOMAIN s /\ (s \o t)[i] = s[i]
    BY <1>1 DEF Releasing
  <1>2. CASE i - Len(s) \in DOMAIN t /\ (s \o t)[i] = t[i - Len(s)]
    BY <1>2 DEF Releasing
  <1> QED BY <1>1, <1>2, ConcatCase

LEMMA CatchReturnBooks ==
  ASSUME Inv1, Inv1', Books, CatchReturn
  PROVE  Books' /\ Releasing(work')
  <1>1. status = "run" /\ work = << >> /\ Top.op \in Blocky /\ cells' = cells /\ objs' = objs
    BY CatchReturnForm DEF memory
  <1>2. Top.at = "store"
    BY DEF CatchReturn, AtStore
  <1>3. PICK k \in DOMAIN acts :
              /\ acts[k].op = "call" /\ \A m \in CallIndex : m =< k
              /\ work' = Unrefs(CellsOf(Frame, Above(acts[k - 1].base))) \o Drops(acts[k].held)
              /\ acts' = [SubSeq(acts, 1, k - 1) EXCEPT ![k - 1] = WithVal(acts[k - 1], Top.val)]
    BY CatchReturnForm
  <1> DEFINE n == k - 1
             cs == CellsOf(Frame, Above(acts[n].base))
             h == acts[k].held
             u == Unrefs(cs)
             d == Drops(h)
             s == acts'
  <1>4. h \in Seq(AnyValue)
    BY <1>1, <1>3, CallerFacts
  <1>5. work' = u \o d /\ s = acts' /\ s = [SubSeq(acts, 1, n) EXCEPT ![n] = WithVal(acts[n], Top.val)]
    BY <1>3
  <1>6. Above(acts[n].base) \subseteq Block
    <2> DEFINE p == acts[n].base
    <2>1. DOMAIN blocks = 1 .. Len(blocks) /\ Len(blocks) \in Nat /\ blocks \in Seq(Block)
      BY StateFacts DEF Inv1, Loose
    <2>2. p \in DOMAIN blocks
      BY <1>1, <1>3, CallerBlock DEF Blocky
    <2> HIDE DEF p
    <2>3. \A m \in p .. Len(blocks) : m \in DOMAIN blocks
      BY <2>1, <2>2
    <2>4. \A m \in DOMAIN blocks : blocks[m] \in Block
      BY <2>1, LenFacts
    <2>5. Above(p) \subseteq Block
      BY <2>3, <2>4 DEF Above
    <2> QED BY <2>5 DEF p
  <1>7. IsFiniteSet(cs) /\ cs \subseteq Nat
    BY <1>1, <1>6, FrameCells
  <1> HIDE DEF n, cs, s
  <1>8. u \in Seq(AnyUpdate) /\ d \in Seq(AnyUpdate)
    BY <1>4, <1>7, UnrefsFacts, DropsFacts
  <1>9. Releasing(u) /\ \A o : Count(u, Drop(o)) = 0
    BY <1>7, UnrefsRelease
  <1>10. Releasing(d) /\ \A o : Count(d, Drop(o)) = Count(h, o)
    BY <1>4, DropsRelease
  <1> HIDE DEF u, d
  <1>11. Releasing(work')
    BY <1>5, <1>8, <1>9, <1>10, ReleasingConcat
  <1>12. ASSUME NEW o \in DOMAIN objs PROVE Copies(acts', o) + Count(work', Drop(o)) + objs[o].leaked = Copies(acts, o) + objs[o].leaked
    <2>1. o # Nil
      BY BookFacts
    <2>2. Copies(s, o) + Count(h, o) = Copies(acts, o)
      BY <1>1, <1>2, <1>3, <1>5, <2>1, ReturnMoves, SMTT(60) DEF n
    <2>3. Count(u \o d, Drop(o)) = Count(u, Drop(o)) + Count(d, Drop(o))
      BY <1>8, CountConcat
    <2>4. Count(h, o) \in Nat
      BY <1>4, CountType
    <2>5. Count(work', Drop(o)) = Count(h, o)
      BY <1>5, <1>9, <1>10, <2>3, <2>4
    <2> QED BY <1>5, <2>2, <2>5
  <1>13. Settles(objs, acts, objs', acts', work')
    BY <1>1, <1>12 DEF Settles
  <1> QED BY <1>1, <1>11, <1>13, TalliedSame, DropStep

-----------------------------------------------------------------------------
(* Values that are read: a name that may be read is a cell that exists, so *)
(* the function in it exists.                                              *)
LEMMA HeldCell ==
  ASSUME Inv1, Counted, NEW c \in DOMAIN cells,
         \/ Rooted(frames, globals, lost, c)
         \/ \E o \in DOMAIN objs : objs[o].live /\ InNames(objs[o].closure, c)
         \/ \E i \in DOMAIN work : work[i] = Unref(c)
  PROVE  cells[c].refs > 0
  <1> DEFINE r == B(Rooted(frames, globals, lost, c))
             k == Cardinality(CapturersIn(objs, c))
             u == Count(work, Unref(c))
  <1>1. cells[c].refs = r + k + u
    BY DEF Counted, CellLedger, Due
  <1>2. objs \in Seq(AnyObj) /\ work \in Seq(AnyUpdate)
    BY KeptTypes
  <1>3. r \in Nat /\ k \in Nat /\ u \in Nat
    BY <1>2, CapturersType, CountType DEF B
  <1>4. r >= 1 \/ k >= 1 \/ u >= 1
    <2>1. CASE Rooted(frames, globals, lost, c)
      BY <2>1 DEF B
    <2>2. ASSUME NEW o \in DOMAIN objs, objs[o].live, InNames(objs[o].closure, c) PROVE k >= 1
      <3>1. o \in CapturersIn(objs, c)
        BY <2>2 DEF CapturersIn
      <3>2. k # 0
        BY <1>2, <3>1, CapturersType, FS_EmptySet
      <3> QED BY <1>3, <3>2
    <2>3. ASSUME NEW i \in DOMAIN work, work[i] = Unref(c) PROVE u >= 1
      <3>1. Count(work, work[i]) >= 1
        BY <1>2, CountSome
      <3> QED BY <2>3, <3>1
    <2> QED BY <2>1, <2>2, <2>3
  <1> HIDE DEF r, k, u
  <1> QED BY <1>1, <1>3, <1>4

LEMMA LookupHeld ==
  ASSUME Inv1, Counted, status = "run", NEW n \in Name, ~ ReadsFreed(n), Lookup(n) # 0
  PROVE  Lookup(n) \in DOMAIN cells /\ cells[Lookup(n)].refs > 0
  <1> DEFINE c == Lookup(n)
  <1>1. /\ c \in 0 .. Len(cells)
        /\ \/ \E b \in Block : Frame[b][n] = c
           \/ functions # << >> /\ objs[Last(functions)].closure[n] = c /\ Found(n) = 0
           \/ globals[n] = c
    BY LookupFacts
  <1>2. c \in DOMAIN cells
    BY <1>1, StateFacts
  <1> HIDE DEF c
  <1>3. CASE \E b \in Block : Frame[b][n] = c
    <2>1. Frame = frames[Len(frames)] /\ Len(frames) \in DOMAIN frames
      BY RunFacts
    <2>2. Rooted(frames, globals, lost, c)
      BY <1>3, <2>1 DEF Rooted, InFrames
    <2> QED BY <1>2, <2>2, HeldCell DEF c
  <1>4. CASE functions # << >> /\ objs[Last(functions)].closure[n] = c /\ Found(n) = 0
    <2>1. functions \in Seq(Nat) /\ FunctionsIn(functions, Len(objs)) /\ DOMAIN objs = 1 .. Len(objs)
      BY KeptTypes, StateFacts
    <2>2. Last(functions) \in DOMAIN objs
      BY <1>4, <2>1, LenFacts DEF FunctionsIn
    <2>3. objs[Last(functions)].live /\ InNames(objs[Last(functions)].closure, c)
      BY <1>4 DEF ReadsFreed, InNames
    <2> QED BY <1>2, <2>2, <2>3, HeldCell DEF c
  <1>5. CASE globals[n] = c
    <2>1. Rooted(frames, globals, lost, c)
      BY <1>5 DEF Rooted, InNames
    <2> QED BY <1>2, <2>1, HeldCell DEF c
  <1> QED BY <1>1, <1>3, <1>4, <1>5

LEMMA ValueLive ==
  ASSUME Inv1, Counted, Books, status = "run", work = << >>, NEW n \in Name \cup {Nil}, n # Nil => ~ ReadsFreed(n), ValueOf(n) # Nil
  PROVE  ValueOf(n) \in DOMAIN objs /\ objs[ValueOf(n)].live
  <1> DEFINE v == ValueOf(n)
             c == Lookup(n)
  <1>1. n # Nil /\ c # 0 /\ v = cells[c].value
    BY DEF ValueOf
  <1>2. n \in Name /\ c \in DOMAIN cells /\ cells[c].refs > 0
    BY <1>1, LookupHeld
  <1>3. v \in 1 .. Len(objs)
    <2>1. ValueIn(v, Len(objs))
      BY ValueFacts
    <2> QED BY <2>1 DEF ValueIn
  <1>4. v \in DOMAIN objs
    BY <1>3, StateFacts
  <1> HIDE DEF c, v
  <1>5. Keeps(cells, work, v, c)
    BY <1>1, <1>2, EmptyList, KeepsPlain
  <1>6. objs[v].live
    BY <1>4, <1>5, LiveBecause
  <1> QED BY <1>4, <1>6 DEF v

(* Capturing counts cells that exist.                                      *)
LEMMA ReferencedLike ==
  ASSUME Inv1, Counted, status = "run", NEW g, \A n \in Name : g[n] # 0 => \E b \in Block : Frame[b][n] = g[n], NEW d
  PROVE  CellsLike(cells, Referenced(g), d)
  <1> DEFINE r == Referenced(g)
  <1>1. /\ DOMAIN r = DOMAIN cells
        /\ \A c \in DOMAIN cells : /\ r[c].value = cells[c].value /\ Cardinality(CapturesOf(g, c)) \in Nat
                                   /\ r[c].refs = cells[c].refs + Cardinality(CapturesOf(g, c))
    BY ReferencedFacts
  <1>2. Frame = frames[Len(frames)] /\ Len(frames) \in DOMAIN frames
    BY RunFacts
  <1> HIDE DEF r
  <1>3. ASSUME NEW c \in DOMAIN cells PROVE r[c].refs > 0 <=> cells[c].refs > 0
    <2>1. cells[c].refs \in Nat /\ c # 0
      BY StateFacts
    <2>2. CASE CapturesOf(g, c) = {}
      <3>1. Cardinality(CapturesOf(g, c)) = 0
        BY <2>2, FS_EmptySet
      <3> QED BY <1>1, <2>1, <3>1
    <2>3. CASE CapturesOf(g, c) # {}
      <3>1. PICK n \in Name : g[n] = c
        BY <2>3 DEF CapturesOf
      <3>2. PICK b \in Block : Frame[b][n] = c
        BY <2>1, <3>1
      <3>3. Rooted(frames, globals, lost, c)
        BY <1>2, <3>2 DEF Rooted, InFrames
      <3>4. cells[c].refs > 0
        BY <3>3, HeldCell
      <3> QED BY <1>1, <2>1, <3>4
    <2> QED BY <2>2, <2>3
  <1>4. CellsLike(cells, r, d)
    BY <1>1, <1>3 DEF CellsLike
  <1> QED BY <1>4 DEF r

LEMMA TargetLike ==
  ASSUME NEW r \in Seq(AnyCell), NEW d, CellsLike(cells, r, d)
  PROVE  CellsLike(cells, WithTarget(r), d)
  <1>1. Nil \in AnyValue
    BY DEF AnyValue
  <1>2. CellsLike(cells, Append(r, NewCell(Nil)), d)
    BY <1>1, AppendLike
  <1> QED BY <1>2 DEF WithTarget

(* A new function is in no cell and in no copy yet.                        *)
LEMMA NewIsNowhere ==
  ASSUME Inv1, NEW o, o = Len(objs) + 1
  PROVE  o # Nil /\ o \in Nat /\ o \notin DOMAIN objs /\ Cardinality(Keepers(cells, << >>, o)) = 0 /\ Copies(acts, o) = 0
  <1>1. /\ o \in Nat /\ o # Nil /\ o \notin DOMAIN objs /\ o \notin 1 .. Len(objs)
    BY StateFacts
  <1>2. CellsIn(cells, Len(objs)) /\ ActsIn(acts, Len(cells), Len(objs)) /\ acts \in Seq(AnyAct)
    BY KeptTypes
  <1> DEFINE e == << >>
  <1>3. NoWrites(e)
    BY EmptyList
  <1> HIDE DEF e
  <1>4. Keepers(cells, e, o) = {}
    <2>1. ASSUME NEW c \in DOMAIN cells PROVE cells[c].value # o
      BY <1>1, <1>2 DEF CellsIn, ValueIn
    <2>2. ASSUME NEW c PROVE ~ Keeps(cells, e, o, c)
      BY <1>3, <2>1, KeepsPlain
    <2> QED BY <2>2 DEF Keepers
  <1>5. SlotsIn(acts, o) = {}
    <2>1. ASSUME NEW k \in DOMAIN acts PROVE SlotsOf(acts[k], o) = {}
      <3>1. ActIn(acts[k], Len(cells), Len(objs))
        BY <1>2 DEF ActsIn
      <3>2. acts[k].val # o /\ \A i \in DOMAIN acts[k].held : acts[k].held[i] # o
        BY <1>1, <3>1 DEF ActIn, ValueIn
      <3> QED BY <3>2 DEF SlotsOf
    <2> QED BY <2>1 DEF SlotsIn
  <1> QED BY <1>1, <1>4, <1>5, FS_EmptySet DEF Copies, e

(* Updates that only count.                                                *)
Adding(w) == \A i \in DOMAIN w : w[i].op = "add"

LEMMA AddingFacts ==
  ASSUME NEW w, Adding(w)
  PROVE  NoWrites(w) /\ (\A cs, o : ~ DropsOld(cs, w, o)) /\ (\A o : Count(w, Drop(o)) = 0)
  <1>1. NoWrites(w) /\ (\A cs, o : ~ DropsOld(cs, w, o))
    BY DEF Adding, NoWrites, DropsOld
  <1>2. ASSUME NEW o PROVE Count(w, Drop(o)) = 0
    <2>1. \A i \in DOMAIN w : w[i] # Drop(o)
      BY DEF Adding, Drop
    <2> QED BY <2>1, CountNone
  <1> QED BY <1>1, <1>2

LEMMA AddingBook ==
  ASSUME Inv1, Books, work = << >>, NEW o \in DOMAIN objs, NEW os, NEW cs \in Seq(AnyCell), NEW w \in Seq(AnyUpdate), NEW st \in Seq(AnyAct),
         SameBook(objs, os), Adding(w), NEW h \in Nat, NEW p \in Nat,
         Cardinality(Keepers(cs, w, o)) = Cardinality(Keepers(cells, << >>, o)) + h,
         Copies(st, o) = Copies(acts, o) + p, Count(w, Add(o)) = h + p, h + p # 0 => objs[o].live
  PROVE  Entered(os, cs, w, st, o)
  <1>1. os[o].count = objs[o].count /\ os[o].live = objs[o].live /\ os[o].leaked = objs[o].leaked
    BY DEF SameBook
  <1>2. Count(w, Drop(o)) = 0 /\ B(DropsOld(cs, w, o)) = 0
    BY AddingFacts DEF B
  <1> DEFINE x == Cardinality(Keepers(cells, << >>, o))
             y == Copies(acts, o)
             l == objs[o].leaked
  <1>3. x \in Nat /\ y \in Nat /\ l \in Nat
    BY BookFacts
  <1>4. Cardinality(Keepers(cs, w, o)) = x + h /\ Copies(st, o) = y + p /\ os[o].leaked = l
    BY <1>1
  <1>5. Count(w, Add(o)) + x + y + l = Cardinality(Keepers(cs, w, o)) + Copies(st, o) + os[o].leaked + Count(w, Drop(o)) + B(DropsOld(cs, w, o))
    <2> HIDE DEF x, y, l
    <2> QED BY <1>2, <1>3, <1>4
  <1>6. Count(w, Add(o)) # 0 => objs[o].live
    OBVIOUS
  <1> QED BY <1>1, <1>3, <1>5, <1>6, BookStep

LEMMA NewBook ==
  ASSUME NEW os, NEW cs, NEW w, Adding(w), NEW st, NEW o, os[o].live, os[o].leaked = 0, NEW h \in Nat, NEW p \in Nat,
         Cardinality(Keepers(cs, w, o)) = h, Copies(st, o) = p, os[o].count + Count(w, Add(o)) = h + p
  PROVE  Entered(os, cs, w, st, o)
  <1>1. Count(w, Drop(o)) = 0 /\ B(DropsOld(cs, w, o)) = 0
    BY AddingFacts DEF B
  <1> QED BY <1>1 DEF Entered, Credit, Debit

(* The statement's value becomes a copy.                                   *)
LEMMA TopCopies ==
  ASSUME Inv1, status = "run", Top.val = Nil, Top.held = << >>, NEW a \in AnyAct, a.held = << >>, NEW s, s = SetTop(a),
         NEW o, o # Nil
  PROVE  Copies(s, o) = Copies(acts, o) + B(a.val = o) /\ B(a.val = o) \in Nat
  <1>1. acts \in Seq(AnyAct) /\ Top = acts[Len(acts)] /\ Len(acts) \in DOMAIN acts
    BY RunFacts
  <1>2. s \in Seq(AnyAct) /\ DOMAIN s = DOMAIN acts /\ s[Len(acts)] = a /\ (\A j \in DOMAIN acts : j # Len(acts) => s[j] = acts[j]) /\ AlikeBut(acts, s, Len(acts))
    BY TopAlike
  <1>3. Short(acts)
    BY HeldShort DEF Short
  <1>4. Short(s)
    <2>1. Len(a.held) =< 4
      OBVIOUS
    <2> QED BY <1>2, <1>3, <2>1 DEF Short
  <1>5. Copies(s, o) + WeightAt(acts, Len(acts), o) = Copies(acts, o) + WeightAt(s, Len(acts), o)
    BY <1>2, <1>3, <1>4, ShortMove
  <1>6. Weight(Top, o) = B(Nil = o) /\ Weight(a, o) = B(a.val = o)
    BY PlainWeight
  <1>7. WeightAt(acts, Len(acts), o) = 0 /\ WeightAt(s, Len(acts), o) = B(a.val = o)
    BY <1>1, <1>2, <1>6 DEF WeightAt, B
  <1>8. Copies(s, o) \in Nat /\ Copies(acts, o) \in Nat /\ B(a.val = o) \in Nat
    BY <1>1, <1>2, CopiesType DEF B
  <1> QED BY <1>5, <1>7, <1>8

LEMMA EvalBook ==
  ASSUME Inv1, Books, status = "run", work = << >>, Top.val = Nil, Top.held = << >>,
         NEW cs \in Seq(AnyCell), CellsLike(cells, cs, 0), NEW w \in Seq(AnyUpdate), Adding(w),
         NEW a \in AnyAct, a.held = << >>, NEW st \in Seq(AnyAct), st = SetTop(a), NEW os, SameBook(objs, os), NEW o \in DOMAIN objs,
         Count(w, Add(o)) = B(a.val = o), a.val = o => objs[o].live
  PROVE  Entered(os, cs, w, st, o)
  <1>1. o # Nil /\ o \in Nat /\ Cardinality(Keepers(cells, << >>, o)) \in Nat
    BY BookFacts
  <1>2. Keepers(cs, << >>, o) = Keepers(cells, << >>, o)
    BY <1>1, KeptTypes, LikeSame DEF SameKeepers
  <1>3. Keepers(cs, w, o) = Keepers(cs, << >>, o)
    BY AddingFacts, EmptyList, KeepersPlain
  <1> DEFINE h == 0
             p == B(a.val = o)
  <1>4. Copies(st, o) = Copies(acts, o) + p /\ p \in Nat
    <2>1. o # Nil
      BY <1>1
    <2>2. Copies(st, o) = Copies(acts, o) + B(a.val = o) /\ B(a.val = o) \in Nat
      BY ONLY Inv1, status = "run", Top.val = Nil, Top.held = << >>, a \in AnyAct, a.held = << >>, st = SetTop(a), <2>1, TopCopies
    <2> QED BY <2>2
  <1>5. Cardinality(Keepers(cs, w, o)) = Cardinality(Keepers(cells, << >>, o)) + h /\ h \in Nat /\ Count(w, Add(o)) = h + p
    BY <1>1, <1>2, <1>3, <1>4
  <1>6. h + p # 0 => objs[o].live
    BY DEF B
  <1> HIDE DEF h, p
  <1> QED BY <1>4, <1>5, <1>6, AddingBook

LEMMA AddList ==
  ASSUME NEW v \in AnyValue, NEW w, w = <<Add(v)>>
  PROVE  Adding(w) /\ w \in Seq(AnyUpdate) /\ \A o : Count(w, Add(o)) = B(v = o)
  <1>1. DOMAIN w = {1} /\ w[1] = Add(v) /\ Add(v).op = "add"
    BY DEF Add
  <1>2. Adding(w)
    BY <1>1 DEF Adding
  <1>3. ASSUME NEW o PROVE Count(w, Add(o)) = B(v = o)
    <2>1. Add(v) = Add(o) <=> v = o
      BY DEF Add
    <2> QED BY <2>1, CountOne DEF B
  <1>4. Add(v) \in AnyUpdate
    BY UpdatesTyped
  <1> QED BY <1>2, <1>3, <1>4

(* The value of a name that may be read.                                   *)
LEMMA ReadLive ==
  ASSUME Inv1, Counted, Books, status = "run", work = << >>, Readable, NEW n \in Name \cup {Nil}, n = S.e.n \/ n = S.e.arg, NEW o \in DOMAIN objs, ValueOf(n) = o
  PROVE  objs[o].live
  <1>1. o # Nil
    BY BookFacts
  <1>2. n # Nil => ~ ReadsFreed(n)
    BY DEF Readable, Names
  <1> QED BY <1>1, <1>2, ValueLive

LEMMA EvalValueBooks ==
  ASSUME Inv1, Inv1', Counted, Books, EvalValue
  PROVE  Books'
  <1> DEFINE v == IF S.e.k = "nil" THEN Nil ELSE ValueOf(S.e.n)
             a == [Top EXCEPT !.at = "store", !.val = v, !.cell = Target]
             ops == {"local", "assign", "return"}
             cs == cells'
             w == work'
             st == acts'
  <1>1. /\ AtStat(ops) /\ st = SetTop(a) /\ w = <<Add(v)>> /\ cs = WithTarget(cells) /\ objs' = objs /\ Readable
        /\ cs = cells' /\ w = work' /\ st = acts'
    BY DEF EvalValue
  <1> HIDE DEF ops
  <1>2. status = "run" /\ work = << >> /\ S.e.n \in Name \cup {Nil} /\ Top.val = Nil /\ Top.held = << >>
    BY <1>1, StatFacts
  <1>3. v \in AnyValue /\ \A o \in DOMAIN objs : v = o => objs[o].live
    <2>1. CASE S.e.k = "nil"
      <3>1. \A o \in DOMAIN objs : o # Nil
        BY BookFacts
      <3> QED BY <2>1, <3>1 DEF AnyValue
    <2>2. CASE S.e.k # "nil"
      <3>1. v = ValueOf(S.e.n)
        BY <2>2
      <3> HIDE DEF v
      <3>2. v \in AnyValue
        BY <1>2, <3>1, ValueFacts
      <3>3. ASSUME NEW o \in DOMAIN objs, v = o PROVE objs[o].live
        BY <1>1, <1>2, <3>1, <3>3, ReadLive
      <3> QED BY <3>2, <3>3
    <2> QED BY <2>1, <2>2
  <1>4. cs \in Seq(AnyCell) /\ w \in Seq(AnyUpdate) /\ st \in Seq(AnyAct)
    BY DEF Inv1, Loose
  <1> HIDE DEF v
  <1>5. a \in AnyAct /\ a.held = << >> /\ a.val = v
    <2>1. Top \in AnyAct /\ Len(acts) \in DOMAIN acts /\ acts \in Seq(AnyAct)
      BY <1>2, RunFacts
    <2>2. st[Len(acts)] = a /\ Len(acts) \in DOMAIN st
      BY <1>1, <2>1 DEF SetTop
    <2>3. a \in AnyAct
      BY <1>4, <2>2, LenFacts
    <2>4. a.held = Top.held /\ a.val = v
      BY <2>1 DEF AnyAct
    <2> QED BY <1>2, <2>3, <2>4
  <1> HIDE DEF cs, w, st, a
  <1> DEFINE z == 0
  <1>6. CellsLike(cells, cs, z)
    <2>1. CellsLike(cells, cells, z) /\ cells \in Seq(AnyCell)
      BY SelfLike, KeptTypes
    <2> HIDE DEF z
    <2> QED BY <1>1, <2>1, TargetLike
  <1>7. Adding(w) /\ \A o : Count(w, Add(o)) = B(v = o)
    BY <1>1, <1>3, AddList
  <1>8. SameBook(objs, objs)
    BY DEF SameBook
  <1>9. ASSUME NEW o \in DOMAIN objs PROVE Entered(objs, cs, w, st, o)
    <2>1. Count(w, Add(o)) = B(a.val = o) /\ (a.val = o => objs[o].live)
      BY <1>3, <1>5, <1>7
    <2> QED BY <1>1, <1>2, <1>4, <1>5, <1>6, <1>7, <1>8, <2>1, EvalBook
  <1> QED BY <1>1, <1>9 DEF Books

LEMMA NothingAdded ==
  ASSUME NEW w, w = << >>
  PROVE  Adding(w) /\ \A o : Count(w, Add(o)) = 0
  <1>1. DOMAIN w = {}
    OBVIOUS
  <1>2. \A o : Count(w, Add(o)) = 0
    BY EmptyList
  <1> QED BY <1>1, <1>2 DEF Adding

LEMMA BooksOpened ==
  ASSUME Inv1, NEW x \in AnyObj, NEW os, os = Append(objs, x), NEW y, y = Len(objs) + 1
  PROVE  SameBook(objs, os) /\ os[y] = x /\ (\A o \in DOMAIN os : o \in DOMAIN objs \/ o = y)
  <1>1. objs \in Seq(AnyObj) /\ DOMAIN objs = 1 .. Len(objs) /\ Len(objs) \in Nat
    BY KeptTypes, StateFacts
  <1>2. DOMAIN os = 1 .. (Len(objs) + 1) /\ os[y] = x /\ \A k \in 1 .. Len(objs) : os[k] = objs[k]
    BY <1>1, AppendFacts
  <1>3. \A o \in DOMAIN objs : o \in DOMAIN os /\ os[o] = objs[o]
    BY <1>1, <1>2
  <1>4. \A o \in DOMAIN os : o \in DOMAIN objs \/ o = y
    BY <1>1, <1>2, NotLast
  <1> QED BY <1>2, <1>3, <1>4 DEF SameBook

LEMMA EvalFunctionBooks ==
  ASSUME Inv1, Inv1', Counted, Books, EvalFunction
  PROVE  Books'
  <1> DEFINE y == Len(objs) + 1
             a == [Top EXCEPT !.at = "store", !.val = y, !.cell = Target]
             ops == {"local", "assign", "return"}
             x == NewObj(S.e.f, Top.env, 1)
             r == Referenced(Closure(S.e.f))
             cs == cells'
             w == work'
             st == acts'
             os == objs'
  <1>1. /\ AtStat(ops) /\ S.e.k = "fun" /\ st = SetTop(a) /\ os = Append(objs, x) /\ cs = WithTarget(r) /\ w = work
        /\ cs = cells' /\ w = work' /\ st = acts' /\ os = objs'
    BY DEF EvalFunction, NextObj
  <1> HIDE DEF ops
  <1>2. status = "run" /\ work = << >> /\ Top.val = Nil /\ Top.held = << >> /\ S.e.f \in Body
    BY <1>1, StatFacts
  <1>3. x \in AnyObj /\ x.count = 1 /\ x.live /\ x.leaked = 0
    BY <1>2, NewObjFacts
  <1>4. r \in Seq(AnyCell)
    BY ReferencedFacts
  <1> DEFINE z == 0
  <1>5. CellsLike(cells, r, z)
    BY <1>2, ClosureFacts, ReferencedLike
  <1> HIDE DEF x, r
  <1>6. cs \in Seq(AnyCell) /\ w \in Seq(AnyUpdate) /\ st \in Seq(AnyAct)
    BY DEF Inv1, Loose
  <1>7. a \in AnyAct /\ a.held = << >> /\ a.val = y
    <2>1. Top \in AnyAct /\ Len(acts) \in DOMAIN acts /\ acts \in Seq(AnyAct)
      BY <1>2, RunFacts
    <2>2. st[Len(acts)] = a /\ Len(acts) \in DOMAIN st
      BY <1>1, <2>1 DEF SetTop
    <2>3. a \in AnyAct
      BY <1>6, <2>2, LenFacts
    <2>4. a.held = Top.held /\ a.val = y
      BY <2>1 DEF AnyAct
    <2> QED BY <1>2, <2>3, <2>4
  <1>8. y # Nil /\ y \in Nat /\ y \notin DOMAIN objs /\ Cardinality(Keepers(cells, << >>, y)) = 0 /\ Copies(acts, y) = 0
    BY NewIsNowhere
  <1>9. SameBook(objs, os) /\ os[y] = x /\ (\A o \in DOMAIN os : o \in DOMAIN objs \/ o = y)
    <2>1. y = Len(objs) + 1
      OBVIOUS
    <2>2. os = Append(objs, x) /\ x \in AnyObj
      BY <1>1, <1>3
    <2> HIDE DEF y, os
    <2> QED BY <2>1, <2>2, BooksOpened, ZenonT(60)
  <1> HIDE DEF cs, w, st, a, y, os
  <1>10. CellsLike(cells, cs, z)
    <2> HIDE DEF z
    <2> QED BY <1>1, <1>4, <1>5, TargetLike
  <1>11. Adding(w) /\ \A o : Count(w, Add(o)) = 0
    BY <1>1, <1>2, NothingAdded
  <1>12. ASSUME NEW o \in DOMAIN objs PROVE Entered(os, cs, w, st, o)
    <2>1. a.val # o
      BY <1>7, <1>8
    <2>2. Count(w, Add(o)) = B(a.val = o) /\ (a.val = o => objs[o].live)
      BY <1>11, <2>1 DEF B
    <2> QED BY <1>1, <1>2, <1>6, <1>7, <1>9, <1>10, <1>11, <2>2, EvalBook
  <1>13. Entered(os, cs, w, st, y)
    <2> DEFINE h == 0
               p == 1
    <2>1. Copies(st, y) = Copies(acts, y) + B(a.val = y)
      BY <1>1, <1>2, <1>7, <1>8, TopCopies
    <2>2. Copies(st, y) = p /\ h \in Nat /\ p \in Nat
      BY <1>7, <1>8, <2>1 DEF B
    <2>3. Keepers(cs, << >>, y) = Keepers(cells, << >>, y)
      BY <1>6, <1>8, <1>10, KeptTypes, LikeSame DEF SameKeepers
    <2>4. Keepers(cs, w, y) = Keepers(cs, << >>, y)
      BY <1>1, <1>2
    <2>5. Cardinality(Keepers(cs, w, y)) = h
      BY <1>8, <2>3, <2>4
    <2>6. os[y].count + Count(w, Add(y)) = h + p /\ os[y].live /\ os[y].leaked = 0
      BY <1>3, <1>9, <1>11
    <2> HIDE DEF h, p
    <2> QED BY <1>11, <2>2, <2>5, <2>6, NewBook
  <1> QED BY <1>1, <1>9, <1>12, <1>13 DEF Books

(* A failure: the copies stay for the unwinding, and a function that could *)
(* not be closed is counted by nobody.                                     *)
LEMMA ThrowErrorBooks ==
  ASSUME Inv1, Inv1', Counted, Books, ThrowError
  PROVE  Books'
  <1>1. AtStat(ThrowOps) /\ status = "run" /\ work = << >> /\ acts' = acts /\ work' = work
    BY ThrowErrorForm
  <1> DEFINE cs == cells'
             os == objs'
             z == 0
  <1>2. cs \in Seq(AnyCell) /\ cs = cells' /\ os = objs' /\ acts \in Seq(AnyAct) /\ cells \in Seq(AnyCell)
    BY KeptTypes DEF Inv1, Loose
  <1>3. \A j : Alike(acts, acts, j)
    BY DEF Alike, SameCopies
  <1>4. SameStack(acts, acts') /\ Silent(work')
    BY <1>1, <1>2, <1>3, AlikeSame, EmptyList DEF Silent
  <1>5. CASE cs = WithTarget(cells) /\ os = objs
    <2>1. CellsLike(cells, cells, z)
      BY SelfLike
    <2>2. CellsLike(cells, cs, z)
      <3> HIDE DEF z, cs
      <3> QED BY <1>2, <1>5, <2>1, TargetLike
    <2>3. SameKeepers(cells, cells')
      BY <1>2, <2>2, LikeSame
    <2> QED BY <1>1, <1>4, <1>5, <2>3, SilentStep
  <1>6. ASSUME S.e.f \in Body, NEW captured \in SUBSET Name,
               cs = WithTarget(Referenced(Part(S.e.f, captured))), os = Append(objs, Broken(S.e.f, captured))
        PROVE  Books'
    <2> DEFINE x == Broken(S.e.f, captured)
               g == Part(S.e.f, captured)
               r == Referenced(g)
               y == Len(objs) + 1
               w == << >>
    <2>1. /\ x \in AnyObj /\ x.live /\ x.count = 0 /\ x.leaked = 0
          /\ \A n \in Name : g[n] # 0 => g[n] = Closure(S.e.f)[n]
      BY <1>1, <1>6, BrokenFacts
    <2>2. os = Append(objs, x) /\ cs = WithTarget(r) /\ y = Len(objs) + 1
      BY <1>6
    <2>3. r \in Seq(AnyCell)
      BY ReferencedFacts
    <2> HIDE DEF x, g
    <2>4. \A n \in Name : g[n] # 0 => \E b \in Block : Frame[b][n] = g[n]
      BY <1>1, <2>1, ClosureFacts
    <2>5. CellsLike(cells, r, z)
      BY <1>1, <2>4, ReferencedLike
    <2> HIDE DEF r, y, cs, os
    <2>6. CellsLike(cells, cs, z)
      <3> HIDE DEF z
      <3> QED BY <2>2, <2>3, <2>5, TargetLike
    <2>7. SameKeepers(cells, cs)
      BY <1>2, <2>6, LikeSame
    <2>8. y # Nil /\ y \in Nat /\ y \notin DOMAIN objs /\ Cardinality(Keepers(cells, << >>, y)) = 0 /\ Copies(acts, y) = 0
      BY <2>2, NewIsNowhere
    <2>9. SameBook(objs, os) /\ os[y] = x /\ (\A o \in DOMAIN os : o \in DOMAIN objs \/ o = y)
      <3>1. os = Append(objs, x) /\ x \in AnyObj
        BY <2>1, <2>2
      <3>2. y = Len(objs) + 1
        BY <2>2
      <3> QED BY ONLY Inv1, <3>1, <3>2, BooksOpened
    <2>10. w = work' /\ w \in Seq(AnyUpdate) /\ Silent(w) /\ SameStack(acts, acts) /\ Adding(w) /\ Count(w, Add(y)) = 0
      BY <1>1, <1>4, NothingAdded
    <2>11. Keepers(cs, w, y) = Keepers(cells, << >>, y)
      BY <2>7, <2>8 DEF SameKeepers
    <2> HIDE DEF w
    <2>12. ASSUME NEW o \in DOMAIN objs PROVE Entered(os, cs, w, acts, o)
      BY <1>1, <1>2, <2>7, <2>9, <2>10, SilentBook
    <2>13. Entered(os, cs, w, acts, y)
      <3> DEFINE h == 0
                 p == 0
      <3>1. Copies(acts, y) = p /\ h \in Nat /\ p \in Nat /\ Cardinality(Keepers(cs, w, y)) = h
        BY <2>8, <2>11
      <3>2. os[y].count + Count(w, Add(y)) = h + p /\ os[y].live /\ os[y].leaked = 0
        BY <2>1, <2>9, <2>10
      <3> HIDE DEF h, p
      <3> QED BY <2>10, <3>1, <3>2, NewBook
    <2> QED BY <1>1, <1>2, <2>9, <2>10, <2>12, <2>13 DEF Books
  <1> QED BY <1>5, <1>6, ThrowErrorForm

LEMMA NewHolder ==
  ASSUME NEW r \in Seq(AnyCell), NEW v \in AnyValue, NEW t, t = Append(r, NewCell(v)), NEW d, d = Len(r) + 1
  PROVE  t \in Seq(AnyCell) /\ d \in DOMAIN t /\ t[d].value = v /\ t[d].refs > 0
  <1>1. NewCell(v) \in AnyCell /\ NewCell(v).value = v /\ NewCell(v).refs = 1
    BY DEF NewCell, AnyCell
  <1>2. t \in Seq(AnyCell) /\ DOMAIN t = 1 .. (Len(r) + 1) /\ t[Len(r) + 1] = NewCell(v) /\ Len(r) \in Nat
    BY <1>1, AppendFacts, LenFacts
  <1> QED BY <1>1, <1>2

LEMMA DefineFunctionBooks ==
  ASSUME Inv1, Inv1', Counted, Books, DefineFunction
  PROVE  Books'
  <1> DEFINE b == Top.ctx
             n == S.id
             c == Len(cells) + 1
             old == IF S.op = "function" THEN globals[n] ELSE Frame[b][n]
             y == Len(objs) + 1
             x == NewObj(S.e.f, Top.env, 1)
             r == Referenced(Closure(S.e.f))
             e == IF S.op = "function" THEN Top.env ELSE PutName(Top.env, n, c)
             a == [Advanced EXCEPT !.env = e]
             cs == cells'
             w == work'
             st == acts'
             os == objs'
  <1>1. /\ status = "run" /\ work = << >> /\ Top.op \in Blocky /\ Top.val = Nil /\ Top.held = << >> /\ S.e.f \in Body /\ n \in Name
        /\ S.op \in {"function", "localfunction"} /\ os = Append(objs, x) /\ cs = Append(r, NewCell(y)) /\ w = << >>
    BY DefineFunctionForm DEF OldEntry
  <1>2. /\ S.op = "function" => st = SetTop([Advanced EXCEPT !.env = Top.env])
        /\ S.op = "localfunction" => st = SetTop([Advanced EXCEPT !.env = PutName(Top.env, n, c)])
    BY DefineFunctionForm DEF OldEntry
  <1>3. st = SetTop(a) /\ st = acts' /\ cs = cells' /\ w = work' /\ os = objs'
    <2>1. CASE S.op = "function"
      BY <1>2, <2>1
    <2>2. CASE S.op = "localfunction"
      BY <1>2, <2>2
    <2> QED BY <1>1, <2>1, <2>2
  <1>4. x \in AnyObj /\ x.count = 1 /\ x.live /\ x.leaked = 0
    BY <1>1, NewObjFacts
  <1>5. r \in Seq(AnyCell) /\ Len(r) = Len(cells) /\ cells \in Seq(AnyCell)
    BY ReferencedFacts, KeptTypes
  <1>6. y # Nil /\ y \in Nat /\ y \notin DOMAIN objs /\ Cardinality(Keepers(cells, << >>, y)) = 0 /\ Copies(acts, y) = 0
    BY NewIsNowhere
  <1>7. y \in AnyValue /\ y = Len(objs) + 1 /\ c = Len(r) + 1 /\ c \notin DOMAIN cells
    BY <1>5, <1>6, StateFacts DEF AnyValue
  <1>8. e \in [Name -> Nat] /\ e = e
    <2>1. Top.env \in [Name -> Nat] /\ c \in Nat
      BY <1>1, RunFacts, ActFacts, StateFacts, SMTT(60)
    <2>2. PutName(Top.env, n, c) \in [Name -> Nat]
      <3> DEFINE g == Top.env
                 t == PutName(g, n, c)
      <3>1. g \in [Name -> Nat] /\ c \in Nat /\ n \in Name /\ t = PutName(g, n, c)
        BY <1>1, <2>1
      <3> HIDE DEF g, c, n, t
      <3>2. t \in [Name -> Nat]
        BY <3>1, NamePut
      <3> QED BY <3>2 DEF t, g
    <2> QED BY <2>1, <2>2
  <1>9. CellsLike(cells, r, c)
    <2>1. \A k \in Name : Closure(S.e.f)[k] # 0 => \E d \in Block : Frame[d][k] = Closure(S.e.f)[k]
      BY <1>1, ClosureFacts
    <2> HIDE DEF c
    <2> QED BY <1>1, <2>1, ReferencedLike
  <1> HIDE DEF x, r, y, c, e
  <1>10. a \in AnyAct /\ a.held = << >> /\ a.val = Nil
    BY <1>1, <1>8, AdvancedFacts
  <1> HIDE DEF cs, w, st, a, os
  <1>11. w \in Seq(AnyUpdate) /\ st \in Seq(AnyAct)
    BY <1>3 DEF Inv1, Loose
  <1>12. cs \in Seq(AnyCell) /\ c \in DOMAIN cs /\ cs[c].value = y /\ cs[c].refs > 0
    BY <1>1, <1>5, <1>7, NewHolder, SMTT(60)
  <1>13. CellsLike(cells, cs, c)
    BY <1>1, <1>5, <1>7, <1>9, AppendLike
  <1>14. SameBook(objs, os) /\ os[y] = x /\ (\A o \in DOMAIN os : o \in DOMAIN objs \/ o = y)
    <2>1. os = Append(objs, x) /\ x \in AnyObj
      BY <1>1, <1>4
    <2>2. y = Len(objs) + 1
      BY <1>7
    <2> QED BY ONLY Inv1, <2>1, <2>2, BooksOpened, ZenonT(60)
  <1>15. Adding(w) /\ (\A o : Count(w, Add(o)) = 0) /\ NoWrites(w)
    BY <1>1, NothingAdded, AddingFacts
  <1>16. ASSUME NEW o, o # Nil PROVE Copies(st, o) = Copies(acts, o) + 0 /\ Copies(acts, o) \in Nat
    <2>1. Copies(st, o) = Copies(acts, o) + B(a.val = o)
      <3>1. status = "run" /\ Top.val = Nil /\ Top.held = << >>
        BY <1>1
      <3>2. a \in AnyAct /\ a.held = << >> /\ st = SetTop(a)
        BY <1>3, <1>10
      <3> QED BY ONLY Inv1, <3>1, <3>2, <1>16, TopCopies
    <2> QED BY <1>10, <1>16, <2>1, KeptTypes, CopiesType DEF B
  <1>17. ASSUME NEW o, o # Nil PROVE Cardinality(Keepers(cs, w, o)) = Cardinality(Keepers(cells, << >>, o)) + B(y = o)
    <2>1. Cardinality(Keepers(cs, w, o)) = Cardinality(Keepers(cells, << >>, o)) + B(cs[c].value = o)
      BY <1>5, <1>7, <1>12, <1>13, <1>15, <1>17, LikeMove
    <2> QED BY <1>12, <2>1
  <1>18. ASSUME NEW o \in DOMAIN objs PROVE Entered(os, cs, w, st, o)
    <2> DEFINE h == 0
               p == 0
    <2>1. o # Nil /\ y # o /\ Cardinality(Keepers(cells, << >>, o)) \in Nat
      <3>1. o # Nil /\ Cardinality(Keepers(cells, work, o)) \in Nat
        BY BookFacts
      <3> QED BY <1>1, <1>6, <3>1
    <2>2. Cardinality(Keepers(cs, w, o)) = Cardinality(Keepers(cells, << >>, o)) + h /\ h \in Nat /\ p \in Nat
      BY <1>17, <2>1 DEF B
    <2>3. Copies(st, o) = Copies(acts, o) + p /\ Count(w, Add(o)) = h + p /\ (h + p # 0 => objs[o].live)
      BY <1>15, <1>16, <2>1
    <2> HIDE DEF h, p
    <2> QED BY <1>1, <1>11, <1>12, <1>14, <1>15, <2>2, <2>3, AddingBook
  <1>19. Entered(os, cs, w, st, y)
    <2> DEFINE h == 1
               p == 0
    <2>1. Copies(st, y) = p /\ h \in Nat /\ p \in Nat
      BY <1>6, <1>16
    <2>2. Cardinality(Keepers(cs, w, y)) = h
      BY <1>6, <1>17 DEF B
    <2>3. os[y].count + Count(w, Add(y)) = h + p /\ os[y].live /\ os[y].leaked = 0
      BY <1>4, <1>14, <1>15
    <2> HIDE DEF h, p
    <2> QED BY <1>15, <2>1, <2>2, <2>3, NewBook
  <1> QED BY <1>3, <1>14, <1>18, <1>19 DEF Books

-----------------------------------------------------------------------------
(* A call: two copies of the function, two of the argument, and the cell   *)
(* of the parameter.                                                       *)
LEMMA CountLonger ==
  ASSUME NEW A, NEW s \in Seq(A), NEW t \in Seq(A), Len(t) = Len(s) + 1, \A i \in 1 .. Len(s) : t[i] = s[i], NEW y \in A, y = t[Len(s) + 1], NEW x
  PROVE  Count(t, x) = Count(s, x) + B(y = x)
  <1> DEFINE u == Append(s, y)
  <1>1. u \in Seq(A) /\ Len(u) = Len(s) + 1 /\ (\A i \in 1 .. Len(s) : u[i] = s[i]) /\ u[Len(s) + 1] = y
    BY AppendFacts
  <1>2. Count(u, x) = Count(s, x) + B(y = x)
    BY CountAppend
  <1> HIDE DEF u
  <1>3. \A i \in 1 .. Len(t) : t[i] = u[i]
    <2>1. Len(s) \in Nat
      BY LenFacts
    <2> QED BY <1>1, <2>1, NotLast
  <1>4. t = u
    BY <1>1, <1>3, SeqEqual
  <1> QED BY <1>2, <1>4

LEMMA CountThree ==
  ASSUME NEW A, NEW a \in A, NEW b \in A, NEW c \in A, NEW x
  PROVE  <<a, b, c>> \in Seq(A) /\ Count(<<a, b, c>>, x) = B(a = x) + B(b = x) + B(c = x)
  <1>1. Count(<<a>>, x) = B(a = x)
    BY CountOne
  <1>2. Count(<<a, b>>, x) = Count(<<a>>, x) + B(b = x)
    <2> DEFINE s == <<a>>
               t == <<a, b>>
    <2>1. /\ s \in Seq(A) /\ t \in Seq(A) /\ Len(t) = Len(s) + 1 /\ (\A i \in 1 .. Len(s) : t[i] = s[i]) /\ b = t[Len(s) + 1]
      OBVIOUS
    <2> HIDE DEF s, t
    <2>2. Count(t, x) = Count(s, x) + B(b = x)
      BY <2>1, CountLonger
    <2> QED BY <2>2 DEF s, t
  <1>3. Count(<<a, b, c>>, x) = Count(<<a, b>>, x) + B(c = x)
    <2> DEFINE s == <<a, b>>
               t == <<a, b, c>>
    <2>1. /\ s \in Seq(A) /\ t \in Seq(A) /\ Len(t) = Len(s) + 1 /\ (\A i \in 1 .. Len(s) : t[i] = s[i]) /\ c = t[Len(s) + 1]
      OBVIOUS
    <2> HIDE DEF s, t
    <2>2. Count(t, x) = Count(s, x) + B(c = x)
      BY <2>1, CountLonger
    <2> QED BY <2>2 DEF s, t
  <1>4. B(a = x) \in Nat /\ B(b = x) \in Nat /\ B(c = x) \in Nat
    BY DEF B
  <1> QED BY <1>1, <1>2, <1>3, <1>4

LEMMA CountQuad ==
  ASSUME NEW A, NEW a \in A, NEW b \in A, NEW c \in A, NEW d \in A, NEW x
  PROVE  <<a, b, c, d>> \in Seq(A) /\ Count(<<a, b, c, d>>, x) = B(a = x) + B(b = x) + B(c = x) + B(d = x)
  <1>1. Count(<<a, b, c>>, x) = B(a = x) + B(b = x) + B(c = x)
    BY CountThree
  <1>2. Count(<<a, b, c, d>>, x) = Count(<<a, b, c>>, x) + B(d = x)
    <2> DEFINE s == <<a, b, c>>
               t == <<a, b, c, d>>
    <2>1. /\ s \in Seq(A) /\ t \in Seq(A) /\ Len(t) = Len(s) + 1 /\ (\A i \in 1 .. Len(s) : t[i] = s[i]) /\ d = t[Len(s) + 1]
      OBVIOUS
    <2> HIDE DEF s, t
    <2>2. Count(t, x) = Count(s, x) + B(d = x)
      BY <2>1, CountLonger
    <2> QED BY <2>2 DEF s, t
  <1> QED BY <1>1, <1>2

LEMMA CountFour ==
  ASSUME NEW A, NEW f \in A, NEW a \in A, NEW x
  PROVE  <<f, f, a, a>> \in Seq(A) /\ Count(<<f, f, a, a>>, x) = 2 * B(f = x) + 2 * B(a = x)
  <1>1. <<f, f, a, a>> \in Seq(A) /\ Count(<<f, f, a, a>>, x) = B(f = x) + B(f = x) + B(a = x) + B(a = x)
    BY CountQuad
  <1>2. B(f = x) \in Nat /\ B(a = x) \in Nat
    BY DEF B
  <1> QED BY <1>1, <1>2

LEMMA CallList ==
  ASSUME NEW f \in AnyValue, NEW a \in AnyValue, NEW w,
         w = <<Add(f), Add(f), Add(a), Add(a)>> \/ w = <<Add(f), Add(f), Add(a), Add(a), Add(a)>>, NEW o
  PROVE  /\ w \in Seq(AnyUpdate) /\ Adding(w)
         /\ w = <<Add(f), Add(f), Add(a), Add(a)>> => Count(w, Add(o)) = 2 * B(f = o) + 2 * B(a = o)
         /\ w = <<Add(f), Add(f), Add(a), Add(a), Add(a)>> => Count(w, Add(o)) = B(a = o) + (2 * B(f = o) + 2 * B(a = o))
  <1> DEFINE x == Add(f)
             y == Add(a)
             z == Add(o)
             u == <<x, x, y, y>>
  <1>1. x.op = "add" /\ y.op = "add" /\ (x = z <=> f = o) /\ (y = z <=> a = o)
    BY DEF Add
  <1>2. x \in AnyUpdate /\ y \in AnyUpdate
    BY UpdatesTyped
  <1> HIDE DEF x, y, z
  <1>3. u \in Seq(AnyUpdate) /\ Count(u, z) = 2 * B(x = z) + 2 * B(y = z)
    BY <1>2, CountFour
  <1> DEFINE t == <<x, x, y, y, y>>
  <1>4. /\ t \in Seq(AnyUpdate) /\ Len(t) = Len(u) + 1 /\ (\A i \in 1 .. Len(u) : t[i] = u[i]) /\ y = t[Len(u) + 1]
    BY <1>2
  <1>5. Count(t, z) = Count(u, z) + B(y = z)
    <2> HIDE DEF t, u
    <2> QED BY <1>2, <1>3, <1>4, CountLonger
  <1>6. B(x = z) = B(f = o) /\ B(y = z) = B(a = o) /\ B(f = o) \in Nat /\ B(a = o) \in Nat
    BY <1>1 DEF B
  <1>7. w = u \/ w = <<x, x, y, y, y>>
    BY DEF x, y
  <1>8. Adding(w)
    <2>1. \A i \in DOMAIN w : w[i] = x \/ w[i] = y
      BY <1>7
    <2> QED BY <1>1, <2>1 DEF Adding
  <1>9. w = u => Count(w, z) = 2 * B(f = o) + 2 * B(a = o)
    BY <1>3, <1>6
  <1>10. w = t => Count(w, z) = B(a = o) + (2 * B(f = o) + 2 * B(a = o))
    <2> HIDE DEF t, u
    <2>1. B(y = z) = B(a = o) /\ Count(u, z) = 2 * B(f = o) + 2 * B(a = o)
      BY <1>3, <1>6
    <2> QED BY <1>5, <1>6, <2>1
  <1> QED BY <1>3, <1>4, <1>7, <1>8, <1>9, <1>10 DEF x, y, z

CalledActs == SetTop(CallerAct) \o <<CallAct, BodyAct>>
HeldCopies(f, v, o) == 2 * B(f = o) + 2 * B(v = o)
CalledCellsToo == IF Param # Nil THEN Append(CalledCells, NewCell(Arg)) ELSE CalledCells

LEMMA CallStack ==
  ASSUME Inv1, AtStat(CallOps), S.e.k \in CallKinds, Visited, Callable, ~ Active(BodyOf), NEW st, st = CalledActs, NEW o, o # Nil
  PROVE  st \in Seq(AnyAct) /\ Copies(st, o) = Copies(acts, o) + HeldCopies(Source, Arg, o) /\ Copies(acts, o) \in Nat
  <1>1. status = "run" /\ Top.val = Nil /\ Top.held = << >>
    BY StatFacts
  <1>2. Arg \in AnyValue /\ Source \in AnyValue
    <2>1. Arg \in AnyValue /\ Callee \in AnyValue /\ Nil \in AnyValue
      BY CallFacts DEF AnyValue
    <2> QED BY <2>1 DEF Source
  <1>3. /\ CallerAct \in AnyAct /\ CallerAct.val = Nil
        /\ CallAct \in AnyAct /\ CallAct.val = Nil /\ CallAct.held = <<Source, Source, Arg, Arg>>
        /\ BodyAct \in AnyAct /\ BodyAct.val = Nil /\ BodyAct.held = << >>
    <2> DEFINE c == Len(CalledCells) + 1
    <2>1. c \in Nat /\ Len(CalledCells) =< c /\ Len(CalledCells) + 1 =< c
      BY CallFacts
    <2> HIDE DEF c
    <2> QED BY <2>1, CallActs
  <1>4. CallerAct.held = << >>
    <2>1. Top \in AnyAct
      BY <1>1, RunFacts
    <2> QED BY <1>1, <2>1 DEF CallerAct, AnyAct
  <1> DEFINE s == SetTop(CallerAct)
             n == Len(acts)
             k == n + 1
             t == <<CallAct, BodyAct>>
  <1>5. /\ s \in Seq(AnyAct) /\ DOMAIN s = DOMAIN acts /\ s[n] = CallerAct /\ (\A j \in DOMAIN acts : j # n => s[j] = acts[j])
    BY <1>1, <1>3, TopAlike
  <1>6. acts \in Seq(AnyAct) /\ acts[n] = Top /\ n \in Nat /\ DOMAIN acts = 1 .. n /\ n \in DOMAIN acts
    BY <1>1, RunFacts, LenFacts
  <1>7. Len(s) = n
    BY <1>5, <1>6, LenFacts
  <1>8. t \in Seq(AnyAct) /\ Len(t) = 2 /\ t[1] = CallAct /\ t[2] = BodyAct
    BY <1>3
  <1>9. st = s \o t
    BY DEF CalledActs
  <1> HIDE DEF s, t, n
  <1>10. /\ st \in Seq(AnyAct) /\ DOMAIN st = 1 .. (n + 2) /\ st[n + 1] = CallAct /\ st[n + 2] = BodyAct
         /\ \A j \in 1 .. n : st[j] = s[j]
    <2>1. /\ s \o t \in Seq(AnyAct) /\ Len(s \o t) = Len(s) + Len(t)
          /\ \A i \in 1 .. (Len(s) + Len(t)) : (s \o t)[i] = IF i =< Len(s) THEN s[i] ELSE t[i - Len(s)]
      BY <1>5, <1>8, ConcatProperties
    <2>2. DOMAIN st = 1 .. Len(st)
      BY <1>9, <2>1, LenFacts
    <2>3. Len(st) = n + 2 /\ \A i \in 1 .. (n + 2) : st[i] = IF i =< n THEN s[i] ELSE t[i - n]
      BY <1>7, <1>8, <1>9, <2>1
    <2>4. n + 1 \in 1 .. (n + 2) /\ n + 2 \in 1 .. (n + 2) /\ ~ (n + 1 =< n) /\ ~ (n + 2 =< n) /\ (n + 1) - n = 1 /\ (n + 2) - n = 2
      BY <1>6
    <2>5. \A j \in 1 .. n : j \in 1 .. (n + 2) /\ j =< n
      BY <1>6
    <2>6. st[n + 1] = t[(n + 1) - n] /\ st[n + 2] = t[(n + 2) - n]
      BY <2>3, <2>4
    <2> QED BY <1>8, <1>9, <2>1, <2>2, <2>3, <2>4, <2>5, <2>6
  <1>11. AlikeBut(acts, st, k)
    <2> SUFFICES ASSUME NEW j, j # k PROVE Alike(acts, st, j)
      BY DEF AlikeBut
    <2>1. CASE j \in DOMAIN acts
      <3>1. j \in DOMAIN st /\ st[j] = s[j]
        BY <1>6, <1>10, <2>1
      <3>2. SameCopies(acts[j], st[j])
        <4>1. CASE j = n
          BY <1>1, <1>3, <1>4, <1>5, <1>6, <3>1, <4>1 DEF SameCopies
        <4>2. CASE j # n
          BY <1>5, <2>1, <3>1, <4>2 DEF SameCopies
        <4> QED BY <4>1, <4>2
      <3> QED BY <2>1, <3>1, <3>2 DEF Alike
    <2>2. CASE j \notin DOMAIN acts /\ j \in DOMAIN st
      <3>1. j = n + 2
        BY <1>6, <1>10, <2>2
      <3> QED BY <1>3, <1>10, <2>2, <3>1 DEF Alike, NoCopies
    <2>3. CASE j \notin DOMAIN acts /\ j \notin DOMAIN st
      BY <2>3 DEF Alike
    <2> QED BY <2>1, <2>2, <2>3
  <1>12. Short(acts) /\ Short(st)
    <2>1. Short(acts)
      BY HeldShort DEF Short
    <2>2. Len(CallAct.held) =< 4 /\ Len(BodyAct.held) =< 4 /\ Len(CallerAct.held) =< 4
      BY <1>3, <1>4
    <2>3. ASSUME NEW i \in DOMAIN st PROVE Len(st[i].held) =< 4
      <3>1. CASE i \in 1 .. n
        BY <1>5, <1>6, <1>10, <2>1, <2>2, <3>1 DEF Short
      <3>2. CASE i = n + 1 \/ i = n + 2
        BY <1>10, <2>2, <3>2
      <3> QED BY <1>6, <1>10, <3>1, <3>2
    <2> QED BY <1>10, <2>1, <2>3 DEF Short
  <1>13. k \notin DOMAIN acts /\ k \in DOMAIN st /\ st[k] = CallAct
    BY <1>6, <1>10
  <1>14. Weight(CallAct, o) = 2 * B(Source = o) + 2 * B(Arg = o)
    <2>1. Count(CallAct.held, o) = 2 * B(Source = o) + 2 * B(Arg = o)
      BY <1>2, <1>3, CountFour
    <2>2. B(CallAct.val = o) = 0 /\ B(Source = o) \in Nat /\ B(Arg = o) \in Nat
      BY <1>3 DEF B
    <2> QED BY <2>1, <2>2 DEF Weight
  <1> HIDE DEF k
  <1>15. Copies(st, o) + WeightAt(acts, k, o) = Copies(acts, o) + WeightAt(st, k, o)
    BY ONLY <1>11, <1>12, o # Nil, ShortMove
  <1>16. WeightAt(acts, k, o) = 0 /\ WeightAt(st, k, o) = 2 * B(Source = o) + 2 * B(Arg = o)
    BY <1>13, <1>14 DEF WeightAt
  <1>17. Copies(st, o) \in Nat /\ Copies(acts, o) \in Nat
    BY <1>6, <1>10, CopiesType
  <1> QED BY <1>10, <1>15, <1>16, <1>17 DEF HeldCopies

LEMMA CallKeepers ==
  ASSUME Inv1, Counted, AtStat(CallOps), S.e.k \in CallKinds, Callable, NEW cs, cs = CalledCellsToo,
         NEW w, NoWrites(w), NEW o \in Nat, o # Nil
  PROVE  /\ cs \in Seq(AnyCell)
         /\ Param = Nil => Cardinality(Keepers(cs, w, o)) = Cardinality(Keepers(cells, << >>, o))
         /\ Param # Nil => Cardinality(Keepers(cs, w, o)) = Cardinality(Keepers(cells, << >>, o)) + B(Arg = o)
  <1> DEFINE r == IF S.e.n = Nil THEN Referenced(Closure(S.e.f)) ELSE cells
             d == Len(CalledCells) + 1
             v == Arg
             q == CalledCells
  <1>1. status = "run" /\ q \in Seq(AnyCell) /\ v \in AnyValue /\ Len(cells) =< Len(q) /\ cells \in Seq(AnyCell)
    BY StatFacts, CallFacts, KeptTypes
  <1>2. r \in Seq(AnyCell) /\ CellsLike(cells, r, d)
    <2>1. CASE S.e.n = Nil
      <3>1. S.e.f \in Body
        BY <2>1, StatFacts
      <3> DEFINE g == Closure(S.e.f)
      <3>2. \A k \in Name : g[k] # 0 => \E b \in Block : Frame[b][k] = g[k]
        BY <1>1, <3>1, ClosureFacts
      <3> HIDE DEF g, d
      <3>3. CellsLike(cells, Referenced(g), d) /\ Referenced(g) \in Seq(AnyCell)
        BY <1>1, <3>2, ReferencedLike, ReferencedFacts
      <3> QED BY <2>1, <3>3 DEF g
    <2>2. CASE S.e.n # Nil
      <3> HIDE DEF d
      <3> QED BY <1>1, <2>2, SelfLike
    <2> QED BY <2>1, <2>2
  <1>3. q = WithTarget(r) /\ d = Len(q) + 1
    BY DEF CalledCells
  <1> HIDE DEF r, q, d, v
  <1>4. CellsLike(cells, q, d)
    BY <1>2, <1>3, TargetLike
  <1>5. d \notin DOMAIN cells /\ d \in Nat
    BY <1>1, <1>3, LenFacts
  <1>6. CASE Param = Nil
    <2>1. cs = q
      BY <1>6 DEF q, CalledCellsToo
    <2>2. d \notin DOMAIN q
      BY <1>1, <1>3, LenFacts
    <2>3. ASSUME NEW c PROVE Keeps(q, w, o, c) <=> Keeps(cells, << >>, o, c)
      <3> DEFINE w0 == << >>
      <3>1. NoWrites(w0)
        BY EmptyList
      <3> HIDE DEF w0
      <3>2. KeepersBut(cells, w0, q, w, o, d)
        BY <1>4, <3>1, LikeKeeps
      <3>3. c # d => (Keeps(q, w, o, c) <=> Keeps(cells, w0, o, c))
        BY <3>2 DEF KeepersBut
      <3>4. c = d => ~ Keeps(cells, << >>, o, c) /\ ~ Keeps(q, w, o, c)
        BY <1>5, <2>2 DEF Keeps
      <3> QED BY <3>3, <3>4 DEF w0
    <2> QED BY <1>1, <1>6, <2>1, <2>3, KeepersSame
  <1>7. CASE Param # Nil
    <2>1. cs = Append(q, NewCell(v))
      BY <1>7 DEF q, v, CalledCellsToo
    <2>2. cs \in Seq(AnyCell) /\ d \in DOMAIN cs /\ cs[d].value = v /\ cs[d].refs > 0
      <3> HIDE DEF q
      <3> QED BY ONLY <1>1, <1>3, <2>1, NewHolder, SMTT(60)
    <2>3. CellsLike(cells, cs, d)
      BY <1>1, <1>3, <1>4, <2>1, AppendLike
    <2>4. Cardinality(Keepers(cs, w, o)) = Cardinality(Keepers(cells, << >>, o)) + B(cs[d].value = o)
      BY ONLY <1>1, <1>5, <2>2, <2>3, NoWrites(w), o # Nil, LikeMove
    <2> QED BY <1>7, <2>2, <2>4 DEF v
  <1> QED BY <1>6, <1>7

LEMMA EvalCallBooks ==
  ASSUME Inv1, Inv1', Counted, Books, EvalCall
  PROVE  Books'
  <1> DEFINE f == Source
             v == Arg
             cs == cells'
             w == work'
             st == acts'
             os == objs'
             y == Len(objs) + 1
  <1>1. /\ AtStat(CallOps) /\ S.e.k \in CallKinds /\ Visited /\ Callable /\ ~ Active(BodyOf)
        /\ st = SetTop(CallerAct) \o <<CallAct, BodyAct>> /\ st = acts'
        /\ cs = (IF Param # Nil THEN Append(CalledCells, NewCell(v)) ELSE CalledCells) /\ cs = cells'
        /\ os = CalledObjs /\ os = objs' /\ w = work'
        /\ w = IF Param # Nil THEN <<Add(f), Add(f), Add(v), Add(v), Add(v)>> ELSE <<Add(f), Add(f), Add(v), Add(v)>>
    BY EvalCallForm
  <1>2. status = "run" /\ work = << >> /\ S.e.n \in Name \cup {Nil} /\ S.e.arg \in Name \cup {Nil} /\ (S.e.n = Nil => S.e.f \in Body)
    BY <1>1, StatFacts
  <1>3. f \in AnyValue /\ v \in AnyValue /\ ValueIn(v, Len(objs)) 
    <2>1. CalledObjs \in Seq(AnyObj) /\ Callee \in 1 .. Len(CalledObjs) /\ Arg \in AnyValue /\ ValueIn(Arg, Len(objs))
      BY <1>1, CallFacts
    <2>2. DOMAIN CalledObjs = 1 .. Len(CalledObjs)
      BY <2>1, LenFacts
    <2>3. Callee \in AnyValue /\ Nil \in AnyValue
      BY <2>1 DEF AnyValue
    <2> QED BY <2>1, <2>3 DEF Source
  <1>4. Readable
    BY DEF EvalCall
  <1>5. \A o \in DOMAIN objs : v = o => objs[o].live
    BY <1>2, <1>4, ReadLive DEF Arg
  <1>6. \A o \in DOMAIN objs : f = o => objs[o].live
    <2> SUFFICES ASSUME NEW o \in DOMAIN objs, f = o PROVE objs[o].live
      OBVIOUS
    <2>3. Callee = o
      BY BookFacts DEF Source
    <2>1. CASE S.e.n = Nil
      <3>1. o = y
        BY <2>1, <2>3 DEF Callee, NextObj
      <3> QED BY <3>1, NewIsNowhere
    <2>2. CASE S.e.n # Nil
      <3>1. o = ValueOf(S.e.n)
        BY <2>2, <2>3 DEF Callee
      <3> QED BY <1>2, <1>4, <3>1, ReadLive
    <2> QED BY <2>1, <2>2
  <1>7. SameBook(objs, os) /\ \A o \in DOMAIN os : \/ o \in DOMAIN objs
                                                   \/ o = y /\ f = y /\ os[y].count = 0 /\ os[y].live /\ os[y].leaked = 0
    <2>1. CASE S.e.n = Nil
      <3> DEFINE x == NewObj(S.e.f, Top.env, 0)
      <3>1. x \in AnyObj /\ x.count = 0 /\ x.live /\ x.leaked = 0
        BY <1>2, <2>1, NewObjFacts
      <3>2. os = Append(objs, x) /\ y = Len(objs) + 1 /\ f = y
        <4>1. f = Callee
          BY <1>1, <2>1, StatFacts DEF Source, WellFormedStat, WellFormedExp
        <4> QED BY <1>1, <2>1, <4>1 DEF CalledObjs, Callee, NextObj
      <3> HIDE DEF x, os, y
      <3>3. x \in AnyObj /\ os = Append(objs, x)
        BY <3>1, <3>2
      <3>4. y = Len(objs) + 1
        BY <3>2
      <3>5. SameBook(objs, os) /\ os[y] = x /\ (\A o \in DOMAIN os : o \in DOMAIN objs \/ o = y)
        BY ONLY Inv1, <3>3, <3>4, BooksOpened, ZenonT(60)
      <3> QED BY <3>1, <3>2, <3>5
    <2>2. CASE S.e.n # Nil
      <3>1. os = objs
        BY <1>1, <2>2 DEF CalledObjs
      <3> HIDE DEF os
      <3> QED BY <3>1 DEF SameBook
    <2> QED BY <2>1, <2>2
  <1> HIDE DEF f, v, cs, w, st, os
  <1>8. w \in Seq(AnyUpdate) /\ Adding(w) /\ NoWrites(w)
    <2>1. w = <<Add(f), Add(f), Add(v), Add(v)>> \/ w = <<Add(f), Add(f), Add(v), Add(v), Add(v)>>
      BY <1>1
    <2> QED BY <1>3, <2>1, CallList, AddingFacts
  <1>9. ASSUME NEW o \in Nat, o # Nil
        PROVE  \E h, p \in Nat : /\ Cardinality(Keepers(cs, w, o)) = Cardinality(Keepers(cells, << >>, o)) + h
                                 /\ Copies(st, o) = Copies(acts, o) + p /\ Count(w, Add(o)) = h + p
                                 /\ Copies(acts, o) \in Nat /\ st \in Seq(AnyAct) /\ cs \in Seq(AnyCell)
                                 /\ h + p # 0 => f = o \/ v = o
    <2> DEFINE p == 2 * B(f = o) + 2 * B(v = o)
               h == IF Param = Nil THEN 0 ELSE B(v = o)
    <2>1. p \in Nat /\ h \in Nat /\ B(f = o) \in Nat /\ B(v = o) \in Nat /\ (h + p # 0 => f = o \/ v = o)
      BY DEF B
    <2>2. st \in Seq(AnyAct) /\ Copies(st, o) = Copies(acts, o) + p /\ Copies(acts, o) \in Nat
      <3>1. AtStat(CallOps) /\ S.e.k \in CallKinds /\ Visited /\ Callable /\ ~ Active(BodyOf) /\ st = CalledActs
        BY <1>1 DEF CalledActs
      <3>2. /\ st \in Seq(AnyAct) /\ Copies(st, o) = Copies(acts, o) + HeldCopies(Source, Arg, o) /\ Copies(acts, o) \in Nat
        BY ONLY Inv1, <1>9, <3>1, CallStack
      <3> QED BY <3>2 DEF f, v, HeldCopies
    <2>3. /\ cs \in Seq(AnyCell)
          /\ Param = Nil => Cardinality(Keepers(cs, w, o)) = Cardinality(Keepers(cells, << >>, o))
          /\ Param # Nil => Cardinality(Keepers(cs, w, o)) = Cardinality(Keepers(cells, << >>, o)) + B(v = o)
      <3>1. AtStat(CallOps) /\ S.e.k \in CallKinds /\ Callable /\ NoWrites(w) /\ cs = CalledCellsToo
        BY <1>1, <1>8 DEF v, CalledCellsToo
      <3>2. /\ cs \in Seq(AnyCell)
            /\ Param = Nil => Cardinality(Keepers(cs, w, o)) = Cardinality(Keepers(cells, << >>, o))
            /\ Param # Nil => Cardinality(Keepers(cs, w, o)) = Cardinality(Keepers(cells, << >>, o)) + B(Arg = o)
        BY ONLY Inv1, Counted, <1>9, o \in Nat, <3>1, CallKeepers
      <3> QED BY <3>2 DEF v
    <2>4. Count(w, Add(o)) = h + p
      <3>1. w = <<Add(f), Add(f), Add(v), Add(v)>> \/ w = <<Add(f), Add(f), Add(v), Add(v), Add(v)>>
        BY <1>1
      <3>2. /\ w = <<Add(f), Add(f), Add(v), Add(v)>> => Count(w, Add(o)) = 2 * B(f = o) + 2 * B(v = o)
            /\ w = <<Add(f), Add(f), Add(v), Add(v), Add(v)>> => Count(w, Add(o)) = B(v = o) + (2 * B(f = o) + 2 * B(v = o))
        BY <1>3, <3>1, CallList
      <3>3. CASE Param = Nil
        BY <1>1, <2>1, <3>2, <3>3
      <3>4. CASE Param # Nil
        BY <1>1, <2>1, <3>2, <3>4
      <3> QED BY <3>3, <3>4
    <2>5. Cardinality(Keepers(cells, << >>, o)) \in Nat
      BY KeptTypes, KeepersType
    <2>6. Cardinality(Keepers(cs, w, o)) = Cardinality(Keepers(cells, << >>, o)) + h
      BY <2>3, <2>5
    <2> HIDE DEF h, p
    <2> QED BY <2>1, <2>2, <2>3, <2>4, <2>6
  <1>10. ASSUME NEW o \in DOMAIN objs PROVE Entered(os, cs, w, st, o)
    <2>1. o # Nil /\ o \in Nat
      BY BookFacts
    <2>2. PICK h, p \in Nat : /\ Cardinality(Keepers(cs, w, o)) = Cardinality(Keepers(cells, << >>, o)) + h
                              /\ Copies(st, o) = Copies(acts, o) + p /\ Count(w, Add(o)) = h + p
                              /\ st \in Seq(AnyAct) /\ cs \in Seq(AnyCell)
                              /\ h + p # 0 => f = o \/ v = o
      BY <1>9, <2>1
    <2>3. h + p # 0 => objs[o].live
      BY <1>5, <1>6, <2>2
    <2> QED BY <1>2, <1>7, <1>8, <2>2, <2>3, AddingBook
  <1>11. ASSUME y \in DOMAIN os, f = y, os[y].count = 0, os[y].live, os[y].leaked = 0 PROVE Entered(os, cs, w, st, y)
    <2>1. y # Nil /\ y \in Nat /\ Cardinality(Keepers(cells, << >>, y)) = 0 /\ Copies(acts, y) = 0
      BY NewIsNowhere
    <2>2. PICK h, p \in Nat : /\ Cardinality(Keepers(cs, w, y)) = Cardinality(Keepers(cells, << >>, y)) + h
                              /\ Copies(st, y) = Copies(acts, y) + p /\ Count(w, Add(y)) = h + p
      BY <1>9, <2>1
    <2> HIDE DEF y
    <2>3. Cardinality(Keepers(cs, w, y)) = h /\ Copies(st, y) = p /\ os[y].count + Count(w, Add(y)) = h + p
      BY <1>11, <2>1, <2>2
    <2> QED BY <1>8, <1>11, <2>3, NewBook
  <1>12. ASSUME NEW o \in DOMAIN os PROVE Entered(os, cs, w, st, o)
    BY <1>7, <1>10, <1>11
  <1> QED BY <1>1, <1>12 DEF Books

-----------------------------------------------------------------------------
(* Stores: the cell to be written keeps at once what will be written.      *)
WritesOnly(w, c, v) == (\E i \in DOMAIN w : w[i] = Write(c, v)) /\ \A i \in DOMAIN w : w[i].op = "write" => w[i] = Write(c, v)

LEMMA KeepersWritten ==
  ASSUME NEW cs \in Seq(AnyCell), NEW cs2 \in Seq(AnyCell), NEW c, CellsLike(cs, cs2, c), c \in DOMAIN cs2, cs2[c].refs > 0,
         NEW v, NEW w, WritesOnly(w, c, v), NEW o, o # Nil
  PROVE  Cardinality(Keepers(cs2, w, o)) + B(c \in DOMAIN cs /\ cs[c].value = o) = Cardinality(Keepers(cs, << >>, o)) + B(v = o)
  <1> DEFINE z == << >>
  <1>1. NoWrites(z)
    BY EmptyList
  <1>2. \A x, y : Write(x, y).op = "write" /\ Write(x, y).x = x /\ Write(x, y).v = y
    BY DEF Write
  <1>3. \A d : WritesTo(w, d) <=> d = c
    BY <1>2 DEF WritesTo, WritesOnly
  <1> HIDE DEF z
  <1>4. KeepersBut(cs, z, cs2, w, o, c)
    <2> SUFFICES ASSUME NEW d, d # c PROVE Keeps(cs2, w, o, d) <=> Keeps(cs, z, o, d)
      BY DEF KeepersBut
    <2>1. Keeps(cs, z, o, d) <=> d \in DOMAIN cs /\ cs[d].refs > 0 /\ cs[d].value = o
      BY <1>1, KeepsPlain
    <2>2. Keeps(cs2, w, o, d) <=> d \in DOMAIN cs2 /\ cs2[d].refs > 0 /\ cs2[d].value = o
      BY <1>3 DEF Keeps
    <2>3. CASE d \in DOMAIN cs
      BY <2>1, <2>2, <2>3 DEF CellsLike
    <2>4. CASE d \notin DOMAIN cs
      BY <2>1, <2>2, <2>4 DEF CellsLike
    <2> QED BY <2>3, <2>4
  <1>5. Keeps(cs2, w, o, c) <=> v = o
    <2>1. Keeps(cs2, w, o, c) <=> \E i \in DOMAIN w : w[i] = Write(c, o)
      BY <1>3 DEF Keeps
    <2> QED BY <1>2, <2>1 DEF WritesOnly
  <1>6. Keeps(cs, z, o, c) <=> c \in DOMAIN cs /\ cs[c].value = o
    <2>1. Keeps(cs, z, o, c) <=> c \in DOMAIN cs /\ cs[c].refs > 0 /\ cs[c].value = o
      BY <1>1, KeepsPlain
    <2>2. c \in DOMAIN cs => cs[c].refs > 0
      BY DEF CellsLike
    <2> QED BY <2>1, <2>2
  <1>7. Cardinality(Keepers(cs2, w, o)) + B(Keeps(cs, z, o, c)) = Cardinality(Keepers(cs, z, o)) + B(Keeps(cs2, w, o, c))
    BY <1>4, KeepersMove
  <1>8. B(Keeps(cs, z, o, c)) = B(c \in DOMAIN cs /\ cs[c].value = o) /\ B(Keeps(cs2, w, o, c)) = B(v = o)
    BY <1>5, <1>6 DEF B
  <1> QED BY <1>7, <1>8 DEF z

LEMMA StoreList ==
  ASSUME NEW c \in Nat, NEW v \in AnyValue, NEW w,
         w = <<Write(c, v), Add(v), Drop(v)>> \/ w = <<DropOld(c), Write(c, v), Add(v), Drop(v)>>, NEW o
  PROVE  w \in Seq(AnyUpdate) /\ WritesOnly(w, c, v) /\ Count(w, Add(o)) = B(v = o) /\ Count(w, Drop(o)) = B(v = o)
  <1> DEFINE p == DropOld(c)
             x == Write(c, v)
             y == Add(v)
             z == Drop(v)
             l == <<x, y, z>>
             m == <<p, x, y, z>>
             ao == Add(o)
             do == Drop(o)
  <1>1. /\ p \in AnyUpdate /\ x \in AnyUpdate /\ y \in AnyUpdate /\ z \in AnyUpdate
    <2>1. c \in AnyValue
      BY DEF AnyValue
    <2> QED BY <2>1, UpdatesTyped
  <1>2. /\ p.op # "write" /\ y.op # "write" /\ z.op # "write"
        /\ p # ao /\ p # do /\ x # ao /\ x # do /\ y # do /\ z # ao /\ (y = ao <=> v = o) /\ (z = do <=> v = o)
    <2>1. p.op = "dropold" /\ x.op = "write" /\ y.op = "add" /\ z.op = "drop" /\ ao.op = "add" /\ do.op = "drop"
      BY DEF DropOld, Write, Add, Drop
    <2>2. y.x = v /\ ao.x = o /\ z.x = v /\ do.x = o
      BY DEF Add, Drop
    <2>3. (v = o => y = ao) /\ (v = o => z = do)
      OBVIOUS
    <2> HIDE DEF p, x, y, z, ao, do
    <2> QED BY <2>1, <2>2, <2>3
  <1>3. w = l \/ w = m
    OBVIOUS
  <1>4. x = Write(c, v)
    OBVIOUS
  <1> HIDE DEF p, x, y, z, ao, do
  <1>5. WritesOnly(w, c, v)
    BY <1>2, <1>3, <1>4 DEF WritesOnly
  <1>6. \A u : /\ l \in Seq(AnyUpdate) /\ Count(l, u) = B(x = u) + B(y = u) + B(z = u)
               /\ m \in Seq(AnyUpdate) /\ Count(m, u) = B(p = u) + B(x = u) + B(y = u) + B(z = u)
    BY <1>1, CountThree, CountQuad
  <1>7. /\ B(p = ao) = 0 /\ B(x = ao) = 0 /\ B(y = ao) = B(v = o) /\ B(z = ao) = 0 /\ B(v = o) \in Nat
        /\ B(p = do) = 0 /\ B(x = do) = 0 /\ B(y = do) = 0 /\ B(z = do) = B(v = o)
    BY <1>2 DEF B
  <1> HIDE DEF l, m
  <1>8. Count(l, ao) = B(v = o) /\ Count(l, do) = B(v = o) /\ Count(m, ao) = B(v = o) /\ Count(m, do) = B(v = o)
    BY <1>6, <1>7
  <1> QED BY <1>3, <1>5, <1>6, <1>8 DEF ao, do

LEMMA ValueGone ==
  ASSUME Inv1, status = "run", Top.held = << >>, NEW a \in AnyAct, a.held = << >>, a.val = Nil, NEW s, s = SetTop(a), NEW o, o # Nil
  PROVE  s \in Seq(AnyAct) /\ Copies(s, o) + B(Top.val = o) = Copies(acts, o) /\ Copies(s, o) \in Nat /\ Copies(acts, o) \in Nat
  <1>1. acts \in Seq(AnyAct) /\ Top = acts[Len(acts)] /\ Len(acts) \in DOMAIN acts
    BY RunFacts
  <1>2. s \in Seq(AnyAct) /\ DOMAIN s = DOMAIN acts /\ s[Len(acts)] = a /\ (\A j \in DOMAIN acts : j # Len(acts) => s[j] = acts[j]) /\ AlikeBut(acts, s, Len(acts))
    BY TopAlike
  <1>3. Short(acts)
    BY HeldShort DEF Short
  <1>4. Short(s)
    <2>1. Len(a.held) =< 4
      OBVIOUS
    <2> QED BY <1>2, <1>3, <2>1 DEF Short
  <1>5. Copies(s, o) + WeightAt(acts, Len(acts), o) = Copies(acts, o) + WeightAt(s, Len(acts), o)
    BY <1>2, <1>3, <1>4, ShortMove
  <1>6. Weight(Top, o) = B(Top.val = o) /\ Weight(a, o) = B(Nil = o)
    BY PlainWeight
  <1>7. WeightAt(acts, Len(acts), o) = B(Top.val = o) /\ WeightAt(s, Len(acts), o) = 0
    BY <1>1, <1>2, <1>6 DEF WeightAt, B
  <1>8. Copies(s, o) \in Nat /\ Copies(acts, o) \in Nat
    BY <1>1, <1>2, CopiesType
  <1> QED BY <1>2, <1>5, <1>7, <1>8

(* The value of the statement that stores is a copy.                       *)
LEMMA TopLive ==
  ASSUME Inv1, Books, status = "run", NEW o \in DOMAIN objs, Top.val = o
  PROVE  objs[o].live
  <1>1. acts \in Seq(AnyAct) /\ Top = acts[Len(acts)] /\ Len(acts) \in DOMAIN acts
    BY RunFacts
  <1>2. 0 \in SlotsOf(acts[Len(acts)], o)
    BY <1>1 DEF SlotsOf
  <1> QED BY <1>1, <1>2, LiveBecause

(* The books of a store.                                                   *)
LEMMA StoreBook ==
  ASSUME Inv1, Books, status = "run", work = << >>, Top.held = << >>,
         NEW cs \in Seq(AnyCell), NEW c, CellsLike(cells, cs, c), c \in DOMAIN cs, cs[c].refs > 0,
         NEW w \in Seq(AnyUpdate), NEW v, WritesOnly(w, c, v),
         NEW a \in AnyAct, a.held = << >>, a.val = Nil, NEW st, st = SetTop(a),
         NEW os, NEW o \in DOMAIN objs, os[o].count = objs[o].count, os[o].live = objs[o].live, os[o].leaked \in Nat,
         NEW t \in Nat, t = B(Top.val = o), NEW u \in Nat, u = B(c \in DOMAIN cells /\ cells[c].value = o),
         NEW x \in Nat, x = Count(w, Add(o)), NEW y \in Nat, y = B(v = o),
         x + objs[o].leaked + u + t = y + os[o].leaked + Count(w, Drop(o)) + B(DropsOld(cs, w, o)),
         x # 0 => objs[o].live
  PROVE  Entered(os, cs, w, st, o)
  <1>1. o # Nil /\ objs[o].leaked \in Nat
    BY BookFacts
  <1>2. st \in Seq(AnyAct) /\ Copies(st, o) + B(Top.val = o) = Copies(acts, o) /\ Copies(st, o) \in Nat /\ Copies(acts, o) \in Nat
    BY ONLY Inv1, status = "run", Top.held = << >>, a \in AnyAct, a.held = << >>, a.val = Nil, st = SetTop(a), <1>1, ValueGone
  <1>3. cells \in Seq(AnyCell)
    BY KeptTypes
  <1>4. Cardinality(Keepers(cs, w, o)) + B(c \in DOMAIN cells /\ cells[c].value = o) = Cardinality(Keepers(cells, << >>, o)) + B(v = o)
    BY ONLY cs \in Seq(AnyCell), <1>3, CellsLike(cells, cs, c), c \in DOMAIN cs, cs[c].refs > 0, WritesOnly(w, c, v), <1>1, KeepersWritten
  <1> DEFINE k == Cardinality(Keepers(cells, << >>, o))
             k2 == Cardinality(Keepers(cs, w, o))
             p == Copies(acts, o)
             p2 == Copies(st, o)
             l == objs[o].leaked
             l2 == os[o].leaked
             d == Count(w, Drop(o))
             e == B(DropsOld(cs, w, o))
  <1>5. k \in Nat /\ k2 \in Nat /\ d \in Nat /\ e \in Nat
    BY <1>3, KeepersType, CountType DEF B
  <1>6. k2 + u = k + y /\ p2 + t = p /\ x + l + u + t = y + l2 + d + e /\ l \in Nat /\ l2 \in Nat /\ p \in Nat /\ p2 \in Nat
    BY <1>1, <1>2, <1>4
  <1>7. x + k + p + l = k2 + p2 + l2 + d + e
    <2> HIDE DEF k, k2, p, p2, l, l2, d, e
    <2> QED BY ONLY <1>5, <1>6, x \in Nat, y \in Nat, t \in Nat, u \in Nat
  <1>8. /\ os[o].count = objs[o].count /\ os[o].live = objs[o].live /\ os[o].leaked \in Nat
        /\ Count(w, Add(o)) + Cardinality(Keepers(cells, << >>, o)) + Copies(acts, o) + objs[o].leaked =
             Cardinality(Keepers(cs, w, o)) + Copies(st, o) + os[o].leaked + Count(w, Drop(o)) + B(DropsOld(cs, w, o))
        /\ Count(w, Add(o)) # 0 => objs[o].live
    BY <1>7
  <1>9. st \in Seq(AnyAct)
    BY <1>2
  <1> QED BY ONLY Inv1, Books, work = << >>, o \in DOMAIN objs, cs \in Seq(AnyCell), w \in Seq(AnyUpdate), <1>8, <1>9, BookStep

LEMMA StoreLocalBooks ==
  ASSUME Inv1, Inv1', Counted, Books, StoreLocal
  PROVE  Books'
  <1> DEFINE old == Frame[Top.ctx][S.id]
             c == IF old = 0 THEN Len(cells) + 1 ELSE old
             v == Top.val
             e == [Top.env EXCEPT ![S.id] = c]
             a == [Stored EXCEPT !.env = e]
             cs == cells'
             w == work'
             st == acts'
             os == objs'
             ops == {"local"}
  <1>1. /\ AtStore(ops) /\ status = "run" /\ work = << >> /\ Top.op \in Blocky /\ Top.ctx \in Block /\ S.id \in Name
        /\ old \in 0 .. Len(cells) /\ c \in 1 .. Len(cells')
        /\ cs = (IF old = 0 THEN Append(cells, NewCell(Nil)) ELSE cells)
        /\ os = (IF old # 0 /\ cells[old].value # Nil THEN Overwrite(cells[old].value) ELSE objs)
        /\ w = <<Write(c, v), Add(v), Drop(v)>> /\ st = SetTop(a)
        /\ cs = cells' /\ w = work' /\ st = acts' /\ os = objs'
    BY StoreLocalForm
  <1> HIDE DEF ops
  <1>2. Top.held = << >>
    BY <1>1, StoreFacts
  <1>3. Top \in AnyAct /\ Top.env \in [Name -> Nat] /\ v \in AnyValue
    BY <1>1, RunFacts, ActFacts
  <1>4. cs \in Seq(AnyCell) /\ w \in Seq(AnyUpdate) /\ Len(cells) \in Nat /\ cells \in Seq(AnyCell) /\ DOMAIN cells = 1 .. Len(cells)
        /\ DOMAIN cs = 1 .. Len(cs) /\ c \in Nat
    <2>1. cs \in Seq(AnyCell) /\ w \in Seq(AnyUpdate)
      BY DEF Inv1, Loose
    <2> QED BY <1>1, <2>1, KeptTypes, LenFacts
  <1>5. a \in AnyAct /\ a.held = << >> /\ a.val = Nil
    <2>1. e \in [Name -> Nat]
      BY <1>1, <1>3, <1>4
    <2> HIDE DEF e
    <2> QED BY <1>1, <2>1, StoredFacts
  <1>6. c \in DOMAIN cs /\ CellsLike(cells, cs, c) /\ cs[c].refs > 0
    <2>1. CASE old = 0
      <3> DEFINE d == Nil
                 n == Len(cells) + 1
      <3>1. d \in AnyValue /\ cs = Append(cells, NewCell(d)) /\ n = Len(cells) + 1 /\ c = n
        BY <1>1, <2>1 DEF AnyValue
      <3> HIDE DEF d, n, cs, c
      <3>2. cs \in Seq(AnyCell) /\ n \in DOMAIN cs /\ cs[n].refs > 0
        BY ONLY <1>4, <3>1, NewHolder
      <3>3. CellsLike(cells, cs, n)
        BY <1>4, <3>1, SelfLike, AppendLike
      <3> QED BY <3>1, <3>2, <3>3
    <2>2. CASE old # 0
      <3>1. cs = cells /\ c = old /\ c \in DOMAIN cells
        BY <1>1, <1>4, <2>2
      <3>2. Frame = frames[Len(frames)] /\ Len(frames) \in DOMAIN frames
        BY <1>1, RunFacts, SMTT(60)
      <3>3. Rooted(frames, globals, lost, c)
        BY <1>1, <3>1, <3>2 DEF Rooted, InFrames
      <3> HIDE DEF c, cs
      <3>4. cells[c].refs > 0
        BY <3>1, <3>3, HeldCell
      <3> QED BY <3>1, <3>4, SelfLike
    <2> QED BY <2>1, <2>2
  <1>7. c \in DOMAIN cells <=> old # 0
    BY <1>1, <1>4, SMTT(60)
  <1>8. old # 0 => c = old
    BY SMTT(60)
  <1>9. old # 0 /\ cells[old].value # Nil => cells[old].value \in DOMAIN objs
    <2>1. CellsIn(cells, Len(objs)) /\ DOMAIN objs = 1 .. Len(objs)
      BY KeptTypes, LenFacts
    <2> QED BY <1>1, <1>4, <2>1 DEF CellsIn, ValueIn
  <1> HIDE DEF c, old, v, a, cs, w, st, os
  <1>10. Tallied(objs, os) /\ \A x \in DOMAIN objs : os[x].leaked = objs[x].leaked + B(c \in DOMAIN cells /\ cells[c].value = x)
    <2>1. CASE old # 0 /\ cells[old].value # Nil
      <3> DEFINE y == cells[old].value
      <3>1. y \in DOMAIN objs /\ os = Overwrite(y)
        BY <1>1, <1>9, <2>1
      <3> HIDE DEF y
      <3>2. Tallied(objs, Overwrite(y)) /\ \A x \in DOMAIN objs : Overwrite(y)[x].leaked = objs[x].leaked + B(x = y)
        BY <3>1, OverwriteTallied
      <3>3. \A x : (c \in DOMAIN cells /\ cells[c].value = x) <=> x = y
        BY <1>7, <1>8, <2>1 DEF y
      <3> QED BY <3>1, <3>2, <3>3 DEF B
    <2>2. CASE ~ (old # 0 /\ cells[old].value # Nil)
      <3>1. os = objs
        BY <1>1, <2>2
      <3>2. ASSUME NEW x \in DOMAIN objs PROVE ~ (c \in DOMAIN cells /\ cells[c].value = x) /\ objs[x].leaked \in Nat
        BY <1>7, <1>8, <2>2, BookFacts
      <3> QED BY <3>1, <3>2, TalliedSame DEF B
    <2> QED BY <2>1, <2>2
  <1>11. ASSUME NEW o \in DOMAIN objs PROVE Entered(os, cs, w, st, o)
    <2> DEFINE t == B(Top.val = o)
               u == B(c \in DOMAIN cells /\ cells[c].value = o)
               x == Count(w, Add(o))
               y == B(v = o)
               l == objs[o].leaked
               l2 == os[o].leaked
    <2>1. WritesOnly(w, c, v) /\ x = B(v = o) /\ Count(w, Drop(o)) = B(v = o)
      BY <1>1, <1>3, <1>4, StoreList
    <2>2. B(DropsOld(cs, w, o)) = 0
      <3>1. \A i \in DOMAIN w : w[i].op # "dropold"
        <4>1. Write(c, v).op = "write" /\ Add(v).op = "add" /\ Drop(v).op = "drop"
          BY DEF Write, Add, Drop
        <4> QED BY <1>1, <4>1
      <3> QED BY <3>1 DEF DropsOld, B
    <2>3. t \in Nat /\ u \in Nat /\ y \in Nat /\ x \in Nat /\ t = y /\ x = y /\ Count(w, Drop(o)) = y
      BY <2>1 DEF B, v
    <2>4. l \in Nat /\ l2 = l + u /\ os[o].count = objs[o].count /\ os[o].live = objs[o].live
      BY <1>10, BookFacts DEF Tallied
    <2>5. x # 0 => objs[o].live
      BY <1>1, <2>1, TopLive DEF B, v
    <2>6. /\ t = B(Top.val = o) /\ u = B(c \in DOMAIN cells /\ cells[c].value = o) /\ x = Count(w, Add(o)) /\ y = B(v = o)
      OBVIOUS
    <2>7. x + objs[o].leaked + u + t = y + os[o].leaked + Count(w, Drop(o)) + B(DropsOld(cs, w, o)) /\ os[o].leaked \in Nat
      <3>1. l = objs[o].leaked /\ l2 = os[o].leaked
        OBVIOUS
      <3> HIDE DEF t, u, x, y, l, l2
      <3> QED BY ONLY <2>2, <2>3, <2>4, <3>1
    <2>8. st = SetTop(a) /\ status = "run" /\ work = << >>
      BY <1>1
    <2>9. cs \in Seq(AnyCell) /\ w \in Seq(AnyUpdate)
      BY <1>4
    <2> HIDE DEF t, u, x, y, l, l2
    <2> QED BY ONLY Inv1, Books, o \in DOMAIN objs, <1>2, <1>5, <1>6, <2>1, <2>3, <2>4, <2>5, <2>6, <2>7, <2>8, <2>9, StoreBook, SMTT(60)
  <1> QED BY <1>1, <1>10, <1>11 DEF Books, Tallied

(* The value that is replaced waits for its release.  Where the cell       *)
(* itself has been deleted the next step is the write through a pointer to *)
(* it: that case is treated below.                                         *)
LEMMA StoreAssignBooks ==
  ASSUME Inv1, Inv1', Books, StoreAssign, cells[Top.cell].refs > 0
  PROVE  Books'
  <1> DEFINE c == Top.cell
             v == Top.val
             a == Stored
             env == Top.env
             w == work'
             st == acts'
             ops == {"assign"}
  <1>1. /\ AtStore(ops) /\ w = <<DropOld(c), Write(c, v), Add(v), Drop(v)>> /\ st = SetTop(a) /\ w = work' /\ st = acts'
        /\ objs' = objs /\ cells' = cells
    BY DEF StoreAssign, AssignOps, memory
  <1> HIDE DEF ops
  <1>2. /\ status = "run" /\ work = << >> /\ Top.op \in Blocky /\ Top.held = << >> /\ (S.op = "assign" => Top.cell # 0) /\ S.op \in ops
    BY <1>1, StoreFacts
  <1>3. /\ Top \in AnyAct /\ env \in [Name -> Nat] /\ v \in AnyValue /\ c \in Nat /\ ActIn(Top, Len(cells), Len(objs)) /\ a = Stored /\ env = Top.env
    BY <1>2, RunFacts, ActFacts
  <1>4. c \in DOMAIN cells /\ cells \in Seq(AnyCell)
    <2>1. c # 0
      BY <1>2 DEF ops
    <2>2. cells \in Seq(AnyCell) /\ DOMAIN cells = 1 .. Len(cells) /\ c =< Len(cells) /\ Len(cells) \in Nat
      BY <1>3, KeptTypes, LenFacts DEF ActIn
    <2> QED BY <1>3, <2>1, <2>2
  <1>5. w \in Seq(AnyUpdate)
    BY DEF Inv1, Loose
  <1> HIDE DEF a, env
  <1>6. a \in AnyAct /\ a.held = << >> /\ a.val = Nil
    BY <1>1, <1>3, StoredFacts
  <1>7. CellsLike(cells, cells, c) /\ cells[c].refs > 0
    BY SelfLike
  <1> HIDE DEF c, v, w, st
  <1>8. ASSUME NEW o \in DOMAIN objs PROVE Entered(objs, cells, w, st, o)
    <2> DEFINE t == B(Top.val = o)
               u == B(c \in DOMAIN cells /\ cells[c].value = o)
               x == Count(w, Add(o))
               y == B(v = o)
               l == objs[o].leaked
    <2>1. WritesOnly(w, c, v) /\ x = B(v = o) /\ Count(w, Drop(o)) = B(v = o)
      BY <1>1, <1>3, StoreList
    <2>2. B(DropsOld(cells, w, o)) = u
      <3>1. DropsOld(cells, w, o) <=> cells[c].value = o
        <4>1. Write(c, v).op = "write" /\ Add(v).op = "add" /\ Drop(v).op = "drop" /\ DropOld(c).op = "dropold" /\ DropOld(c).x = c
          BY DEF Write, Add, Drop, DropOld
        <4>2. 1 \in DOMAIN w /\ w[1] = DropOld(c) /\ \A i \in DOMAIN w : w[i] \in {DropOld(c), Write(c, v), Add(v), Drop(v)}
          BY <1>1
        <4> QED BY <4>1, <4>2 DEF DropsOld
      <3> QED BY <1>4, <3>1 DEF B
    <2>3. t \in Nat /\ u \in Nat /\ y \in Nat /\ x \in Nat /\ t = y /\ x = y /\ Count(w, Drop(o)) = y
      BY <2>1 DEF B, v
    <2>4. l \in Nat
      BY BookFacts
    <2>5. x # 0 => objs[o].live
      BY <1>2, <2>1, TopLive DEF B, v
    <2>6. /\ t = B(Top.val = o) /\ u = B(c \in DOMAIN cells /\ cells[c].value = o) /\ x = Count(w, Add(o)) /\ y = B(v = o)
      OBVIOUS
    <2>7. x + objs[o].leaked + u + t = y + objs[o].leaked + Count(w, Drop(o)) + B(DropsOld(cells, w, o)) /\ objs[o].leaked \in Nat
      <3>1. l = objs[o].leaked
        OBVIOUS
      <3> HIDE DEF t, u, x, y, l
      <3> QED BY ONLY <2>2, <2>3, <2>4, <3>1
    <2>8. st = SetTop(a) /\ status = "run" /\ work = << >> /\ Top.held = << >>
      BY <1>1, <1>2
    <2>9. objs[o].count = objs[o].count /\ objs[o].live = objs[o].live
      OBVIOUS
    <2> HIDE DEF t, u, x, y, l
    <2> QED BY ONLY Inv1, Books, o \in DOMAIN objs, <1>4, <1>5, <1>6, <1>7, <2>1, <2>3, <2>5, <2>6, <2>7, <2>8, <2>9, StoreBook
  <1> QED BY <1>1, <1>8 DEF Books

(* The second variable of an assignment, and what it and a second local    *)
(* are filled with: a new cell keeps no function, and a value that is      *)
(* overwritten stays counted.                                              *)
LEMMA NilCellSame ==
  ASSUME Inv1, NEW cs, cs = Append(cells, NewCell(Nil))
  PROVE  SameKeepers(cells, cs)
  <1> DEFINE z == 0
             v == Nil
  <1>1. CellsLike(cells, cells, z) /\ v \in AnyValue /\ cs = Append(cells, NewCell(v)) /\ cells \in Seq(AnyCell) /\ NewCell(v) \in AnyCell
    BY SelfLike, KeptTypes DEF AnyValue, AnyCell, NewCell
  <1>2. v = Nil
    OBVIOUS
  <1> HIDE DEF z, v
  <1>3. CellsLike(cells, Append(cells, NewCell(v)), z)
    BY <1>1, <1>2, AppendLike
  <1>4. CellsLike(cells, cs, 0) /\ cs \in Seq(AnyCell)
    BY <1>1, <1>3, AppendFacts DEF z
  <1> QED BY <1>1, <1>4, LikeSame

LEMMA VisitSecondBooks ==
  ASSUME Inv1, Inv1', Books, VisitSecond
  PROVE  Books'
  <1> DEFINE st == acts'
  <1>1. /\ status = "run" /\ work = << >> /\ Top.held = << >> /\ Top.val = Nil
        /\ st = SetTop(SecondAct) /\ st = acts' /\ cells' = WithSecond /\ UNCHANGED <<objs, work>>
    BY VisitSecondForm
  <1>2. SecondAct \in AnyAct /\ SecondAct.held = << >> /\ SecondAct.val = Nil
    BY SecondActFacts
  <1> HIDE DEF st
  <1>3. SameStack(acts, st)
    BY <1>1, <1>2, ReplaceSame DEF SameCopies
  <1>4. SameKeepers(cells, cells')
    <2>1. CASE Lookup(S.id2) = 0
      BY <1>1, <2>1, NilCellSame DEF WithSecond
    <2>2. CASE Lookup(S.id2) # 0
      BY <1>1, <2>2, NothingSame DEF WithSecond
    <2> QED BY <2>1, <2>2
  <1>5. Silent(work') /\ SameStack(acts, acts')
    BY <1>1, <1>3, NothingSame
  <1> QED BY <1>1, <1>4, <1>5, SilentStep

LEMMA FillLocalBooks ==
  ASSUME Inv1, Inv1', Books, FillLocal
  PROVE  Books'
  <1> DEFINE st == acts'
             e == PutName(Top.env, S.id2, Len(cells) + 1)
             a == [Advanced EXCEPT !.env = e]
  <1>1. /\ status = "run" /\ work = << >> /\ Top.op \in Blocky /\ Top.held = << >> /\ Top.val = Nil /\ S.id2 \in Name
        /\ st = SetTop(a) /\ st = acts' /\ cells' = Append(cells, NewCell(Nil)) /\ UNCHANGED <<objs, work>>
    BY FillLocalForm
  <1>2. e \in [Name -> Nat]
    <2>1. Top.env \in [Name -> Nat] /\ Len(cells) \in Nat
      BY <1>1, RunFacts, ActFacts, StateFacts
    <2> DEFINE n == S.id2
               c == Len(cells) + 1
    <2>2. n \in Name /\ c \in Nat /\ e = PutName(Top.env, n, c)
      BY <1>1, <2>1
    <2> HIDE DEF n, c, e
    <2> QED BY ONLY <2>1, <2>2 DEF PutName
  <1> HIDE DEF e
  <1>3. a = [Advanced EXCEPT !.env = e]
    OBVIOUS
  <1> HIDE DEF st, a
  <1>4. a \in AnyAct /\ a.held = << >> /\ a.val = Nil
    BY <1>1, <1>2, <1>3, AdvancedFacts
  <1>5. SameStack(acts, st)
    BY <1>1, <1>4, ReplaceSame DEF SameCopies
  <1>6. SameKeepers(cells, cells')
    BY <1>1, NilCellSame
  <1>7. Silent(work') /\ SameStack(acts, acts')
    BY <1>1, <1>5, NothingSame
  <1> QED BY <1>1, <1>6, <1>7, SilentStep

LEMMA FillAssignBooks ==
  ASSUME Inv1, Inv1', Books, FillAssign, cells[Top.fill].refs > 0
  PROVE  Books'
  <1> DEFINE st == acts'
             cs == cells'
             os == objs'
             c == Top.fill
             r == cells[c].refs
             v == cells[c].value
             a == Advanced
             env == Top.env
             nil == Nil
             w == work'
             z == << >>
  <1>1. /\ status = "run" /\ work = z /\ Top.op \in Blocky /\ Top.held = << >> /\ Top.val = Nil /\ c \in DOMAIN cells
        /\ r \in Nat /\ v \in AnyValue /\ ValueIn(v, Len(objs)) /\ r > 0
        /\ st = SetTop(a) /\ st = acts' /\ cs = Recelled(c, nil, r) /\ cs = cells' /\ os = Forget(v) /\ os = objs' /\ w = z /\ w = work'
    BY FillAssignForm
  <1>2. env \in [Name -> Nat] /\ a = Advanced /\ env = Top.env /\ nil = Nil /\ nil \in AnyValue /\ ValueIn(nil, Len(objs))
    BY <1>1, RunFacts, ActFacts DEF AnyValue, ValueIn
  <1>3. r = cells[c].refs /\ v = cells[c].value /\ cells \in Seq(AnyCell) /\ z = << >>
    BY KeptTypes
  <1> HIDE DEF st, cs, os, c, r, v, a, env, nil, w, z
  <1>4. a \in AnyAct /\ a.held = << >> /\ a.val = Nil
    BY <1>1, <1>2, AdvancedFacts
  <1>5. SameStack(acts, st) /\ st \in Seq(AnyAct)
    BY <1>1, <1>4, ReplaceSame DEF SameCopies
  <1>6. /\ cs \in Seq(AnyCell) /\ DOMAIN cs = DOMAIN cells
        /\ \A x \in DOMAIN cells : /\ cs[x].value = IF x = c THEN nil ELSE cells[x].value
                                   /\ cs[x].refs = IF x = c THEN r ELSE cells[x].refs
    <2>1. c \in DOMAIN cells /\ nil \in AnyValue /\ ValueIn(nil, Len(objs)) /\ r \in Nat
      BY <1>1, <1>2
    <2>2. cs = Recelled(c, nil, r)
      BY <1>1
    <2> QED BY ONLY Inv1, <2>1, <2>2, RecelledFacts
  <1>7. Tallied(objs, os) /\ \A x \in DOMAIN objs : os[x].leaked = objs[x].leaked + B(x = v)
    <2>1. v \in AnyValue /\ ValueIn(v, Len(objs))
      BY <1>1
    <2>2. os = Forget(v)
      BY <1>1
    <2> QED BY ONLY Inv1, <2>1, <2>2, ForgetTallied
  <1>8. NoWrites(z) /\ (\A o : Count(z, o) = 0) /\ w \in Seq(AnyUpdate) /\ \A o : ~ DropsOld(cs, w, o)
    <2>1. w \in Seq(AnyUpdate)
      BY <1>1 DEF Inv1, Loose
    <2>2. DOMAIN z = {}
      BY <1>3
    <2> QED BY <1>1, <1>3, <2>1, <2>2, CountEmpty DEF NoWrites, DropsOld
  <1>9. ASSUME NEW o \in DOMAIN objs PROVE Entered(os, cs, w, st, o)
    <2>1. o # Nil /\ o \in Nat /\ objs[o].leaked \in Nat /\ Copies(acts, o) \in Nat /\ Cardinality(Keepers(cells, z, o)) \in Nat
      BY <1>1, BookFacts
    <2>2. KeepersBut(cells, z, cs, z, o, c)
      <3> SUFFICES ASSUME NEW x, x # c PROVE Keeps(cs, z, o, x) <=> Keeps(cells, z, o, x)
        BY DEF KeepersBut
      <3> QED BY <1>6, <1>8, KeepsPlain
    <2>3. Keeps(cells, z, o, c) <=> o = v
      BY <1>1, <1>3, <1>8, KeepsPlain
    <2>4. ~ Keeps(cs, z, o, c)
      BY <1>1, <1>2, <1>6, <1>8, <2>1, KeepsPlain
    <2>5. Cardinality(Keepers(cs, z, o)) + B(Keeps(cells, z, o, c)) = Cardinality(Keepers(cells, z, o)) + B(Keeps(cs, z, o, c))
      BY <1>3, <1>6, <2>2, KeepersMove
    <2>6. B(Keeps(cells, z, o, c)) = B(o = v) /\ B(Keeps(cs, z, o, c)) = 0 /\ B(o = v) \in Nat /\ B(DropsOld(cs, w, o)) = 0
      BY <1>8, <2>3, <2>4 DEF B
    <2>7. Cardinality(Keepers(cs, z, o)) \in Nat /\ Copies(st, o) = Copies(acts, o)
      BY <1>5, <1>6, <2>1, KeepersType DEF SameStack
    <2>8. os[o].count = objs[o].count /\ os[o].live = objs[o].live /\ os[o].leaked = objs[o].leaked + B(o = v)
      BY <1>7 DEF Tallied
    <2>9. Count(z, Add(o)) = 0 /\ Count(z, Drop(o)) = 0
      BY <1>8
    <2>10. Count(z, Add(o)) + Cardinality(Keepers(cells, z, o)) + Copies(acts, o) + objs[o].leaked =
           Cardinality(Keepers(cs, z, o)) + Copies(st, o) + os[o].leaked + Count(z, Drop(o)) + B(DropsOld(cs, w, o))
      BY ONLY <2>1, <2>5, <2>6, <2>7, <2>8, <2>9
    <2>11. /\ Count(w, Add(o)) + Cardinality(Keepers(cells, << >>, o)) + Copies(acts, o) + objs[o].leaked =
             Cardinality(Keepers(cs, w, o)) + Copies(st, o) + os[o].leaked + Count(w, Drop(o)) + B(DropsOld(cs, w, o))
           /\ os[o].leaked \in Nat /\ (Count(w, Add(o)) # 0 => objs[o].live)
      <3>1. w = z /\ z = << >>
        BY <1>1, <1>3
      <3>2. os[o].leaked \in Nat /\ Count(w, Add(o)) = 0
        BY <2>1, <2>6, <2>8, <2>9, <3>1
      <3> QED BY ONLY <2>10, <3>1, <3>2
    <2>12. work = << >>
      BY <1>1, <1>3
    <2> QED BY ONLY Inv1, Books, o \in DOMAIN objs, <1>5, <1>6, <1>8, <2>8, <2>11, <2>12, BookStep
  <1> QED BY <1>1, <1>7, <1>9 DEF Books, Tallied

-----------------------------------------------------------------------------
(* The order of the updates: a function is never deleted while it is still *)
(* to be counted, for what follows the count releases it again, and the    *)
(* cell that is to be written keeps it.                                    *)
Freeing == {"drop", "unref", "dropold"}
OldFirst(w) == \A i \in DOMAIN w : w[i].op = "dropold" => i = 1
OneWrite(w) == \A i, j \in DOMAIN w : w[i].op = "write" /\ w[j].op = "write" => i = j
Backed(w) ==
  \A i, j \in DOMAIN w : i < j /\ w[i].op \in Freeing /\ w[j].op = "add" =>
    /\ \E k \in DOMAIN w : k > j /\ w[k] = Drop(w[j].x)
    /\ \E k \in DOMAIN w : k > i /\ w[k].op = "write" /\ w[k].v = w[j].x
    /\ \A m \in DOMAIN w : w[m].op = "add" => m = j
Orderly(w) == OldFirst(w) /\ OneWrite(w) /\ Backed(w)

LEMMA ReleasingOrderly ==
  ASSUME NEW w, Releasing(w)
  PROVE  Orderly(w)
  BY DEF Releasing, Orderly, OldFirst, OneWrite, Backed

LEMMA AddingOrderly ==
  ASSUME NEW w, Adding(w)
  PROVE  Orderly(w)
  BY DEF Adding, Orderly, OldFirst, OneWrite, Backed, Freeing

LEMMA LocalOrderly ==
  ASSUME NEW c, NEW v, NEW w, w = <<Write(c, v), Add(v), Drop(v)>>
  PROVE  Orderly(w)
  <1>1. DOMAIN w = 1 .. 3 /\ w[1].op = "write" /\ w[2].op = "add" /\ w[3].op = "drop"
    BY DEF Write, Add, Drop
  <1>2. \A i \in DOMAIN w : i = 1 \/ i = 2 \/ i = 3
    BY <1>1
  <1>3. OldFirst(w) /\ OneWrite(w)
    BY <1>1, <1>2 DEF OldFirst, OneWrite
  <1>4. ASSUME NEW i \in DOMAIN w, NEW j \in DOMAIN w, i < j, w[i].op \in Freeing, w[j].op = "add" PROVE FALSE
    <2>1. j = 2 /\ i = 3
      BY <1>1, <1>2, <1>4 DEF Freeing
    <2> QED BY <1>4, <2>1
  <1> QED BY <1>3, <1>4 DEF Orderly, Backed

LEMMA AssignOrderly ==
  ASSUME NEW c, NEW v, NEW w, w = <<DropOld(c), Write(c, v), Add(v), Drop(v)>>
  PROVE  Orderly(w)
  <1>1. /\ DOMAIN w = 1 .. 4 /\ w[1].op = "dropold" /\ w[2].op = "write" /\ w[2].v = v /\ w[3].op = "add" /\ w[3].x = v
        /\ w[4].op = "drop" /\ w[4] = Drop(v)
    BY DEF DropOld, Write, Add, Drop
  <1>2. \A i \in DOMAIN w : i = 1 \/ i = 2 \/ i = 3 \/ i = 4
    BY <1>1
  <1>3. OldFirst(w) /\ OneWrite(w)
    BY <1>1, <1>2 DEF OldFirst, OneWrite
  <1>4. ASSUME NEW i \in DOMAIN w, NEW j \in DOMAIN w, i < j, w[i].op \in Freeing, w[j].op = "add"
        PROVE  /\ \E k \in DOMAIN w : k > j /\ w[k] = Drop(w[j].x)
               /\ \E k \in DOMAIN w : k > i /\ w[k].op = "write" /\ w[k].v = w[j].x
               /\ \A m \in DOMAIN w : w[m].op = "add" => m = j
    <2>1. j = 3
      BY <1>1, <1>2, <1>4
    <2>2. i = 1
      BY <1>1, <1>2, <1>4, <2>1 DEF Freeing
    <2>3. 4 \in DOMAIN w /\ 2 \in DOMAIN w /\ 4 > j /\ 2 > i
      BY <1>1, <2>1, <2>2
    <2>4. \A m \in DOMAIN w : w[m].op = "add" => m = 3
      BY <1>1, <1>2
    <2> QED BY <1>1, <2>1, <2>3, <2>4
  <1> QED BY <1>3, <1>4 DEF Orderly, Backed

LEMMA RoundOrderly ==
  ASSUME NEW w, NEW c, NEW v, WritesOnly(w, c, v), \A i \in DOMAIN w : w[i] = Write(c, v) \/ w[i].op = "unref",
         \A i, j \in DOMAIN w : w[i].op = "write" /\ w[j].op = "write" => i = j
  PROVE  Orderly(w)
  <1>1. Write(c, v).op = "write"
    BY DEF Write
  <1> QED BY <1>1 DEF Orderly, OldFirst, OneWrite, Backed

(* The number overwrites what the body assigned, which stays counted.      *)
LEMMA NextRoundBooks ==
  ASSUME Inv1, Inv1', Books, NextRound, cells[Top.cell].refs > 0
  PROVE  Books' /\ Orderly(work') /\ \A i \in DOMAIN work' : work'[i].op \in {"write", "dropold"} => work'[i].x = Top.cell
  <1> DEFINE c == Top.cell
             v == Nil
             a == [Top EXCEPT !.at = "stat"]
             w == work'
             st == acts'
             os == objs'
             q == Others
  <1>1. /\ status = "run" /\ work = << >> /\ Top.op = "for" /\ Top.ctx \in Block /\ Top.val = Nil /\ c \in DOMAIN cells
        /\ os = Forget(cells[c].value)
        /\ w = Append(Unrefs(q), Write(c, Nil)) /\ st = SetTop(a) /\ cells' = cells
        /\ os = objs' /\ w = work' /\ st = acts'
    BY NextRoundForm
  <1>2. w \in Seq(AnyUpdate) /\ st \in Seq(AnyAct) /\ cells \in Seq(AnyCell)
    BY KeptTypes DEF Inv1, Loose
  <1>3. Top \in AnyAct /\ Len(acts) \in DOMAIN acts /\ acts \in Seq(AnyAct) /\ Kind(Top)
    BY <1>1, RunFacts
  <1>4. Top.held = << >>
    BY <1>1, <1>3 DEF Kind, Blocky
  <1>5. a \in AnyAct /\ a.held = << >> /\ a.val = Nil
    <2>1. st[Len(acts)] = a /\ Len(acts) \in DOMAIN st
      BY <1>1, <1>3 DEF SetTop
    <2>2. a \in AnyAct
      BY <1>2, <2>1, LenFacts
    <2>3. a.held = Top.held /\ a.val = Top.val
      BY <1>3 DEF AnyAct
    <2> QED BY <1>1, <1>4, <2>2, <2>3
  <1>6. IsFiniteSet(q) /\ q \subseteq Nat
    <2>1. IsFiniteSet(q) /\ q \subseteq 1 .. Len(cells)
      BY <1>1, OthersFacts
    <2> HIDE DEF q
    <2> QED BY <2>1
  <1>7. CellsLike(cells, cells, c) /\ cells[c].refs > 0
    BY SelfLike
  <1>8. cells[c].value \in AnyValue /\ ValueIn(cells[c].value, Len(objs))
    BY <1>1, StateFacts
  <1> HIDE DEF a, c, w, st, os, q
  <1>9. Tallied(objs, os) /\ \A x \in DOMAIN objs : os[x].leaked = objs[x].leaked + B(c \in DOMAIN cells /\ cells[c].value = x)
    <2> DEFINE y == cells[c].value
    <2>1. y \in AnyValue /\ ValueIn(y, Len(objs)) /\ os = Forget(y)
      BY <1>1, <1>8
    <2>2. \A x : (c \in DOMAIN cells /\ cells[c].value = x) <=> x = y
      BY <1>1
    <2> HIDE DEF y
    <2>3. Tallied(objs, Forget(y)) /\ \A x \in DOMAIN objs : Forget(y)[x].leaked = objs[x].leaked + B(x = y)
      BY <2>1, ForgetTallied
    <2> QED BY <2>1, <2>2, <2>3 DEF B
  <1>10. /\ \A i \in DOMAIN w : w[i] = Write(c, v) \/ w[i].op = "unref"
         /\ WritesOnly(w, c, v) /\ Write(c, v).op = "write" /\ Write(c, v).x = c
         /\ \A i, j \in DOMAIN w : w[i].op = "write" /\ w[j].op = "write" => i = j
    <2> DEFINE s == Unrefs(q)
               d == Write(c, v)
    <2>1. s \in Seq(AnyUpdate) /\ \A k \in DOMAIN s : \E e \in q : s[k] = Unref(e)
      BY <1>6, UnrefsFacts
    <2>2. (\A e : Unref(e).op = "unref") /\ d.op = "write" /\ d.x = c
      BY DEF Unref, Write
    <2>3. d \in AnyUpdate
      <3>1. c \in AnyValue /\ v \in AnyValue
        BY <1>1, <1>2, LenFacts DEF AnyValue
      <3> QED BY <3>1, UpdatesTyped
    <2>4. w = Append(s, d)
      BY <1>1
    <2> HIDE DEF s, d
    <2>5. DOMAIN w = 1 .. (Len(s) + 1) /\ w[Len(s) + 1] = d /\ (\A k \in 1 .. Len(s) : w[k] = s[k]) /\ DOMAIN s = 1 .. Len(s) /\ Len(s) \in Nat
      BY <2>1, <2>3, <2>4, AppendFacts, LenFacts
    <2>6. ASSUME NEW i \in DOMAIN w PROVE (i = Len(s) + 1 /\ w[i] = d) \/ w[i].op = "unref"
      <3>1. CASE i = Len(s) + 1
        BY <2>5, <3>1
      <3>2. CASE i # Len(s) + 1
        <4>1. i \in DOMAIN s /\ w[i] = s[i]
          BY <2>5, <3>2, NotLast
        <4> QED BY <2>1, <2>2, <4>1
      <3> QED BY <3>1, <3>2
    <2>7. Len(s) + 1 \in DOMAIN w
      BY <2>5
    <2> QED BY <2>2, <2>5, <2>6, <2>7 DEF d, WritesOnly
  <1>11. ASSUME NEW o \in DOMAIN objs PROVE Entered(os, cells, w, st, o)
    <2> DEFINE t == B(Top.val = o)
               u == B(c \in DOMAIN cells /\ cells[c].value = o)
               x == Count(w, Add(o))
               y == B(v = o)
               l == objs[o].leaked
               l2 == os[o].leaked
    <2>1. x = 0 /\ Count(w, Drop(o)) = 0 /\ ~ DropsOld(cells, w, o)
      <3>1. \A i \in DOMAIN w : w[i].op = "write" \/ w[i].op = "unref"
        BY <1>10
      <3>2. Add(o).op = "add" /\ Drop(o).op = "drop"
        BY DEF Add, Drop
      <3>3. ~ DropsOld(cells, w, o)
        BY <3>1 DEF DropsOld
      <3>4. (\A i \in DOMAIN w : w[i] # Add(o)) /\ (\A i \in DOMAIN w : w[i] # Drop(o))
        BY <3>1, <3>2
      <3> QED BY <3>3, <3>4, CountNone
    <2>2. o # Nil /\ l \in Nat
      BY BookFacts
    <2>3. t = 0 /\ y = 0 /\ t \in Nat /\ u \in Nat /\ y \in Nat /\ x \in Nat /\ B(DropsOld(cells, w, o)) = 0
      BY <1>1, <2>1, <2>2 DEF B
    <2>4. l2 = l + u /\ os[o].count = objs[o].count /\ os[o].live = objs[o].live
      BY <1>9 DEF Tallied
    <2>5. x # 0 => objs[o].live
      BY <2>1
    <2>6. /\ t = B(Top.val = o) /\ u = B(c \in DOMAIN cells /\ cells[c].value = o) /\ x = Count(w, Add(o)) /\ y = B(v = o)
      OBVIOUS
    <2>7. x + objs[o].leaked + u + t = y + os[o].leaked + Count(w, Drop(o)) + B(DropsOld(cells, w, o)) /\ os[o].leaked \in Nat
      <3>1. l = objs[o].leaked /\ l2 = os[o].leaked
        OBVIOUS
      <3> HIDE DEF t, u, x, y, l, l2
      <3> QED BY ONLY <2>1, <2>2, <2>3, <2>4, <3>1
    <2>8. st = SetTop(a) /\ status = "run" /\ work = << >> /\ c \in DOMAIN cells /\ WritesOnly(w, c, v)
      BY <1>1, <1>10
    <2> HIDE DEF t, u, x, y, l, l2, v
    <2>9. t \in Nat /\ u \in Nat /\ y \in Nat /\ x \in Nat /\ cells \in Seq(AnyCell) /\ w \in Seq(AnyUpdate)
          /\ os[o].count = objs[o].count /\ os[o].live = objs[o].live
      BY <1>2, <2>3, <2>4
    <2> DEFINE cs == cells
    <2>10. cs = cells /\ cs \in Seq(AnyCell) /\ CellsLike(cells, cs, c) /\ c \in DOMAIN cs /\ cs[c].refs > 0
           /\ x + objs[o].leaked + u + t = y + os[o].leaked + Count(w, Drop(o)) + B(DropsOld(cs, w, o)) /\ os[o].leaked \in Nat
      BY <1>1, <1>2, <1>7, <2>7
    <2> HIDE DEF cs
    <2>11. Entered(os, cs, w, st, o)
      BY ONLY Inv1, Books, o \in DOMAIN objs, <1>4, <1>5, <2>5, <2>6, <2>8, <2>9, <2>10, StoreBook, SMTT(60)
    <2> QED BY <2>10, <2>11
  <1>12. Orderly(w)
    BY <1>10, RoundOrderly
  <1>13. ASSUME NEW i \in DOMAIN w, w[i].op \in {"write", "dropold"} PROVE w[i].x = c
    BY <1>10, <1>13
  <1>14. Orderly(work') /\ \A i \in DOMAIN work' : work'[i].op \in {"write", "dropold"} => work'[i].x = c
    BY <1>1, <1>12, <1>13
  <1> QED BY <1>1, <1>9, <1>11, <1>14 DEF Books, Tallied, c

(* The list without its first element, and with releases before it.        *)
LEMMA TailPlaces ==
  ASSUME Inv1, work # << >>
  PROVE  /\ \A i \in DOMAIN Tail(work) : i \in Nat /\ i + 1 \in DOMAIN work /\ Tail(work)[i] = work[i + 1] /\ i + 1 # 1 /\ i + 1 > 1
         /\ \A j \in DOMAIN work : j = 1 \/ (j \in Nat /\ j > 1 /\ j - 1 \in DOMAIN Tail(work) /\ Tail(work)[j - 1] = work[j] /\ (j - 1) + 1 = j)
         /\ 1 \in DOMAIN work /\ W = work[1]
  <1>1. /\ W = work[1] /\ 1 \in DOMAIN work
        /\ DOMAIN Tail(work) = 1 .. (Len(work) - 1)
        /\ (\A k \in 1 .. (Len(work) - 1) : Tail(work)[k] = work[k + 1] /\ k + 1 \in DOMAIN work)
    BY WorkFacts
  <1>2. DOMAIN work = 1 .. Len(work) /\ Len(work) \in Nat
    BY KeptTypes, LenFacts
  <1>3. ASSUME NEW j \in DOMAIN work, j # 1 PROVE j \in Nat /\ j > 1 /\ j - 1 \in 1 .. (Len(work) - 1) /\ (j - 1) + 1 = j
    BY <1>2, <1>3
  <1>4. ASSUME NEW j \in DOMAIN work, j # 1 PROVE Tail(work)[j - 1] = work[j]
    <2>1. j - 1 \in 1 .. (Len(work) - 1) /\ (j - 1) + 1 = j
      BY <1>3, <1>4
    <2> DEFINE k == j - 1
    <2>2. k \in 1 .. (Len(work) - 1) /\ k + 1 = j
      BY <2>1
    <2> HIDE DEF k
    <2>3. Tail(work)[k] = work[j]
      BY <1>1, <2>2
    <2> QED BY <2>3 DEF k
  <1> QED BY <1>1, <1>3, <1>4

LEMMA TailOrderly ==
  ASSUME Inv1, work # << >>, Orderly(work), NEW t, t = Tail(work)
  PROVE  Orderly(t) /\ (\A i \in DOMAIN t : t[i].op # "dropold")
  <1>1. /\ \A i \in DOMAIN t : i \in Nat /\ i + 1 \in DOMAIN work /\ t[i] = work[i + 1] /\ i + 1 # 1 /\ i + 1 > 1
        /\ \A j \in DOMAIN work : j = 1 \/ (j \in Nat /\ j > 1 /\ j - 1 \in DOMAIN t /\ t[j - 1] = work[j] /\ (j - 1) + 1 = j)
    BY TailPlaces
  <1>2. \A i \in DOMAIN t : t[i].op # "dropold"
    BY <1>1 DEF Orderly, OldFirst
  <1>3. ASSUME NEW i \in DOMAIN t, NEW j \in DOMAIN t, t[i].op = "write", t[j].op = "write" PROVE i = j
    <2>1. i + 1 = j + 1
      BY <1>1, <1>3 DEF Orderly, OneWrite
    <2> QED BY <1>1, <2>1
  <1>4. ASSUME NEW i \in DOMAIN t, NEW j \in DOMAIN t, i < j, t[i].op \in Freeing, t[j].op = "add"
        PROVE  /\ \E k \in DOMAIN t : k > j /\ t[k] = Drop(t[j].x)
               /\ \E k \in DOMAIN t : k > i /\ t[k].op = "write" /\ t[k].v = t[j].x
               /\ \A m \in DOMAIN t : t[m].op = "add" => m = j
    <2> DEFINE a == i + 1
               b == j + 1
    <2>1. i \in Nat /\ j \in Nat /\ a \in DOMAIN work /\ b \in DOMAIN work /\ a < b /\ t[i] = work[a] /\ t[j] = work[b] /\ a \in Nat /\ b \in Nat
      BY <1>1, <1>4
    <2>2. a = i + 1 /\ b = j + 1
      OBVIOUS
    <2> HIDE DEF a, b
    <2>3. /\ \E k \in DOMAIN work : k > b /\ work[k] = Drop(work[b].x)
          /\ \E k \in DOMAIN work : k > a /\ work[k].op = "write" /\ work[k].v = work[b].x
          /\ \A m \in DOMAIN work : work[m].op = "add" => m = b
      BY <1>4, <2>1 DEF Orderly, Backed
    <2>4. PICK k \in DOMAIN work : k > b /\ work[k] = Drop(work[b].x)
      BY <2>3
    <2>5. PICK h \in DOMAIN work : h > a /\ work[h].op = "write" /\ work[h].v = work[b].x
      BY <2>3
    <2>6. k - 1 \in DOMAIN t /\ t[k - 1] = work[k] /\ k - 1 > j
      BY <1>1, <2>1, <2>2, <2>4
    <2>7. h - 1 \in DOMAIN t /\ t[h - 1] = work[h] /\ h - 1 > i
      BY <1>1, <2>1, <2>2, <2>5
    <2>8. ASSUME NEW m \in DOMAIN t, t[m].op = "add" PROVE m = j
      <3>1. m + 1 = b /\ m \in Nat
        BY <1>1, <2>3, <2>8
      <3> QED BY <2>1, <2>2, <3>1
    <2> QED BY <2>1, <2>4, <2>5, <2>6, <2>7, <2>8
  <1> QED BY <1>2, <1>3, <1>4 DEF Orderly, OldFirst, OneWrite, Backed

Joins(w, s, t) == w = s \o t

LEMMA ReleasesBefore ==
  ASSUME NEW s \in Seq(AnyUpdate), NEW t \in Seq(AnyUpdate), Releasing(s), NEW w, Joins(w, s, t)
  PROVE  /\ w \in Seq(AnyUpdate)
         /\ \A k \in DOMAIN w : \/ k \in DOMAIN s /\ w[k].op \in {"unref", "drop"}
                                \/ \E i \in DOMAIN t : i \in Nat /\ k = i + Len(s) /\ w[k] = t[i]
         /\ \A i \in DOMAIN t : \E k \in DOMAIN w : i \in Nat /\ k = i + Len(s) /\ w[k] = t[i]
         /\ Len(s) \in Nat /\ (\A k \in DOMAIN s : k \in Nat /\ k =< Len(s))
  <1>1. /\ w \in Seq(AnyUpdate) /\ DOMAIN w = 1 .. (Len(s) + Len(t)) /\ Len(s) \in Nat /\ Len(t) \in Nat
        /\ DOMAIN s = 1 .. Len(s) /\ DOMAIN t = 1 .. Len(t)
    BY LenFacts, ConcatFacts DEF Joins
  <1>2. ASSUME NEW i \in DOMAIN t PROVE \E k \in DOMAIN w : i \in Nat /\ k = i + Len(s) /\ w[k] = t[i]
    <2>1. i \in Nat /\ Len(s) + i \in DOMAIN w /\ Len(s) + i = i + Len(s)
      BY <1>1
    <2>2. w[Len(s) + i] = t[i]
      BY <1>1, ConcatFacts DEF Joins
    <2> QED BY <2>1, <2>2
  <1>3. ASSUME NEW k \in DOMAIN w
        PROVE  \/ k \in DOMAIN s /\ w[k].op \in {"unref", "drop"}
               \/ \E i \in DOMAIN t : i \in Nat /\ k = i + Len(s) /\ w[k] = t[i]
    <2>1. CASE k \in DOMAIN s
      <3>1. w[k] = s[k]
        BY <1>1, <2>1, ConcatFacts DEF Joins
      <3> QED BY <2>1, <3>1 DEF Releasing
    <2>2. CASE k \notin DOMAIN s
      <3>1. k - Len(s) \in DOMAIN t /\ w[k] = t[k - Len(s)]
        BY <2>2, ConcatCase DEF Joins
      <3>2. k \in Nat /\ k = (k - Len(s)) + Len(s) /\ k - Len(s) \in Nat
        BY <1>1, <3>1
      <3> QED BY <3>1, <3>2
    <2> QED BY <2>1, <2>2
  <1> QED BY <1>1, <1>2, <1>3

LEMMA ReleasesKeep ==
  ASSUME NEW s \in Seq(AnyUpdate), NEW t \in Seq(AnyUpdate), Releasing(s), NEW w, Joins(w, s, t), NEW cs, NEW o
  PROVE  /\ Keepers(cs, w, o) = Keepers(cs, t, o) /\ (DropsOld(cs, w, o) <=> DropsOld(cs, t, o))
         /\ Count(w, Add(o)) = Count(t, Add(o)) /\ Count(w, Drop(o)) = Count(s, Drop(o)) + Count(t, Drop(o))
         /\ \A c : WritesTo(w, c) <=> WritesTo(t, c)
  <1>1. /\ w \in Seq(AnyUpdate)
        /\ \A k \in DOMAIN w : w[k].op \in {"unref", "drop"} \/ \E i \in DOMAIN t : w[k] = t[i]
        /\ \A i \in DOMAIN t : \E k \in DOMAIN w : w[k] = t[i]
    BY ReleasesBefore
  <1>2. ASSUME NEW c PROVE WritesTo(w, c) <=> WritesTo(t, c)
    BY <1>1, ZenonT(60) DEF WritesTo
  <1>3. ASSUME NEW c PROVE (\E i \in DOMAIN w : w[i] = Write(c, o)) <=> (\E i \in DOMAIN t : t[i] = Write(c, o))
    BY <1>1, SMTT(60) DEF Write
  <1>4. ASSUME NEW c PROVE Keeps(cs, w, o, c) <=> Keeps(cs, t, o, c)
    BY <1>2, <1>3 DEF Keeps
  <1>5. Keepers(cs, w, o) = Keepers(cs, t, o)
    BY <1>4, KeepersSame
  <1>6. DropsOld(cs, w, o) <=> DropsOld(cs, t, o)
    BY <1>1, SMTT(60) DEF DropsOld
  <1>7. Count(w, Add(o)) = Count(s, Add(o)) + Count(t, Add(o)) /\ Count(w, Drop(o)) = Count(s, Drop(o)) + Count(t, Drop(o))
    BY CountConcat DEF Joins
  <1>8. Count(s, Add(o)) = 0 /\ Count(t, Add(o)) \in Nat
    BY ReleasingFacts, CountType
  <1> QED BY <1>2, <1>5, <1>6, <1>7, <1>8

LEMMA HeadKeeps ==
  ASSUME Inv1, work # << >>, NEW t, t = Tail(work), NEW cs, NEW o
  PROVE  /\ W.op # "write" => Keepers(cs, t, o) = Keepers(cs, work, o) /\ (\A c : WritesTo(t, c) <=> WritesTo(work, c))
         /\ W.op # "dropold" => (DropsOld(cs, t, o) <=> DropsOld(cs, work, o))
         /\ Count(work, Add(o)) = B(W = Add(o)) + Count(t, Add(o))
         /\ Count(work, Drop(o)) = B(W = Drop(o)) + Count(t, Drop(o))
  <1>1. /\ \A i \in DOMAIN t : \E j \in DOMAIN work : work[j] = t[i]
        /\ \A j \in DOMAIN work : work[j] = W \/ \E i \in DOMAIN t : work[j] = t[i]
    BY TailPlaces
  <1>2. ASSUME W.op # "write", NEW c PROVE WritesTo(t, c) <=> WritesTo(work, c)
    BY <1>1, <1>2 DEF WritesTo
  <1>3. ASSUME W.op # "write", NEW c PROVE (\E i \in DOMAIN t : t[i] = Write(c, o)) <=> (\E i \in DOMAIN work : work[i] = Write(c, o))
    BY <1>1, <1>3 DEF Write
  <1>4. ASSUME W.op # "write", NEW c PROVE Keeps(cs, t, o, c) <=> Keeps(cs, work, o, c)
    BY <1>2, <1>3, <1>4 DEF Keeps
  <1>5. ASSUME W.op # "write" PROVE Keepers(cs, t, o) = Keepers(cs, work, o)
    BY <1>4, <1>5, KeepersSame
  <1>6. ASSUME W.op # "dropold" PROVE DropsOld(cs, t, o) <=> DropsOld(cs, work, o)
    BY <1>1, <1>6 DEF DropsOld
  <1>7. work \in Seq(AnyUpdate) /\ W = Head(work)
    BY KeptTypes, WorkFacts
  <1>8. Count(work, Add(o)) = B(W = Add(o)) + Count(t, Add(o)) /\ Count(work, Drop(o)) = B(W = Drop(o)) + Count(t, Drop(o))
    BY <1>7, CountTail
  <1> QED BY <1>2, <1>5, <1>6, <1>8

LEMMA NextOrderly ==
  ASSUME Inv1, work # << >>, Orderly(work), W.op \in Freeing, NEW s \in Seq(AnyUpdate), Releasing(s), NEW w, Joins(w, s, Tail(work))
  PROVE  Orderly(w)
  <1> DEFINE t == Tail(work)
  <1>1. t \in Seq(AnyUpdate) /\ Joins(w, s, t) /\ t = Tail(work)
    BY WorkFacts
  <1>2. Orderly(t) /\ (\A i \in DOMAIN t : t[i].op # "dropold")
    BY <1>1, TailOrderly
  <1>3. /\ \A i \in DOMAIN t : \E j \in DOMAIN work : i \in Nat /\ j = i + 1 /\ t[i] = work[j]
        /\ \A j \in DOMAIN work : j = 1 \/ \E i \in DOMAIN t : i \in Nat /\ j = i + 1 /\ t[i] = work[j]
        /\ 1 \in DOMAIN work /\ W = work[1]
    <2>1. ASSUME NEW i \in DOMAIN t PROVE \E j \in DOMAIN work : i \in Nat /\ j = i + 1 /\ t[i] = work[j]
      BY <1>1, TailPlaces
    <2>2. ASSUME NEW j \in DOMAIN work, j # 1 PROVE \E i \in DOMAIN t : i \in Nat /\ j = i + 1 /\ t[i] = work[j]
      <3>1. j \in Nat /\ j > 1 /\ j - 1 \in DOMAIN t /\ t[j - 1] = work[j] /\ (j - 1) + 1 = j
        BY <1>1, <2>2, TailPlaces
      <3>2. j - 1 \in Nat
        BY <3>1
      <3> QED BY <3>1, <3>2
    <2> QED BY <2>1, <2>2, TailPlaces
  <1> HIDE DEF t
  <1>l. /\ \A k \in DOMAIN w : \/ k \in DOMAIN s /\ w[k].op \in {"unref", "drop"}
                               \/ \E i \in DOMAIN t : i \in Nat /\ k = i + Len(s) /\ w[k] = t[i]
        /\ \A i \in DOMAIN t : \E k \in DOMAIN w : i \in Nat /\ k = i + Len(s) /\ w[k] = t[i]
        /\ Len(s) \in Nat /\ (\A k \in DOMAIN s : k \in Nat /\ k =< Len(s))
    <2>1. s \in Seq(AnyUpdate) /\ t \in Seq(AnyUpdate) /\ Releasing(s) /\ Joins(w, s, t)
      BY <1>1
    <2> QED BY ONLY <2>1, ReleasesBefore
  <1> DEFINE n == Len(s)
  <1>4. /\ \A k \in DOMAIN w : \/ k \in DOMAIN s /\ w[k].op \in {"unref", "drop"}
                               \/ \E i \in DOMAIN t : i \in Nat /\ k = i + n /\ w[k] = t[i]
        /\ \A i \in DOMAIN t : \E k \in DOMAIN w : i \in Nat /\ k = i + n /\ w[k] = t[i]
        /\ n \in Nat /\ (\A k \in DOMAIN s : k \in Nat /\ k =< n)
    BY <1>l
  <1> HIDE DEF n
  <1>5. ASSUME NEW k \in DOMAIN w, k \notin DOMAIN s
        PROVE  \E j \in DOMAIN work : j \in Nat /\ k \in Nat /\ j > 1 /\ k + 1 = j + n /\ w[k] = work[j]
    <2>1. PICK i \in DOMAIN t : i \in Nat /\ k = i + n /\ w[k] = t[i]
      BY <1>4, <1>5
    <2>2. PICK j \in DOMAIN work : j = i + 1 /\ t[i] = work[j]
      BY <1>3
    <2>4. j # 1
      <3>1. i \in DOMAIN Tail(work)
        BY <1>1
      <3>2. i + 1 # 1
        BY <3>1, TailPlaces
      <3> QED BY ONLY <2>2, <3>2
    <2>5. n \in Nat
      BY <1>4
    <2>7. i \in Nat /\ k = i + n /\ j = i + 1
      BY <2>1, <2>2
    <2>8. j \in Nat /\ k \in Nat /\ k + 1 = j + n
      BY ONLY <2>5, <2>7, SMTT(60)
    <2>9. j > 1
      BY ONLY <2>4, <2>7
    <2>6. j \in Nat /\ k \in Nat /\ j > 1 /\ k + 1 = j + n
      BY ONLY <2>8, <2>9
    <2> QED BY ONLY <2>1, <2>2, <2>6
  <1>6. ASSUME NEW j \in DOMAIN work, j # 1
        PROVE  \E k \in DOMAIN w : j \in Nat /\ k \in Nat /\ k + 1 = j + n /\ w[k] = work[j]
    <2>1. PICK i \in DOMAIN t : i \in Nat /\ j = i + 1 /\ t[i] = work[j]
      BY <1>3, <1>6
    <2>2. PICK k \in DOMAIN w : k = i + n /\ w[k] = t[i]
      BY <1>4
    <2>3. n \in Nat
      BY <1>4
    <2>4. j \in Nat /\ k \in Nat /\ k + 1 = j + n
      BY ONLY <2>1, <2>2, <2>3
    <2> QED BY ONLY <2>1, <2>2, <2>4
  <1>7. ASSUME NEW k \in DOMAIN w, w[k].op \in {"write", "add", "dropold"} PROVE k \notin DOMAIN s /\ w[k].op # "dropold"
    <2>1. w[k].op \notin {"unref", "drop"}
      BY <1>7
    <2>2. PICK i \in DOMAIN t : k = i + n /\ w[k] = t[i]
      BY <1>4, <2>1
    <2>3. w[k].op # "dropold"
      BY <1>2, <2>2
    <2>4. i \in Nat /\ n \in Nat /\ i # 0
      BY <1>1, <1>4, LenFacts
    <2>5. k > n
      BY ONLY <2>2, <2>4
    <2> QED BY <1>4, <2>3, <2>4, <2>5
  <1>8. OldFirst(w)
    BY <1>7 DEF OldFirst
  <1>9. ASSUME NEW i \in DOMAIN w, NEW j \in DOMAIN w, w[i].op = "write", w[j].op = "write" PROVE i = j
    <2>1. PICK a \in DOMAIN work : a \in Nat /\ i \in Nat /\ i + 1 = a + n /\ w[i] = work[a]
      BY <1>5, <1>7, <1>9
    <2>2. PICK b \in DOMAIN work : b \in Nat /\ j \in Nat /\ j + 1 = b + n /\ w[j] = work[b]
      BY <1>5, <1>7, <1>9
    <2>3. a = b
      BY <1>9, <2>1, <2>2 DEF Orderly, OneWrite
    <2> QED BY <1>4, <2>1, <2>2, <2>3
  <1>10. ASSUME NEW i \in DOMAIN w, NEW j \in DOMAIN w, i < j, w[i].op \in Freeing, w[j].op = "add"
         PROVE  /\ \E k \in DOMAIN w : k > j /\ w[k] = Drop(w[j].x)
                /\ \E k \in DOMAIN w : k > i /\ w[k].op = "write" /\ w[k].v = w[j].x
                /\ \A m \in DOMAIN w : w[m].op = "add" => m = j
    <2>1. PICK b \in DOMAIN work : b \in Nat /\ j \in Nat /\ b > 1 /\ j + 1 = b + n /\ w[j] = work[b]
      BY <1>5, <1>7, <1>10
    <2>2. PICK a \in DOMAIN work : a \in Nat /\ i \in Nat /\ work[a].op \in Freeing /\ a < b /\ i + 1 =< a + n
      <3>1. CASE i \in DOMAIN s
        <4>1. i \in Nat /\ i =< n
          BY <1>4, <3>1
        <4>2. i + 1 =< 1 + n
          BY <1>4, <4>1
        <4>3. 1 \in Nat /\ 1 < b
          BY <2>1
        <4> QED BY <1>3, <4>1, <4>2, <4>3
      <3>2. CASE i \notin DOMAIN s
        <4>1. PICK a \in DOMAIN work : a \in Nat /\ i \in Nat /\ i + 1 = a + n /\ w[i] = work[a]
          BY <1>5, <3>2
        <4>3. n \in Nat /\ i < j
          BY <1>4, <1>10
        <4>2. a < b /\ i + 1 =< a + n
          BY ONLY <2>1, <4>1, <4>3
        <4> QED BY <1>10, <4>1, <4>2
      <3> QED BY <3>1, <3>2
    <2>3. /\ \E k \in DOMAIN work : k > b /\ work[k] = Drop(work[b].x)
          /\ \E k \in DOMAIN work : k > a /\ work[k].op = "write" /\ work[k].v = work[b].x
          /\ \A m \in DOMAIN work : work[m].op = "add" => m = b
      BY <1>10, <2>1, <2>2 DEF Orderly, Backed
    <2>4. PICK k \in DOMAIN work : k > b /\ work[k] = Drop(work[b].x)
      BY <2>3
    <2>5. PICK h \in DOMAIN work : h > a /\ work[h].op = "write" /\ work[h].v = work[b].x
      BY <2>3
    <2>6. PICK q \in DOMAIN w : k \in Nat /\ q \in Nat /\ q + 1 = k + n /\ w[q] = work[k]
      BY <1>6, <2>1, <2>4
    <2>7. h # 1
      BY <1>3, <2>5 DEF Freeing
    <2>8. PICK r \in DOMAIN w : h \in Nat /\ r \in Nat /\ r + 1 = h + n /\ w[r] = work[h]
      BY <1>6, <2>7
    <2>9. q > j
      BY <1>4, <2>1, <2>4, <2>6
    <2>10. r > i
      BY <1>4, <2>2, <2>5, <2>8
    <2>11. ASSUME NEW m \in DOMAIN w, w[m].op = "add" PROVE m = j
      <3>1. PICK d \in DOMAIN work : d \in Nat /\ m \in Nat /\ m + 1 = d + n /\ w[m] = work[d]
        BY <1>5, <1>7, <2>11
      <3>2. d = b
        BY <2>3, <2>11, <3>1
      <3> QED BY <1>4, <2>1, <3>1, <3>2
    <2> QED BY <2>1, <2>4, <2>5, <2>6, <2>8, <2>9, <2>10, <2>11
  <1> QED BY <1>8, <1>9, <1>10 DEF Orderly, OneWrite, Backed

-----------------------------------------------------------------------------
(* The counter updates keep the books, as long as no cell that is still to *)
(* be written or to release its old value has been deleted.                *)
Doomed == \E i \in DOMAIN work : work[i].op \in {"write", "dropold"} /\ cells[work[i].x].refs = 0

LEMMA AtMostOnce ==
  ASSUME NEW A, NEW s \in Seq(A), NEW x, NEW j, \A i \in DOMAIN s : s[i] = x => i = j
  PROVE  Count(s, x) =< 1
  <1>1. Places(s, x) \in SUBSET {j}
    BY DEF Places
  <1>2. IsFiniteSet({j}) /\ Cardinality({j}) = 1
    BY FS_Singleton
  <1>3. Cardinality(Places(s, x)) =< Cardinality({j})
    BY <1>1, <1>2, FS_Subset
  <1> QED BY <1>2, <1>3 DEF Count

LEMMA NothingToAdd ==
  ASSUME Inv1, Books, Orderly(work), ~ Doomed, work # << >>, W.op \in {"drop", "dropold"}, NEW x \in DOMAIN objs, objs[x].count =< 1,
         NEW t, t = Tail(work),
         Count(work, Drop(x)) + B(DropsOld(cells, work, x)) = 1 + Count(t, Drop(x)) + B(DropsOld(cells, t, x))
  PROVE  Count(work, Add(x)) = 0
  <1>1. SUFFICES ASSUME Count(work, Add(x)) # 0 PROVE FALSE
    OBVIOUS
  <1>2. work \in Seq(AnyUpdate) /\ cells \in Seq(AnyCell) /\ t \in Seq(AnyUpdate)
    BY KeptTypes, WorkFacts
  <1>3. PICK j \in DOMAIN work : work[j] = Add(x)
    BY <1>1, CountNone
  <1>4. Add(x).op = "add" /\ Add(x).x = x
    BY DEF Add
  <1>5. W = work[1] /\ 1 \in DOMAIN work /\ j \in Nat /\ j > 1
    <2>1. W = work[1] /\ 1 \in DOMAIN work /\ DOMAIN work = 1 .. Len(work)
      BY WorkFacts, StateFacts
    <2>2. j # 1
      BY <1>3, <1>4, <2>1
    <2> QED BY <2>1, <2>2
  <1>6. /\ \E k \in DOMAIN work : k > j /\ work[k] = Drop(x)
        /\ \E k \in DOMAIN work : k > 1 /\ work[k].op = "write" /\ work[k].v = x
        /\ \A m \in DOMAIN work : work[m].op = "add" => m = j
    BY <1>3, <1>4, <1>5 DEF Orderly, Backed, Freeing
  <1>7. Count(work, Add(x)) =< 1
    BY <1>2, <1>4, <1>6, AtMostOnce
  <1>8. Count(t, Drop(x)) >= 1
    <2>1. PICK k \in DOMAIN work : k > j /\ work[k] = Drop(x)
      BY <1>6
    <2>2. k # 1
      BY <1>5, <2>1
    <2>3. k - 1 \in DOMAIN t /\ t[k - 1] = work[k]
      BY <2>2, TailPlaces
    <2>4. Count(t, t[k - 1]) >= 1
      BY <1>2, <2>3, CountSome
    <2> QED BY <2>1, <2>3, <2>4
  <1>9. Cardinality(Keepers(cells, work, x)) >= 1
    <2>1. PICK h \in DOMAIN work : work[h].op = "write" /\ work[h].v = x
      BY <1>6
    <2> DEFINE c == work[h].x
    <2>2. work[h] \in AnyUpdate /\ UpdateIn(work[h], Len(cells), Len(objs))
      BY <1>2, KeptTypes DEF UpdatesIn
    <2>3. work[h] = Write(c, x) /\ c \in DOMAIN cells
      BY <2>1, <2>2, UpdateForms, StateFacts DEF UpdateIn
    <2>4. cells[c].refs > 0
      <3>1. cells[c].refs \in Nat /\ cells[c].refs # 0
        BY <2>1, <2>3, StateFacts DEF Doomed
      <3> QED BY <3>1
    <2>5. WritesTo(work, c)
      BY <2>1 DEF WritesTo
    <2>6. c \in Keepers(cells, work, x)
      BY <2>3, <2>4, <2>5 DEF Keepers, Keeps
    <2>7. IsFiniteSet(Keepers(cells, work, x)) /\ Cardinality(Keepers(cells, work, x)) \in Nat
      BY <1>2, KeepersType
    <2>8. Cardinality(Keepers(cells, work, x)) # 0
      BY <2>6, <2>7, FS_EmptySet
    <2> QED BY <2>7, <2>8
  <1> DEFINE n == objs[x].count
             a == Count(work, Add(x))
             k == Cardinality(Keepers(cells, work, x))
             p == Copies(acts, x)
             l == objs[x].leaked
             d == Count(work, Drop(x))
             o == B(DropsOld(cells, work, x))
             e == Count(t, Drop(x))
             q == B(DropsOld(cells, t, x))
  <1>10. n \in Nat /\ a \in Nat /\ k \in Nat /\ p \in Nat /\ l \in Nat /\ d \in Nat /\ o \in Nat /\ n + a = k + p + l + d + o
    BY BookFacts
  <1>11. e \in Nat /\ q \in Nat
    BY <1>2, CountType DEF B
  <1>12. n =< 1 /\ d + o = 1 + e + q /\ a =< 1 /\ e >= 1 /\ k >= 1
    BY <1>7, <1>8, <1>9
  <1> HIDE DEF n, a, k, p, l, d, o, e, q
  <1> QED BY ONLY <1>10, <1>11, <1>12

Frees(w, t, cs, x) ==
  \A o \in Nat : Count(w, Drop(o)) + B(DropsOld(cs, w, o)) = B(o = x) + Count(t, Drop(o)) + B(DropsOld(cs, t, o))

LEMMA OtherBook ==
  ASSUME Inv1, Books, work # << >>, W.op \in {"drop", "dropold"}, NEW x, NEW t, t = Tail(work), Frees(work, t, cells, x),
         NEW s \in Seq(AnyUpdate), Releasing(s), \A v : Count(s, Drop(v)) = 0, NEW w, Joins(w, s, t),
         NEW o \in DOMAIN objs, NEW os, os[o].leaked = objs[o].leaked, os[o].count \in Nat,
         objs[o].count = os[o].count + B(o = x),
         ~ os[o].live => os[o].count = 0 /\ Count(work, Add(o)) = 0
  PROVE  Entered(os, cells, w, acts, o)
  <1>1. t \in Seq(AnyUpdate) /\ o \in Nat
    BY WorkFacts, BookFacts
  <1>2. /\ Keepers(cells, w, o) = Keepers(cells, t, o) /\ (DropsOld(cells, w, o) <=> DropsOld(cells, t, o))
        /\ Count(w, Add(o)) = Count(t, Add(o)) /\ Count(w, Drop(o)) = Count(s, Drop(o)) + Count(t, Drop(o))
    <2>1. s \in Seq(AnyUpdate) /\ t \in Seq(AnyUpdate) /\ Releasing(s) /\ Joins(w, s, t)
      BY <1>1
    <2> QED BY ONLY <2>1, ReleasesKeep
  <1>3. Keepers(cells, t, o) = Keepers(cells, work, o) /\ Count(work, Add(o)) = B(W = Add(o)) + Count(t, Add(o))
    <2>1. Inv1 /\ work # << >> /\ t = Tail(work) /\ W.op # "write"
      OBVIOUS
    <2> QED BY ONLY <2>1, HeadKeeps, ZenonT(60)
  <1>4. W # Add(o)
    BY DEF Add
  <1>5. Count(t, Add(o)) \in Nat /\ Count(t, Drop(o)) \in Nat
    BY <1>1, CountType
  <1>6. Count(w, Add(o)) = Count(work, Add(o))
    BY <1>2, <1>3, <1>4, <1>5 DEF B
  <1>7. Count(w, Drop(o)) = Count(t, Drop(o))
    BY <1>2, <1>5
  <1>8. Count(work, Drop(o)) + B(DropsOld(cells, work, o)) = B(o = x) + Count(t, Drop(o)) + B(DropsOld(cells, t, o))
    BY <1>1 DEF Frees
  <1>9. B(DropsOld(cells, w, o)) = B(DropsOld(cells, t, o))
    BY <1>2 DEF B
  <1> DEFINE n == objs[o].count
             a == Count(work, Add(o))
             k == Cardinality(Keepers(cells, work, o))
             p == Copies(acts, o)
             l == objs[o].leaked
             d == Count(work, Drop(o))
             b == B(DropsOld(cells, work, o))
             e == Count(t, Drop(o))
             q == B(DropsOld(cells, t, o))
             z == B(o = x)
             m == os[o].count
  <1>10. n \in Nat /\ a \in Nat /\ k \in Nat /\ p \in Nat /\ l \in Nat /\ d \in Nat /\ b \in Nat /\ n + a = k + p + l + d + b
    BY BookFacts
  <1>11. e \in Nat /\ q \in Nat /\ z \in Nat /\ m \in Nat /\ n = m + z /\ d + b = z + e + q
    BY <1>5, <1>8 DEF B
  <1>12. m + a = k + p + l + e + q
    <2> HIDE DEF n, a, k, p, l, d, b, e, q, z, m
    <2> QED BY ONLY <1>10, <1>11
  <1>13. Credit(os, w, o) = m + a
    BY ONLY <1>6 DEF Credit
  <1>16. Cardinality(Keepers(cells, w, o)) = k /\ os[o].leaked = l
    BY <1>2, <1>3
  <1>14. Debit(os, cells, w, acts, o) = k + p + l + e + q
    BY ONLY <1>7, <1>9, <1>16 DEF Debit
  <1>15. ~ os[o].live => os[o].count = 0 /\ Count(w, Add(o)) = 0
    BY <1>6
  <1> HIDE DEF n, a, k, p, l, d, b, e, q, z, m
  <1> QED BY ONLY <1>12, <1>13, <1>14, <1>15 DEF Entered

LEMMA ReleaseBooks ==
  ASSUME Inv1, Books, Orderly(work), ~ Doomed, work # << >>, W.op \in {"drop", "dropold"}, NEW x \in AnyValue, ValueIn(x, Len(objs)),
         Release(x, Tail(work)), UNCHANGED <<cells, acts>>, NEW t, t = Tail(work), Frees(work, t, cells, x)
  PROVE  Books' /\ Orderly(work')
  <1>1. t \in Seq(AnyUpdate) /\ Release(x, t) /\ W.op \in Freeing
    BY WorkFacts DEF Freeing
  <1>2. \A o \in DOMAIN objs : o \in Nat /\ o # Nil /\ objs[o].count \in Nat
    BY BookFacts
  <1> DEFINE z == << >>
  <1>3. z \in Seq(AnyUpdate) /\ Releasing(z) /\ (\A v : Count(z, Drop(v)) = 0) /\ Joins(t, z, t) /\ Joins(t, z, Tail(work))
    BY <1>1, EmptyList DEF Joins
  <1>4. x # Nil => x \in DOMAIN objs
    BY StateFacts DEF ValueIn
  <1>5. ASSUME x # Nil PROVE objs[x].live /\ (objs[x].count # 0 \/ Count(work, Add(x)) # 0)
    <2>1. x \in DOMAIN objs /\ x \in Nat
      BY <1>2, <1>4, <1>5
    <2>2. Count(work, Drop(x)) + B(DropsOld(cells, work, x)) = 1 + Count(t, Drop(x)) + B(DropsOld(cells, t, x))
      BY <2>1 DEF Frees, B
    <2>3. Count(t, Drop(x)) \in Nat /\ B(DropsOld(cells, t, x)) \in Nat
      BY <1>1, CountType DEF B
    <2> DEFINE n == objs[x].count
               a == Count(work, Add(x))
               k == Cardinality(Keepers(cells, work, x))
               p == Copies(acts, x)
               l == objs[x].leaked
               d == Count(work, Drop(x))
               b == B(DropsOld(cells, work, x))
               e == Count(t, Drop(x))
               q == B(DropsOld(cells, t, x))
    <2>4. n \in Nat /\ a \in Nat /\ k \in Nat /\ p \in Nat /\ l \in Nat /\ d \in Nat /\ b \in Nat /\ n + a = k + p + l + d + b
      BY <2>1, BookFacts
    <2>5. e \in Nat /\ q \in Nat /\ d + b = 1 + e + q
      BY <2>2, <2>3
    <2>6. n # 0 \/ a # 0
      <3> HIDE DEF n, a, k, p, l, d, b, e, q
      <3> QED BY ONLY <2>4, <2>5
    <2>7. ~ objs[x].live => n = 0 /\ a = 0
      BY <2>1, BookFacts
    <2> HIDE DEF z
    <2> QED BY <2>6, <2>7
  <1>6. Orderly(t)
    BY <1>1, TailOrderly
  <1> HIDE DEF z
  <1>7. CASE (x = Nil \/ ~ objs[x].live) /\ objs' = objs /\ work' = t
    <2>1. x = Nil
      BY <1>5, <1>7
    <2>2. ASSUME NEW o \in DOMAIN objs PROVE Entered(objs, cells, t, acts, o)
      <3>1. o # x /\ objs[o].count \in Nat /\ B(o = x) = 0
        BY <1>2, <2>1 DEF B
      <3>2. objs[o].count = objs[o].count + B(o = x) /\ objs[o].leaked = objs[o].leaked
        BY <3>1
      <3>3. ~ objs[o].live => objs[o].count = 0 /\ Count(work, Add(o)) = 0
        BY BookFacts
      <3> QED BY <1>3, <3>1, <3>2, <3>3, OtherBook
    <2> QED BY <1>6, <1>7, <2>2 DEF Books
  <1>8. CASE /\ x \in DOMAIN objs /\ objs[x].live /\ objs[x].count > 1 /\ objs[x].count - 1 \in Nat
             /\ objs' = Recounted(x, objs[x].count - 1, TRUE) /\ work' = t
    <2> DEFINE n == objs[x].count - 1
               live == TRUE
               os == Recounted(x, n, live)
    <2>1. n \in Nat /\ live \in BOOLEAN /\ live /\ objs' = os /\ n + 1 = objs[x].count /\ x \in DOMAIN objs
      BY <1>2, <1>8
    <2> HIDE DEF n, live
    <2>2. /\ DOMAIN os = DOMAIN objs
          /\ \A o \in DOMAIN objs : /\ os[o].leaked = objs[o].leaked /\ os[o].count = IF o = x THEN n ELSE objs[o].count
                                    /\ os[o].live = IF o = x THEN live ELSE objs[o].live
      <3>1. Inv1 /\ x \in DOMAIN objs /\ n \in Nat /\ live \in BOOLEAN
        BY <2>1
      <3> QED BY ONLY <3>1, RecountedFacts
    <2> HIDE DEF os
    <2>3. ASSUME NEW o \in DOMAIN objs PROVE Entered(os, cells, t, acts, o)
      <3>1. os[o].leaked = objs[o].leaked /\ os[o].count \in Nat /\ objs[o].count = os[o].count + B(o = x)
        <4>1. CASE o = x
          <5>1. os[o].leaked = objs[o].leaked /\ os[o].count = n /\ objs[o].count = n + 1 /\ n \in Nat /\ B(o = x) = 1
            BY <2>1, <2>2, <4>1 DEF B
          <5> QED BY <5>1
        <4>2. CASE o # x
          <5>1. os[o].leaked = objs[o].leaked /\ os[o].count = objs[o].count /\ objs[o].count \in Nat /\ B(o = x) = 0
            BY <1>2, <2>2, <4>2 DEF B
          <5> QED BY <5>1
        <4> QED BY <4>1, <4>2
      <3>2. ~ os[o].live => os[o].count = 0 /\ Count(work, Add(o)) = 0
        BY <2>1, <2>2, BookFacts
      <3> QED BY <1>3, <3>1, <3>2, OtherBook
    <2> QED BY <1>6, <1>8, <2>1, <2>2, <2>3 DEF Books
  <1>9. CASE /\ x \in DOMAIN objs /\ objs[x].live /\ objs[x].count =< 1
             /\ objs' = Recounted(x, 0, FALSE) /\ work' = Unrefs(NamesOf(objs[x].closure)) \o t
    <2> DEFINE n == 0
               live == FALSE
               os == Recounted(x, n, live)
               g == objs[x].closure
               s == Unrefs(NamesOf(g))
               w == work'
    <2>1. n \in Nat /\ live \in BOOLEAN /\ ~ live /\ objs' = os /\ n = 0 /\ x \in DOMAIN objs /\ w = work'
      BY <1>9
    <2>2. g \in [Name -> Nat]
      BY <1>9, StateFacts
    <2> HIDE DEF n, live, g
    <2>3. IsFiniteSet(NamesOf(g)) /\ NamesOf(g) \subseteq Nat
      BY <2>2, NamesOfFacts
    <2>4. s \in Seq(AnyUpdate) /\ Releasing(s) /\ \A v : Count(s, Drop(v)) = 0
      BY <2>3, UnrefsFacts, UnrefsRelease
    <2>5. Joins(w, s, t) /\ Joins(w, s, Tail(work))
      BY <1>9 DEF Joins, g
    <2> HIDE DEF s, w
    <2>6. /\ DOMAIN os = DOMAIN objs
          /\ \A o \in DOMAIN objs : /\ os[o].leaked = objs[o].leaked /\ os[o].count = IF o = x THEN n ELSE objs[o].count
                                    /\ os[o].live = IF o = x THEN live ELSE objs[o].live
      <3>1. Inv1 /\ x \in DOMAIN objs /\ n \in Nat /\ live \in BOOLEAN
        BY <2>1
      <3> QED BY ONLY <3>1, RecountedFacts, SMTT(30)
    <2> HIDE DEF os
    <2>7. Count(work, Add(x)) = 0
      <3>1. Count(work, Drop(x)) + B(DropsOld(cells, work, x)) = 1 + Count(t, Drop(x)) + B(DropsOld(cells, t, x))
        BY <1>2, <2>1 DEF Frees, B
      <3> QED BY <1>9, <3>1, NothingToAdd
    <2>8. objs[x].count = 1
      <3>1. x # Nil /\ objs[x].count \in Nat /\ objs[x].count =< 1
        BY <1>2, <1>9, <2>1
      <3>2. objs[x].count # 0
        BY <1>5, <2>7, <3>1
      <3> QED BY ONLY <3>1, <3>2
    <2>9. ASSUME NEW o \in DOMAIN objs PROVE Entered(os, cells, w, acts, o)
      <3>1. os[o].leaked = objs[o].leaked /\ os[o].count \in Nat /\ objs[o].count = os[o].count + B(o = x)
        <4>1. CASE o = x
          <5>1. os[o].leaked = objs[o].leaked /\ os[o].count = 0 /\ objs[o].count = 1 /\ B(o = x) = 1
            BY <2>1, <2>6, <2>8, <4>1 DEF B
          <5> QED BY <5>1
        <4>2. CASE o # x
          <5>1. os[o].leaked = objs[o].leaked /\ os[o].count = objs[o].count /\ objs[o].count \in Nat /\ B(o = x) = 0
            BY <1>2, <2>6, <4>2 DEF B
          <5> QED BY <5>1
        <4> QED BY <4>1, <4>2
      <3>2. ~ os[o].live => os[o].count = 0 /\ Count(work, Add(o)) = 0
        BY <2>1, <2>6, <2>7, BookFacts
      <3> QED BY <2>4, <2>5, <3>1, <3>2, OtherBook
    <2>10. Orderly(w)
      BY <1>1, <2>4, <2>5, NextOrderly
    <2> QED BY <2>1, <2>6, <2>9, <2>10 DEF Books
  <1> QED BY <1>1, <1>7, <1>8, <1>9, ReleaseForm

LEMMA RemoveReferenceBooks ==
  ASSUME Inv1, Books, Orderly(work), ~ Doomed, RemoveReference
  PROVE  Books' /\ Orderly(work')
  <1> DEFINE x == W.x
             t == Tail(work)
  <1>1. /\ work # << >> /\ W.op = "drop" /\ W.v = Nil /\ x \in AnyValue /\ ValueIn(x, Len(objs)) /\ Release(x, Tail(work))
        /\ UNCHANGED <<cells, acts>> /\ t = Tail(work) /\ x = W.x
    BY RemoveReferenceForm
  <1>2. W = Drop(x)
    BY <1>1, WorkFacts, UpdateForms
  <1> HIDE DEF x, t
  <1>3. ASSUME NEW o \in Nat
        PROVE  Count(work, Drop(o)) + B(DropsOld(cells, work, o)) = B(o = x) + Count(t, Drop(o)) + B(DropsOld(cells, t, o))
    <2>1. Count(work, Drop(o)) = B(W = Drop(o)) + Count(t, Drop(o)) /\ (DropsOld(cells, t, o) <=> DropsOld(cells, work, o))
      BY <1>1, HeadKeeps, ZenonT(60)
    <2>2. B(W = Drop(o)) = B(o = x)
      BY <1>2, UpdatesDiffer DEF B
    <2>3. B(DropsOld(cells, t, o)) = B(DropsOld(cells, work, o))
      BY <2>1 DEF B
    <2> QED BY <2>1, <2>2, <2>3
  <1>4. Frees(work, t, cells, x) /\ W.op \in {"drop", "dropold"}
    BY <1>1, <1>3 DEF Frees
  <1> QED BY <1>1, <1>4, ReleaseBooks

LEMMA ReleaseOldBooks ==
  ASSUME Inv1, Books, Orderly(work), ~ Doomed, ReleaseOld
  PROVE  Books' /\ Orderly(work')
  <1> DEFINE c == W.x
             x == cells[c].value
             t == Tail(work)
  <1>1. /\ work # << >> /\ W.op = "dropold" /\ x \in AnyValue /\ ValueIn(x, Len(objs)) /\ Release(x, Tail(work))
        /\ UNCHANGED <<cells, acts>> /\ t = Tail(work) /\ x = cells[W.x].value
    BY ReleaseOldForm
  <1> HIDE DEF x, t, c
  <1>2. W = work[1] /\ 1 \in DOMAIN work
    BY <1>1, WorkFacts
  <1>3. \A i \in DOMAIN t : t[i].op # "dropold"
    BY <1>1, TailOrderly
  <1>4. ASSUME NEW o \in Nat
        PROVE  Count(work, Drop(o)) + B(DropsOld(cells, work, o)) = B(o = x) + Count(t, Drop(o)) + B(DropsOld(cells, t, o))
    <2>1. Count(work, Drop(o)) = B(W = Drop(o)) + Count(t, Drop(o))
      BY <1>1, HeadKeeps, ZenonT(60)
    <2>2. W # Drop(o)
      BY <1>1 DEF Drop
    <2>3. DropsOld(cells, work, o) <=> o = x
      BY <1>1, <1>2 DEF DropsOld, Orderly, OldFirst
    <2>4. ~ DropsOld(cells, t, o)
      BY <1>3 DEF DropsOld
    <2>5. Count(t, Drop(o)) \in Nat
      BY <1>1, WorkFacts, CountType
    <2>6. B(DropsOld(cells, work, o)) = B(o = x) /\ B(DropsOld(cells, t, o)) = 0 /\ B(W = Drop(o)) = 0 /\ B(o = x) \in Nat
      BY <2>2, <2>3, <2>4 DEF B
    <2> QED BY <2>1, <2>5, <2>6
  <1>5. Frees(work, t, cells, x) /\ W.op \in {"drop", "dropold"}
    BY <1>1, <1>4 DEF Frees
  <1> QED BY <1>1, <1>5, ReleaseBooks

(* What a step leaves of a book: the same credit and the same debit.       *)
Balanced(os, cs, w, o) ==
  /\ os[o].leaked = objs[o].leaked /\ os[o].count \in Nat
  /\ os[o].count + Count(w, Add(o)) = objs[o].count + Count(work, Add(o))
  /\ Cardinality(Keepers(cs, w, o)) + Count(w, Drop(o)) = Cardinality(Keepers(cells, work, o)) + Count(work, Drop(o))
  /\ DropsOld(cs, w, o) <=> DropsOld(cells, work, o)
  /\ ~ os[o].live => os[o].count = 0 /\ Count(w, Add(o)) = 0

LEMMA BookMoves ==
  ASSUME Inv1, Books, NEW o \in DOMAIN objs, NEW os, NEW cs \in Seq(AnyCell), NEW w \in Seq(AnyUpdate), Balanced(os, cs, w, o)
  PROVE  Entered(os, cs, w, acts, o)
  <1> DEFINE n == objs[o].count
             a == Count(work, Add(o))
             k == Cardinality(Keepers(cells, work, o))
             p == Copies(acts, o)
             l == objs[o].leaked
             d == Count(work, Drop(o))
             b == B(DropsOld(cells, work, o))
             m == os[o].count
             c == Count(w, Add(o))
             j == Cardinality(Keepers(cs, w, o))
             e == Count(w, Drop(o))
  <1>1. n \in Nat /\ a \in Nat /\ k \in Nat /\ p \in Nat /\ l \in Nat /\ d \in Nat /\ b \in Nat /\ n + a = k + p + l + d + b
    BY BookFacts
  <1>2. c \in Nat /\ j \in Nat /\ e \in Nat
    BY CountType, KeepersType
  <1>3. m \in Nat /\ m + c = n + a /\ j + e = k + d
    BY DEF Balanced
  <1>4. m + c = j + p + l + e + b
    <2> HIDE DEF n, a, k, p, l, d, b, m, c, j, e
    <2> QED BY ONLY <1>1, <1>2, <1>3
  <1>5. B(DropsOld(cs, w, o)) = b /\ os[o].leaked = l
    BY DEF B, Balanced
  <1>6. Credit(os, w, o) = m + c
    BY ONLY DEF Credit
  <1>7. Debit(os, cs, w, acts, o) = j + p + l + e + b
    BY ONLY <1>5 DEF Debit
  <1> HIDE DEF n, a, k, p, l, d, b, m, c, j, e
  <1> QED BY <1>4, <1>6, <1>7 DEF Entered, Balanced

LEMMA AddReferenceBooks ==
  ASSUME Inv1, Books, Orderly(work), AddReference
  PROVE  Books' /\ Orderly(work')
  <1> DEFINE x == W.x
             t == Tail(work)
             os == objs'
  <1>1. /\ work # << >> /\ W.op = "add" /\ W.v = Nil /\ x \in AnyValue /\ work' = t /\ t = Tail(work) /\ UNCHANGED <<cells, acts>>
    BY AddReferenceForm
  <1>2. W = Add(x) /\ t \in Seq(AnyUpdate) /\ cells \in Seq(AnyCell)
    BY <1>1, WorkFacts, UpdateForms, KeptTypes
  <1>3. /\ DOMAIN os = DOMAIN objs
        /\ \A o \in DOMAIN objs : /\ os[o].leaked = objs[o].leaked /\ os[o].count = objs[o].count + B(o = x)
                                  /\ os[o].live = objs[o].live
    <2>1. CASE x = Nil /\ objs' = objs
      <3>1. \A o \in DOMAIN objs : o # x /\ objs[o].count \in Nat
        BY <2>1, BookFacts
      <3>2. \A o \in DOMAIN objs : objs[o].count = objs[o].count + B(o = x)
        BY <3>1 DEF B
      <3> QED BY <2>1, <3>2
    <2>2. CASE /\ x \in DOMAIN objs /\ objs[x].count + 1 \in Nat
               /\ objs' = Recounted(x, objs[x].count + 1, objs[x].live) /\ objs[x].live \in BOOLEAN
      <3> DEFINE n == objs[x].count + 1
                 live == objs[x].live
      <3>1. Inv1 /\ x \in DOMAIN objs /\ n \in Nat /\ live \in BOOLEAN /\ os = Recounted(x, n, live)
        BY <2>2
      <3>2. n = objs[x].count + 1 /\ live = objs[x].live
        OBVIOUS
      <3>3. \A o \in DOMAIN objs : objs[o].count \in Nat
        BY BookFacts
      <3> HIDE DEF n, live, x, os
      <3>4. /\ DOMAIN os = DOMAIN objs
            /\ \A o \in DOMAIN objs : /\ os[o].leaked = objs[o].leaked /\ os[o].count = IF o = x THEN n ELSE objs[o].count
                                      /\ os[o].live = IF o = x THEN live ELSE objs[o].live
        BY ONLY <3>1, RecountedFacts
      <3>5. ASSUME NEW o \in DOMAIN objs PROVE os[o].count = objs[o].count + B(o = x) /\ os[o].live = objs[o].live
        <4>1. CASE o = x
          BY <3>2, <3>4, <4>1 DEF B
        <4>2. CASE o # x
          BY <3>3, <3>4, <4>2 DEF B
        <4> QED BY <4>1, <4>2
      <3> QED BY <3>4, <3>5
    <2> QED BY <2>1, <2>2, AddReferenceForm
  <1>4. Orderly(t)
    BY <1>1, TailOrderly
  <1>o. os = objs'
    OBVIOUS
  <1> HIDE DEF x, t, os
  <1>5. ASSUME NEW o \in DOMAIN objs PROVE Entered(os, cells, t, acts, o)
    <2>1. /\ Keepers(cells, t, o) = Keepers(cells, work, o) /\ (DropsOld(cells, t, o) <=> DropsOld(cells, work, o))
          /\ Count(work, Add(o)) = B(W = Add(o)) + Count(t, Add(o)) /\ Count(work, Drop(o)) = B(W = Drop(o)) + Count(t, Drop(o))
      <3>1. Inv1 /\ work # << >> /\ t = Tail(work) /\ W.op # "write" /\ W.op # "dropold"
        BY <1>1
      <3>2. Keepers(cells, t, o) = Keepers(cells, work, o)
        BY ONLY <3>1, HeadKeeps, ZenonT(60)
      <3>3. DropsOld(cells, t, o) <=> DropsOld(cells, work, o)
        BY ONLY <3>1, HeadKeeps
      <3>4. Count(work, Add(o)) = B(W = Add(o)) + Count(t, Add(o))
        BY ONLY <3>1, HeadKeeps, ZenonT(60)
      <3>5. Count(work, Drop(o)) = B(W = Drop(o)) + Count(t, Drop(o))
        BY ONLY <3>1, HeadKeeps, ZenonT(60)
      <3> QED BY ONLY <3>2, <3>3, <3>4, <3>5
    <2>2. B(W = Add(o)) = B(o = x) /\ B(W = Drop(o)) = 0
      BY <1>2, UpdatesDiffer DEF B
    <2>3. /\ objs[o].count \in Nat /\ Count(t, Add(o)) \in Nat /\ Count(t, Drop(o)) \in Nat /\ B(o = x) \in Nat
          /\ Cardinality(Keepers(cells, work, o)) \in Nat
      BY <1>2, BookFacts, CountType DEF B
    <2>4. Count(work, Drop(o)) = Count(t, Drop(o))
      BY ONLY <2>1, <2>2, <2>3
    <2>5. os[o].count = objs[o].count + B(o = x) /\ os[o].leaked = objs[o].leaked /\ os[o].live = objs[o].live
      BY <1>3
    <2>6. os[o].count \in Nat /\ os[o].count + Count(t, Add(o)) = objs[o].count + Count(work, Add(o))
      BY ONLY <2>1, <2>2, <2>3, <2>5
    <2>7. Cardinality(Keepers(cells, t, o)) + Count(t, Drop(o)) = Cardinality(Keepers(cells, work, o)) + Count(work, Drop(o))
      BY ONLY <2>1, <2>4
    <2>8. ASSUME ~ os[o].live PROVE os[o].count = 0 /\ Count(t, Add(o)) = 0
      <3>1. objs[o].count = 0 /\ Count(work, Add(o)) = 0
        BY <2>5, <2>8, BookFacts
      <3>2. B(o = x) = 0 /\ Count(t, Add(o)) = 0
        BY ONLY <2>1, <2>2, <2>3, <3>1
      <3> QED BY ONLY <2>5, <3>1, <3>2
    <2>9. Inv1 /\ Books /\ o \in DOMAIN objs /\ cells \in Seq(AnyCell) /\ t \in Seq(AnyUpdate) /\ os[o].leaked = objs[o].leaked
      BY <1>2, <2>5
    <2>10. DropsOld(cells, t, o) <=> DropsOld(cells, work, o)
      BY <2>1
    <2>11. Balanced(os, cells, t, o)
      BY ONLY <2>6, <2>7, <2>8, <2>9, <2>10 DEF Balanced
    <2> QED BY <1>2, <2>11, BookMoves
  <1> QED BY <1>1, <1>3, <1>4, <1>5, <1>o DEF Books

LEMMA WriteCellBooks ==
  ASSUME Inv1, Books, Orderly(work), WriteCell, status' # "dangling"
  PROVE  Books' /\ Orderly(work')
  <1> DEFINE c == W.x
             v == W.v
             r == cells[c].refs
             t == Tail(work)
             cs == Recelled(c, v, r)
  <1>1. /\ work # << >> /\ W.op = "write" /\ c \in DOMAIN cells /\ r \in Nat /\ v \in AnyValue /\ ValueIn(v, Len(objs))
        /\ cells' = cs /\ work' = t /\ t = Tail(work) /\ UNCHANGED <<objs, acts>> /\ r = cells[c].refs /\ r # 0
    BY WriteCellForm
  <1>2. W = Write(c, v) /\ t \in Seq(AnyUpdate) /\ W = work[1] /\ 1 \in DOMAIN work
    BY <1>1, WorkFacts, UpdateForms
  <1> HIDE DEF c, v, r, t
  <1>3. cs \in Seq(AnyCell) /\ DOMAIN cs = DOMAIN cells /\ \A x \in DOMAIN cells : /\ cs[x].value = IF x = c THEN v ELSE cells[x].value
                                                                               /\ cs[x].refs = IF x = c THEN r ELSE cells[x].refs
    <2>1. Inv1 /\ c \in DOMAIN cells /\ v \in AnyValue /\ ValueIn(v, Len(objs)) /\ r \in Nat
      BY <1>1
    <2> QED BY ONLY <2>1, RecelledFacts
  <1> HIDE DEF cs
  <1>4. Orderly(t) /\ \A i \in DOMAIN t : t[i].op # "dropold"
    BY <1>1, TailOrderly
  <1>5. \A i \in DOMAIN work : work[i].op = "write" => i = 1
    BY <1>1, <1>2 DEF Orderly, OneWrite
  <1>6. NoWrites(t)
    <2>1. ASSUME NEW i \in DOMAIN t PROVE t[i].op # "write"
      <3>1. i + 1 \in DOMAIN work /\ t[i] = work[i + 1] /\ i + 1 # 1
        BY <1>1, TailPlaces
      <3> QED BY <1>5, <3>1
    <2> QED BY <2>1 DEF NoWrites
  <1>7. ASSUME NEW o, NEW x PROVE Keeps(cs, t, o, x) <=> Keeps(cells, work, o, x)
    <2>1. Keeps(cs, t, o, x) <=> x \in DOMAIN cells /\ cs[x].refs > 0 /\ cs[x].value = o
      BY <1>3, <1>6, KeepsPlain
    <2>2. WritesTo(work, x) <=> x = c
      BY <1>2, <1>5 DEF WritesTo, Write
    <2>3. (\E i \in DOMAIN work : work[i] = Write(x, o)) <=> (x = c /\ o = v)
      BY <1>2, <1>5 DEF Write
    <2>4. CASE x = c
      BY <1>1, <1>3, <2>1, <2>2, <2>3, <2>4 DEF Keeps
    <2>5. CASE x # c
      BY <1>3, <2>1, <2>2, <2>5 DEF Keeps
    <2> QED BY <2>4, <2>5
  <1>8. ASSUME NEW o \in DOMAIN objs PROVE Entered(objs, cs, t, acts, o)
    <2>1. Keepers(cs, t, o) = Keepers(cells, work, o)
      BY <1>7, KeepersSame
    <2>2. Count(work, Add(o)) = B(W = Add(o)) + Count(t, Add(o)) /\ Count(work, Drop(o)) = B(W = Drop(o)) + Count(t, Drop(o))
      <3>1. Inv1 /\ work # << >> /\ t = Tail(work)
        BY <1>1
      <3>4. Count(work, Add(o)) = B(W = Add(o)) + Count(t, Add(o))
        BY ONLY <3>1, HeadKeeps, ZenonT(60)
      <3>5. Count(work, Drop(o)) = B(W = Drop(o)) + Count(t, Drop(o))
        BY ONLY <3>1, HeadKeeps, ZenonT(60)
      <3> QED BY ONLY <3>4, <3>5
    <2>3. B(W = Add(o)) = 0 /\ B(W = Drop(o)) = 0
      BY <1>1 DEF Add, Drop, B
    <2>4. objs[o].count \in Nat /\ Count(t, Add(o)) \in Nat /\ Count(t, Drop(o)) \in Nat
      BY <1>2, BookFacts, CountType
    <2>5. Count(work, Drop(o)) = Count(t, Drop(o)) /\ Count(work, Add(o)) = Count(t, Add(o))
      BY ONLY <2>2, <2>3, <2>4
    <2>6. ~ DropsOld(cs, t, o)
      BY <1>4 DEF DropsOld
    <2>7. ~ DropsOld(cells, work, o)
      BY <1>1, <1>2 DEF DropsOld, Orderly, OldFirst
    <2>8. objs[o].count + Count(t, Add(o)) = objs[o].count + Count(work, Add(o)) /\ objs[o].leaked = objs[o].leaked
      BY <2>5
    <2>9. Cardinality(Keepers(cs, t, o)) + Count(t, Drop(o)) = Cardinality(Keepers(cells, work, o)) + Count(work, Drop(o))
      BY <2>1, <2>5
    <2>10. ~ objs[o].live => objs[o].count = 0 /\ Count(t, Add(o)) = 0
      BY <2>5, BookFacts
    <2>11. Inv1 /\ Books /\ o \in DOMAIN objs /\ cs \in Seq(AnyCell) /\ t \in Seq(AnyUpdate)
      BY <1>2, <1>3
    <2>12. Balanced(objs, cs, t, o)
      BY ONLY <2>4, <2>6, <2>7, <2>8, <2>9, <2>10 DEF Balanced
    <2> QED BY <2>11, <2>12, BookMoves
  <1> QED BY <1>1, <1>4, <1>8 DEF Books

LEMMA RemoveCellReferenceBooks ==
  ASSUME Inv1, Books, Orderly(work), RemoveCellReference, status' # "dangling"
  PROVE  \/ Books' /\ Orderly(work')
         \/ cells[W.x].refs = 1 /\ WritesTo(work, W.x)
  <1> DEFINE c == W.x
             v == cells[c].value
             r == cells[c].refs
             s == r - 1
             t == Tail(work)
             w == work'
             cs == Recelled(c, v, s)
  <1>1. /\ work # << >> /\ W.op = "unref" /\ c \in DOMAIN cells /\ r \in Nat /\ v \in AnyValue /\ ValueIn(v, Len(objs))
        /\ t = Tail(work) /\ UNCHANGED <<objs, acts>> /\ r = cells[c].refs /\ r # 0 /\ v = cells[c].value
        /\ (r = 1 => cells' = Recelled(c, v, 0) /\ work' = <<Drop(v)>> \o t)
        /\ (r > 1 => cells' = Recelled(c, v, s) /\ work' = t)
    BY RemoveCellReferenceForm
  <1>2. s \in Nat /\ r = s + 1 /\ (r = 1 <=> s = 0) /\ (r > 1 <=> s > 0) /\ (r = 1 \/ r > 1)
    BY <1>1
  <1>3. cells' = cs /\ w = work'
    <2>1. r = 1 => s = 0
      BY <1>2
    <2> QED BY <1>1, <1>2, <2>1
  <1>4. t \in Seq(AnyUpdate) /\ W = work[1] /\ 1 \in DOMAIN work
    BY <1>1, WorkFacts
  <1>5. r = 1 => Joins(w, <<Drop(v)>>, t) /\ Joins(w, <<Drop(v)>>, Tail(work))
    BY <1>1 DEF Joins
  <1>6. r > 1 => w = t
    BY <1>1
  <1>7. SUFFICES ASSUME ~ (r = 1 /\ WritesTo(work, c)) PROVE Books' /\ Orderly(work')
    OBVIOUS
  <1>8. UNCHANGED <<objs, acts>> /\ work # << >> /\ W.op = "unref" /\ c \in DOMAIN cells /\ v \in AnyValue /\ ValueIn(v, Len(objs)) /\ t = Tail(work)
        /\ r = cells[c].refs /\ v = cells[c].value /\ r \in Nat
    BY <1>1
  <1> HIDE DEF c, v, r, s, t, w
  <1>9. cs \in Seq(AnyCell) /\ DOMAIN cs = DOMAIN cells /\ \A x \in DOMAIN cells : /\ cs[x].value = IF x = c THEN v ELSE cells[x].value
                                                                               /\ cs[x].refs = IF x = c THEN s ELSE cells[x].refs
    <2>1. Inv1 /\ c \in DOMAIN cells /\ v \in AnyValue /\ ValueIn(v, Len(objs)) /\ s \in Nat
      BY <1>2, <1>8
    <2> QED BY ONLY <2>1, RecelledFacts
  <1>10. \A x \in DOMAIN cells : cs[x].value = cells[x].value
    BY <1>8, <1>9
  <1>11. \A i \in DOMAIN work : work[i].op # "dropold"
    BY <1>4, <1>8 DEF Orderly, OldFirst
  <1>12. ASSUME NEW o \in DOMAIN objs PROVE ~ DropsOld(cells, work, o) /\ \A x : ~ DropsOld(x, t, o)
    <2>1. Orderly(t) /\ \A i \in DOMAIN t : t[i].op # "dropold"
      BY <1>8, TailOrderly
    <2> QED BY <1>11, <2>1 DEF DropsOld
  <1> HIDE DEF cs
  <1>13. Orderly(w) /\ w \in Seq(AnyUpdate)
    <2>1. CASE r > 1
      BY <1>4, <1>6, <1>8, <2>1, TailOrderly
    <2>2. CASE r = 1
      <3> DEFINE u == <<Drop(v)>>
      <3>1. Drop(v) \in AnyUpdate /\ Drop(v).op = "drop"
        BY <1>8, UpdatesTyped
      <3>2. u \in Seq(AnyUpdate) /\ Releasing(u) /\ Joins(w, u, Tail(work)) /\ Joins(w, u, t)
        BY <1>5, <2>2, <3>1 DEF Releasing
      <3> HIDE DEF u
      <3>3. W.op \in Freeing
        BY <1>8 DEF Freeing
      <3> QED BY <1>4, <1>8, <3>2, <3>3, NextOrderly, ReleasesBefore
    <2> QED BY <1>2, <2>1, <2>2
  <1>14. ASSUME NEW o \in DOMAIN objs PROVE Entered(objs, cs, w, acts, o)
    <2>1. /\ Keepers(cs, t, o) = Keepers(cs, work, o)
          /\ Count(work, Add(o)) = B(W = Add(o)) + Count(t, Add(o)) /\ Count(work, Drop(o)) = B(W = Drop(o)) + Count(t, Drop(o))
      <3>1. Inv1 /\ work # << >> /\ t = Tail(work) /\ W.op # "write"
        BY <1>8
      <3>2. Keepers(cs, t, o) = Keepers(cs, work, o)
        BY ONLY <3>1, HeadKeeps, ZenonT(60)
      <3>4. Count(work, Add(o)) = B(W = Add(o)) + Count(t, Add(o))
        BY ONLY <3>1, HeadKeeps, ZenonT(60)
      <3>5. Count(work, Drop(o)) = B(W = Drop(o)) + Count(t, Drop(o))
        BY ONLY <3>1, HeadKeeps, ZenonT(60)
      <3> QED BY ONLY <3>2, <3>4, <3>5
    <2>2. B(W = Add(o)) = 0 /\ B(W = Drop(o)) = 0
      BY <1>8 DEF Add, Drop, B
    <2>3. /\ objs[o].count \in Nat /\ Count(t, Add(o)) \in Nat /\ Count(t, Drop(o)) \in Nat
          /\ Cardinality(Keepers(cs, work, o)) \in Nat /\ Cardinality(Keepers(cells, work, o)) \in Nat
      BY <1>4, <1>9, BookFacts, CountType, KeepersType
    <2>4. Count(work, Drop(o)) = Count(t, Drop(o)) /\ Count(work, Add(o)) = Count(t, Add(o))
      BY ONLY <2>1, <2>2, <2>3
    <2>5. /\ Cardinality(Keepers(cs, w, o)) + Count(w, Drop(o)) = Cardinality(Keepers(cells, work, o)) + Count(work, Drop(o))
          /\ Count(w, Add(o)) = Count(work, Add(o)) /\ ~ DropsOld(cs, w, o)
      <3>1. CASE r > 1
        <4>1. ASSUME NEW x PROVE Keeps(cs, work, o, x) <=> Keeps(cells, work, o, x)
          <5>1. x \in DOMAIN cells => (cs[x].refs > 0 <=> cells[x].refs > 0)
            BY <1>2, <1>8, <1>9, <3>1
          <5> QED BY <1>9, <1>10, <5>1 DEF Keeps
        <4>2. Keepers(cs, work, o) = Keepers(cells, work, o)
          BY <4>1, KeepersSame
        <4>3. w = t /\ Keepers(cs, t, o) = Keepers(cells, work, o)
          BY <1>6, <2>1, <3>1, <4>2
        <4> QED BY <1>12, <2>4, <4>3
      <3>2. CASE r = 1
        <4> DEFINE u == <<Drop(v)>>
        <4>1. Drop(v) \in AnyUpdate /\ Drop(v).op = "drop"
          BY <1>8, UpdatesTyped
        <4>2. u \in Seq(AnyUpdate) /\ Releasing(u) /\ Joins(w, u, t)
          BY <1>5, <3>2, <4>1 DEF Releasing
        <4>3. Count(u, Drop(o)) = B(Drop(v) = Drop(o))
          BY CountOne
        <4>4. B(Drop(v) = Drop(o)) = B(v = o) /\ B(v = o) \in Nat
          BY UpdatesDiffer DEF B
        <4> HIDE DEF u
        <4>5. /\ Keepers(cs, w, o) = Keepers(cs, t, o) /\ (DropsOld(cs, w, o) <=> DropsOld(cs, t, o))
              /\ Count(w, Add(o)) = Count(t, Add(o)) /\ Count(w, Drop(o)) = Count(u, Drop(o)) + Count(t, Drop(o))
          BY ONLY <1>4, <4>2, ReleasesKeep
        <4>6. KeepersBut(cells, work, cs, work, o, c)
          BY <1>9, <1>10 DEF KeepersBut, Keeps
        <4>7. Cardinality(Keepers(cs, work, o)) + B(Keeps(cells, work, o, c)) = Cardinality(Keepers(cells, work, o)) + B(Keeps(cs, work, o, c))
          BY <1>9, <4>6, KeptTypes, KeepersMove
        <4>8. ~ Keeps(cs, work, o, c)
          BY <1>2, <1>8, <1>9, <3>2 DEF Keeps
        <4>9. Keeps(cells, work, o, c) <=> v = o
          <5>1. ~ WritesTo(work, c)
            BY <1>7, <3>2
          <5>2. cells[c].refs > 0
            BY <1>8, <3>2
          <5> QED BY <1>8, <5>1, <5>2 DEF Keeps
        <4>10. B(Keeps(cells, work, o, c)) = B(v = o) /\ B(Keeps(cs, work, o, c)) = 0
          BY <4>8, <4>9 DEF B
        <4>11. Cardinality(Keepers(cs, work, o)) + B(v = o) = Cardinality(Keepers(cells, work, o))
          BY ONLY <2>3, <4>7, <4>10
        <4>12. Count(w, Drop(o)) = B(v = o) + Count(work, Drop(o)) /\ Count(work, Drop(o)) \in Nat
          BY ONLY <2>3, <2>4, <4>3, <4>4, <4>5
        <4>13. Cardinality(Keepers(cs, w, o)) = Cardinality(Keepers(cs, work, o))
          BY <2>1, <4>5
        <4>14. Cardinality(Keepers(cs, w, o)) + Count(w, Drop(o)) = Cardinality(Keepers(cells, work, o)) + Count(work, Drop(o))
          BY ONLY <2>3, <4>4, <4>11, <4>12, <4>13
        <4> QED BY <1>12, <2>4, <4>5, <4>14
      <3> QED BY <1>2, <3>1, <3>2
    <2>6. objs[o].count + Count(w, Add(o)) = objs[o].count + Count(work, Add(o)) /\ objs[o].leaked = objs[o].leaked
      BY <2>5
    <2>7. ~ objs[o].live => objs[o].count = 0 /\ Count(w, Add(o)) = 0
      BY <2>5, BookFacts
    <2>8. Inv1 /\ Books /\ o \in DOMAIN objs /\ cs \in Seq(AnyCell) /\ w \in Seq(AnyUpdate) /\ (DropsOld(cs, w, o) <=> DropsOld(cells, work, o))
      BY <1>9, <1>12, <1>13, <2>5
    <2>9. Balanced(objs, cs, w, o)
      BY ONLY <2>3, <2>5, <2>6, <2>7, <2>8 DEF Balanced
    <2>10. Inv1 /\ Books /\ o \in DOMAIN objs /\ cs \in Seq(AnyCell) /\ w \in Seq(AnyUpdate)
      BY <2>8
    <2> QED BY ONLY <2>9, <2>10, BookMoves
  <1> QED BY <1>3, <1>8, <1>13, <1>14 DEF Books

-----------------------------------------------------------------------------
(* Where a variable that is to be written is found: it has an entry in the *)
(* frame of the activation that found it or in _global_values, or the      *)
(* function that runs there has captured it, or its entry was overwritten. *)
AnchoredIn(lo, gl, fr, fs, os, f, c, l) ==
  \/ c \in lo \/ InNames(gl, c) \/ (\E b \in Block : InNames(fr[l][b], c))
  \/ l > f /\ InNames(os[fs[l - f]].closure, c)
Fast(lo, gl, fr, fs, os, f, a) ==
  /\ a.op = "for" => a.cell \in lo \/ fr[a.level][a.ctx][a.name] = a.cell
  /\ a.op \in Blocky /\ a.at = "store" /\ a.cell # 0 => AnchoredIn(lo, gl, fr, fs, os, f, a.cell, a.level)
  /\ a.op \in Blocky /\ a.fill # 0 => AnchoredIn(lo, gl, fr, fs, os, f, a.fill, a.level)
Writing == {"write", "dropold"}
Idle(w) == \A i \in DOMAIN w : w[i].op \notin Writing
Anchors ==
  /\ status = "run" => \A k \in DOMAIN acts : Fast(lost, globals, frames, functions, objs, file, acts[k])
  /\ Alive => \A i \in DOMAIN work : work[i].op \in Writing =>
       status = "run" /\ AnchoredIn(lost, globals, frames, functions, objs, file, work[i].x, Len(frames))

(* The body of a function called through a pointer; the top level of a     *)
(* file after a failure inside a call.                                     *)
Stray == status = "run" /\ (CalledByPointer \/ (failed /\ CallIndex = {}))

(* The function on top of _functions is that of the innermost call.        *)
LEMMA CallAtTop ==
  ASSUME Inv1, status = "run", NEW l \in Nat, l =< Len(frames), l > acts[1].level
  PROVE  \E k \in DOMAIN acts : acts[k].op = "call" /\ acts[k].level = l /\ acts[k].held[1] \in {Nil, functions[l - file]} /\ 1 \in DOMAIN acts[k].held
  <1>1. Stack(acts, blocks) /\ Shape(acts) /\ acts \in Seq(AnyAct) /\ Top.level = Len(frames) /\ Top = acts[Len(acts)] /\ Len(frames) \in Nat
    BY RunFacts
  <1>2. acts[1].level \in Nat /\ acts[Len(acts)].level = Len(frames)
    BY <1>1, StackFacts
  <1>3. l \in (acts[1].level + 1) .. acts[Len(acts)].level
    BY <1>1, <1>2
  <1>4. PICK k \in DOMAIN acts : acts[k].op = "call" /\ acts[k].level = l
    BY <1>1, <1>3 DEF Stack, OnFrames
  <1> DEFINE n == k - 1
  <1>5. acts[k].held[1] \in {Nil, functions[acts[k].level - file]} /\ acts[k].held \in Seq(AnyValue) /\ Len(acts[k].held) = 4
    BY <1>4, CallerFacts
  <1>6. DOMAIN acts[k].held = 1 .. 4
    BY <1>5, LenFacts
  <1> QED BY <1>4, <1>5, <1>6

LEMMA CallLives ==
  ASSUME Inv1, Books, NEW k \in DOMAIN acts, 1 \in DOMAIN acts[k].held, NEW o \in DOMAIN objs, acts[k].held[1] = o
  PROVE  objs[o].live
  <1>1. 1 \in SlotsOf(acts[k], o)
    BY DEF SlotsOf
  <1>2. SlotsOf(acts[k], o) # {}
    BY <1>1
  <1> QED BY <1>2, LiveBecause

LEMMA ActPlaced ==
  ASSUME Inv1, status = "run", NEW j \in DOMAIN acts
  PROVE  acts[j] \in AnyAct /\ acts[j].level \in DOMAIN frames /\ acts[j].level \in Nat /\ acts[j].level =< Len(frames) /\ acts[j].ctx \in Block
         /\ (acts[j].op = "for" => acts[j].cell # 0 /\ acts[j].name \in Name) /\ (j < Len(acts) => Nested(acts[j], Top))
  <1>1. /\ Shape(acts) /\ acts \in Seq(AnyAct) /\ Top.level = Len(frames) /\ Top = acts[Len(acts)] /\ Struct /\ Len(acts) \in DOMAIN acts
        /\ Len(frames) \in Nat /\ DOMAIN frames = 1 .. Len(frames)
    BY RunFacts
  <1>2. /\ acts[j] \in AnyAct /\ acts[j].level \in Nat /\ acts[j].ctx \in Block /\ acts[1].level =< acts[j].level /\ acts[1].level \in Nat
        /\ acts[j].level =< acts[Len(acts)].level
    BY <1>1, StackFacts
  <1>3. acts[1].level >= 1
    BY <1>1 DEF Struct, StructOf
  <1>4. acts[j].level \in DOMAIN frames
    BY <1>1, <1>2, <1>3
  <1>5. Kind(acts[j]) /\ (j < Len(acts) => Nested(acts[j], acts[Len(acts)]))
    BY <1>1 DEF Shape
  <1>6. acts[j].name \in Name \cup {Nil}
    BY <1>2, ActFacts
  <1> QED BY <1>1, <1>2, <1>4, <1>5, <1>6 DEF Kind

LEMMA StrayFunction ==
  ASSUME Inv1, Books, status = "run", functions # << >>, ~ objs[functions[Len(functions)]].live
  PROVE  Stray
  <1>1. Stack(acts, blocks) /\ Shape(acts) /\ acts \in Seq(AnyAct) /\ Top.level = Len(frames) /\ Top = acts[Len(acts)] /\ Len(frames) \in Nat
    BY RunFacts
  <1>2. /\ acts[1].level \in Nat /\ file \in Nat /\ Len(functions) \in Nat /\ Len(functions) # 0 /\ Len(frames) = Len(functions) + file
        /\ Len(functions) \in DOMAIN functions
    <2>1. functions \in Seq(Nat) /\ file \in Nat /\ Len(functions) \in Nat /\ DOMAIN functions = 1 .. Len(functions)
      BY KeptTypes, StateFacts
    <2>2. Len(functions) # 0
      BY <2>1
    <2> QED BY <1>1, <2>1, <2>2, StackFacts DEF Inv1, Heights
  <1>3. functions[Len(functions)] \in DOMAIN objs
    BY <1>2, KeptTypes, StateFacts DEF FunctionsIn
  <1> DEFINE l == Len(frames)
  <1>4. CASE l > acts[1].level
    <2>2. l \in Nat /\ l =< Len(frames) /\ l - file = Len(functions)
      BY <1>1, <1>2
    <2>3. PICK k \in DOMAIN acts : /\ acts[k].op = "call" /\ acts[k].level = l
                                   /\ acts[k].held[1] \in {Nil, functions[l - file]} /\ 1 \in DOMAIN acts[k].held
      <3> HIDE DEF l
      <3> QED BY <1>4, <2>2, CallAtTop
    <2>4. acts[k].held[1] = Nil
      BY <1>3, <2>2, <2>3, CallLives
    <2>5. ASSUME NEW m \in CallIndex PROVE m =< k
      <3>1. m \in DOMAIN acts /\ acts[m].op = "call" /\ m \in Nat /\ k \in Nat
        BY <1>1, LenFacts DEF CallIndex
      <3>2. SUFFICES ASSUME m > k PROVE FALSE
        BY <3>1
      <3>3. Nested(acts[k], acts[m])
        BY <1>1, <2>3, <3>1, <3>2 DEF Shape
      <3>4. acts[k].level < acts[m].level /\ acts[m].level =< Len(frames) /\ acts[m].level \in Nat
        BY <3>1, <3>3, ActPlaced DEF Nested
      <3> QED BY <1>1, <2>3, <3>4
    <2> QED BY <2>3, <2>4, <2>5 DEF Stray, CalledByPointer, CallIndex
  <1>5. CASE ~ (l > acts[1].level)
    <2>1. failed
      <3>1. ~ failed => acts[1].level = file
        BY RunFacts DEF Struct, StructOf
      <3>2. acts[1].level # file
        BY ONLY <1>1, <1>2, <1>5
      <3> QED BY <3>1, <3>2
    <2>2. CallIndex = {}
      <3>1. SUFFICES ASSUME NEW k \in CallIndex PROVE FALSE
        OBVIOUS
      <3>2. k \in DOMAIN acts /\ acts[k].op = "call"
        BY <3>1 DEF CallIndex
      <3> DEFINE n == k - 1
      <3>3. n \in DOMAIN acts /\ acts[k].level = acts[n].level + 1
        BY <3>2, CallerFacts
      <3>4. acts[1].level =< acts[n].level /\ acts[k].level =< acts[Len(acts)].level /\ acts[n].level \in Nat
        BY <1>1, <3>2, <3>3, StackFacts
      <3> HIDE DEF n
      <3>5. acts[k].level =< l /\ acts[1].level \in Nat /\ l \in Nat
        BY <1>1, <1>2, <3>4
      <3> HIDE DEF l
      <3> QED BY ONLY <1>5, <3>3, <3>4, <3>5
    <2> QED BY <2>1, <2>2 DEF Stray
  <1> QED BY <1>4, <1>5

(* A cell without holders that is to be written: the function that had     *)
(* captured it has been deleted.                                           *)
LEMMA AnchoredDead ==
  ASSUME Inv1, Books, status = "run", NEW c, AnchoredIn(lost, globals, frames, functions, objs, file, c, Len(frames)),
         ~ Rooted(frames, globals, lost, c), \A o \in DOMAIN objs : ~ (objs[o].live /\ InNames(objs[o].closure, c))
  PROVE  Stray
  <1>1. Len(frames) \in DOMAIN frames /\ Len(frames) \in Nat /\ file \in Nat
    BY RunFacts, StateFacts
  <1>2. ~ \E b \in Block : InNames(frames[Len(frames)][b], c)
    BY <1>1 DEF Rooted, InFrames, InNames
  <1>3. Len(frames) > file /\ InNames(objs[functions[Len(frames) - file]].closure, c)
    BY <1>2 DEF AnchoredIn, Rooted
  <1>4. Len(functions) \in Nat /\ Len(frames) = Len(functions) + file
    BY StateFacts DEF Inv1, Heights
  <1>5. Len(frames) - file = Len(functions) /\ Len(functions) >= 1
    BY <1>1, <1>3, <1>4
  <1>6. functions # << >> /\ Len(functions) \in DOMAIN functions
    BY <1>4, <1>5, StateFacts
  <1>7. functions[Len(functions)] \in DOMAIN objs
    BY <1>6, KeptTypes, StateFacts DEF FunctionsIn
  <1> QED BY <1>3, <1>5, <1>6, <1>7, StrayFunction

(* What keeps a variable where it is found: entries stay, or the cell is   *)
(* among the lost ones; functions and closures stay.                       *)
KeptNames(g, g2, lo2) == \A n \in Name : g2[n] = g[n] \/ g[n] = 0 \/ g[n] \in lo2
Calm(lo2, gl2, os2) ==
  lost \subseteq lo2 /\ KeptNames(globals, gl2, lo2) /\ \A o \in DOMAIN objs : os2[o].closure = objs[o].closure
Steady(lo2, fr2, fs2, l) ==
  (\A b \in Block : KeptNames(frames[l][b], fr2[l][b], lo2)) /\ (l > file => fs2[l - file] = functions[l - file])
SameFast(a, b) ==
  /\ a.op = b.op /\ a.ctx = b.ctx /\ a.level = b.level /\ a.cell = b.cell /\ a.name = b.name
  /\ a.op \in Blocky => a.at = b.at /\ a.fill = b.fill

LEMMA KeptIn ==
  ASSUME NEW g, NEW g2, NEW lo2, KeptNames(g, g2, lo2), NEW c, c # 0, InNames(g, c)
  PROVE  InNames(g2, c) \/ c \in lo2
  BY DEF KeptNames, InNames

LEMMA AnchoredKept ==
  ASSUME Inv1, status = "run", NEW l \in DOMAIN frames, NEW c, c # 0, AnchoredIn(lost, globals, frames, functions, objs, file, c, l),
         NEW lo2, NEW gl2, NEW fr2, NEW fs2, NEW os2, Calm(lo2, gl2, os2), Steady(lo2, fr2, fs2, l)
  PROVE  AnchoredIn(lo2, gl2, fr2, fs2, os2, file, c, l)
  <1>1. CASE c \in lost \/ InNames(globals, c)
    BY <1>1, KeptIn DEF Calm, AnchoredIn
  <1>2. CASE \E b \in Block : InNames(frames[l][b], c)
    <2>1. PICK b \in Block : InNames(frames[l][b], c)
      BY <1>2
    <2>2. KeptNames(frames[l][b], fr2[l][b], lo2)
      BY DEF Steady
    <2>3. InNames(fr2[l][b], c) \/ c \in lo2
      BY <2>1, <2>2, KeptIn
    <2> QED BY <2>3 DEF AnchoredIn
  <1>3. CASE l > file /\ InNames(objs[functions[l - file]].closure, c)
    <2>1. /\ Len(functions) \in Nat /\ Len(frames) = Len(functions) + file /\ file \in Nat /\ DOMAIN functions = 1 .. Len(functions)
          /\ DOMAIN frames = 1 .. Len(frames) /\ Len(frames) \in Nat
      BY StateFacts DEF Inv1, Heights
    <2>2. l - file \in DOMAIN functions
      BY <1>3, <2>1
    <2>3. functions[l - file] \in DOMAIN objs
      BY <2>2, KeptTypes, StateFacts DEF FunctionsIn
    <2>4. fs2[l - file] = functions[l - file] /\ os2[functions[l - file]].closure = objs[functions[l - file]].closure
      BY <1>3, <2>3 DEF Steady, Calm
    <2> QED BY <1>3, <2>4 DEF AnchoredIn
  <1> QED BY <1>1, <1>2, <1>3 DEF AnchoredIn

LEMMA FastKept ==
  ASSUME Inv1, status = "run", Anchors, NEW j \in DOMAIN acts, NEW a, SameFast(acts[j], a),
         NEW lo2, NEW gl2, NEW fr2, NEW fs2, NEW os2, Calm(lo2, gl2, os2), Steady(lo2, fr2, fs2, acts[j].level)
  PROVE  Fast(lo2, gl2, fr2, fs2, os2, file, a)
  <1> DEFINE l == acts[j].level
  <1>1. l \in DOMAIN frames /\ acts[j].ctx \in Block /\ (acts[j].op = "for" => acts[j].cell # 0 /\ acts[j].name \in Name) /\ Steady(lo2, fr2, fs2, l)
    BY ActPlaced
  <1>2. Fast(lost, globals, frames, functions, objs, file, acts[j])
    BY DEF Anchors
  <1>3. a.op = acts[j].op /\ a.ctx = acts[j].ctx /\ a.level = l /\ a.cell = acts[j].cell /\ a.name = acts[j].name
        /\ (a.op \in Blocky => a.at = acts[j].at /\ a.fill = acts[j].fill)
    BY DEF SameFast
  <1> HIDE DEF l
  <1>4. ASSUME a.op = "for" PROVE a.cell \in lo2 \/ fr2[l][a.ctx][a.name] = a.cell
    <2>1. a.cell \in lost \/ frames[l][a.ctx][a.name] = a.cell
      BY <1>2, <1>3, <1>4 DEF Fast, l
    <2>2. KeptNames(frames[l][a.ctx], fr2[l][a.ctx], lo2) /\ lost \subseteq lo2
      BY <1>1, <1>3 DEF Steady, Calm
    <2>3. a.cell # 0 /\ a.name \in Name
      BY <1>1, <1>3, <1>4
    <2> QED BY <2>1, <2>2, <2>3 DEF KeptNames
  <1>5. ASSUME a.op \in Blocky, a.at = "store", a.cell # 0 PROVE AnchoredIn(lo2, gl2, fr2, fs2, os2, file, a.cell, l)
    <2>1. AnchoredIn(lost, globals, frames, functions, objs, file, a.cell, l)
      BY <1>2, <1>3, <1>5 DEF Fast, l
    <2> QED BY <1>1, <1>5, <2>1, AnchoredKept
  <1>6. ASSUME a.op \in Blocky, a.fill # 0 PROVE AnchoredIn(lo2, gl2, fr2, fs2, os2, file, a.fill, l)
    <2>1. AnchoredIn(lost, globals, frames, functions, objs, file, a.fill, l)
      BY <1>2, <1>3, <1>6 DEF Fast, l
    <2> QED BY <1>1, <1>6, <2>1, AnchoredKept
  <1> QED BY <1>3, <1>4, <1>5, <1>6 DEF Fast

(* The activations under the one that ends its block.                      *)
LEMMA FastBelow ==
  ASSUME Inv1, status = "run", Anchors, NEW j \in DOMAIN acts, j < Len(acts), NEW a, SameFast(acts[j], a),
         NEW lo2, NEW gl2, NEW fr2, NEW fs2, NEW os2, Calm(lo2, gl2, os2),
         acts[j].level < Len(frames) => Steady(lo2, fr2, fs2, acts[j].level),
         \A b \in Block : \/ Top.op \in Owner /\ b = Top.ctx
                          \/ KeptNames(frames[Len(frames)][b], fr2[Len(frames)][b], lo2)
  PROVE  Fast(lo2, gl2, fr2, fs2, os2, file, a)
  <1>1. /\ acts[j].level \in Nat /\ acts[j].level =< Len(frames) /\ acts[j].ctx \in Block /\ (acts[j].op = "for" => acts[j].cell # 0 /\ acts[j].name \in Name)
        /\ Nested(acts[j], Top) /\ Len(frames) \in Nat /\ acts[j] \in AnyAct
    BY ActPlaced, StateFacts
  <1>2. CASE acts[j].level < Len(frames)
    BY <1>2, FastKept
  <1>3. CASE acts[j].level = Len(frames)
    <2>1. Top.level = Len(frames) /\ Top \in AnyAct
      BY RunFacts
    <2>2. ~ (acts[j].op \in Blocky /\ (acts[j].at = "store" \/ acts[j].fill # 0))
      BY <1>1, <1>3, <2>1 DEF Nested
    <2>3. a.op = acts[j].op /\ a.ctx = acts[j].ctx /\ a.level = Len(frames) /\ a.cell = acts[j].cell /\ a.name = acts[j].name
          /\ (a.op \in Blocky => a.at = acts[j].at /\ a.fill = acts[j].fill)
      BY <1>3 DEF SameFast
    <2>4. ASSUME a.op = "for" PROVE a.cell \in lo2 \/ fr2[Len(frames)][a.ctx][a.name] = a.cell
      <3>1. Fast(lost, globals, frames, functions, objs, file, acts[j])
        BY DEF Anchors
      <3>2. a.cell \in lost \/ frames[Len(frames)][a.ctx][a.name] = a.cell
        BY <1>3, <2>3, <2>4, <3>1 DEF Fast
      <3>3. Top.op \in Owner => a.ctx # Top.ctx
        <4>1. SUFFICES ASSUME Top.op \in Owner, a.ctx = Top.ctx PROVE FALSE
          OBVIOUS
        <4>2. Depth[acts[j].ctx] < Depth[Top.ctx] /\ acts[j].ctx = Top.ctx
          BY <1>1, <1>3, <2>1, <2>3, <2>4, <4>1 DEF Nested, InBlock
        <4>3. Depth[Top.ctx] \in Nat
          BY <2>1, ActFacts, ScenarioAssumption
        <4> QED BY <4>2, <4>3
      <3>4. KeptNames(frames[Len(frames)][a.ctx], fr2[Len(frames)][a.ctx], lo2) /\ lost \subseteq lo2 /\ a.cell # 0 /\ a.name \in Name
        BY <1>1, <2>3, <2>4, <3>3 DEF Calm
      <3> QED BY <3>2, <3>4 DEF KeptNames
    <2> QED BY <2>2, <2>3, <2>4 DEF Fast
  <1> QED BY <1>1, <1>2, <1>3

-----------------------------------------------------------------------------
(* What a counter update may do: it is the first of the list, and releases *)
(* may take its place; no count of a cell goes up, no closure changes.     *)
Follows(w, w2) ==
  /\ \A i \in DOMAIN w2 : w2[i].op \in Writing => \E j \in DOMAIN w : j # 1 /\ w[j] = w2[i]
  /\ \A j \in DOMAIN w : j # 1 => \E i \in DOMAIN w2 : w2[i] = w[j]
SameClosures(os, os2) == DOMAIN os2 = DOMAIN os /\ \A o \in DOMAIN os : os2[o].closure = os[o].closure
NotMore(cs, cs2) == DOMAIN cs2 = DOMAIN cs /\ \A c \in DOMAIN cs : cs[c].refs = 0 => cs2[c].refs = 0

LEMMA TailFollows ==
  ASSUME Inv1, work # << >>
  PROVE  Follows(work, Tail(work))
  <1>1. ASSUME NEW i \in DOMAIN Tail(work) PROVE \E j \in DOMAIN work : j # 1 /\ work[j] = Tail(work)[i]
    BY TailPlaces
  <1>2. ASSUME NEW j \in DOMAIN work, j # 1 PROVE \E i \in DOMAIN Tail(work) : Tail(work)[i] = work[j]
    BY <1>2, TailPlaces
  <1> QED BY <1>1, <1>2 DEF Follows

LEMMA ReleaseFollows ==
  ASSUME Inv1, work # << >>, NEW s \in Seq(AnyUpdate), Releasing(s), NEW w, Joins(w, s, Tail(work))
  PROVE  Follows(work, w)
  <1> DEFINE t == Tail(work)
  <1>1. t \in Seq(AnyUpdate) /\ Follows(work, t) /\ Joins(w, s, t)
    BY WorkFacts, TailFollows
  <1> HIDE DEF t
  <1>2. /\ \A k \in DOMAIN w : w[k].op \in {"unref", "drop"} \/ \E i \in DOMAIN t : w[k] = t[i]
        /\ \A i \in DOMAIN t : \E k \in DOMAIN w : w[k] = t[i]
    BY <1>1, ReleasesBefore
  <1>3. ASSUME NEW i \in DOMAIN w, w[i].op \in Writing PROVE \E j \in DOMAIN work : j # 1 /\ work[j] = w[i]
    <2>1. PICK k \in DOMAIN t : w[i] = t[k]
      BY <1>2, <1>3 DEF Writing
    <2> QED BY <1>1, <1>3, <2>1 DEF Follows
  <1>4. ASSUME NEW j \in DOMAIN work, j # 1 PROVE \E i \in DOMAIN w : w[i] = work[j]
    <2>1. PICK k \in DOMAIN t : t[k] = work[j]
      BY <1>1, <1>4 DEF Follows
    <2> QED BY <1>2, <2>1
  <1> QED BY <1>3, <1>4 DEF Follows

LEMMA ReleaseMoves ==
  ASSUME Inv1, work # << >>, NEW o \in AnyValue, ValueIn(o, Len(objs)), Release(o, Tail(work))
  PROVE  Follows(work, work') /\ SameClosures(objs, objs')
  <1>1. Follows(work, Tail(work))
    BY TailFollows
  <1>2. CASE objs' = objs /\ work' = Tail(work)
    BY <1>1, <1>2 DEF SameClosures
  <1>3. ASSUME o \in DOMAIN objs, NEW n \in Nat, NEW live \in BOOLEAN, objs' = Recounted(o, n, live) PROVE SameClosures(objs, objs')
    BY <1>3, RecountedFacts DEF SameClosures
  <1>4. CASE o \in DOMAIN objs /\ objs[o].count - 1 \in Nat /\ objs' = Recounted(o, objs[o].count - 1, TRUE) /\ work' = Tail(work)
    BY <1>1, <1>3, <1>4
  <1>5. CASE o \in DOMAIN objs /\ objs' = Recounted(o, 0, FALSE) /\ work' = Unrefs(NamesOf(objs[o].closure)) \o Tail(work)
    <2> DEFINE u == Unrefs(NamesOf(objs[o].closure))
               w == work'
    <2>1. Joins(w, u, Tail(work)) /\ w = work'
      BY <1>5 DEF Joins
    <2>2. u \in Seq(AnyUpdate) /\ Releasing(u)
      BY <1>5, StateFacts, NamesOfFacts, UnrefsFacts, UnrefsRelease, SMTT(60)
    <2> HIDE DEF u, w
    <2>3. Follows(work, w)
      BY <2>1, <2>2, ReleaseFollows
    <2> QED BY <1>3, <1>5, <2>1, <2>3
  <1> QED BY <1>2, <1>4, <1>5, ReleaseForm

Moves ==
  /\ work # << >> /\ Alive /\ UNCHANGED <<scenario, file, failed, acts, blocks, functions, frames, globals, lost>>
  /\ Follows(work, work') /\ SameClosures(objs, objs') /\ NotMore(cells, cells') /\ status' \in {status, "dangling"}
  /\ (status' # "dangling" => status' = status /\ (W.op \in Writing => cells[W.x].refs # 0))

LEMMA UpdateMoves ==
  ASSUME Inv1, Update
  PROVE  Moves
  <1>1. Alive /\ Follows(work, Tail(work)) /\ SameClosures(objs, objs) /\ NotMore(cells, cells) /\ work # << >>
    BY TailFollows DEF Update, AddReference, RemoveReference, ReleaseOld, RemoveCellReference, WriteCell, Updating, Alive, SameClosures, NotMore
  <1>2. CASE AddReference
    <2>1. SameClosures(objs, objs')
      BY <1>2, AddReferenceForm, RecountedFacts DEF SameClosures
    <2> QED BY <1>1, <1>2, <2>1, AddReferenceForm DEF Moves, Writing
  <1>3. CASE RemoveReference
    BY <1>1, <1>3, RemoveReferenceForm, ReleaseMoves DEF Moves, Writing
  <1>4. CASE ReleaseOld
    BY <1>1, <1>4, ReleaseOldForm, ReleaseMoves DEF Moves, Writing
  <1>5. CASE RemoveCellReference
    <2> DEFINE c == W.x
               v == cells[c].value
               r == cells[c].refs
               w == work'
    <2>1. /\ c \in DOMAIN cells /\ r \in Nat /\ v \in AnyValue /\ ValueIn(v, Len(objs)) /\ w = work'
          /\ (r = 0 => cells' = Recelled(c, v, 0) /\ w = Tail(work)) /\ (r > 1 => cells' = Recelled(c, v, r - 1) /\ w = Tail(work))
          /\ (r = 1 => cells' = Recelled(c, v, 0) /\ Joins(w, <<Drop(v)>>, Tail(work)))
      BY <1>5, RemoveCellReferenceForm DEF Joins
    <2>2. Follows(work, w)
      <3>1. CASE r = 1
        <4> DEFINE u == <<Drop(v)>>
        <4>1. Drop(v) \in AnyUpdate /\ Drop(v).op = "drop"
          BY <2>1, UpdatesTyped
        <4>2. u \in Seq(AnyUpdate) /\ Releasing(u) /\ Joins(w, u, Tail(work))
          BY <2>1, <3>1, <4>1 DEF Releasing
        <4> HIDE DEF u, w
        <4> QED BY <1>1, <4>2, ReleaseFollows
      <3>2. CASE r # 1
        <4>1. r = 0 \/ r > 1
          BY <2>1, <3>2
        <4>2. w = Tail(work)
          BY <2>1, <4>1
        <4> HIDE DEF w
        <4> QED BY <1>1, <4>2
      <3> QED BY <3>1, <3>2
    <2>3. NotMore(cells, cells')
      <3> HIDE DEF c, v, w
      <3>1. r = cells[c].refs
        OBVIOUS
      <3> HIDE DEF r
      <3>2. ASSUME NEW k \in Nat, cells' = Recelled(c, v, k), r = 0 => k = 0 PROVE NotMore(cells, cells')
        BY <2>1, <3>1, <3>2, RecelledFacts, SMTT(60) DEF NotMore
      <3>3. r = 0 \/ r = 1 \/ (r > 1 /\ r - 1 \in Nat)
        BY <2>1
      <3>4. CASE r \in {0, 1}
        BY <2>1, <3>2, <3>4
      <3>5. CASE r > 1 /\ r - 1 \in Nat
        BY <2>1, <3>2, <3>5
      <3> QED BY <3>3, <3>4, <3>5
    <2> QED BY <1>1, <1>5, <2>1, <2>2, <2>3, RemoveCellReferenceForm DEF Moves, Writing
  <1>6. CASE WriteCell
    <2>1. NotMore(cells, cells')
      BY <1>6, WriteCellForm, RecelledFacts DEF NotMore
    <2> QED BY <1>1, <1>6, <2>1, WriteCellForm DEF Moves, Writing
  <1> QED BY <1>2, <1>3, <1>4, <1>5, <1>6 DEF Update

LEMMA UpdateAnchors ==
  ASSUME Inv1, Anchors, Moves, Alive'
  PROVE  Anchors'
  <1>1. /\ status' = status /\ UNCHANGED <<file, acts, functions, frames, globals, lost>> /\ Follows(work, work') /\ SameClosures(objs, objs')
        /\ Alive
    BY DEF Moves, Alive
  <1> DEFINE os == objs'
             w == work'
  <1>2. os = objs' /\ w = work' /\ SameClosures(objs, os) /\ Follows(work, w)
    BY <1>1
  <1> HIDE DEF os, w
  <1>3. Calm(lost, globals, os) /\ \A l : Steady(lost, frames, functions, l)
    BY <1>2 DEF Calm, Steady, SameClosures, KeptNames
  <1>4. ASSUME status = "run", NEW k \in DOMAIN acts PROVE Fast(lost, globals, frames, functions, os, file, acts[k])
    <2>1. SameFast(acts[k], acts[k])
      BY DEF SameFast
    <2> QED BY <1>3, <1>4, <2>1, FastKept
  <1>5. ASSUME NEW i \in DOMAIN w, w[i].op \in Writing
        PROVE  status = "run" /\ AnchoredIn(lost, globals, frames, functions, os, file, w[i].x, Len(frames))
    <2>1. PICK j \in DOMAIN work : work[j] = w[i]
      BY <1>2, <1>5 DEF Follows
    <2>2. status = "run" /\ AnchoredIn(lost, globals, frames, functions, objs, file, w[i].x, Len(frames))
      BY <1>1, <1>5, <2>1 DEF Anchors
    <2>3. Len(frames) \in DOMAIN frames
      BY <2>2, RunFacts
    <2>4. w[i].x # 0
      <3>1. UpdateIn(work[j], Len(cells), Len(objs)) /\ Len(cells) \in Nat
        BY KeptTypes DEF UpdatesIn
      <3>2. work[j].x \in 1 .. Len(cells)
        BY <1>5, <2>1, <3>1 DEF UpdateIn, Writing
      <3> QED BY <2>1, <3>1, <3>2
    <2> QED BY <1>3, <2>2, <2>3, <2>4, AnchoredKept
  <1> QED BY <1>1, <1>2, <1>4, <1>5 DEF Anchors, Alive

(* Once a cell that is to be written is gone, the next step but releases   *)
(* is to use it.                                                           *)
LEMMA DoomedStays ==
  ASSUME Inv1, Doomed, Stray, Moves, Alive'
  PROVE  Doomed' /\ Stray'
  <1>1. status' # "dangling" /\ status' = status /\ UNCHANGED <<failed, acts>> /\ Follows(work, work') /\ NotMore(cells, cells')
        /\ (W.op \in Writing => cells[W.x].refs # 0)
    BY DEF Moves, Alive
  <1>2. PICK j \in DOMAIN work : work[j].op \in {"write", "dropold"} /\ cells[work[j].x].refs = 0
    BY DEF Doomed
  <1>3. j # 1
    BY <1>1, <1>2, WorkFacts DEF Writing, Moves
  <1>4. PICK i \in DOMAIN work' : work'[i] = work[j]
    BY <1>1, <1>3 DEF Follows
  <1>5. work[j].x \in DOMAIN cells
    BY <1>2, KeptTypes, StateFacts DEF UpdatesIn, UpdateIn
  <1>6. cells'[work'[i].x].refs = 0
    BY <1>1, <1>2, <1>4, <1>5 DEF NotMore
  <1>7. Doomed'
    BY <1>2, <1>4, <1>6 DEF Doomed
  <1> QED BY <1>1, <1>7 DEF Stray, CalledByPointer, CallIndex

LEMMA AnchoredFreed ==
  ASSUME Inv1, Counted, Books, status = "run", NEW c \in DOMAIN cells, cells[c].refs = 0,
         AnchoredIn(lost, globals, frames, functions, objs, file, c, Len(frames))
  PROVE  Stray
  <1>1. ~ (cells[c].refs > 0)
    OBVIOUS
  <1>2. ~ Rooted(frames, globals, lost, c) /\ \A o \in DOMAIN objs : ~ (objs[o].live /\ InNames(objs[o].closure, c))
    BY <1>1, HeldCell
  <1> QED BY <1>2, AnchoredDead

LEMMA DoomedIsStray ==
  ASSUME Inv1, Counted, Books, Anchors, Alive, Doomed
  PROVE  Stray
  <1>1. PICK i \in DOMAIN work : work[i].op \in {"write", "dropold"} /\ cells[work[i].x].refs = 0
    BY DEF Doomed
  <1>2. work[i].x \in DOMAIN cells
    BY <1>1, KeptTypes, StateFacts DEF UpdatesIn, UpdateIn
  <1>3. status = "run" /\ AnchoredIn(lost, globals, frames, functions, objs, file, work[i].x, Len(frames))
    BY <1>1 DEF Anchors, Writing
  <1> QED BY <1>1, <1>2, <1>3, AnchoredFreed

(* The last release of a cell that is to be written: the function that had *)
(* captured it has just been deleted.                                      *)
LEMMA LastRelease ==
  ASSUME Inv1, Counted, Books, Anchors, RemoveCellReference, cells[W.x].refs = 1, WritesTo(work, W.x)
  PROVE  Doomed' /\ Stray'
  <1> DEFINE c == W.x
             r == B(Rooted(frames, globals, lost, c))
             k == Cardinality(CapturersIn(objs, c))
             u == Count(work, Unref(c))
  <1>1. c \in DOMAIN cells /\ work # << >> /\ W.op = "unref" /\ W.v = Nil /\ cells' = Recelled(c, cells[c].value, 0)
        /\ cells[c].value \in AnyValue /\ ValueIn(cells[c].value, Len(objs)) /\ status' = status /\ UNCHANGED <<acts, failed>>
    BY RemoveCellReferenceForm
  <1>2. 1 = r + k + u
    BY <1>1 DEF Counted, CellLedger, Due
  <1>3. objs \in Seq(AnyObj) /\ work \in Seq(AnyUpdate)
    BY KeptTypes
  <1>4. r \in Nat /\ k \in Nat /\ u \in Nat
    BY <1>3, CapturersType, CountType DEF B
  <1>5. u >= 1
    <2>1. work[1] = Unref(c) /\ 1 \in DOMAIN work
      BY <1>1, WorkFacts, UpdateForms
    <2>2. Count(work, work[1]) >= 1
      BY <1>3, <2>1, CountSome
    <2> QED BY <2>1, <2>2
  <1>6. r = 0 /\ k = 0
    <2> HIDE DEF r, k, u
    <2> QED BY <1>2, <1>4, <1>5
  <1>7. ~ Rooted(frames, globals, lost, c) /\ CapturersIn(objs, c) = {}
    BY <1>3, <1>6, CapturersType, FS_EmptySet DEF B
  <1>8. \A o \in DOMAIN objs : ~ (objs[o].live /\ InNames(objs[o].closure, c))
    BY <1>7 DEF CapturersIn
  <1> HIDE DEF r, k, u
  <1>9. PICK j \in DOMAIN work : work[j].op = "write" /\ work[j].x = c
    BY DEF WritesTo
  <1>10. Moves
    BY UpdateMoves DEF Update
  <1>11. status = "run" /\ AnchoredIn(lost, globals, frames, functions, objs, file, c, Len(frames))
    BY <1>9, <1>10 DEF Anchors, Writing, Moves
  <1> HIDE DEF c
  <1>12. Stray
    BY <1>7, <1>8, <1>11, AnchoredDead
  <1>13. j # 1
    BY <1>1, <1>9, WorkFacts
  <1>14. PICK i \in DOMAIN work' : work'[i] = work[j]
    BY <1>10, <1>13 DEF Follows, Moves
  <1>15. cells'[c].refs = 0
    <2> DEFINE v == cells[c].value
               z == 0
    <2>1. Inv1 /\ c \in DOMAIN cells /\ v \in AnyValue /\ ValueIn(v, Len(objs)) /\ z \in Nat /\ cells' = Recelled(c, v, z) /\ z = 0
      BY <1>1
    <2> HIDE DEF v, z
    <2>2. Recelled(c, v, z)[c].refs = z
      BY ONLY <2>1, RecelledFacts
    <2> QED BY <2>1, <2>2
  <1>16. Doomed'
    BY <1>9, <1>14, <1>15 DEF Doomed
  <1> QED BY <1>1, <1>12, <1>16 DEF Stray, CalledByPointer, CallIndex

Good == Books /\ Orderly(work) /\ Anchors
Astray == Doomed /\ Stray

LEMMA UpdateGood ==
  ASSUME Inv1, Counted, Good, Update, Alive'
  PROVE  Good' \/ Astray'
  <1>1. Moves /\ Books /\ Orderly(work) /\ Anchors /\ Alive /\ status' # "dangling"
    BY UpdateMoves DEF Good, Moves, Alive
  <1>2. CASE Doomed
    BY <1>1, <1>2, DoomedIsStray, DoomedStays DEF Astray
  <1>3. ASSUME ~ Doomed PROVE (Books' /\ Orderly(work')) \/ Astray'
    <2>1. CASE AddReference
      BY <1>1, <2>1, AddReferenceBooks
    <2>2. CASE RemoveReference
      BY <1>1, <1>3, <2>2, RemoveReferenceBooks
    <2>3. CASE ReleaseOld
      BY <1>1, <1>3, <2>3, ReleaseOldBooks
    <2>4. CASE RemoveCellReference
      BY <1>1, <2>4, RemoveCellReferenceBooks, LastRelease DEF Astray
    <2>5. CASE WriteCell
      BY <1>1, <2>5, WriteCellBooks
    <2> QED BY <2>1, <2>2, <2>3, <2>4, <2>5 DEF Update
  <1>4. Anchors'
    BY <1>1, UpdateAnchors
  <1> QED BY <1>2, <1>3, <1>4 DEF Good

-----------------------------------------------------------------------------
(* Where variables are found, step by step.                                *)
AllFast(lo, gl, fr, fs, os, f, st) == \A k \in DOMAIN st : Fast(lo, gl, fr, fs, os, f, st[k])
AllSteady(lo2, fr2, fs2) == \A l \in DOMAIN frames : Steady(lo2, fr2, fs2, l)
Easy(a) == a.op # "for" /\ (a.op \in Blocky => a.fill = 0 /\ (a.at # "store" \/ a.cell = 0))
Written(w, lo, gl, fr, fs, os, f) ==
  \A i \in DOMAIN w : w[i].op \in Writing => AnchoredIn(lo, gl, fr, fs, os, f, w[i].x, Len(fr))

LEMMA EasyFast ==
  ASSUME NEW a, Easy(a), NEW lo2, NEW gl2, NEW fr2, NEW fs2, NEW os2, NEW f
  PROVE  Fast(lo2, gl2, fr2, fs2, os2, f, a)
  BY DEF Easy, Fast

LEMMA IdleWritten ==
  ASSUME NEW w, Idle(w), NEW lo, NEW gl, NEW fr, NEW fs, NEW os, NEW f
  PROVE  Written(w, lo, gl, fr, fs, os, f)
  BY DEF Idle, Written

LEMMA AnchorsFollow ==
  ASSUME status' = "run", AllFast(lost', globals', frames', functions', objs', file', acts'),
         Written(work', lost', globals', frames', functions', objs', file')
  PROVE  Anchors'
  BY DEF AllFast, Written, Anchors

(* After a file, nothing is to be written.                                 *)
LEMMA AnchorsAtRest ==
  ASSUME status' # "run", Idle(work')
  PROVE  Anchors'
  BY DEF Anchors, Idle

LEMMA StepFast ==
  ASSUME Inv1, status = "run", Anchors, NEW lo2, NEW gl2, NEW fr2, NEW fs2, NEW os2, Calm(lo2, gl2, os2), AllSteady(lo2, fr2, fs2),
         NEW st, \A k \in DOMAIN st : (k \in DOMAIN acts /\ SameFast(acts[k], st[k])) \/ Fast(lo2, gl2, fr2, fs2, os2, file, st[k])
  PROVE  AllFast(lo2, gl2, fr2, fs2, os2, file, st)
  <1>1. ASSUME NEW k \in DOMAIN st, k \in DOMAIN acts, SameFast(acts[k], st[k]) PROVE Fast(lo2, gl2, fr2, fs2, os2, file, st[k])
    <2>1. acts[k].level \in DOMAIN frames
      BY <1>1, ActPlaced
    <2>2. Steady(lo2, fr2, fs2, acts[k].level)
      BY <2>1 DEF AllSteady
    <2> QED BY <1>1, <2>2, FastKept
  <1> QED BY <1>1 DEF AllFast

LEMMA TopSet ==
  ASSUME Inv1, status = "run", NEW a, NEW st, st = SetTop(a)
  PROVE  DOMAIN st = DOMAIN acts /\ st[Len(acts)] = a /\ (\A k \in DOMAIN acts : k # Len(acts) => st[k] = acts[k]) /\ Len(acts) \in DOMAIN acts
  BY RunFacts DEF SetTop

LEMMA SteadySame == \A lo2, l : Steady(lo2, frames, functions, l)
  BY DEF Steady, KeptNames

(* A step that replaces the top and leaves entries and functions alone.    *)
LEMMA TopFast ==
  ASSUME Inv1, status = "run", Anchors, NEW lo2, NEW gl2, NEW fr2, NEW fs2, NEW os2, Calm(lo2, gl2, os2), AllSteady(lo2, fr2, fs2),
         NEW a, SameFast(Top, a) \/ Fast(lo2, gl2, fr2, fs2, os2, file, a), NEW st, st = SetTop(a)
  PROVE  AllFast(lo2, gl2, fr2, fs2, os2, file, st)
  <1>1. DOMAIN st = DOMAIN acts /\ st[Len(acts)] = a /\ (\A k \in DOMAIN acts : k # Len(acts) => st[k] = acts[k])
    BY TopSet
  <1>2. Top = acts[Len(acts)]
    BY DEF Top
  <1>3. ASSUME NEW k \in DOMAIN st PROVE (k \in DOMAIN acts /\ SameFast(acts[k], st[k])) \/ Fast(lo2, gl2, fr2, fs2, os2, file, st[k])
    <2>1. CASE k = Len(acts)
      BY <1>1, <1>2, <2>1
    <2>2. CASE k # Len(acts)
      BY <1>1, <2>2 DEF SameFast
    <2> QED BY <2>1, <2>2
  <1> QED BY <1>3, StepFast

(* The variables that an assignment has found.                             *)
LEMMA LookupAnchored ==
  ASSUME Inv1, status = "run", NEW n \in Name, NEW c, c = Lookup(n), c # 0
  PROVE  AnchoredIn(lost, globals, frames, functions, objs, file, c, Len(frames))
  <1>1. \/ \E b \in Block : Frame[b][n] = c
        \/ functions # << >> /\ objs[Last(functions)].closure[n] = c
        \/ globals[n] = c
    BY LookupFacts
  <1>2. Frame = frames[Len(frames)] /\ Len(frames) \in DOMAIN frames /\ Len(frames) \in Nat
    BY RunFacts
  <1>3. CASE \E b \in Block : Frame[b][n] = c
    BY <1>2, <1>3 DEF AnchoredIn, InNames
  <1>4. CASE globals[n] = c
    BY <1>4 DEF AnchoredIn, InNames
  <1>5. CASE functions # << >> /\ objs[Last(functions)].closure[n] = c
    <2>1. Len(frames) = Len(functions) + file /\ Len(functions) \in Nat /\ file \in Nat /\ Len(functions) # 0
      BY <1>5, StateFacts, KeptTypes DEF Inv1, Heights
    <2>2. Len(frames) > file /\ Len(frames) - file = Len(functions)
      BY <2>1
    <2>3. Last(functions) = functions[Len(functions)]
      BY DEF Last
    <2> QED BY <1>5, <2>2, <2>3 DEF AnchoredIn, InNames
  <1> QED BY <1>1, <1>3, <1>4, <1>5

LEMMA FillAnchored ==
  ASSUME Inv1, status = "run", Anchors, Top.op \in Blocky, Top.fill # 0,
         NEW lo2, NEW gl2, NEW fr2, NEW fs2, NEW os2, Calm(lo2, gl2, os2), Steady(lo2, fr2, fs2, Len(frames))
  PROVE  AnchoredIn(lo2, gl2, fr2, fs2, os2, file, Top.fill, Len(frames))
  <1>1. Top = acts[Len(acts)] /\ Len(acts) \in DOMAIN acts /\ Top.level = Len(frames) /\ Len(frames) \in DOMAIN frames
    BY RunFacts
  <1>2. Fast(lost, globals, frames, functions, objs, file, Top)
    BY <1>1 DEF Anchors
  <1>3. AnchoredIn(lost, globals, frames, functions, objs, file, Top.fill, Len(frames))
    BY <1>1, <1>2 DEF Fast
  <1> QED BY <1>1, <1>3, AnchoredKept

LEMMA TargetAnchored ==
  ASSUME Inv1, NEW ops, AtStat(ops), Target # 0, NEW fr2, NEW fs2, NEW os2, Calm(lost, GlobalsWithTarget, os2),
         Steady(lost, fr2, fs2, Len(frames))
  PROVE  AnchoredIn(lost, GlobalsWithTarget, fr2, fs2, os2, file, Target, Len(frames))
  <1>1. status = "run" /\ S.op = "assign" /\ S.id \in Name
    BY StatFacts DEF Target
  <1>2. CASE NewGlobal
    <2>1. GlobalsWithTarget[S.id] = NextCell /\ Target = NextCell
      BY <1>1, <1>2, KeptTypes DEF GlobalsWithTarget, Target
    <2> QED BY <1>1, <2>1 DEF AnchoredIn, InNames
  <1>3. CASE ~ NewGlobal
    <2> DEFINE c == Lookup(S.id)
               g == GlobalsWithTarget
    <2>1. Target = c /\ c # 0
      BY <1>1, <1>3 DEF Target
    <2>3. Len(frames) \in DOMAIN frames
      BY <1>1, RunFacts
    <2>4. AnchoredIn(lost, globals, frames, functions, objs, file, c, Len(frames))
      BY <1>1, <2>1, LookupAnchored
    <2> HIDE DEF c
    <2> HIDE DEF g
    <2>5. Calm(lost, g, os2)
      BY DEF g
    <2>6. AnchoredIn(lost, g, fr2, fs2, os2, file, c, Len(frames))
      BY <1>1, <2>1, <2>3, <2>4, <2>5, AnchoredKept
    <2> QED BY <2>1, <2>6 DEF g
  <1> QED BY <1>2, <1>3

LEMMA TargetCalm ==
  ASSUME Inv1, NEW ops, AtStat(ops), NEW os2, \A o \in DOMAIN objs : os2[o].closure = objs[o].closure
  PROVE  Calm(lost, GlobalsWithTarget, os2)
  <1>1. ASSUME NEW n \in Name PROVE GlobalsWithTarget[n] = globals[n] \/ globals[n] = 0
    <2>1. CASE NewGlobal
      <3>1. S.id \in Name /\ Lookup(S.id) = 0 /\ status = "run"
        BY <2>1, StatFacts DEF NewGlobal
      <3>2. globals[S.id] = 0
        BY <3>1, LookupFacts
      <3>3. n # S.id => GlobalsWithTarget[n] = globals[n]
        BY <2>1, KeptTypes DEF GlobalsWithTarget
      <3> QED BY <3>2, <3>3
    <2>2. CASE ~ NewGlobal
      BY <2>2 DEF GlobalsWithTarget
    <2> QED BY <2>1, <2>2
  <1> QED BY <1>1 DEF Calm, KeptNames

LEMMA EvalAnchors ==
  ASSUME Inv1, Anchors, NEW ops, AtStat(ops), NEW a, a.op = Top.op, a.level = Top.level, a.cell = Target, a.fill = Top.fill, acts' = SetTop(a),
         globals' = GlobalsWithTarget, UNCHANGED <<status, file, functions, frames, lost>>,
         \A o \in DOMAIN objs : objs'[o].closure = objs[o].closure, Idle(work')
  PROVE  Anchors'
  <1> DEFINE g == GlobalsWithTarget
             os == objs'
             st == acts'
  <1>1. status = "run" /\ Top.op \in Blocky /\ Top.level = Len(frames)
    BY StatFacts, RunFacts
  <1>2. os = objs' /\ st = acts' /\ g = globals' /\ st = SetTop(a) /\ \A o \in DOMAIN objs : os[o].closure = objs[o].closure
    OBVIOUS
  <1> HIDE DEF os, st
  <1>3. Calm(lost, g, os)
    BY <1>2, TargetCalm
  <1>4. AllSteady(lost, frames, functions) /\ Steady(lost, frames, functions, Len(frames))
    BY SteadySame DEF AllSteady
  <1>5. Target # 0 => AnchoredIn(lost, g, frames, functions, os, file, Target, Len(frames))
    BY <1>3, <1>4, TargetAnchored
  <1>6. Fast(lost, g, frames, functions, os, file, a)
    <2>1. a.fill # 0 => AnchoredIn(lost, g, frames, functions, os, file, a.fill, Len(frames))
      BY <1>1, <1>3, <1>4, FillAnchored
    <2> QED BY <1>1, <1>5, <2>1 DEF Fast, Blocky
  <1> HIDE DEF g
  <1>7. AllFast(lost, g, frames, functions, os, file, st)
    BY <1>1, <1>2, <1>3, <1>4, <1>6, TopFast
  <1> QED BY <1>1, <1>2, <1>7, IdleWritten, AnchorsFollow

LEMMA EvalValueAnchors ==
  ASSUME Inv1, Anchors, EvalValue
  PROVE  Anchors'
  <1> DEFINE v == IF S.e.k = "nil" THEN Nil ELSE ValueOf(S.e.n)
             a == [Top EXCEPT !.at = "store", !.val = v, !.cell = Target]
             ops == {"local", "assign", "return"}
  <1>1. AtStat(ops) /\ acts' = SetTop(a) /\ work' = <<Add(v)>> /\ globals' = GlobalsWithTarget
        /\ UNCHANGED <<status, file, functions, frames, objs, lost>>
    BY DEF EvalValue
  <1>2. Top \in AnyAct
    BY <1>1, StatFacts, RunFacts
  <1>3. a.op = Top.op /\ a.level = Top.level /\ a.cell = Target /\ a.fill = Top.fill
    BY <1>2 DEF AnyAct
  <1>4. Idle(work')
    BY <1>1 DEF Idle, Add, Writing
  <1> HIDE DEF a, v, ops
  <1> QED BY <1>1, <1>3, <1>4, EvalAnchors

LEMMA ObjsLonger ==
  ASSUME Inv1, NEW x
  PROVE  \A o \in DOMAIN objs : Append(objs, x)[o] = objs[o]
  BY KeptTypes

LEMMA EvalFunctionAnchors ==
  ASSUME Inv1, Anchors, EvalFunction
  PROVE  Anchors'
  <1> DEFINE a == [Top EXCEPT !.at = "store", !.val = NextObj, !.cell = Target]
             ops == {"local", "assign", "return"}
             x == NewObj(S.e.f, Top.env, 1)
  <1>1. AtStat(ops) /\ acts' = SetTop(a) /\ globals' = GlobalsWithTarget /\ objs' = Append(objs, x)
        /\ UNCHANGED <<status, file, functions, frames, work, lost>>
    BY DEF EvalFunction
  <1>2. Top \in AnyAct /\ work = << >>
    BY <1>1, StatFacts, RunFacts
  <1>3. a.op = Top.op /\ a.level = Top.level /\ a.cell = Target /\ a.fill = Top.fill
    BY <1>2 DEF AnyAct
  <1>4. Idle(work')
    BY <1>1, <1>2 DEF Idle
  <1> HIDE DEF a, x, ops
  <1>5. \A o \in DOMAIN objs : objs'[o].closure = objs[o].closure
    BY <1>1, ObjsLonger
  <1> QED BY <1>1, <1>3, <1>4, <1>5, EvalAnchors

LEMMA EvalCallAnchors ==
  ASSUME Inv1, Anchors, EvalCall
  PROVE  Anchors'
  <1> DEFINE g == GlobalsWithTarget
             os == CalledObjs
             st == acts'
             fr == frames'
             fs == functions'
             s == SetTop(CallerAct)
  <1>1. /\ AtStat(CallOps) /\ S.e.k \in CallKinds /\ Visited /\ Callable /\ ~ Active(BodyOf) /\ st = s \o <<CallAct, BodyAct>> /\ objs' = os
        /\ fr = Append(frames, ParamStore) /\ fs = Append(functions, Callee) /\ globals' = g /\ UNCHANGED <<status, file, lost>>
        /\ st = acts' /\ fr = frames' /\ fs = functions'
    BY EvalCallForm
  <1>2. status = "run" /\ Top.op \in Blocky /\ Top.level = Len(frames) /\ work = << >> /\ Top \in AnyAct
    BY <1>1, StatFacts, RunFacts
  <1>3. Source \in AnyValue /\ Arg \in AnyValue /\ \A o \in DOMAIN objs : os[o].closure = objs[o].closure
    <2>1. Source \in AnyValue /\ Arg \in AnyValue
      BY <1>1, CallFacts DEF AnyValue, Source
    <2> QED BY <2>1, ObjsLonger DEF CalledObjs
  <1>4. Idle(work')
    <2> DEFINE w == work'
    <2>1. w = <<Add(Source), Add(Source), Add(Arg), Add(Arg)>> \/ w = <<Add(Source), Add(Source), Add(Arg), Add(Arg), Add(Arg)>>
      BY EvalCallForm
    <2> HIDE DEF w
    <2>2. Adding(w)
      BY <1>3, <2>1, CallList
    <2> QED BY <2>2 DEF w, Idle, Adding, Writing
  <1>5. CallerAct.op = Top.op /\ CallerAct.level = Top.level /\ CallerAct.cell = Target /\ CallerAct.fill = Top.fill
    BY <1>2 DEF AnyAct, CallerAct
  <1>6. Easy(CallAct) /\ Easy(BodyAct) /\ CallerAct \in AnyAct
    <2> DEFINE c == Len(CalledCells) + 1
    <2>1. c \in Nat /\ Len(CalledCells) =< c /\ Len(CalledCells) + 1 =< c
      BY <1>1, CallFacts
    <2> HIDE DEF c
    <2> QED BY <1>1, <2>1, CallActs DEF Easy, Blocky
  <1>7. AllSteady(lost, fr, fs) /\ Steady(lost, fr, fs, Len(frames))
    <2>1. \A l \in DOMAIN frames : fr[l] = frames[l]
      BY <1>1, KeptTypes, SMTT(60)
    <2>2. \A k \in DOMAIN functions : fs[k] = functions[k]
      BY <1>1, KeptTypes, SMTT(60)
    <2>3. Len(frames) = Len(functions) + file /\ Len(functions) \in Nat /\ file \in Nat /\ DOMAIN functions = 1 .. Len(functions)
          /\ DOMAIN frames = 1 .. Len(frames) /\ Len(frames) \in Nat /\ Len(frames) \in DOMAIN frames
      BY <1>2, StateFacts, RunFacts DEF Inv1, Heights
    <2>4. ASSUME NEW l \in DOMAIN frames PROVE Steady(lost, fr, fs, l)
      <3>1. l > file => l - file \in DOMAIN functions
        BY <2>3
      <3> HIDE DEF fr, fs
      <3> QED BY <2>1, <2>2, <3>1 DEF Steady, KeptNames
    <2> QED BY <2>3, <2>4 DEF AllSteady
  <1> HIDE DEF st, fr, fs
  <1>8. Calm(lost, g, os)
    BY <1>1, <1>3, TargetCalm
  <1>9. Target # 0 => AnchoredIn(lost, g, fr, fs, os, file, Target, Len(frames))
    BY <1>1, <1>7, <1>8, TargetAnchored
  <1>10. Fast(lost, g, fr, fs, os, file, CallerAct) /\ Fast(lost, g, fr, fs, os, file, CallAct) /\ Fast(lost, g, fr, fs, os, file, BodyAct)
    <2>1. Fast(lost, g, fr, fs, os, file, CallerAct)
      <3>1. Top.fill # 0 => AnchoredIn(lost, g, fr, fs, os, file, Top.fill, Len(frames))
        BY <1>2, <1>7, <1>8, FillAnchored
      <3> QED BY <1>2, <1>5, <1>9, <3>1 DEF Fast, Blocky
    <2> QED BY <1>6, <2>1, EasyFast
  <1> HIDE DEF g, os
  <1>11. AllFast(lost, g, fr, fs, os, file, s)
    BY <1>2, <1>7, <1>8, <1>10, TopFast
  <1>12. AllFast(lost, g, fr, fs, os, file, st)
    <2>1. DOMAIN s = DOMAIN acts /\ s \in Seq(AnyAct)
      BY <1>2, <1>6, KeptTypes, TopSet, RunFacts, ReplaceFacts DEF SetTop
    <2> HIDE DEF s
    <2> DEFINE t == <<CallAct, BodyAct>>
    <2>2. t \in Seq({CallAct, BodyAct}) /\ DOMAIN t = {1, 2} /\ t[1] = CallAct /\ t[2] = BodyAct /\ Len(t) = 2
      OBVIOUS
    <2>3. ASSUME NEW k \in DOMAIN st PROVE (k \in DOMAIN s /\ st[k] = s[k]) \/ st[k] = CallAct \/ st[k] = BodyAct
      BY <1>1, <2>1
    <2> QED BY <1>10, <1>11, <2>3 DEF AllFast
  <1> QED BY <1>1, <1>2, <1>4, <1>12, IdleWritten, AnchorsFollow

(* A step of a statement that has been done.                               *)
LEMMA DoneFast ==
  ASSUME Inv1, status = "run", Top.op \in Blocky, NEW env \in [Name -> Nat],
         NEW a, a = [Advanced EXCEPT !.env = env] \/ (a = Advanced /\ env = Top.env)
  PROVE  Easy(a)
  BY AdvancedFacts DEF Easy, Blocky, SamePlace

(* A statement whose second variable may still be missing its value.       *)
LEMMA StoredFast ==
  ASSUME Inv1, Anchors, NEW ops, AtStore(ops), NEW env \in [Name -> Nat],
         NEW a, a = [Stored EXCEPT !.env = env] \/ (a = Stored /\ env = Top.env),
         NEW lo2, NEW gl2, NEW fr2, NEW fs2, NEW os2, Calm(lo2, gl2, os2), Steady(lo2, fr2, fs2, Len(frames))
  PROVE  Fast(lo2, gl2, fr2, fs2, os2, file, a)
  <1>1. status = "run" /\ Top.op \in Blocky /\ Top.level = Len(frames)
    BY StoreFacts, RunFacts
  <1>2. a.op = Top.op /\ a.level = Top.level /\ a.at \in {"stat", "fill"} /\ a.fill \in {0, Top.fill}
    BY StoredFacts DEF SamePlace
  <1>3. Top.fill # 0 => AnchoredIn(lo2, gl2, fr2, fs2, os2, file, Top.fill, Len(frames))
    BY <1>1, FillAnchored
  <1> QED BY <1>1, <1>2, <1>3 DEF Fast, Blocky

LEMMA SteadyTop ==
  ASSUME Inv1, status = "run", NEW lo2, NEW f \in AnyStore, NEW fr2, fr2 = SetFrame(f), \A b \in Block : KeptNames(Frame[b], f[b], lo2)
  PROVE  AllSteady(lo2, fr2, functions) /\ Len(fr2) = Len(frames) /\ fr2[Len(frames)] = f
  <1>1. Frame = frames[Len(frames)] /\ Len(frames) \in DOMAIN frames /\ frames \in Seq(AnyStore)
    BY RunFacts, KeptTypes
  <1>2. DOMAIN fr2 = DOMAIN frames /\ Len(fr2) = Len(frames) /\ fr2[Len(frames)] = f /\ \A l \in DOMAIN frames : l # Len(frames) => fr2[l] = frames[l]
    BY <1>1, ReplaceFacts DEF SetFrame
  <1>3. ASSUME NEW l \in DOMAIN frames PROVE Steady(lo2, fr2, functions, l)
    <2>1. CASE l = Len(frames)
      BY <1>1, <1>2, <2>1 DEF Steady
    <2>2. CASE l # Len(frames)
      BY <1>2, <2>2 DEF Steady, KeptNames
    <2> QED BY <2>1, <2>2
  <1> QED BY <1>2, <1>3 DEF AllSteady

LEMMA StoreLocalAnchors ==
  ASSUME Inv1, Anchors, StoreLocal
  PROVE  Anchors'
  <1> DEFINE old == Frame[Top.ctx][S.id]
             c == IF old = 0 THEN Len(cells) + 1 ELSE old
             e == [Top.env EXCEPT ![S.id] = c]
             a == [Stored EXCEPT !.env = e]
             f == Put(Frame, Top.ctx, S.id, c)
             v == Top.val
             fr == frames'
             os == objs'
             w == work'
             st == acts'
  <1>1. /\ status = "run" /\ Top.op \in Blocky /\ Top.ctx \in Block /\ S.id \in Name /\ old \in 0 .. Len(cells) /\ c \in 1 .. Len(cells') /\ Len(cells) \in Nat
        /\ fr = SetFrame(f) /\ w = <<Write(c, v), Add(v), Drop(v)>> /\ st = SetTop(a)
        /\ os = (IF old # 0 /\ cells[old].value # Nil THEN Overwrite(cells[old].value) ELSE objs)
        /\ UNCHANGED <<status, file, functions, globals, lost>> /\ fr = frames' /\ os = objs' /\ w = work' /\ st = acts'
    BY StoreLocalForm, StateFacts DEF Put
  <1>2. c \in Nat /\ Frame \in AnyStore /\ Top \in AnyAct /\ Len(frames) \in Nat /\ (old = 0 \/ c = old)
    BY <1>1, RunFacts
  <1> HIDE DEF fr, os, w, st
  <1>3. SameClosures(objs, os)
    <2> HIDE DEF old, c, e, a, f, v
    <2>1. CASE old # 0 /\ cells[old].value # Nil
      <3> DEFINE x == cells[old].value
      <3>1. old \in DOMAIN cells
        BY <1>1, <2>1, StateFacts
      <3>2. x \in DOMAIN objs
        BY <2>1, <3>1, StateFacts DEF ValueIn
      <3>3. os = Overwrite(x)
        BY <1>1, <2>1
      <3> HIDE DEF x
      <3> QED BY <3>2, <3>3, OverwriteFacts DEF SameClosures
    <2>2. CASE ~ (old # 0 /\ cells[old].value # Nil)
      BY <1>1, <2>2 DEF SameClosures
    <2> QED BY <2>1, <2>2
  <1>4. Calm(lost, globals, os)
    BY <1>3 DEF Calm, SameClosures, KeptNames
  <1> HIDE DEF c
  <1>5. f \in AnyStore /\ \A x \in Block, k \in Name : f[x][k] = IF x = Top.ctx /\ k = S.id THEN c ELSE Frame[x][k]
    BY <1>1, <1>2, EntryPut, SMTT(60)
  <1>6. \A b \in Block : KeptNames(Frame[b], f[b], lost)
    BY <1>2, <1>5 DEF KeptNames
  <1>7. e \in [Name -> Nat]
    BY <1>1, <1>2, ActFacts
  <1> HIDE DEF old, e, f
  <1>9. AllSteady(lost, fr, functions) /\ Len(fr) = Len(frames) /\ fr[Len(frames)] = f
    BY <1>1, <1>5, <1>6, SteadyTop, ZenonT(60)
  <1>10. AllFast(lost, globals, fr, functions, os, file, st)
    <2>1. Fast(lost, globals, fr, functions, os, file, a)
      <3> DEFINE ops == {"local"}
      <3>1. AtStore(ops) /\ Len(frames) \in DOMAIN frames
        BY <1>1, RunFacts DEF StoreLocal
      <3>2. Steady(lost, fr, functions, Len(frames))
        BY <1>9, <3>1 DEF AllSteady
      <3> HIDE DEF ops
      <3> QED BY <1>4, <1>7, <3>1, <3>2, StoredFast
    <2> HIDE DEF a
    <2> QED BY <1>1, <1>4, <1>9, <2>1, TopFast, ZenonT(60)
  <1>11. Written(w, lost, globals, fr, functions, os, file)
    <2>1. AnchoredIn(lost, globals, fr, functions, os, file, c, Len(fr))
      <3>1. f[Top.ctx][S.id] = c
        BY <1>1, <1>5
      <3>2. InNames(fr[Len(fr)][Top.ctx], c)
        BY <1>1, <1>9, <3>1 DEF InNames
      <3> QED BY <1>1, <3>2 DEF AnchoredIn
    <2>2. ASSUME NEW i \in DOMAIN w, w[i].op \in Writing PROVE w[i].x = c
      BY <1>1, <2>2 DEF Write, Add, Drop, Writing
    <2> QED BY <2>1, <2>2 DEF Written
  <1> QED BY <1>1, <1>10, <1>11, AnchorsFollow

LEMMA StoreAssignAnchors ==
  ASSUME Inv1, Anchors, StoreAssign
  PROVE  /\ Anchors' /\ status = "run" /\ Top.cell \in DOMAIN cells
         /\ AnchoredIn(lost, globals, frames, functions, objs, file, Top.cell, Len(frames))
  <1> DEFINE c == Top.cell
             v == Top.val
             w == work'
             st == acts'
             ops == {"assign"}
  <1>1. /\ AtStore(ops) /\ w = <<DropOld(c), Write(c, v), Add(v), Drop(v)>> /\ st = SetTop(Stored) /\ w = work' /\ st = acts'
        /\ UNCHANGED <<status, file, functions, frames, globals, objs, lost>>
    BY DEF StoreAssign, AssignOps, stores, memory
  <1>2. status = "run" /\ Top.op \in Blocky /\ Top.at = "store" /\ S.op \in ops
    BY <1>1, StoreFacts
  <1>3. c # 0 /\ Top.env \in [Name -> Nat] /\ Top.level = Len(frames) /\ Len(acts) \in DOMAIN acts /\ Top = acts[Len(acts)] /\ c \in Nat /\ c =< Len(cells)
    <2>1. c # 0
      BY <1>1, <1>2, StoreFacts
    <2>2. Top \in AnyAct /\ ActIn(Top, Len(cells), Len(objs))
      BY <1>2, RunFacts
    <2> QED BY <1>2, <2>1, <2>2, RunFacts, ActFacts DEF ActIn
  <1> HIDE DEF st, w, ops
  <1>4. AnchoredIn(lost, globals, frames, functions, objs, file, c, Len(frames))
    <2>1. Fast(lost, globals, frames, functions, objs, file, Top)
      BY <1>2, <1>3 DEF Anchors
    <2> QED BY <1>2, <1>3, <2>1 DEF Fast
  <1>5. AllFast(lost, globals, frames, functions, objs, file, st)
    <2>3. AllSteady(lost, frames, functions) /\ Calm(lost, globals, objs) /\ Steady(lost, frames, functions, Len(frames))
      BY SteadySame DEF AllSteady, Calm, KeptNames
    <2> DEFINE a == Stored
    <2>1. a = Stored
      OBVIOUS
    <2> HIDE DEF a
    <2>2. Fast(lost, globals, frames, functions, objs, file, a)
      <3> DEFINE e == Top.env
      <3>1. e = Top.env /\ e \in [Name -> Nat]
        BY <1>3
      <3> HIDE DEF e
      <3> QED BY <1>1, <2>1, <2>3, <3>1, StoredFast
    <2> QED BY <1>1, <1>2, <2>1, <2>2, <2>3, TopFast
  <1>6. Written(w, lost, globals, frames, functions, objs, file)
    <2>1. ASSUME NEW i \in DOMAIN w, w[i].op \in Writing PROVE w[i].x = c
      BY <1>1, <2>1 DEF Write, Add, Drop, DropOld, Writing
    <2> QED BY <1>4, <2>1 DEF Written
  <1>7. c \in DOMAIN cells
    BY <1>3, StateFacts
  <1> QED BY <1>1, <1>2, <1>4, <1>5, <1>6, <1>7, AnchorsFollow

LEMMA DiscardAnchors ==
  ASSUME Inv1, Anchors, Discard
  PROVE  Anchors'
  <1> DEFINE st == acts'
             ops == {"call"}
  <1>1. /\ AtStore(ops) /\ work' = <<Drop(Top.val)>> /\ st = SetTop(Advanced) /\ st = acts'
        /\ UNCHANGED <<status, file, functions, frames, globals, objs, lost>>
    BY DEF Discard, stores, memory
  <1>2. status = "run" /\ Top.op \in Blocky
    BY <1>1, StoreFacts
  <1>3. Top.env \in [Name -> Nat]
    BY <1>2, RunFacts, ActFacts
  <1> HIDE DEF st, ops
  <1>4. AllFast(lost, globals, frames, functions, objs, file, st)
    <2>1. Easy(Advanced)
      BY <1>2, <1>3, DoneFast
    <2>2. Fast(lost, globals, frames, functions, objs, file, Advanced)
      BY <2>1, EasyFast
    <2>3. AllSteady(lost, frames, functions) /\ Calm(lost, globals, objs)
      BY SteadySame DEF AllSteady, Calm, KeptNames
    <2> QED BY <1>1, <1>2, <2>2, <2>3, TopFast
  <1>5. Idle(work')
    BY <1>1 DEF Idle, Drop, Writing
  <1> QED BY <1>1, <1>2, <1>4, <1>5, IdleWritten, AnchorsFollow

LEMMA DefineFunctionAnchors ==
  ASSUME Inv1, Anchors, DefineFunction
  PROVE  Anchors'
  <1> DEFINE d == Len(cells) + 1
             x == NewObj(S.e.f, Top.env, 1)
             f == Put(Frame, Top.ctx, S.id, d)
             lo == lost'
             gl == globals'
             fr == frames'
             os == objs'
             st == acts'
  <1>1. /\ status = "run" /\ work = << >> /\ Top.op \in Blocky /\ Top.ctx \in Block /\ S.id \in Name /\ S.op \in {"function", "localfunction"}
        /\ os = Append(objs, x) /\ lo = lost \cup ({OldEntry} \ {0}) /\ UNCHANGED <<file, status, functions, work>>
        /\ (S.op = "function" => gl = PutName(globals, S.id, d) /\ fr = frames /\ st = SetTop([Advanced EXCEPT !.env = Top.env]))
        /\ (S.op = "localfunction" => fr = SetFrame(f) /\ gl = globals /\ st = SetTop([Advanced EXCEPT !.env = PutName(Top.env, S.id, d)]))
        /\ lo = lost' /\ gl = globals' /\ fr = frames' /\ os = objs' /\ st = acts'
    BY DefineFunctionForm
  <1>2. d \in Nat /\ Top \in AnyAct /\ Frame \in AnyStore /\ Top.env \in [Name -> Nat] /\ globals \in [Name -> Nat]
    BY <1>1, StateFacts, RunFacts, ActFacts, KeptTypes, SMTT(60)
  <1> HIDE DEF d, x, lo, gl, fr, os, st
  <1>3. lost \subseteq lo /\ (OldEntry # 0 => OldEntry \in lo) /\ \A o \in DOMAIN objs : os[o].closure = objs[o].closure
    BY <1>1, ObjsLonger
  <1>4. KeptNames(globals, gl, lo)
    <2>1. CASE S.op = "function"
      <3>1. \A n \in Name : gl[n] = IF n = S.id THEN d ELSE globals[n]
        BY <1>1, <1>2, <2>1 DEF PutName
      <3>2. OldEntry = globals[S.id]
        BY <2>1 DEF OldEntry
      <3> QED BY <1>3, <3>1, <3>2 DEF KeptNames
    <2>2. CASE S.op = "localfunction"
      BY <1>1, <2>2 DEF KeptNames
    <2> QED BY <1>1, <2>1, <2>2
  <1>5. Calm(lo, gl, os)
    BY <1>3, <1>4 DEF Calm
  <1>6. AllSteady(lo, fr, functions)
    <2>1. CASE S.op = "function"
      BY <1>1, <2>1, SteadySame DEF AllSteady
    <2>2. CASE S.op = "localfunction"
      <3>1. f \in AnyStore /\ \A b \in Block, k \in Name : f[b][k] = IF b = Top.ctx /\ k = S.id THEN d ELSE Frame[b][k]
        <4>1. f = Put(Frame, Top.ctx, S.id, d) /\ Frame \in AnyStore /\ Top.ctx \in Block /\ S.id \in Name /\ d \in Nat
          BY <1>1, <1>2
        <4> HIDE DEF f
        <4> QED BY ONLY <4>1, EntryPut
      <3>2. OldEntry = Frame[Top.ctx][S.id]
        BY <2>2 DEF OldEntry
      <3>3. \A b \in Block : KeptNames(Frame[b], f[b], lo)
        BY <1>3, <3>1, <3>2 DEF KeptNames
      <3> HIDE DEF f
      <3> QED BY <1>1, <2>2, <3>1, <3>3, SteadyTop
    <2> QED BY <1>1, <2>1, <2>2
  <1>7. AllFast(lo, gl, fr, functions, os, file, st)
    <2>1. ASSUME NEW e \in [Name -> Nat], st = SetTop([Advanced EXCEPT !.env = e]) PROVE AllFast(lo, gl, fr, functions, os, file, st)
      <3> DEFINE a == [Advanced EXCEPT !.env = e]
      <3>1. Easy(a)
        BY <1>1, DoneFast
      <3>2. st = SetTop(a)
        BY <2>1
      <3> HIDE DEF a
      <3>3. Fast(lo, gl, fr, functions, os, file, a)
        BY <3>1, EasyFast
      <3> QED BY <1>1, <1>5, <1>6, <3>2, <3>3, TopFast
    <2>2. CASE S.op = "function"
      BY <1>1, <1>2, <2>1, <2>2
    <2>3. CASE S.op = "localfunction"
      <3>1. PutName(Top.env, S.id, d) \in [Name -> Nat]
        BY <1>1, <1>2 DEF PutName
      <3> QED BY <1>1, <2>1, <2>3, <3>1
    <2> QED BY <1>1, <2>2, <2>3
  <1>8. Idle(work')
    BY <1>1 DEF Idle
  <1> QED BY <1>1, <1>7, <1>8, IdleWritten, AnchorsFollow

LEMMA VisitSecondAnchors ==
  ASSUME Inv1, Anchors, VisitSecond
  PROVE  Anchors'
  <1> DEFINE g == globals'
             st == acts'
             a == SecondAct
             c == Lookup(S.id2)
  <1>1. /\ status = "run" /\ work = << >> /\ Top.op \in Blocky /\ S.id2 \in Name /\ st = SetTop(a) /\ st = acts' /\ g = GlobalsWithSecond
        /\ g = globals' /\ UNCHANGED <<file, status, functions, frames, objs, work, lost>>
    BY VisitSecondForm
  <1>2. /\ a.at = "stat" /\ a.fill = Second /\ a.op = Top.op /\ a.level = Len(frames) /\ Len(frames) \in DOMAIN frames
    BY <1>1, SecondActFacts, RunFacts
  <1>3. /\ \A n \in Name : g[n] = IF c = 0 /\ n = S.id2 THEN Len(cells) + 1 ELSE globals[n]
        /\ Second = IF c = 0 THEN Len(cells) + 1 ELSE c
    BY <1>1, SecondFacts DEF Second
  <1>4. c = 0 => globals[S.id2] = 0
    BY <1>1, LookupFacts
  <1> HIDE DEF g, st, a
  <1>5. Calm(lost, g, objs)
    BY <1>3, <1>4 DEF Calm, KeptNames
  <1>6. AllSteady(lost, frames, functions) /\ Steady(lost, frames, functions, Len(frames))
    BY SteadySame DEF AllSteady
  <1>7. AnchoredIn(lost, g, frames, functions, objs, file, Second, Len(frames))
    <2>1. CASE c = 0
      BY <1>1, <1>3, <2>1 DEF AnchoredIn, InNames
    <2>2. CASE c # 0
      <3>1. AnchoredIn(lost, globals, frames, functions, objs, file, c, Len(frames))
        BY <1>1, <2>2, LookupAnchored
      <3> HIDE DEF c
      <3>2. AnchoredIn(lost, g, frames, functions, objs, file, c, Len(frames))
        BY <1>1, <1>2, <1>5, <1>6, <2>2, <3>1, AnchoredKept
      <3> QED BY <1>3, <2>2, <3>2
    <2> QED BY <2>1, <2>2
  <1>8. Fast(lost, g, frames, functions, objs, file, a)
    BY <1>1, <1>2, <1>7 DEF Fast, Blocky
  <1>9. AllFast(lost, g, frames, functions, objs, file, st)
    BY <1>1, <1>5, <1>6, <1>8, TopFast
  <1>10. Idle(work')
    BY <1>1 DEF Idle
  <1> QED BY <1>1, <1>9, <1>10, IdleWritten, AnchorsFollow

LEMMA FillLocalAnchors ==
  ASSUME Inv1, Anchors, FillLocal
  PROVE  Anchors'
  <1> DEFINE d == Len(cells) + 1
             old == Frame[Top.ctx][S.id2]
             f == Put(Frame, Top.ctx, S.id2, d)
             e == PutName(Top.env, S.id2, d)
             a == [Advanced EXCEPT !.env = e]
             lo == lost'
             fr == frames'
             st == acts'
  <1>1. /\ status = "run" /\ work = << >> /\ Top.op \in Blocky /\ Top.ctx \in Block /\ S.id2 \in Name /\ lo = lost \cup ({old} \ {0})
        /\ fr = SetFrame(f) /\ st = SetTop(a) /\ UNCHANGED <<file, status, functions, globals, objs, work>>
        /\ lo = lost' /\ fr = frames' /\ st = acts'
    BY FillLocalForm
  <1>2. d \in Nat /\ Frame \in AnyStore /\ Top.env \in [Name -> Nat]
    BY <1>1, StateFacts, RunFacts, ActFacts
  <1>3. e \in [Name -> Nat]
    BY <1>1, <1>2 DEF PutName
  <1> HIDE DEF d, lo, fr, st, e
  <1>4. Calm(lo, globals, objs)
    BY <1>1 DEF Calm, KeptNames
  <1>5. f \in AnyStore /\ \A b \in Block, k \in Name : f[b][k] = IF b = Top.ctx /\ k = S.id2 THEN d ELSE Frame[b][k]
    <2>1. f = Put(Frame, Top.ctx, S.id2, d) /\ Frame \in AnyStore /\ Top.ctx \in Block /\ S.id2 \in Name /\ d \in Nat
      BY <1>1, <1>2
    <2> HIDE DEF f
    <2> QED BY ONLY <2>1, EntryPut
  <1>6. \A b \in Block : KeptNames(Frame[b], f[b], lo)
    BY <1>1, <1>5 DEF KeptNames
  <1> HIDE DEF f, old
  <1>7. AllSteady(lo, fr, functions)
    BY <1>1, <1>5, <1>6, SteadyTop
  <1>8. Easy(a)
    BY <1>1, <1>3, DoneFast
  <1> HIDE DEF a
  <1>9. Fast(lo, globals, fr, functions, objs, file, a)
    BY <1>8, EasyFast
  <1>10. AllFast(lo, globals, fr, functions, objs, file, st)
    BY <1>1, <1>4, <1>7, <1>9, TopFast
  <1>11. Idle(work')
    BY <1>1 DEF Idle
  <1> QED BY <1>1, <1>10, <1>11, IdleWritten, AnchorsFollow

LEMMA FillAssignAnchors ==
  ASSUME Inv1, Anchors, FillAssign
  PROVE  /\ cells[Top.fill].refs > 0 => Anchors'
         /\ AnchoredIn(lost, globals, frames, functions, objs, file, Top.fill, Len(frames))
  <1> DEFINE st == acts'
             os == objs'
             v == cells[Top.fill].value
             a == Advanced
  <1>1. /\ status = "run" /\ work = << >> /\ Top.op \in Blocky /\ st = SetTop(a) /\ st = acts' /\ os = Forget(v) /\ os = objs'
        /\ v \in AnyValue /\ ValueIn(v, Len(objs)) /\ UNCHANGED <<file, functions, frames, globals, work, lost>>
        /\ status' = IF cells[Top.fill].refs = 0 THEN "dangling" ELSE status
    BY FillAssignForm
  <1>2. Top.env \in [Name -> Nat] /\ Top.fill # 0
    BY <1>1, RunFacts, ActFacts, FillAssignForm, StateFacts, SMTT(60)
  <1>3. AllSteady(lost, frames, functions) /\ Steady(lost, frames, functions, Len(frames)) /\ Calm(lost, globals, objs)
    BY SteadySame DEF AllSteady, Calm, KeptNames
  <1>4. Easy(a)
    <2> DEFINE x == Top.env
    <2>1. x = Top.env /\ x \in [Name -> Nat] /\ a = Advanced
      BY <1>2
    <2> HIDE DEF x, a
    <2> QED BY <1>1, <2>1, DoneFast
  <1> HIDE DEF st, os, v, a
  <1>5. Calm(lost, globals, os)
    <2>1. \A o \in DOMAIN objs : Forget(v)[o].closure = objs[o].closure
      BY <1>1, ForgetFacts, ZenonT(60)
    <2>2. \A o \in DOMAIN objs : os[o].closure = objs[o].closure
      BY <1>1, <2>1
    <2> QED BY <2>2 DEF Calm, KeptNames
  <1>6. Fast(lost, globals, frames, functions, os, file, a)
    BY <1>4, EasyFast
  <1>7. AllFast(lost, globals, frames, functions, os, file, st)
    BY <1>1, <1>3, <1>5, <1>6, TopFast
  <1>8. Idle(work')
    BY <1>1 DEF Idle
  <1>9. AnchoredIn(lost, globals, frames, functions, objs, file, Top.fill, Len(frames))
    BY <1>1, <1>2, <1>3, FillAnchored
  <1> QED BY <1>1, <1>7, <1>8, <1>9, IdleWritten, AnchorsFollow

(* A new activation on top.                                                *)
LEMMA PushFast ==
  ASSUME NEW lo, NEW gl, NEW fr, NEW fs, NEW os, NEW f, NEW s, s \in Seq(AnyAct), AllFast(lo, gl, fr, fs, os, f, s),
         NEW a, Fast(lo, gl, fr, fs, os, f, a), NEW st, st = Append(s, a)
  PROVE  AllFast(lo, gl, fr, fs, os, f, st)
  <1>1. \A k \in DOMAIN st : (k \in DOMAIN s /\ st[k] = s[k]) \/ st[k] = a
    OBVIOUS
  <1> QED BY <1>1 DEF AllFast

LEMMA EnterAnchors ==
  ASSUME Inv1, Anchors, Enter
  PROVE  Anchors'
  <1> DEFINE a == NewAct("block", S.blk, "stat", Top.env, Len(blocks) + 1, Len(frames))
             st == acts'
             ops == {"do"}
  <1>1. AtStat(ops) /\ st = Append(acts, a) /\ st = acts' /\ UNCHANGED <<status, file, functions, frames, globals, objs, lost, work>>
    BY DEF Enter, stores, memory
  <1>2. status = "run" /\ work = << >> /\ acts \in Seq(AnyAct)
    BY <1>1, StatFacts, KeptTypes
  <1>3. Easy(a)
    BY DEF Easy, NewAct
  <1> HIDE DEF a, st
  <1>4. AllFast(lost, globals, frames, functions, objs, file, acts)
    BY <1>2 DEF Anchors, AllFast
  <1>5. AllFast(lost, globals, frames, functions, objs, file, st)
    BY <1>1, <1>2, <1>3, <1>4, EasyFast, PushFast
  <1>6. Idle(work')
    BY <1>1, <1>2 DEF Idle
  <1> QED BY <1>1, <1>2, <1>5, <1>6, IdleWritten, AnchorsFollow

LEMMA RoundAnchors ==
  ASSUME Inv1, Anchors, Round
  PROVE  Anchors'
  <1> DEFINE t == [Top EXCEPT !.i = Top.i + 1]
             s == SetTop(t)
             a == NewAct("forblock", Top.ctx, "stat", Top.env, Len(blocks), Len(frames))
             st == acts'
  <1>1. /\ status = "run" /\ work = << >> /\ st = Append(s, a) /\ st = acts'
        /\ UNCHANGED <<status, file, functions, frames, globals, objs, lost, work>>
    BY DEF Round, AtFor, Running, stores, memory
  <1>2. Top \in AnyAct /\ acts \in Seq(AnyAct) /\ Len(acts) \in DOMAIN acts
    BY <1>1, RunFacts
  <1>3. t \in AnyAct /\ SameFast(Top, t)
    <2>1. Top.i + 1 \in Nat
      BY <1>2, SMTT(60) DEF AnyAct
    <2>3. t \in AnyAct
      BY <1>2, <2>1 DEF AnyAct
    <2>2. t.op = Top.op /\ t.ctx = Top.ctx /\ t.level = Top.level /\ t.cell = Top.cell /\ t.at = Top.at /\ t.name = Top.name /\ t.fill = Top.fill
      BY <1>2 DEF AnyAct
    <2> QED BY <2>2, <2>3 DEF SameFast
  <1>4. Easy(a)
    BY DEF Easy, NewAct
  <1> HIDE DEF t, a, st
  <1>5. s \in Seq(AnyAct)
    BY <1>2, <1>3, ReplaceFacts DEF SetTop
  <1>6. AllSteady(lost, frames, functions) /\ Calm(lost, globals, objs)
    BY SteadySame DEF AllSteady, Calm, KeptNames
  <1>7. AllFast(lost, globals, frames, functions, objs, file, s)
    BY <1>1, <1>3, <1>6, TopFast
  <1> HIDE DEF s
  <1>8. AllFast(lost, globals, frames, functions, objs, file, st)
    BY <1>1, <1>4, <1>5, <1>7, EasyFast, PushFast
  <1>9. Idle(work')
    BY <1>1 DEF Idle
  <1> QED BY <1>1, <1>8, <1>9, IdleWritten, AnchorsFollow

LEMMA StartForAnchors ==
  ASSUME Inv1, Anchors, StartFor
  PROVE  Anchors'
  <1> DEFINE d == Len(cells) + 1
             e == PutName(Top.env, S.id, d)
             a == [NewAct("for", S.blk, "stat", e, Len(blocks) + 1, Len(frames)) EXCEPT !.cell = d, !.name = S.id]
             f == Put(Frame, S.blk, S.id, d)
             fr == frames'
             st == acts'
  <1>1. /\ status = "run" /\ work = << >> /\ Top.op # "chunk" /\ S.id \in Name /\ S.blk \in Block /\ Parent[S.blk] = Top.ctx
        /\ fr = SetFrame(f) /\ st = Append(acts, a) /\ fr = frames' /\ st = acts'
        /\ UNCHANGED <<status, file, functions, globals, objs, lost, work>>
    BY StartForForm
  <1>2. d \in Nat /\ Frame \in AnyStore /\ acts \in Seq(AnyAct)
    BY <1>1, StateFacts, RunFacts
  <1>3. a.op = "for" /\ a.cell = d /\ a.level = Len(frames) /\ a.ctx = S.blk /\ a.name = S.id
    BY DEF NewAct
  <1> HIDE DEF d, e, a, fr, st
  <1>4. Frame[S.blk][S.id] = 0
    BY <1>1, LoopIsNew
  <1>5. f \in AnyStore /\ \A x \in Block, k \in Name : f[x][k] = IF x = S.blk /\ k = S.id THEN d ELSE Frame[x][k]
    <2>1. f = Put(Frame, S.blk, S.id, d) /\ Frame \in AnyStore /\ S.blk \in Block /\ S.id \in Name /\ d \in Nat
      BY <1>1, <1>2
    <2> HIDE DEF f
    <2> QED BY ONLY <2>1, EntryPut
  <1>6. \A b \in Block : KeptNames(Frame[b], f[b], lost)
    BY <1>4, <1>5 DEF KeptNames
  <1> HIDE DEF f
  <1>7. AllSteady(lost, fr, functions) /\ Len(fr) = Len(frames) /\ fr[Len(frames)] = f
    <2>1. Inv1 /\ status = "run" /\ f \in AnyStore /\ fr = SetFrame(f) /\ \A b \in Block : KeptNames(Frame[b], f[b], lost)
      BY <1>1, <1>5, <1>6
    <2> QED BY ONLY <2>1, SteadyTop
  <1>8. Calm(lost, globals, objs) /\ \A k \in DOMAIN acts : SameFast(acts[k], acts[k])
    BY DEF Calm, KeptNames, SameFast
  <1>9. AllFast(lost, globals, fr, functions, objs, file, acts)
    BY <1>1, <1>7, <1>8, StepFast
  <1>10. Fast(lost, globals, fr, functions, objs, file, a)
    <2>1. f[S.blk][S.id] = d
      BY <1>1, <1>5
    <2>2. fr[a.level][a.ctx][a.name] = a.cell
      BY <1>1, <1>3, <1>7, <2>1
    <2> QED BY <1>3, <2>2 DEF Fast, Blocky
  <1>11. AllFast(lost, globals, fr, functions, objs, file, st)
    BY <1>1, <1>2, <1>9, <1>10, PushFast
  <1>12. Idle(work')
    BY <1>1 DEF Idle
  <1> QED BY <1>1, <1>11, <1>12, IdleWritten, AnchorsFollow

LEMMA ReleasingIdle ==
  ASSUME NEW w, Releasing(w)
  PROVE  Idle(w)
  BY DEF Releasing, Idle, Writing

(* The activations under the top when its block is left, or trimmed.       *)
LEMMA BelowFast ==
  ASSUME Inv1, status = "run", Anchors, NEW os2, SameClosures(objs, os2), NEW f \in AnyStore, NEW fr2, fr2 = SetFrame(f),
         \A b \in Block : (Top.op \in Owner /\ b = Top.ctx) \/ KeptNames(Frame[b], f[b], lost),
         NEW j \in DOMAIN acts, j < Len(acts), NEW a, SameFast(acts[j], a)
  PROVE  Fast(lost, globals, fr2, functions, os2, file, a)
  <1>1. Calm(lost, globals, os2)
    BY DEF Calm, KeptNames, SameClosures
  <1>2. Replaces(frames, fr2, f)
    BY FrameReplaced
  <1>3. Frame = frames[Len(frames)] /\ fr2[Len(frames)] = f /\ Len(frames) \in Nat /\ \A l \in DOMAIN frames : l # Len(frames) => fr2[l] = frames[l]
    BY <1>2, RunFacts DEF Replaces
  <1>4. acts[j].level \in DOMAIN frames /\ acts[j].level \in Nat
    BY ActPlaced
  <1>5. acts[j].level < Len(frames) => Steady(lost, fr2, functions, acts[j].level)
    BY <1>3, <1>4 DEF Steady, KeptNames
  <1>6. \A b \in Block : (Top.op \in Owner /\ b = Top.ctx) \/ KeptNames(frames[Len(frames)][b], fr2[Len(frames)][b], lost)
    BY <1>3
  <1> QED BY <1>1, <1>5, <1>6, FastBelow

LEMMA NextRoundAnchors ==
  ASSUME Inv1, Anchors, NextRound, \A i \in DOMAIN work' : work'[i].op \in {"write", "dropold"} => work'[i].x = Top.cell
  PROVE  Anchors'
  <1> DEFINE c == Top.cell
             a == [Top EXCEPT !.at = "stat"]
             f == Keep(Frame, Top.ctx, Top.name)
             fr == frames'
             os == objs'
             st == acts'
             w == work'
  <1>1. /\ status = "run" /\ Top.op = "for" /\ Top.ctx \in Block /\ c \in DOMAIN cells /\ Top.name \in Name /\ fr = SetFrame(f) /\ st = SetTop(a)
        /\ os = Forget(cells[c].value)
        /\ UNCHANGED <<status, file, functions, globals, lost>> /\ fr = frames' /\ os = objs' /\ st = acts' /\ w = work'
    BY NextRoundForm
  <1>2. /\ Top \in AnyAct /\ Frame \in AnyStore /\ Top.level = Len(frames) /\ Top = acts[Len(acts)] /\ Len(acts) \in DOMAIN acts
        /\ Frame = frames[Len(frames)] /\ DOMAIN acts = 1 .. Len(acts) /\ Len(acts) \in Nat
    BY <1>1, RunFacts
  <1>3. a.op = "for" /\ a.cell = c /\ a.level = Len(frames) /\ a.ctx = Top.ctx /\ a.name = Top.name
    BY <1>1, <1>2 DEF AnyAct
  <1> HIDE DEF a, fr, os, st, w
  <1>4. SameClosures(objs, os)
    <2> DEFINE x == cells[c].value
    <2>1. x \in AnyValue /\ ValueIn(x, Len(objs)) /\ os = Forget(x)
      BY <1>1, StateFacts
    <2> HIDE DEF x
    <2> QED BY <2>1, ForgetFacts DEF SameClosures
  <1>5. c \in lost \/ Frame[Top.ctx][Top.name] = c
    <2>1. Fast(lost, globals, frames, functions, objs, file, Top)
      BY <1>1, <1>2 DEF Anchors
    <2> QED BY <1>1, <1>2, <2>1 DEF Fast
  <1> HIDE DEF c
  <1>6. f \in AnyStore /\ \A x \in Block, n \in Name : f[x][n] = IF x = Top.ctx /\ n # Top.name THEN 0 ELSE Frame[x][n]
    BY <1>1, <1>2, KeepFacts
  <1>7. \A b \in Block : (Top.op \in Owner /\ b = Top.ctx) \/ KeptNames(Frame[b], f[b], lost)
    BY <1>1, <1>6 DEF Owner, KeptNames
  <1>8. c \in lost \/ f[Top.ctx][Top.name] = c
    BY <1>1, <1>5, <1>6
  <1> HIDE DEF f
  <1>9. fr[Len(frames)] = f /\ Len(fr) = Len(frames)
    <2>1. frames \in Seq(AnyStore) /\ Len(frames) \in DOMAIN frames
      BY <1>1, RunFacts, KeptTypes
    <2> QED BY <1>1, <1>6, <2>1, ReplaceFacts DEF SetFrame
  <1>10. Fast(lost, globals, fr, functions, os, file, a)
    BY <1>3, <1>8, <1>9 DEF Fast, Blocky
  <1>11. AllFast(lost, globals, fr, functions, os, file, st)
    <2>1. DOMAIN st = DOMAIN acts /\ st[Len(acts)] = a /\ (\A k \in DOMAIN acts : k # Len(acts) => st[k] = acts[k])
      <3>1. Inv1 /\ status = "run" /\ st = SetTop(a)
        BY <1>1
      <3> QED BY ONLY <3>1, TopSet
    <2>2. ASSUME NEW k \in DOMAIN st, k # Len(acts) PROVE Fast(lost, globals, fr, functions, os, file, st[k])
      <3>1. k \in DOMAIN acts /\ k < Len(acts) /\ SameFast(acts[k], st[k])
        BY <1>2, <2>1, <2>2 DEF SameFast
      <3> QED BY <1>1, <1>4, <1>6, <1>7, <3>1, BelowFast
    <2> QED BY <1>10, <2>1, <2>2 DEF AllFast
  <1>12. Written(w, lost, globals, fr, functions, os, file)
    <2>1. AnchoredIn(lost, globals, fr, functions, os, file, c, Len(fr))
      BY <1>1, <1>8, <1>9 DEF AnchoredIn, InNames
    <2>2. ASSUME NEW i \in DOMAIN w, w[i].op \in Writing PROVE w[i].x = c
      <3>1. \A k \in DOMAIN w : w[k].op \in {"write", "dropold"} => w[k].x = c
        BY DEF w, c
      <3> QED BY <2>2, <3>1 DEF Writing
    <2> QED BY <2>1, <2>2 DEF Written
  <1> QED BY <1>1, <1>11, <1>12, AnchorsFollow

(* The variable of a for has an entry, or had one: its cell is counted.    *)
LEMMA LoopCellHeld ==
  ASSUME Inv1, Counted, Anchors, NextRound
  PROVE  cells[Top.cell].refs > 0
  <1> DEFINE c == Top.cell
  <1>1. status = "run" /\ Top.op = "for" /\ c \in DOMAIN cells /\ Top.ctx \in Block /\ Top.name \in Name
    BY NextRoundForm
  <1>2. Top.level = Len(frames) /\ Top = acts[Len(acts)] /\ Len(acts) \in DOMAIN acts /\ Len(frames) \in DOMAIN frames
    BY <1>1, RunFacts
  <1>3. Fast(lost, globals, frames, functions, objs, file, Top)
    BY <1>1, <1>2 DEF Anchors
  <1>4. c \in lost \/ frames[Len(frames)][Top.ctx][Top.name] = c
    BY <1>1, <1>2, <1>3 DEF Fast
  <1>5. Rooted(frames, globals, lost, c)
    BY <1>1, <1>2, <1>4 DEF Rooted, InFrames, InNames
  <1> HIDE DEF c
  <1> QED BY <1>1, <1>5, HeldCell DEF c

(* What is left of the stack: its first n activations, the last of them a. *)
LEMMA CutSame ==
  ASSUME Inv1, NEW n \in 1 .. Len(acts), NEW a, SameFast(acts[n], a), NEW st, st = [SubSeq(acts, 1, n) EXCEPT ![n] = a]
  PROVE  \A k \in DOMAIN st : k \in DOMAIN acts /\ k \in 1 .. n /\ SameFast(acts[k], st[k])
  <1> DEFINE t == SubSeq(acts, 1, n)
  <1>1. acts \in Seq(AnyAct) /\ DOMAIN acts = 1 .. Len(acts) /\ Len(acts) \in Nat
    BY KeptTypes, LenFacts
  <1>2. DOMAIN t = 1 .. n /\ \A k \in 1 .. n : t[k] = acts[k]
    <2>1. n \in 0 .. Len(acts)
      BY <1>1
    <2> QED BY <1>1, <2>1, PrefixFacts
  <1>3. st = [t EXCEPT ![n] = a]
    OBVIOUS
  <1> HIDE DEF t
  <1>4. DOMAIN st = 1 .. n /\ \A k \in 1 .. n : st[k] = IF k = n THEN a ELSE acts[k]
    BY <1>1, <1>2, <1>3
  <1>5. \A k \in 1 .. n : k \in DOMAIN acts
    BY <1>1
  <1> QED BY <1>4, <1>5 DEF SameFast

LEMMA MovedFast ==
  ASSUME NEW a \in AnyAct
  PROVE  /\ SameFast(a, NextStat(a)) /\ (a.op \notin Blocky => SameFast(a, Returned(a))) /\ \A v : SameFast(a, WithVal(a, v))
  <1>1. SameFast(a, NextStat(a))
    BY DEF AnyAct, NextStat, SameFast
  <1>2. a.op \notin Blocky => SameFast(a, Returned(a))
    BY DEF AnyAct, Returned, SameFast
  <1>3. \A v : SameFast(a, WithVal(a, v))
    BY DEF AnyAct, WithVal, SameFast
  <1> QED BY <1>1, <1>2, <1>3

LEMMA BlockEndsAnchors ==
  ASSUME Inv1, Anchors, EndFor \/ FinishBlock, Releasing(work')
  PROVE  Anchors'
  <1> DEFINE n == Len(acts) - 1
             f == Erase(Frame, {Top.ctx})
             fr == frames'
             st == acts'
  <1>1. /\ status = "run" /\ Top.op # "chunk" /\ UNCHANGED <<status, file, functions, globals, objs, lost>>
        /\ fr = frames' /\ st = acts' /\ n = Len(acts) - 1
    BY DEF EndFor, FinishBlock, AtFor, AtEnd, AtBlock, Running, memory
  <1>2. acts \in Seq(AnyAct) /\ Frame \in AnyStore /\ Frame = frames[Len(frames)]
    BY <1>1, RunFacts
  <1>3. n \in 1 .. Len(acts) /\ n < Len(acts) /\ acts[n] \in AnyAct /\ n \in Nat /\ Len(acts) = n + 1
    BY <1>1, BelowFacts
  <1>4. \E a : SameFast(acts[n], a) /\ st = [SubSeq(acts, 1, n) EXCEPT ![n] = a]
    <2>1. CASE EndFor
      <3> DEFINE a == NextStat(acts[n])
      <3>1. acts' = [SubSeq(acts, 1, n) EXCEPT ![n] = a]
        <4>1. Front(acts) = SubSeq(acts, 1, n) /\ Len(Front(acts)) = n /\ Front(acts)[n] = acts[n]
          BY <1>2, <1>3, FrontPut
        <4>2. acts' = [Front(acts) EXCEPT ![Len(Front(acts))].i = @ + 1]
          BY <2>1 DEF EndFor
        <4> HIDE DEF n
        <4> QED BY <4>1, <4>2 DEF NextStat
      <3>2. SameFast(acts[n], a)
        BY <1>3, MovedFast
      <3> QED BY <3>1, <3>2
    <2>2. CASE FinishBlock
      <3> DEFINE a == IF acts[n].op \in Blocky THEN NextStat(acts[n]) ELSE Returned(acts[n])
      <3>1. acts' = [SubSeq(acts, 1, n) EXCEPT ![n] = a]
        <4>1. acts' = Below
          BY <2>2 DEF FinishBlock
        <4> QED BY <1>1, <4>1, BelowForm
      <3>2. SameFast(acts[n], a)
        BY <1>3, MovedFast
      <3> QED BY <3>1, <3>2
    <2> QED BY <2>1, <2>2
  <1> HIDE DEF n, fr, st
  <1>5. PICK a : SameFast(acts[n], a) /\ st = [SubSeq(acts, 1, n) EXCEPT ![n] = a]
    BY <1>4
  <1>6. \A k \in DOMAIN st : k \in DOMAIN acts /\ k \in 1 .. n /\ SameFast(acts[k], st[k])
    BY <1>3, <1>5, CutSame
  <1>7. f \in AnyStore /\ \A x \in Block, m \in Name : f[x][m] = IF x \in {Top.ctx} THEN 0 ELSE Frame[x][m]
    BY <1>2, EraseFacts
  <1>8. (Top.op \in Owner /\ fr = SetFrame(f)) \/ fr = frames
    BY <1>1 DEF EndFor, FinishBlock, AtFor, AtEnd, AtBlock, Owner, fr
  <1> HIDE DEF f
  <1>9. SameClosures(objs, objs)
    BY DEF SameClosures
  <1>10. ASSUME NEW k \in DOMAIN st PROVE Fast(lost, globals, fr, functions, objs, file, st[k])
    <2>1. k \in DOMAIN acts /\ k < Len(acts) /\ SameFast(acts[k], st[k])
      BY <1>3, <1>6
    <2>2. CASE Top.op \in Owner /\ fr = SetFrame(f)
      <3>1. \A b \in Block : (Top.op \in Owner /\ b = Top.ctx) \/ KeptNames(Frame[b], f[b], lost)
        BY <1>7, <2>2 DEF KeptNames
      <3> QED BY <1>1, <1>7, <1>9, <2>1, <2>2, <3>1, BelowFast
    <2>3. CASE fr = frames
      <3>1. Calm(lost, globals, objs) /\ Steady(lost, frames, functions, acts[k].level)
        BY SteadySame DEF Calm, KeptNames
      <3> QED BY <1>1, <2>1, <2>3, <3>1, FastKept
    <2> QED BY <1>8, <2>2, <2>3
  <1> QED BY <1>1, <1>10, ReleasingIdle, IdleWritten, AnchorsFollow DEF AllFast

LEMMA CallEndsAnchors ==
  ASSUME Inv1, status = "run", Anchors, NEW k \in DOMAIN acts, acts[k].op = "call", acts[k].level = Len(frames), NEW n, n = k - 1,
         NEW a, SameFast(acts[n], a), acts' = [SubSeq(acts, 1, n) EXCEPT ![n] = a], frames' = Front(frames), functions' = Front(functions),
         UNCHANGED <<status, file, globals, lost>>, SameClosures(objs, objs'), Releasing(work')
  PROVE  Anchors'
  <1> DEFINE fr == frames'
             fs == functions'
             os == objs'
             st == acts'
  <1>1. n \in 1 .. Len(acts) /\ n \in DOMAIN acts /\ n \in Nat /\ k = n + 1
    BY CallerFacts
  <1>2. /\ fr = Front(frames) /\ fs = Front(functions) /\ st = [SubSeq(acts, 1, n) EXCEPT ![n] = a] /\ SameClosures(objs, os)
        /\ fr = frames' /\ fs = functions' /\ os = objs' /\ st = acts'
    OBVIOUS
  <1>3. /\ Shape(acts) /\ acts \in Seq(AnyAct) /\ Len(frames) \in Nat /\ frames # << >> /\ frames \in Seq(AnyStore) /\ functions \in Seq(Nat)
        /\ file \in Nat /\ Len(functions) \in Nat /\ Len(frames) = Len(functions) + file /\ DOMAIN acts = 1 .. Len(acts) /\ Len(acts) \in Nat
    BY RunFacts, KeptTypes, StateFacts DEF Inv1, Heights
  <1> HIDE DEF fr, fs, os, st
  <1>4. \A j \in DOMAIN st : j \in DOMAIN acts /\ j \in 1 .. n /\ SameFast(acts[j], st[j])
    BY <1>1, <1>2, CutSame
  <1>5. \A l \in 1 .. (Len(frames) - 1) : fr[l] = frames[l]
    <2>1. fr = Front(frames) /\ frames \in Seq(AnyStore) /\ frames # << >>
      BY <1>2, <1>3
    <2> QED BY ONLY <2>1, FrontFacts
  <1>6. ASSUME functions # << >> PROVE \A l \in 1 .. (Len(functions) - 1) : fs[l] = functions[l]
    <2>1. fs = Front(functions) /\ functions \in Seq(Nat) /\ functions # << >>
      BY <1>2, <1>3, <1>6
    <2> QED BY ONLY <2>1, FrontFacts
  <1>7. Calm(lost, globals, os)
    BY <1>2 DEF Calm, SameClosures, KeptNames
  <1>8. ASSUME NEW j \in DOMAIN st PROVE Fast(lost, globals, fr, fs, os, file, st[j])
    <2> DEFINE l == acts[j].level
    <2>1. j \in DOMAIN acts /\ j < k /\ SameFast(acts[j], st[j])
      BY <1>1, <1>4
    <2>2. l \in DOMAIN frames /\ l \in Nat /\ l >= 1
      <3>1. l \in DOMAIN frames /\ l \in Nat /\ DOMAIN frames = 1 .. Len(frames)
        BY <2>1, ActPlaced, StateFacts, SMTT(60)
      <3> QED BY <3>1
    <2>3. l < Len(frames)
      <3>1. Nested(acts[j], acts[k])
        BY <1>3, <2>1 DEF Shape
      <3> QED BY <3>1 DEF Nested
    <2>4. fr[l] = frames[l]
      <3> HIDE DEF l
      <3>1. l \in 1 .. (Len(frames) - 1)
        BY ONLY <1>3, <2>2, <2>3
      <3> QED BY <1>5, <3>1
    <2>5. l > file => fs[l - file] = functions[l - file]
      <3>1. SUFFICES ASSUME l > file PROVE fs[l - file] = functions[l - file]
        OBVIOUS
      <3> HIDE DEF l
      <3>2. l - file \in 1 .. (Len(functions) - 1) /\ Len(functions) # 0
        <4>1. Len(functions) \in Nat /\ file \in Nat /\ l \in Nat /\ l < Len(frames) /\ Len(frames) = Len(functions) + file /\ l > file
          BY <1>3, <2>2, <2>3, <3>1
        <4> QED BY ONLY <4>1
      <3>3. functions # << >>
        BY <1>3, <3>2
      <3> QED BY <1>6, <3>2, <3>3
    <2>6. Steady(lost, fr, fs, l)
      <3> HIDE DEF l
      <3> QED BY <2>4, <2>5 DEF Steady, KeptNames
    <2> QED BY <1>7, <2>1, <2>6, FastKept
  <1> QED BY <1>2, <1>8, ReleasingIdle, IdleWritten, AnchorsFollow DEF AllFast

LEMMA FinishCallAnchors ==
  ASSUME Inv1, Anchors, FinishCall, Releasing(work')
  PROVE  Anchors'
  <1> DEFINE k == Len(acts)
             n == k - 1
             h == Top.held[1]
  <1>1. /\ status = "run" /\ Top.op = "call" /\ Top = acts[k] /\ k \in DOMAIN acts /\ Top.level = Len(frames)
        /\ functions' = Front(functions) /\ frames' = Front(frames) /\ objs' = Forget(h) /\ acts' = Front(acts)
        /\ UNCHANGED <<status, file, globals, lost>> /\ h \in AnyValue /\ ValueIn(h, Len(objs))
    BY FinishCallForm
  <1>2. acts \in Seq(AnyAct) /\ n = k - 1
    BY KeptTypes
  <1>3. n \in 1 .. Len(acts) /\ acts[n] \in AnyAct
    BY <1>1, CallerFacts
  <1>4. acts' = [SubSeq(acts, 1, n) EXCEPT ![n] = acts[n]]
    <2>1. Front(acts) = SubSeq(acts, 1, n) /\ [Front(acts) EXCEPT ![n] = acts[n]] = Front(acts)
      BY <1>2, <1>3, FrontPut
    <2> HIDE DEF n
    <2> QED BY <1>1, <2>1
  <1>5. SameFast(acts[n], acts[n])
    BY DEF SameFast
  <1> HIDE DEF h, n, k
  <1>6. SameClosures(objs, objs')
    BY <1>1, ForgetFacts DEF SameClosures
  <1>7. acts[k].op = "call" /\ acts[k].level = Len(frames)
    BY <1>1
  <1> QED BY <1>1, <1>2, <1>4, <1>5, <1>6, <1>7, CallEndsAnchors

LEMMA CatchReturnAnchors ==
  ASSUME Inv1, Anchors, CatchReturn, Releasing(work')
  PROVE  Anchors'
  <1>1. /\ status = "run" /\ functions' = Front(functions) /\ frames' = Front(frames) /\ UNCHANGED <<status, file, globals, lost, objs>>
    BY CatchReturnForm DEF memory
  <1>2. PICK k \in DOMAIN acts : /\ acts[k].op = "call" /\ acts[k].level = Len(frames)
                                 /\ acts' = [SubSeq(acts, 1, k - 1) EXCEPT ![k - 1] = WithVal(acts[k - 1], Top.val)]
    BY CatchReturnForm
  <1> DEFINE n == k - 1
             a == WithVal(acts[n], Top.val)
  <1>3. n = k - 1 /\ acts' = [SubSeq(acts, 1, n) EXCEPT ![n] = a]
    BY <1>2
  <1>4. acts[n] \in AnyAct
    BY <1>1, <1>2, CallerFacts
  <1>5. SameFast(acts[n], a) /\ SameClosures(objs, objs')
    BY <1>1, <1>4, MovedFast DEF SameClosures
  <1> HIDE DEF n, a
  <1> QED BY <1>1, <1>2, <1>3, <1>5, CallEndsAnchors

LEMMA ReturnFromChunkAnchors ==
  ASSUME Inv1, Anchors, ReturnFromChunk, Releasing(work')
  PROVE  Anchors'
  <1> DEFINE ops == {"return"}
             a == [acts[1] EXCEPT !.at = "store"]
             st == acts'
  <1>1. AtStore(ops) /\ st = <<a>> /\ st = acts' /\ UNCHANGED <<status, file, functions, frames, globals, objs, lost>>
    BY DEF ReturnFromChunk, stores, memory
  <1>2. status = "run"
    BY <1>1, StoreFacts
  <1>3. acts[1] \in AnyAct /\ acts[1].op = "chunk"
    <2>1. acts \in Seq(AnyAct) /\ Shape(acts)
      BY <1>2, RunFacts
    <2>2. 1 \in DOMAIN acts /\ \A j \in DOMAIN acts : acts[j] \in AnyAct
      BY <2>1, StackFacts
    <2> QED BY <2>1, <2>2 DEF Shape
  <1>4. Easy(a)
    BY <1>3 DEF AnyAct, Easy, Blocky
  <1> HIDE DEF a, st
  <1>5. AllFast(lost, globals, frames, functions, objs, file, st)
    BY <1>1, <1>4, EasyFast DEF AllFast
  <1> QED BY <1>1, <1>2, <1>5, ReleasingIdle, IdleWritten, AnchorsFollow

LEMMA RunFileAnchors ==
  ASSUME Inv1, RunFile
  PROVE  Anchors'
  <1> DEFINE a == NewAct("chunk", scenario.files[file + 1], "body", NoNames, Len(blocks), Len(frames) + 1)
             b == NewAct("block", scenario.files[file + 1], "stat", NoNames, Len(blocks) + 1, Len(frames) + 1)
             st == acts'
  <1>1. status' = "run" /\ st = <<a, b>> /\ st = acts' /\ work' = << >>
    BY DEF RunFile
  <1>2. Easy(a) /\ Easy(b)
    BY DEF Easy, NewAct, Blocky
  <1> HIDE DEF a, b, st
  <1>3. \A k \in DOMAIN st : st[k] = a \/ st[k] = b
    BY <1>1
  <1>4. AllFast(lost', globals', frames', functions', objs', file', st)
    BY <1>2, <1>3, EasyFast DEF AllFast
  <1>5. Idle(work')
    BY <1>1 DEF Idle
  <1> QED BY <1>1, <1>4, <1>5, IdleWritten, AnchorsFollow

-----------------------------------------------------------------------------
(* The invariant, part 3: the books are in order, or the run is about to   *)
(* follow a pointer to a deleted cell, in the body of a function called    *)
(* through a pointer or at the top level of a file after a failure inside  *)
(* a call.                                                                 *)
Inv3 == Alive => Good \/ Astray

LEMMA Inv3Init ==
  ASSUME Init
  PROVE  Inv3
  <1>1. acts = << >> /\ objs = << >> /\ work = << >> /\ status = "idle"
    BY DEF Init
  <1>2. DOMAIN << >> = {}
    OBVIOUS
  <1>3. Books
    BY <1>1, <1>2 DEF Books
  <1>4. Orderly(work)
    BY <1>1, EmptyList, ReleasingOrderly
  <1>5. Anchors
    BY <1>1, <1>2 DEF Anchors
  <1> QED BY <1>3, <1>4, <1>5 DEF Inv3, Good

(* Nothing is deleted while no update is pending.                          *)
LEMMA RestIsGood ==
  ASSUME Inv3, Alive, work = << >>
  PROVE  Good
  <1>1. DOMAIN << >> = {}
    OBVIOUS
  <1> QED BY <1>1 DEF Inv3, Astray, Doomed

LEMMA FileGood ==
  ASSUME Inv1, Inv1', Counted, Good,
         RunFile \/ FinishFile \/ FailFile \/ Unwind \/ Destroy \/ DestroyFrame \/ ThrowError
  PROVE  Good'
  <1>1. Books /\ Anchors
    BY DEF Good
  <1>2. CASE RunFile
    <2>1. work' = << >>
      BY <1>2 DEF RunFile
    <2> QED BY <1>1, <1>2, <2>1, EmptyList, RunFileBooks, RunFileAnchors, ReleasingOrderly DEF Good
  <1>3. ASSUME Books', Releasing(work'), status' # "run" PROVE Good'
    BY <1>3, AnchorsAtRest, ReleasingIdle, ReleasingOrderly DEF Good
  <1>4. CASE FinishFile \/ FailFile
    <2>1. work' = << >> /\ status' # "run"
      BY <1>4 DEF FinishFile, FailFile, Running
    <2>2. Books' /\ Releasing(work')
      BY <1>1, <1>4, <2>1, FinishFileBooks, EmptyList
    <2> QED BY <1>3, <2>1, <2>2
  <1>5. CASE Unwind
    <2>1. status' # "run"
      BY <1>5 DEF Unwind
    <2> QED BY <1>1, <1>3, <1>5, <2>1, UnwindBooks
  <1>6. CASE Destroy \/ DestroyFrame
    <2>1. status' # "run"
      BY <1>6 DEF Destroy, DestroyFrame
    <2> QED BY <1>1, <1>3, <1>6, <2>1, DestroyBooks
  <1>7. CASE ThrowError
    <2>1. status' # "run" /\ work' = << >>
      BY <1>7 DEF ThrowError, AtStat, AtBlock, Running
    <2>2. Books' /\ Releasing(work')
      BY <1>1, <1>7, <2>1, ThrowErrorBooks, EmptyList
    <2> QED BY <1>3, <2>1, <2>2
  <1> QED BY <1>2, <1>4, <1>5, <1>6, <1>7

LEMMA EvalGood ==
  ASSUME Inv1, Inv1', Counted, Good, VisitSecond \/ EvalValue \/ EvalFunction \/ EvalCall \/ FillLocal \/ DefineFunction
  PROVE  Good'
  <1>1. Books /\ Anchors
    BY DEF Good
  <1>2. CASE EvalValue
    <2>1. \E v : work' = <<Add(v)>>
      BY <1>2 DEF EvalValue
    <2>2. Adding(work')
      BY <2>1 DEF Adding, Add
    <2> QED BY <1>1, <1>2, <2>2, EvalValueBooks, EvalValueAnchors, AddingOrderly DEF Good
  <1>3. CASE EvalFunction \/ DefineFunction
    <2>1. work' = << >>
      BY <1>3 DEF EvalFunction, DefineFunction, AtStat, AtBlock, Running
    <2> QED BY <1>1, <1>3, <2>1, EmptyList, EvalFunctionBooks, EvalFunctionAnchors, DefineFunctionBooks, DefineFunctionAnchors,
               ReleasingOrderly DEF Good
  <1>5. CASE VisitSecond \/ FillLocal
    <2>1. work' = << >>
      BY <1>5, VisitSecondForm, FillLocalForm
    <2> QED BY <1>1, <1>5, <2>1, EmptyList, VisitSecondBooks, VisitSecondAnchors, FillLocalBooks, FillLocalAnchors, ReleasingOrderly DEF Good
  <1>4. CASE EvalCall
    <2>1. PICK f, a : work' = CallCopies(f, a) \/ work' = Front(CallCopies(f, a))
      BY <1>4 DEF EvalCall
    <2>2. Adding(work')
      <3> DEFINE cc == CallCopies(f, a)
      <3>1. cc \in Seq({Add(f), Add(a)}) /\ Len(cc) = 5
        BY DEF CallCopies
      <3>2. Front(cc) = [i \in 1 .. 4 |-> cc[i]] /\ DOMAIN cc = 1 .. 5 /\ \A i \in 1 .. 5 : cc[i] \in {Add(f), Add(a)}
        BY <3>1 DEF CallCopies, Front
      <3> HIDE DEF cc
      <3>3. work' = cc \/ work' = Front(cc)
        BY <2>1 DEF cc
      <3>4. \A i \in DOMAIN work' : work'[i] \in {Add(f), Add(a)}
        BY <3>2, <3>3
      <3> QED BY <3>4 DEF Adding, Add
    <2> QED BY <1>1, <1>4, <2>2, EvalCallBooks, EvalCallAnchors, AddingOrderly, SMTT(60) DEF Good
  <1> QED BY <1>2, <1>3, <1>4, <1>5

LEMMA FlowGood ==
  ASSUME Inv1, Inv1', Counted, Good,
         \/ Enter \/ StartFor \/ Round \/ NextRound \/ EndFor \/ FinishBlock \/ FinishCall
         \/ CatchReturn \/ ReturnFromChunk \/ Discard
  PROVE  Good'
  <1>1. Books /\ Anchors
    BY DEF Good
  <1>2. CASE Enter \/ StartFor \/ Round
    <2>1. work' = << >>
      BY <1>2 DEF Enter, StartFor, Round, AtStat, AtBlock, AtFor, Running
    <2>2. Orderly(work')
      BY <2>1, EmptyList, ReleasingOrderly
    <2> QED BY <1>1, <1>2, <2>2, EnterBooks, EnterAnchors, StartForBooks, StartForAnchors, RoundBooks, RoundAnchors DEF Good
  <1>3. CASE NextRound
    <2>1. cells[Top.cell].refs > 0
      BY <1>1, <1>3, LoopCellHeld
    <2> QED BY <1>1, <1>3, <2>1, NextRoundBooks, NextRoundAnchors DEF Good
  <1>4. CASE EndFor \/ FinishBlock
    BY <1>1, <1>4, BlockEndsBooks, BlockEndsAnchors, ReleasingOrderly DEF Good
  <1>5. CASE FinishCall
    BY <1>1, <1>5, FinishCallBooks, FinishCallAnchors, ReleasingOrderly DEF Good
  <1>6. CASE CatchReturn
    BY <1>1, <1>6, CatchReturnBooks, CatchReturnAnchors, ReleasingOrderly DEF Good
  <1>7. CASE ReturnFromChunk
    BY <1>1, <1>7, ReturnFromChunkBooks, ReturnFromChunkAnchors, ReleasingOrderly DEF Good
  <1>8. CASE Discard
    BY <1>1, <1>8, DiscardBooks, DiscardAnchors, ReleasingOrderly DEF Good
  <1> QED BY <1>2, <1>3, <1>4, <1>5, <1>6, <1>7, <1>8

(* A step of a statement does not change which call it runs in.            *)
LEMMA CalledSame ==
  ASSUME Inv1, status = "run", Top.op \in Blocky, NEW a, a.op = Top.op, acts' = SetTop(a)
  PROVE  CallIndex' = CallIndex /\ (CalledByPointer' <=> CalledByPointer) /\ acts' # << >>
  <1> DEFINE st == acts'
  <1>1. st = SetTop(a) /\ st = acts' /\ Top = acts[Len(acts)] /\ Len(acts) \in DOMAIN acts
    BY RunFacts
  <1> HIDE DEF st
  <1>2. DOMAIN st = DOMAIN acts /\ \A k \in DOMAIN acts : st[k] = IF k = Len(acts) THEN a ELSE acts[k]
    BY <1>1, TopSet
  <1>3. \A k \in DOMAIN acts : st[k].op = acts[k].op /\ (acts[k].op = "call" => st[k] = acts[k])
    BY <1>1, <1>2 DEF Blocky
  <1>4. CallIndex' = CallIndex
    BY <1>1, <1>2, <1>3 DEF CallIndex
  <1>5. \A k \in CallIndex : acts'[k] = acts[k]
    BY <1>1, <1>3 DEF CallIndex
  <1>6. CalledByPointer' <=> CalledByPointer
    BY <1>4, <1>5 DEF CalledByPointer
  <1>7. acts' # << >>
    BY <1>1, <1>2
  <1> QED BY <1>4, <1>6, <1>7

(* An assignment is to a cell that is there, or in the body of a function  *)
(* called through a pointer, or at the top level after a failure inside a  *)
(* call.                                                                   *)
LEMMA StoreGood ==
  ASSUME Inv1, Inv1', Counted, Good, StoreLocal \/ StoreAssign \/ FillAssign, Alive'
  PROVE  Good' \/ Astray'
  <1>1. Books /\ Anchors
    BY DEF Good
  <1>2. CASE StoreLocal
    <2>1. PICK c, v : work' = <<Write(c, v), Add(v), Drop(v)>>
      BY <1>2 DEF StoreLocal
    <2>2. Orderly(work')
      BY <2>1, LocalOrderly
    <2> QED BY <1>1, <1>2, <2>2, StoreLocalBooks, StoreLocalAnchors DEF Good
  <1>3. CASE StoreAssign
    <2> DEFINE c == Top.cell
               v == Top.val
    <2>1. /\ Anchors' /\ status = "run" /\ c \in DOMAIN cells
          /\ AnchoredIn(lost, globals, frames, functions, objs, file, c, Len(frames))
      BY <1>1, <1>3, StoreAssignAnchors
    <2>2. work' = <<DropOld(c), Write(c, v), Add(v), Drop(v)>> /\ cells' = cells /\ failed' = failed /\ status' = status
      BY <1>3 DEF StoreAssign, AssignOps, memory
    <2>3. Orderly(work')
      BY <2>2, AssignOrderly
    <2>4. CASE cells[c].refs = 0
      <3>1. Stray
        BY <1>1, <2>1, <2>4, AnchoredFreed
      <3>2. Doomed'
        <4> DEFINE w == work'
        <4>1. 1 \in DOMAIN w /\ w[1] = DropOld(c)
          BY <2>2
        <4>2. w[1].op = "dropold" /\ w[1].x = c
          BY <4>1 DEF DropOld
        <4> QED BY <2>2, <2>4, <4>1, <4>2 DEF Doomed
      <3>3. CallIndex' = CallIndex /\ (CalledByPointer' <=> CalledByPointer)
        <4> DEFINE a == Stored
                   ops == {"assign"}
        <4>1. AtStore(ops) /\ acts' = SetTop(a)
          BY <1>3 DEF StoreAssign
        <4>2. a.op = Top.op
          BY DEF Stored, Advanced
        <4> HIDE DEF a, ops
        <4>3. Top.op \in Blocky
          BY <4>1, StoreFacts
        <4> QED BY <2>1, <4>1, <4>2, <4>3, CalledSame
      <3> QED BY <2>2, <3>1, <3>2, <3>3 DEF Astray, Stray
    <2>5. CASE cells[c].refs > 0
      BY <1>1, <1>3, <2>1, <2>3, <2>5, StoreAssignBooks DEF Good
    <2>6. cells[c].refs \in Nat
      BY <2>1, KeptTypes, StateFacts, LenFacts DEF AnyCell
    <2> QED BY <2>4, <2>5, <2>6
  <1>4. CASE FillAssign
    <2>1. cells[Top.fill].refs > 0 /\ work' = << >>
      BY <1>4, FillAssignForm DEF Alive
    <2> QED BY <1>1, <1>4, <2>1, EmptyList, FillAssignBooks, FillAssignAnchors, ReleasingOrderly DEF Good
  <1> QED BY <1>2, <1>3, <1>4

LEMMA Inv3Next ==
  ASSUME Inv1, Inv1', Inv2, Inv3, [Next]_vars
  PROVE  Inv3'
  <1> SUFFICES ASSUME Alive' PROVE Good' \/ Astray'
    BY DEF Inv3
  <1>1. CASE Update
    <2>1. Alive /\ Counted
      BY <1>1, AliveBefore DEF Step, Inv2
    <2>2. CASE Good
      BY <1>1, <2>1, <2>2, UpdateGood
    <2>3. CASE Astray
      BY <1>1, <2>3, UpdateMoves, DoomedStays DEF Astray
    <2> QED BY <2>1, <2>2, <2>3 DEF Inv3
  <1>2. CASE Step /\ ~ Update
    <2>1. Alive /\ Counted
      BY <1>2, AliveBefore DEF Inv2
    <2>2. ~ (ReadFreed \/ CallStale \/ Crash \/ CutRun)
      BY DEF Alive, ReadFreed, CallStale, Crash, CutRun
    <2>3. work = << >>
      <3> DEFINE A == \/ RunFile \/ FinishFile \/ FailFile \/ Unwind \/ Destroy \/ DestroyFrame \/ ThrowError
                 E == \/ VisitSecond \/ EvalValue \/ EvalFunction \/ EvalCall \/ DefineFunction
                      \/ StoreLocal \/ FillLocal \/ StoreAssign \/ FillAssign
                 F == \/ Enter \/ StartFor \/ Round \/ NextRound \/ EndFor \/ FinishBlock \/ FinishCall
                      \/ CatchReturn \/ ReturnFromChunk \/ Discard
      <3>1. A => work = << >>
        BY SMTT(60) DEF RunFile, FinishFile, FailFile, Unwind, Destroy, DestroyFrame, ThrowError, AtStat, AtBlock, Running
      <3>2. E => work = << >>
        BY ZenonT(60) DEF VisitSecond, EvalValue, EvalFunction, EvalCall, DefineFunction, StoreLocal, FillLocal, StoreAssign, FillAssign,
               AtStat, AtStore, AtFill, AtBlock, Running
      <3>3. F => work = << >>
        BY DEF Enter, StartFor, Round, NextRound, EndFor, FinishBlock, FinishCall, CatchReturn, ReturnFromChunk, Discard,
               AtStat, AtStore, AtEnd, AtFor, AtBlock, Running
      <3> QED BY <1>2, <2>2, <3>1, <3>2, <3>3, SMTT(60) DEF Step
    <2>4. Good
      BY <2>1, <2>3, RestIsGood
    <2> QED BY <1>2, <2>1, <2>2, <2>4, FileGood, EvalGood, FlowGood, StoreGood DEF Step
  <1>3. CASE UNCHANGED vars
    <2>1. /\ acts' = acts /\ cells' = cells /\ objs' = objs /\ work' = work /\ lost' = lost /\ globals' = globals
          /\ frames' = frames /\ functions' = functions /\ file' = file /\ status' = status /\ failed' = failed
      BY <1>3 DEF vars, control, stores, memory
    <2>2. (Books' <=> Books) /\ (Orderly(work') <=> Orderly(work))
      BY <2>1 DEF Books
    <2>3. Alive' <=> Alive
      BY <2>1 DEF Alive
    <2>4. Anchors' <=> Anchors
      BY <2>1, <2>3 DEF Anchors
    <2>5. Astray' <=> Astray
      BY <2>1 DEF Astray, Doomed, Stray, CalledByPointer, CallIndex
    <2> QED BY <2>2, <2>3, <2>4, <2>5 DEF Inv3, Good
  <1> QED BY <1>1, <1>2, <1>3 DEF Next, Ended

LEMMA Inv3Holds == Spec => []Inv3
  <1>1. Init => Inv3
    BY Inv3Init
  <1>2. Inv1 /\ Inv1' /\ Inv2 /\ Inv3 /\ [Next]_vars => Inv3'
    BY Inv3Next
  <1> QED BY <1>1, <1>2, Inv1Holds, Inv2Holds, PTL DEF Spec

-----------------------------------------------------------------------------
(* The functions that run.                                                 *)
LEMMA BooksKeepRunning ==
  ASSUME Inv1, Inv3
  PROVE  RunningFunctionsAreAlive
  <1> SUFFICES ASSUME Settled, ~ failed, NEW k \in CallIndex, acts[k].held[1] # Nil PROVE objs[functions[acts[k].level - file]].live
    BY DEF RunningFunctionsAreAlive
  <1> DEFINE n == k - 1
             o == acts[k].held[1]
  <1>1. k \in DOMAIN acts /\ acts[k].op = "call"
    BY DEF CallIndex
  <1>2. status = "run"
    <2>1. acts # << >>
      BY <1>1
    <2> QED BY <2>1 DEF Settled, Inv1, Quiet
  <1>3. Books
    BY RestIsGood DEF Settled, Alive, Good
  <1>4. o = functions[acts[k].level - file] /\ acts[k].held \in Seq(AnyValue) /\ Len(acts[k].held) = 4
        /\ \A i \in DOMAIN acts[k].held : ValueIn(acts[k].held[i], Len(objs))
    BY <1>1, <1>2, CallerFacts
  <1>5. 1 \in DOMAIN acts[k].held
    BY <1>4, LenFacts
  <1>6. o \in DOMAIN objs
    BY <1>4, <1>5, StateFacts DEF ValueIn
  <1>7. acts[k].held[1] = o
    OBVIOUS
  <1> HIDE DEF o
  <1>8. objs[o].live
    BY <1>1, <1>3, <1>5, <1>6, <1>7, CallLives
  <1> QED BY <1>4, <1>8

(* An update reaches a cell that is gone only in the body of a function    *)
(* called through a pointer, or at the top level of a file after a failure *)
(* inside a call.                                                          *)
LEMMA UpdateOfFreed ==
  ASSUME Inv1, Inv2, Inv3, Update, ~ Alive'
  PROVE  Stray /\ UNCHANGED <<failed, acts, functions>>
  <1>1. Moves /\ Alive /\ Counted
    BY UpdateMoves, AliveBefore DEF Step, Inv2
  <1>2. work # << >> /\ W \in AnyUpdate /\ W = work[1] /\ 1 \in DOMAIN work
    BY <1>1, WorkFacts DEF Moves
  <1>3. UNCHANGED <<failed, acts, functions>>
    BY <1>1 DEF Moves
  <1>4. CASE Astray
    BY <1>3, <1>4 DEF Astray
  <1>5. CASE Good
    <2>1. Books /\ Anchors
      BY <1>5 DEF Good
    <2>2. status' # status
      BY <1>1 DEF Alive
    <2>3. CASE ReleaseOld \/ WriteCell
      <3>1. W.op \in {"write", "dropold"} /\ cells[W.x].refs = 0
        BY <2>2, <2>3, ReleaseOldForm, WriteCellForm
      <3>2. Doomed
        BY <1>2, <3>1 DEF Doomed
      <3> QED BY <1>1, <1>3, <2>1, <3>2, DoomedIsStray
    <2>4. CASE RemoveCellReference
      <3> DEFINE c == W.x
      <3>1. W.op = "unref" /\ cells[c].refs = 0 /\ c \in DOMAIN cells
        BY <2>2, <2>4, RemoveCellReferenceForm
      <3>2. work[1] = Unref(c)
        BY <1>2, <2>4, RemoveCellReferenceForm, SMTT(60) DEF AnyUpdate, Unref
      <3> HIDE DEF c
      <3>3. cells[c].refs > 0
        BY <1>1, <1>2, <3>1, <3>2, HeldCell
      <3> QED BY <3>1, <3>3
    <2>5. CASE AddReference \/ RemoveReference
      BY <2>2, <2>5 DEF AddReference, RemoveReference
    <2> QED BY <2>3, <2>4, <2>5 DEF Update
  <1> QED BY <1>1, <1>4, <1>5 DEF Inv3

(* So does a name, and a variable without a value.                         *)
LEMMA NameOfFreed ==
  ASSUME Inv1, Inv3, ReadFreed
  PROVE  Stray /\ acts # << >>
  <1>1. status = "run" /\ work = << >>
    BY DEF ReadFreed, AtStat, AtBlock, Running
  <1>2. Books
    BY <1>1, RestIsGood DEF Alive, Good
  <1>3. functions # << >> /\ ~ objs[Last(functions)].live
    BY DEF ReadFreed, Readable, ReadsFreed
  <1>4. ~ objs[functions[Len(functions)]].live
    BY <1>3 DEF Last
  <1>5. acts # << >>
    BY <1>1, RunFacts
  <1> QED BY <1>1, <1>2, <1>3, <1>4, <1>5, StrayFunction

LEMMA FillOfFreed ==
  ASSUME Inv1, Inv2, Inv3, FillAssign, ~ Alive'
  PROVE  Stray /\ failed' = failed /\ CallIndex' = CallIndex /\ (CalledByPointer' <=> CalledByPointer) /\ acts' # << >>
  <1> DEFINE c == Top.fill
             a == Advanced
  <1>1. /\ status = "run" /\ work = << >> /\ Top.op \in Blocky /\ c \in DOMAIN cells /\ acts' = SetTop(a) /\ failed' = failed
        /\ status' = IF cells[c].refs = 0 THEN "dangling" ELSE status
    BY FillAssignForm
  <1>2. Alive /\ cells[c].refs = 0
    BY <1>1 DEF Alive
  <1>3. Counted /\ Books /\ Anchors
    BY <1>1, <1>2, RestIsGood DEF Inv2, Good
  <1>4. AnchoredIn(lost, globals, frames, functions, objs, file, c, Len(frames))
    BY <1>3, FillAssignAnchors
  <1>5. a.op = Top.op
    BY DEF Advanced
  <1> HIDE DEF c, a
  <1>6. Stray
    BY <1>1, <1>2, <1>3, <1>4, AnchoredFreed
  <1> QED BY <1>1, <1>5, <1>6, CalledSame

StatusEnds == ReadFreed \/ CallStale \/ Crash \/ CutRun \/ FillAssign

LEMMA EndsByStep ==
  ASSUME Step, ~ Alive'
  PROVE  StatusEnds \/ Update
  <1>1. Alive
    BY AliveBefore
  <1>2. ~ (RunFile \/ FinishFile \/ FailFile \/ Unwind \/ Destroy \/ DestroyFrame \/ ThrowError)
    BY <1>1, SMTT(60) DEF RunFile, FinishFile, FailFile, Unwind, Destroy, DestroyFrame, ThrowError, Alive
  <1>3. ~ (VisitSecond \/ EvalValue \/ EvalFunction \/ EvalCall \/ DefineFunction \/ StoreLocal \/ FillLocal \/ StoreAssign \/ Discard)
    BY <1>1 DEF VisitSecond, EvalValue, EvalFunction, EvalCall, DefineFunction, StoreLocal, FillLocal, StoreAssign, Discard, Alive
  <1>4. ~ (Enter \/ StartFor \/ Round \/ NextRound \/ EndFor \/ FinishBlock \/ FinishCall \/ CatchReturn \/ ReturnFromChunk)
    BY <1>1 DEF Enter, StartFor, Round, NextRound, EndFor, FinishBlock, FinishCall, CatchReturn, ReturnFromChunk, Alive
  <1> QED BY <1>2, <1>3, <1>4 DEF Step, StatusEnds

LEMMA TouchedNext ==
  ASSUME Inv1, Inv2, Inv3, NothingFreedIsTouched, [Next]_vars
  PROVE  NothingFreedIsTouched'
  <1>1. CASE Alive'
    BY <1>1 DEF Alive, NothingFreedIsTouched
  <1>2. CASE UNCHANGED vars
    BY <1>2 DEF vars, control, NothingFreedIsTouched, CalledByPointer, CallIndex
  <1>3. CASE Step /\ ~ Alive'
    <2>1. CASE ReadFreed
      <3>1. UNCHANGED <<failed, acts>>
        BY <2>1 DEF ReadFreed
      <3> QED BY <2>1, <3>1, NameOfFreed DEF Stray, NothingFreedIsTouched, CalledByPointer, CallIndex
    <2>2. CASE CallStale \/ Crash \/ CutRun
      BY <2>2 DEF CallStale, Crash, CutRun, NothingFreedIsTouched
    <2>3. CASE Update
      <3>1. Stray /\ UNCHANGED <<failed, acts>>
        BY <1>3, <2>3, UpdateOfFreed
      <3>2. acts # << >>
        BY <3>1, RunFacts DEF Stray
      <3> QED BY <3>1, <3>2 DEF Stray, NothingFreedIsTouched, CalledByPointer, CallIndex
    <2>4. CASE FillAssign
      BY <1>3, <2>4, FillOfFreed DEF Stray, NothingFreedIsTouched
    <2> QED BY <1>3, <2>1, <2>2, <2>3, <2>4, EndsByStep DEF StatusEnds
  <1> QED BY <1>1, <1>2, <1>3 DEF Next, Ended

(* Whatever the body of a function assigns, and whatever it calls: as long *)
(* as no file has thrown, GC::remove_reference deletes no function that    *)
(* was called by its name, or was anonymous, before call_function has      *)
(* popped it from _functions, for the activation that calls it holds       *)
(* counted copies.                                                         *)
THEOREM RunningFunctionsLive ==
  Spec => []RunningFunctionsAreAlive
  <1>1. Inv1 /\ Inv3 => RunningFunctionsAreAlive
    BY BooksKeepRunning
  <1> QED BY <1>1, Inv1Holds, Inv3Holds, PTL

(* For every sequence of files, with exceptions and ~Interpreter wherever  *)
(* they fall: Value::remove_reference, an assignment and lookup_name reach *)
(* no cell and no closure that has been deleted, except in the body of a   *)
(* function called through a pointer, which its own body may have deleted, *)
(* and at the top level of a file run after another has thrown inside a    *)
(* call, where lookup_name asks the function left on _functions.           *)
THEOREM FreedIsNotTouched ==
  Spec => []NothingFreedIsTouched
  <1>1. Init => NothingFreedIsTouched
    BY DEF Init, NothingFreedIsTouched
  <1>2. Inv1 /\ Inv2 /\ Inv3 /\ NothingFreedIsTouched /\ [Next]_vars => NothingFreedIsTouched'
    BY TouchedNext
  <1> QED BY <1>1, <1>2, Inv1Holds, Inv2Holds, Inv3Holds, PTL DEF Spec

-----------------------------------------------------------------------------
(* From the books to the holders of a function.                            *)
ValHolders(o) == {k \in DOMAIN acts : acts[k].val = o}
HeldPlaces(o) == {e \in (DOMAIN acts) \X (1 .. 4) : e[2] \in DOMAIN acts[e[1]].held /\ acts[e[1]].held[e[2]] = o}
CellHolders(o) == {c \in DOMAIN cells : cells[c].refs > 0 /\ cells[c].value = o}

LEMMA CopiesSplit ==
  ASSUME Inv1, NEW o
  PROVE  Copies(acts, o) = Cardinality(ValHolders(o)) + Cardinality(HeldPlaces(o))
  <1> DEFINE V == ValHolders(o)
             H == HeldPlaces(o)
             Z == V \X {0}
             X == SlotsIn(acts, o)
  <1>1. acts \in Seq(AnyAct) /\ IsFiniteSet(X) /\ Copies(acts, o) = Cardinality(X)
    BY KeptTypes, CopiesType DEF Copies
  <1>2. \A k \in DOMAIN acts : acts[k].held \in Seq(AnyValue) /\ Len(acts[k].held) =< 4
    BY <1>1, KeptTypes, LenFacts, ActFacts
  <1>3. \A k \in DOMAIN acts : 0 \notin DOMAIN acts[k].held
    BY <1>2, LenFacts
  <1>4. X = Z \cup H
    <2>1. ASSUME NEW e \in X PROVE e \in Z \cup H
      <3>1. e[1] \in DOMAIN acts /\ e[2] \in 0 .. 4 /\ e = <<e[1], e[2]>> /\ e[2] \in SlotsOf(acts[e[1]], o)
        BY DEF SlotsIn
      <3>2. CASE e[2] = 0
        <4>1. acts[e[1]].val = o
          BY <1>3, <3>1, <3>2 DEF SlotsOf
        <4> QED BY <3>1, <3>2, <4>1 DEF ValHolders
      <3>3. CASE e[2] # 0
        <4>1. e[2] \in 1 .. 4 /\ e[2] \in DOMAIN acts[e[1]].held /\ acts[e[1]].held[e[2]] = o
          BY <3>1, <3>3 DEF SlotsOf
        <4> QED BY <3>1, <4>1 DEF HeldPlaces
      <3> QED BY <3>2, <3>3
    <2>2. ASSUME NEW e \in Z PROVE e \in X
      <3>1. e[1] \in DOMAIN acts /\ acts[e[1]].val = o /\ e[2] = 0 /\ e = <<e[1], e[2]>>
        BY DEF ValHolders
      <3>2. e[2] \in SlotsOf(acts[e[1]], o) /\ e[2] \in 0 .. 4
        BY <3>1 DEF SlotsOf
      <3> QED BY <3>1, <3>2 DEF SlotsIn
    <2>3. ASSUME NEW e \in H PROVE e \in X
      <3>1. e[1] \in DOMAIN acts /\ e[2] \in 1 .. 4 /\ e = <<e[1], e[2]>> /\ e[2] \in DOMAIN acts[e[1]].held /\ acts[e[1]].held[e[2]] = o
        BY DEF HeldPlaces
      <3>2. e[2] \in SlotsOf(acts[e[1]], o) /\ e[2] \in 0 .. 4
        BY <3>1 DEF SlotsOf
      <3> QED BY <3>1, <3>2 DEF SlotsIn
    <2> HIDE DEF X, Z, H
    <2> QED BY <2>1, <2>2, <2>3
  <1>5. Z \cap H = {}
    BY DEF HeldPlaces
  <1>6. IsFiniteSet(V)
    <2>1. DOMAIN acts = 1 .. Len(acts) /\ Len(acts) \in Nat
      BY <1>1, LenFacts
    <2>2. IsFiniteSet(1 .. Len(acts)) /\ V \in SUBSET (1 .. Len(acts))
      BY <2>1, FS_Interval DEF ValHolders
    <2> QED BY <2>2, FS_Subset
  <1> HIDE DEF V, H, X
  <1>7. IsFiniteSet(Z) /\ Cardinality(Z) = Cardinality(V) /\ Cardinality(V) \in Nat
    <2>1. IsFiniteSet({0}) /\ Cardinality({0}) = 1
      BY FS_Singleton
    <2>2. IsFiniteSet(Z) /\ Cardinality(Z) = Cardinality(V) * Cardinality({0})
      BY <1>6, <2>1, FS_Product
    <2>3. Cardinality(V) \in Nat
      BY <1>6, FS_CardinalityType
    <2> QED BY <2>1, <2>2, <2>3
  <1> HIDE DEF Z
  <1>8. IsFiniteSet(H)
    BY <1>1, <1>4, FS_Subset
  <1>9. Cardinality(X) = Cardinality(Z) + Cardinality(H)
    BY <1>4, <1>5, <1>7, <1>8, DisjointUnion
  <1> QED BY <1>1, <1>7, <1>9 DEF V, H

LEMMA BooksCount ==
  ASSUME Inv1, Inv3
  PROVE  FunctionsAreCounted
  <1> SUFFICES ASSUME Settled, NEW o \in DOMAIN objs
               PROVE  objs[o].count = Cardinality(CellHolders(o)) + Cardinality(ValHolders(o)) + Cardinality(HeldPlaces(o)) + objs[o].leaked
    BY DEF FunctionsAreCounted, CellHolders, ValHolders, HeldPlaces
  <1>1. Books /\ work = << >>
    BY RestIsGood DEF Settled, Alive, Good
  <1>2. objs[o].count = Cardinality(Keepers(cells, << >>, o)) + Copies(acts, o) + objs[o].leaked
    BY <1>1, SettledBook
  <1>3. Keepers(cells, << >>, o) = CellHolders(o)
    <2> DEFINE w == << >>
    <2>1. NoWrites(w)
      BY EmptyList
    <2> HIDE DEF w
    <2>2. \A c : Keeps(cells, w, o, c) <=> c \in DOMAIN cells /\ cells[c].refs > 0 /\ cells[c].value = o
      BY <2>1, KeepsPlain
    <2>3. Keepers(cells, w, o) = CellHolders(o)
      BY <2>2 DEF Keepers, CellHolders
    <2> QED BY <2>3 DEF w
  <1>4. Copies(acts, o) = Cardinality(ValHolders(o)) + Cardinality(HeldPlaces(o))
    BY CopiesSplit
  <1>5. IsFiniteSet(CellHolders(o)) /\ IsFiniteSet(ValHolders(o)) /\ IsFiniteSet(HeldPlaces(o))
    <2>1. DOMAIN acts = 1 .. Len(acts) /\ Len(acts) \in Nat /\ DOMAIN cells = 1 .. Len(cells) /\ Len(cells) \in Nat
      BY KeptTypes, LenFacts
    <2>2. IsFiniteSet(DOMAIN acts) /\ IsFiniteSet(DOMAIN cells) /\ IsFiniteSet(1 .. 4)
      <3>1. \A n \in Nat : IsFiniteSet(1 .. n)
        BY FS_Interval
      <3>2. 4 \in Nat
        OBVIOUS
      <3> QED BY ONLY <2>1, <3>1, <3>2
    <2>3. IsFiniteSet((DOMAIN acts) \X (1 .. 4))
      BY <2>2, FS_Product
    <2>4. CellHolders(o) \in SUBSET DOMAIN cells /\ ValHolders(o) \in SUBSET DOMAIN acts /\ HeldPlaces(o) \in SUBSET ((DOMAIN acts) \X (1 .. 4))
      BY DEF CellHolders, ValHolders, HeldPlaces
    <2> QED BY <2>2, <2>3, <2>4, FS_Subset
  <1>6. Cardinality(CellHolders(o)) \in Nat /\ Cardinality(ValHolders(o)) \in Nat /\ Cardinality(HeldPlaces(o)) \in Nat
    BY <1>5, FS_CardinalityType
  <1>7. objs[o].leaked \in Nat
    BY StateFacts DEF AnyObj
  <1> QED BY ONLY <1>2, <1>3, <1>4, <1>6, <1>7

(* Whatever the files copy, assign, pass, capture and return, and also     *)
(* after exceptions: once the updates of a statement are done, the GC's    *)
(* count of a function is the number of cells, of values and of copies of  *)
(* the interpreter that hold it, plus the references that a call without   *)
(* results, a local declared twice, a for variable and an assignment with  *)
(* too few values have forgotten.                                          *)
THEOREM FunctionCountsAreExact ==
  Spec => []FunctionsAreCounted
  <1>1. Inv1 /\ Inv3 => FunctionsAreCounted
    BY BooksCount
  <1> QED BY <1>1, Inv1Holds, Inv3Holds, PTL
=============================================================================
