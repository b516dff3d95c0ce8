---------------------------- MODULE Interpreter ----------------------------
(***************************************************************************)
(* The control of LuaPP's tree-walking interpreter (interpreter.cpp): the  *)
(* stack of current blocks, the frames of local variables and the stack of *)
(* functions, as statements are visited, functions called, and Break,      *)
(* Goto, Return and type errors thrown as C++ exceptions through the       *)
(* recursive visit methods.                                                *)
(*                                                                         *)
(* `stack` is the C++ call stack: one record per visit, process or call    *)
(* method that has a handler or work left to do.  An exception unwinds one *)
(* record per step.  Conditions, loop limits and iterator results are      *)
(* arbitrary.                                                              *)
(***************************************************************************)
EXTENDS Program, SequencesExt

CONSTANTS MaxStack   \* bound: a run is cut when the C++ stack grows past it

ASSUME MaxStackAssumption == MaxStack \in Nat \ {0}

VARIABLES prog,          \* the chunk, accepted by the analyzer
          status,        \* how the run stands
          exn,           \* the C++ exception in flight
          stack,         \* the C++ activations
          blocks,        \* _blocks
          local_values,  \* _local_values: per frame, the locals of each block
          functions,     \* _functions
          defined,       \* functions a call can reach: those created so far
          escaped        \* history: an exception other than Return left a function

stores == <<local_values, functions>>
vars == <<prog, status, exn, stack, blocks, stores, defined, escaped>>

Status == {"start", "run", "done", "failed", "unbalanced", "freed", "crashed", "cut"}

Exception == [kind: {"None", "Break", "Goto", "Return", "BadType"}, label: Label \cup {Nil}]
None == [kind |-> "None", label |-> Nil]
Throw(kind) == exn' = [kind |-> kind, label |-> Nil]

(* The loop methods.  "process_for_head" is process_for_loop as long as it *)
(* evaluates its step and has not pushed its block yet.                    *)
PlainLoop == {"process_while", "process_repeat", "process_for_head"}
ForLoop == {"process_for_loop", "process_for_in"}
Loop == PlainLoop \cup ForLoop
Method == Loop \cup {"visitChunk", "visitBlock", "call_function", "expect_failure"}
Phase == {"start", "cond", "test", "body", "step", "next", "iter", "bind", "ended", "done"}

(* ctx: the block visited; cur: the local `current` saved at entry; i: the *)
(* statement reached; from_for: visitBlock's copy of _coming_from_for; id, *)
(* fn: loop variable and function of the statement; at: where the method   *)
(* is.  base and frame record the sizes of _blocks and _local_values when  *)
(* the method was entered, base of a for the size of _blocks when it       *)
(* pushed its own (history, read by the properties only).                  *)
Activation == [op: Method, ctx: Block, cur: Block \cup {Nil}, i: Nat, from_for: BOOLEAN,
               id: Name \cup Label \cup {Nil}, fn: Body \cup {Nil}, at: Phase,
               base: Nat, frame: Nat]

Frame == [Block -> SUBSET Name]

TypeOK ==
  /\ prog \in [Block -> BlockCode]
  /\ status \in Status
  /\ exn \in Exception
  /\ stack \in Seq(Activation)
  /\ blocks \in Seq(Block)
  /\ local_values \in Seq(Frame)
  /\ functions \in Seq(Body)
  /\ defined \in SUBSET Body
  /\ escaped \in BOOLEAN

Chunk == [op |-> "visitChunk", ctx |-> Main, cur |-> Nil, i |-> 1, from_for |-> FALSE,
          id |-> Nil, fn |-> Nil, at |-> "body", base |-> 0, frame |-> 0]

Init ==
  /\ prog \in Programs
  /\ status = "start" /\ exn = None
  /\ stack = << >>
  /\ blocks = << >> /\ local_values = << >> /\ functions = << >>
  /\ defined = {} /\ escaped = FALSE

-----------------------------------------------------------------------------
(* Helpers on the current activation and the stores.                       *)
Top == stack[Len(stack)]
Stats == prog[Top.ctx].stats
Running == status = "run" /\ exn = None /\ stack # << >> /\ Len(stack) =< MaxStack
In(ops) == Running /\ Top.op \in ops
AtStat(ops) == In({"visitBlock"}) /\ Top.i \in DOMAIN Stats /\ Stats[Top.i].op \in ops
S == Stats[Top.i]

Replace(a) == [stack EXCEPT ![Len(stack)] = a]
Advanced == Replace([Top EXCEPT !.i = @ + 1])
Phased(p) == Replace([Top EXCEPT !.at = p])

(* The caller's activation once the method it called has returned;         *)
(* `valued` when a Lua return statement ended a call.                      *)
Resumed(a, valued) ==
  CASE a.op = "visitBlock" -> [a EXCEPT !.i = @ + 1]
    [] a.op \in PlainLoop -> [a EXCEPT !.at = IF @ = "body" THEN "cond" ELSE "test"]
    [] a.op = "process_for_loop" -> [a EXCEPT !.at = "step"]
    [] a.op = "process_for_in" ->
         [a EXCEPT !.at = IF @ = "body" THEN "next" ELSE IF valued THEN "bind" ELSE "ended"]
    [] OTHER -> [a EXCEPT !.at = "done"]
ReturnTo(valued) ==
  LET below == Front(stack)
  IN  stack' = [below EXCEPT ![Len(below)] = Resumed(@, valued)]

New(op, b, s, at) ==
  [op |-> op, ctx |-> b, cur |-> Last(blocks), i |-> 1, from_for |-> FALSE,
   id |-> s.id, fn |-> s.fn, at |-> at, base |-> Len(blocks), frame |-> Len(local_values)]
NewBlock(b, for, base, frame) ==
  [op |-> "visitBlock", ctx |-> b, cur |-> Nil, i |-> 1, from_for |-> for,
   id |-> Nil, fn |-> Nil, at |-> "body", base |-> base, frame |-> frame]

(* visit(block): visitBlock pushes its context.                            *)
Visit(st, b) ==
  /\ stack' = Append(st, NewBlock(b, FALSE, Len(blocks), Len(local_values)))
  /\ blocks' = Append(blocks, b)
(* visit(block) from a for: the loop has pushed the context before.        *)
VisitFromFor(st, b) ==
  /\ stack' = Append(st, NewBlock(b, TRUE, Top.base + 1, Len(local_values)))
  /\ UNCHANGED blocks

Bind(b, names) == [local_values EXCEPT ![Len(local_values)][b] = @ \cup names]
Keep(lv, b, names) == [lv EXCEPT ![Len(lv)][b] = @ \cap names]
EraseBlocks(lv, bs) ==
  [lv EXCEPT ![Len(lv)] = [b \in Block |-> IF b \in bs THEN {} ELSE lv[Len(lv)][b]]]

(* call_function: block, frame, function and parameters, then the body is  *)
(* visited with _coming_from_funcall.                                      *)
CallFunction(st, f) ==
  /\ blocks' = Append(blocks, f)
  /\ local_values' = Append(local_values, [b \in Block |-> IF b = f THEN prog[f].params ELSE {}])
  /\ functions' = Append(functions, f)
  /\ stack' = st \o <<New("call_function", f, [id |-> Nil, fn |-> Nil], "body"),
                      NewBlock(f, FALSE, Len(blocks), Len(local_values) + 1)>>

-----------------------------------------------------------------------------
(* Visiting.                                                               *)

VisitChunk ==
  /\ status = "start"
  /\ status' = "run"
  /\ local_values' = <<[b \in Block |-> {}]>>
  /\ stack' = <<Chunk, NewBlock(Main, FALSE, 0, 1)>>
  /\ blocks' = <<Main>>
  /\ UNCHANGED <<prog, exn, functions, defined, escaped>>

FinishChunk ==
  /\ In({"visitChunk"}) /\ Top.at = "done"
  /\ status' = "done"
  /\ stack' = << >>
  /\ UNCHANGED <<prog, exn, blocks, stores, defined, escaped>>

(* do, and the branch an if takes.                                         *)
VisitNested ==
  /\ AtStat({"do"} \cup BranchOps)
  /\ \E j \in DOMAIN S.blks : Visit(stack, S.blks[j])
  /\ UNCHANGED <<prog, status, exn, stores, defined, escaped>>

(* An if without a branch to take, and labels.                             *)
SkipStat ==
  /\ AtStat({"if", "label"})
  /\ stack' = Advanced
  /\ UNCHANGED <<prog, status, exn, blocks, stores, defined, escaped>>

(* process_local_variables, process_local_function: the local belongs to   *)
(* current_block(), not to the context being visited.                      *)
ProcessLocal ==
  /\ AtStat(LocalOps)
  /\ S.op = "localfunction" => prog[S.fn].params # {}
  /\ local_values' = Bind(Last(blocks), {S.id})
  /\ defined' = IF S.op \in DefOps THEN defined \cup {S.fn} ELSE defined
  /\ stack' = Advanced
  /\ UNCHANGED <<prog, status, exn, blocks, functions, escaped>>

(* process_local_function visits the parameter list, which is null when    *)
(* the function has no parameters.                                         *)
NullParlist ==
  /\ AtStat({"localfunction"})
  /\ prog[S.fn].params = {}
  /\ status' = "crashed"
  /\ UNCHANGED <<prog, exn, stack, blocks, stores, defined, escaped>>

(* Variant: the name of the function is registered in its place.           *)
ProcessFunctionByName ==
  /\ AtStat({"function", "def"})
  /\ defined' = defined \cup {S.id}
  /\ stack' = Advanced
  /\ UNCHANGED <<prog, status, exn, blocks, stores, escaped>>

ProcessFunction ==
  /\ AtStat({"function", "def"})
  /\ defined' = defined \cup {S.fn}
  /\ stack' = Advanced
  /\ UNCHANGED <<prog, status, exn, blocks, stores, escaped>>

ProcessBreak ==
  /\ AtStat({"break"})
  /\ Throw("Break")
  /\ UNCHANGED <<prog, status, stack, blocks, stores, defined, escaped>>

ProcessGoto ==
  /\ AtStat({"goto"})
  /\ exn' = [kind |-> "Goto", label |-> S.id]
  /\ UNCHANGED <<prog, status, stack, blocks, stores, defined, escaped>>

ThrowBadType ==
  /\ AtStat({"error", "for"})
  /\ Throw("BadType")
  /\ UNCHANGED <<prog, status, stack, blocks, stores, defined, escaped>>

(* Every call, whether a statement, a condition or a for-in iterator.      *)
CallStat ==
  /\ AtStat({"call"}) /\ S.fn \in defined
  /\ CallFunction(stack, S.fn)
  /\ UNCHANGED <<prog, status, exn, defined, escaped>>

ExpectFailure ==
  /\ AtStat({"expect_failure"}) /\ S.fn \in defined
  /\ CallFunction(Append(stack, New("expect_failure", Top.ctx, [id |-> Nil, fn |-> Nil], "body")), S.fn)
  /\ UNCHANGED <<prog, status, exn, defined, escaped>>

(* A call of nil throws BadCall or ForInBadType, which nobody catches; so  *)
(* does expect_failure when its expression did not fail.                   *)
FatalError ==
  /\ \/ AtStat({"call", "expect_failure", "forin"}) /\ S.fn \notin defined
     \/ In(PlainLoop) /\ Top.at = "cond" /\ Top.fn # Nil /\ Top.fn \notin defined
     \/ In({"expect_failure"}) /\ Top.at = "done"
  /\ status' = "failed"
  /\ UNCHANGED <<prog, exn, stack, blocks, stores, defined, escaped>>

-----------------------------------------------------------------------------
(* Loops.                                                                  *)

ProcessWhile ==
  /\ AtStat({"while"})
  /\ stack' = Append(stack, New("process_while", S.blks[1], S, "cond"))
  /\ UNCHANGED <<prog, status, exn, blocks, stores, defined, escaped>>

ProcessRepeat ==
  /\ AtStat({"repeat"})
  /\ Visit(Append(stack, New("process_repeat", S.blks[1], S, "body")), S.blks[1])
  /\ UNCHANGED <<prog, status, exn, stores, defined, escaped>>

LoopCondition ==
  /\ In(PlainLoop) /\ Top.at = "cond" /\ Top.fn \in defined
  /\ CallFunction(stack, Top.fn)
  /\ UNCHANGED <<prog, status, exn, defined, escaped>>

Evaluated == Top.at = "test" \/ (Top.at = "cond" /\ Top.fn = Nil)
LoopTested == In({"process_while", "process_repeat"}) /\ Evaluated

LoopAgain ==
  /\ LoopTested
  /\ Visit(Phased("body"), Top.ctx)
  /\ UNCHANGED <<prog, status, exn, stores, defined, escaped>>

LoopEnd ==
  /\ LoopTested
  /\ ReturnTo(FALSE)
  /\ UNCHANGED <<prog, status, exn, blocks, stores, defined, escaped>>

(* The cell of the variable is made as soon as counter and limit are       *)
(* known (if they are no numbers, ThrowBadType); then the third expression *)
(* is evaluated, which may call a function (LoopCondition), and only then  *)
(* the block is pushed.                                                    *)
ProcessForLoop ==
  /\ AtStat({"for"})
  /\ local_values' = Bind(S.blks[1], {S.id})
  /\ stack' = Append(stack, New("process_for_head", S.blks[1], S, "cond"))
  /\ UNCHANGED <<prog, status, exn, blocks, functions, defined, escaped>>

ForBadStep ==
  /\ In({"process_for_head"}) /\ Evaluated
  /\ Throw("BadType")
  /\ UNCHANGED <<prog, status, stack, blocks, stores, defined, escaped>>

ForStart ==
  /\ In({"process_for_head"}) /\ Evaluated
  /\ blocks' = Append(blocks, Top.ctx)
  /\ stack' = Replace([Top EXCEPT !.op = "process_for_loop", !.at = "test", !.base = Len(blocks)])
  /\ UNCHANGED <<prog, status, exn, stores, defined, escaped>>

ForAgain ==
  /\ In({"process_for_loop"}) /\ Top.at = "test"
  /\ VisitFromFor(Phased("body"), Top.ctx)
  /\ UNCHANGED <<prog, status, exn, stores, defined, escaped>>

(* After the body: drop its locals, keep the counter, step it.             *)
ForStep ==
  /\ In({"process_for_loop"}) /\ Top.at = "step"
  /\ local_values' = Keep(local_values, Top.ctx, {Top.id})
  /\ stack' = Phased("test")
  /\ UNCHANGED <<prog, status, exn, blocks, functions, defined, escaped>>

(* Stepping the counter through a pointer to an erased cell.               *)
ForStepFreed ==
  /\ In({"process_for_loop"}) /\ Top.at = "step"
  /\ Top.id \notin local_values[Len(local_values)][Top.ctx]
  /\ status' = "freed"
  /\ UNCHANGED <<prog, exn, stack, blocks, stores, defined, escaped>>

(* Variant: _blocks.pop_back() is forgotten.                               *)
ForEndKeepsBlock ==
  /\ In({"process_for_loop"}) /\ Top.at = "test"
  /\ local_values' = EraseBlocks(local_values, {Top.ctx})
  /\ ReturnTo(FALSE)
  /\ UNCHANGED <<prog, status, exn, blocks, functions, defined, escaped>>

ForEnd ==
  /\ In({"process_for_loop"}) /\ Top.at = "test"
  /\ blocks' = Front(blocks)
  /\ local_values' = EraseBlocks(local_values, {Top.ctx})
  /\ ReturnTo(FALSE)
  /\ UNCHANGED <<prog, status, exn, functions, defined, escaped>>

ProcessForIn ==
  /\ AtStat({"forin"}) /\ S.fn \in defined
  /\ blocks' = Append(blocks, S.blks[1])
  /\ stack' = Append(stack, New("process_for_in", S.blks[1], S, "start"))
  /\ UNCHANGED <<prog, status, exn, stores, defined, escaped>>

ForInIterate ==
  /\ In({"process_for_in"}) /\ Top.at = "start"
  /\ CallFunction(Phased("iter"), Top.fn)
  /\ UNCHANGED <<prog, status, exn, defined, escaped>>

(* After the body, every local of its block is dropped.                    *)
ForInClear ==
  /\ In({"process_for_in"}) /\ Top.at = "next"
  /\ local_values' = Keep(local_values, Top.ctx, {})
  /\ stack' = Phased("start")
  /\ UNCHANGED <<prog, status, exn, blocks, functions, defined, escaped>>

ForInBind ==
  /\ In({"process_for_in"}) /\ Top.at = "bind"
  /\ local_values' = Bind(Top.ctx, {Top.id})
  /\ VisitFromFor(Phased("body"), Top.ctx)
  /\ UNCHANGED <<prog, status, exn, functions, defined, escaped>>

(* No result, or a first result of nil.                                    *)
ForInBreak ==
  /\ In({"process_for_in"}) /\ Top.at \in {"bind", "ended"}
  /\ Throw("Break")
  /\ UNCHANGED <<prog, status, stack, blocks, stores, defined, escaped>>

-----------------------------------------------------------------------------
(* Leaving a block or a function normally.                                 *)
AtEnd == In({"visitBlock"}) /\ Top.i \notin DOMAIN Stats

VisitRetstat ==
  /\ AtEnd /\ prog[Top.ctx].ret
  /\ Throw("Return")
  /\ UNCHANGED <<prog, status, stack, blocks, stores, defined, escaped>>

(* Variant: erase_block is forgotten.                                      *)
ErasedNothing == local_values
Erased == IF Top.from_for THEN local_values ELSE EraseBlocks(local_values, {Top.ctx})

(* Variant: the block a for pushed is popped at the end of each round.     *)
FinishBlockAlwaysPops ==
  /\ AtEnd /\ ~ prog[Top.ctx].ret
  /\ Last(blocks) = Top.ctx
  /\ local_values' = Erased
  /\ blocks' = Front(blocks)
  /\ ReturnTo(FALSE)
  /\ UNCHANGED <<prog, status, exn, functions, defined, escaped>>

FinishBlock ==
  /\ AtEnd /\ ~ prog[Top.ctx].ret
  /\ Last(blocks) = Top.ctx
  /\ local_values' = Erased
  /\ blocks' = IF Top.from_for THEN blocks ELSE Front(blocks)
  /\ ReturnTo(FALSE)
  /\ UNCHANGED <<prog, status, exn, functions, defined, escaped>>

(* std::runtime_error("Unbalanced blocks"), which nobody catches.          *)
UnbalancedBlocks ==
  /\ AtEnd /\ ~ prog[Top.ctx].ret
  /\ Last(blocks) # Top.ctx
  /\ local_values' = Erased
  /\ status' = "unbalanced"
  /\ UNCHANGED <<prog, exn, stack, blocks, functions, defined, escaped>>

FinishCall ==
  /\ In({"call_function"}) /\ Top.at = "done"
  /\ functions' = Front(functions)
  /\ local_values' = Front(local_values)
  /\ ReturnTo(FALSE)
  /\ UNCHANGED <<prog, status, exn, blocks, defined, escaped>>

-----------------------------------------------------------------------------
(* Unwinding: one activation per step.                                     *)
Unwinding(ops) == status = "run" /\ exn # None /\ stack # << >> /\ Top.op \in ops
Pop == stack' = Front(stack)

(* stabilize_blocks: search _blocks from the back for the context, erase   *)
(* the locals of the blocks from there on, that one included, and drop the *)
(* blocks above it; nothing when the context is at the back already.       *)
Topmost(ctx) ==
  CHOOSE n \in DOMAIN blocks : /\ blocks[n] = ctx
                               /\ \A m \in DOMAIN blocks : m > n => blocks[m] # ctx
Stable(ctx) == Last(blocks) = ctx
(* Variant: the locals of every block of the call are erased.              *)
StabilizedValuesAll(ctx) ==
  IF Stable(ctx) THEN local_values ELSE EraseBlocks(local_values, Block)
StabilizedValues(ctx) ==
  IF Stable(ctx)
  THEN local_values
  ELSE EraseBlocks(local_values, {blocks[m] : m \in Topmost(ctx) .. Len(blocks)})
(* Variant: the search goes from the front.                                *)
StabilizedBlocksFromFront(ctx) ==
  IF Stable(ctx) THEN blocks ELSE SubSeq(blocks, 1, Min({n \in DOMAIN blocks : blocks[n] = ctx}))
StabilizedBlocks(ctx) == IF Stable(ctx) THEN blocks ELSE SubSeq(blocks, 1, Topmost(ctx))
StabilizeBlocks(ctx) ==
  /\ local_values' = StabilizedValues(ctx)
  /\ blocks' = StabilizedBlocks(ctx)

(* visitBlock catches every Goto, and stabilizes before it looks at the    *)
(* label.  The exception holds a reference to a string that is gone, so    *)
(* the label read may not be the one thrown: the handler may rethrow what  *)
(* it should have kept.                                                    *)
IsAssociatedWithLabel(b, l) ==
  \E k \in DOMAIN prog[b].stats : prog[b].stats[k].op = "label" /\ prog[b].stats[k].id = l

(* The scan compares the text of the label node, "::l::", with "l" and     *)
(* runs to the end of the block.                                           *)
CatchGoto ==
  /\ Unwinding({"visitBlock"}) /\ exn.kind = "Goto"
  /\ IsAssociatedWithLabel(Top.ctx, exn.label)
  /\ StabilizeBlocks(Top.ctx)
  /\ stack' = Replace([Top EXCEPT !.i = Len(Stats) + 1])
  /\ exn' = None
  /\ UNCHANGED <<prog, status, functions, defined, escaped>>

RethrowGoto ==
  /\ Unwinding({"visitBlock"}) /\ exn.kind = "Goto"
  /\ StabilizeBlocks(Top.ctx)
  /\ Pop
  /\ UNCHANGED <<prog, status, exn, functions, defined, escaped>>

(* Variant: the handler throws on what it has caught.                      *)
CatchBreakRethrows ==
  /\ Unwinding(Loop) /\ exn.kind = "Break"
  /\ StabilizeBlocks(Top.cur)
  /\ Pop
  /\ UNCHANGED <<prog, status, exn, functions, defined, escaped>>

CatchBreak ==
  /\ Unwinding(Loop) /\ exn.kind = "Break"
  /\ StabilizeBlocks(Top.cur)
  /\ ReturnTo(FALSE)
  /\ exn' = None
  /\ UNCHANGED <<prog, status, functions, defined, escaped>>

(* Variants: the frame is popped before the blocks are stabilized, or the  *)
(* blocks are not stabilized.                                              *)
CatchReturnPopsFirst ==
  /\ Unwinding({"call_function"}) /\ exn.kind = "Return"
  /\ blocks' = StabilizedBlocks(Top.cur)
  /\ local_values' = IF Stable(Top.cur)
                     THEN Front(local_values)
                     ELSE EraseBlocks(Front(local_values),
                                      {blocks[m] : m \in Topmost(Top.cur) .. Len(blocks)})
  /\ functions' = Front(functions)
  /\ ReturnTo(TRUE)
  /\ exn' = None
  /\ UNCHANGED <<prog, status, defined, escaped>>
CatchReturnUnstable ==
  /\ Unwinding({"call_function"}) /\ exn.kind = "Return"
  /\ local_values' = Front(local_values)
  /\ functions' = Front(functions)
  /\ ReturnTo(TRUE)
  /\ exn' = None
  /\ UNCHANGED <<prog, status, blocks, defined, escaped>>

CatchReturn ==
  /\ Unwinding({"call_function"}) /\ exn.kind = "Return"
  /\ blocks' = StabilizedBlocks(Top.cur)
  /\ local_values' = Front(StabilizedValues(Top.cur))
  /\ functions' = Front(functions)
  /\ ReturnTo(TRUE)
  /\ exn' = None
  /\ UNCHANGED <<prog, status, defined, escaped>>

(* expect_failure swallows a BadTypeException and puts nothing back.       *)
CatchBadType ==
  /\ Unwinding({"expect_failure"}) /\ exn.kind = "BadType"
  /\ ReturnTo(FALSE)
  /\ exn' = None
  /\ UNCHANGED <<prog, status, blocks, stores, defined, escaped>>

(* No handler for this exception here.                                     *)
Propagate ==
  /\ Unwinding(Method \ {"visitChunk"})
  /\ \/ Top.op = "visitBlock" /\ exn.kind # "Goto"
     \/ Top.op \in Loop /\ exn.kind # "Break"
     \/ Top.op = "call_function" /\ exn.kind # "Return"
     \/ Top.op = "expect_failure" /\ exn.kind # "BadType"
  /\ Pop
  /\ escaped' = (escaped \/ Top.op = "call_function")
  /\ UNCHANGED <<prog, status, exn, blocks, stores, defined>>

(* visitChunk catches Return; anything else ends in the caller of visit.   *)
LeaveChunk ==
  /\ Unwinding({"visitChunk"})
  /\ status' = IF exn.kind = "Return" THEN "done" ELSE "failed"
  /\ stack' = << >>
  /\ exn' = None
  /\ UNCHANGED <<prog, blocks, stores, defined, escaped>>

(* The bound on the C++ stack.                                             *)
CutRun ==
  /\ status = "run" /\ exn = None /\ Len(stack) > MaxStack
  /\ status' = "cut"
  /\ UNCHANGED <<prog, exn, stack, blocks, stores, defined, escaped>>

Ended == status \notin {"start", "run"} /\ UNCHANGED vars

Step ==
  \/ VisitChunk \/ FinishChunk
  \/ VisitNested \/ SkipStat \/ ProcessLocal \/ NullParlist \/ ProcessFunction
  \/ ProcessBreak \/ ProcessGoto \/ ThrowBadType
  \/ CallStat \/ ExpectFailure \/ FatalError
  \/ ProcessWhile \/ ProcessRepeat \/ LoopCondition \/ LoopAgain \/ LoopEnd
  \/ ProcessForLoop \/ ForBadStep \/ ForStart \/ ForAgain \/ ForStep \/ ForStepFreed \/ ForEnd
  \/ ProcessForIn \/ ForInIterate \/ ForInClear \/ ForInBind \/ ForInBreak
  \/ VisitRetstat \/ FinishBlock \/ UnbalancedBlocks \/ FinishCall
  \/ CatchGoto \/ RethrowGoto \/ CatchBreak \/ CatchReturn \/ CatchBadType
  \/ Propagate \/ LeaveChunk \/ CutRun

Next == Step \/ Ended

(* The interpreter is one thread that never waits.                         *)
Spec == Init /\ [][Next]_vars /\ WF_vars(Step)

-----------------------------------------------------------------------------
(* What the three stores should look like, activation by activation.       *)

(* The blocks an activation keeps on _blocks while it runs: a for pushes   *)
(* its body's block once for all iterations.                               *)
Owns(a) == (a.op = "visitBlock" /\ ~ a.from_for) \/ a.op \in ForLoop
Height(a) == IF Owns(a) THEN a.base + 1 ELSE a.base

(* The frames there are while it runs.                                     *)
OpensFrame(a) == a.op \in {"call_function", "visitChunk"}
Frames(a) == IF OpensFrame(a) THEN a.frame + 1 ELSE a.frame

(* current_block() as its statements should see it.                        *)
Current(a) == IF a.op = "visitBlock" \/ a.op \in ForLoop THEN a.ctx ELSE a.cur

(* No Break, Goto or type error has left a function, and no function calls *)
(* itself directly: the two cases in which stabilize_blocks cannot restore *)
(* the caller's blocks.                                                    *)
Sane == ~ escaped /\ NoSelfCall(prog)

(* Every activation on the C++ stack finds its own block where it left it: *)
(* nothing an inner statement, loop or call did has dropped or replaced a  *)
(* block below.  When no exception is in flight, nothing is left above     *)
(* either, and there is one frame and one function per open call.          *)
BlocksBalanced ==
  Sane /\ stack # << >> =>
    /\ \A k \in 2 .. Len(stack) : /\ Height(stack[k]) \in DOMAIN blocks
                                  /\ blocks[Height(stack[k])] = Current(stack[k])
    /\ Len(local_values) = Frames(Top)
    /\ \A k \in DOMAIN stack : stack[k].op = "call_function" =>
          /\ stack[k].frame \in DOMAIN functions
          /\ functions[stack[k].frame] = stack[k].ctx
    /\ exn = None => /\ Len(blocks) = Height(Top)
                     /\ Len(functions) + 1 = Len(local_values)

(* The consistency check of visitBlock ("Unbalanced blocks") never fires,  *)
(* whatever mix of break, goto and return left the inner blocks.           *)
SaneNeverUnbalanced == Sane => status # "unbalanced"

(* The inductive invariant behind it.  In every run, even one in which an  *)
(* exception has escaped from a function, the part of _blocks below what   *)
(* an activation owns is as it was when the activation was entered.        *)
Anchor(st, bl, k, m) ==     \* where the handler of loop k may stop searching
  /\ m =< st[k].base /\ bl[m] = st[k].cur
  /\ \A j \in DOMAIN st : j < k => Height(st[j]) =< m
Shape(st, bl) ==
  /\ \A k \in DOMAIN st : st[k].op = "visitChunk" <=> k = 1
  /\ \A j, k \in DOMAIN st : j < k => Height(st[j]) =< st[k].base
  /\ \A k \in DOMAIN st : k > 1 => /\ Height(st[k]) \in DOMAIN bl
                                   /\ bl[Height(st[k])] = Current(st[k])
  /\ \A k \in DOMAIN st : st[k].op \in Loop => \E m \in DOMAIN bl : Anchor(st, bl, k, m)
  /\ \A k \in DOMAIN st : st[k].op = "process_for_in" => st[k].id \in Name /\ st[k].fn \in Body

(* In a sane run, moreover, each activation starts where the one below it  *)
(* ends, and the blocks an exception leaves behind lie strictly inside the *)
(* block of the activation it reaches, in the same function.               *)
Deeper(x, y) == Fun[y] = Fun[x] /\ Depth[y] > Depth[x]
Link(a, b) ==
  /\ b.base = Height(a) /\ b.frame = Frames(a)
  /\ \/ /\ b.op = "visitBlock" /\ a.op = "visitBlock"
        /\ ~ b.from_for /\ Deeper(a.ctx, b.ctx)
     \/ /\ b.op = "visitBlock" /\ a.op \in Loop \cup {"call_function", "visitChunk"}
        /\ a.op # "process_for_head" /\ b.from_for = (a.op \in ForLoop) /\ b.ctx = a.ctx
     \/ /\ b.op \in Loop /\ a.op = "visitBlock"
        /\ b.cur = a.ctx /\ Deeper(a.ctx, b.ctx) /\ b.fn # Fun[b.ctx]
     \/ /\ b.op = "expect_failure" /\ a.op = "visitBlock"
        /\ b.cur = a.ctx /\ b.ctx = a.ctx
     \/ /\ b.op = "call_function" /\ a.op \in Loop \cup {"visitBlock", "expect_failure"}
        /\ b.ctx \in Body /\ b.cur = Current(a) /\ b.ctx # Fun[b.cur]
Chain(st) ==
  /\ \A k \in 1 .. (Len(st) - 1) : Link(st[k], st[k + 1])
  /\ \A j, k \in DOMAIN st : j < k => Frames(st[j]) =< st[k].frame
CallsMatch(st, fs) ==
  \A k \in DOMAIN st : st[k].op = "call_function" =>
     /\ st[k].frame \in DOMAIN fs
     /\ fs[st[k].frame] = st[k].ctx
LeftBehind(a, x) ==
  /\ Fun[x] = Fun[a.ctx]
  /\ IF a.op = "visitBlock" \/ a.op \in ForLoop
     THEN Depth[x] > Depth[a.ctx]
     ELSE Depth[x] >= Depth[a.ctx]
Exact ==
  Sane /\ stack # << >> =>
    /\ Chain(stack)
    /\ CallsMatch(stack, functions)
    /\ Len(local_values) = Frames(Top) /\ Len(functions) = Frames(Top) - 1
    /\ exn = None => Len(blocks) = Height(Top)
    /\ exn # None => /\ Top.op # "expect_failure"
                     /\ \A m \in DOMAIN blocks : m > Height(Top) => LeftBehind(Top, blocks[m])
IndInv == Shape(stack, blocks) /\ Exact /\ SaneNeverUnbalanced

(* The backward search of stabilize_blocks has no lower bound: whenever a  *)
(* handler is about to run it, the block it looks for must be there.       *)
SearchStops ==
  status = "run" /\ exn # None /\ stack # << >> =>
    /\ exn.kind = "Break" /\ Top.op \in Loop => \E m \in DOMAIN blocks : blocks[m] = Top.cur
    /\ exn.kind = "Return" /\ Top.op = "call_function" => \E m \in DOMAIN blocks : blocks[m] = Top.cur
    /\ exn.kind = "Goto" /\ Top.op = "visitBlock" => \E m \in DOMAIN blocks : blocks[m] = Top.ctx

(* The entries of _blocks that belong to frame r: above the base of the    *)
(* call that opened it, up to the base of the next call.                   *)
CallBase(r) ==
  LET calls == {k \in DOMAIN stack : stack[k].op = "call_function" /\ stack[k].frame = r}
  IN  IF calls = {} THEN Len(blocks) ELSE stack[Min(calls)].base
BlocksOfFrame(r) ==
  {blocks[m] : m \in (IF r = 1 THEN 1 ELSE CallBase(r - 1) + 1) .. CallBase(r)}

(* A local only exists while its block is open in its own frame: leaving a *)
(* block by its end, by break, goto or return releases every local of it.  *)
(* The variable of a numeric for is there a little earlier, alone, as long *)
(* as the third expression is evaluated.  If that expression is no number, *)
(* it stays behind: the error ends the file or leaves a function.          *)
HeadOf(r, b) ==
  {stack[k].id : k \in {j \in DOMAIN stack : /\ stack[j].op = "process_for_head"
                                            /\ stack[j].ctx = b /\ stack[j].frame = r}}
NoStaleLocals ==
  Sane /\ status = "run" /\ exn.kind # "BadType" =>
    \A r \in DOMAIN local_values : \A b \in Block :
      local_values[r][b] # {} => b \in BlocksOfFrame(r) \/ local_values[r][b] \subseteq HeadOf(r, b)

(* _local_values.pop_back() releases nothing itself: when a call ends, any *)
(* local its frame still holds is in a block that the same step erases.    *)
NoLocalsDropped ==
  [][Sane /\ Len(local_values') < Len(local_values) =>
       \A b \in Block : Last(local_values)[b] # {} =>
         \E m \in (Len(blocks') + 1) .. Len(blocks) : blocks[m] = b]_vars

(* A call leaves the caller's locals alone: stabilize_blocks(current_block)*)
(* erases a block of the caller by name, and must do so in the callee's    *)
(* frame.                                                                  *)
CallerFrameUntouched ==
  [][Len(local_values') < Len(local_values) => local_values' = Front(local_values)]_vars

(* The three stores together implement nested scopes: Scopes says what may *)
(* be opened, closed and named when, and that nothing else changes.        *)
ScopesOfFrame(r) ==
  LET low  == IF r = 1 THEN 0 ELSE CallBase(r - 1)
      open == SubSeq(blocks, low + 1, CallBase(r))
  IN  [m \in DOMAIN open |-> [block |-> open[m], names |-> local_values[r][open[m]]]]
Abstract == INSTANCE Scopes WITH
  calls    <- IF Sane THEN [r \in DOMAIN local_values |-> ScopesOfFrame(r)] ELSE << >>,
  promised <- Sane

(* Every step of visitBlock, the loops, the calls and the handlers opens,  *)
(* closes or fills scopes of the innermost call only, from the innermost   *)
(* scope outwards, and a call that ends leaves its caller's as they were.  *)
ImplementsScopes == Abstract!Spec

(* A break or a return statement lands: whatever blocks, calls and other   *)
(* handlers lie between, it leaves the innermost loop, or the innermost    *)
(* call, and nothing below it: control comes back to the method that was   *)
(* in it.  Each loop method and call_function has a handler of its own.    *)
Handlers == CASE exn.kind = "Break" -> Loop [] exn.kind = "Return" -> {"call_function"} [] OTHER -> {}
Exits(k) ==
  /\ k \in DOMAIN stack /\ stack[k].op \in Handlers
  /\ \A j \in (k + 1) .. Len(stack) : stack[j].op \notin Handlers
ExitsLand == \A k \in 1 .. (MaxStack + 2) : Exits(k) ~> (exn = None /\ Len(stack) = k - 1)

-----------------------------------------------------------------------------
(* Statements of the sources the interpreter does not live up to.          *)

(* visitBlock asserts that its block is back on top when it ends.          *)
NeverUnbalanced == status # "unbalanced"

(* "Move to statement following label" (visitBlock): a goto that is caught *)
(* resumes right after the label.                                          *)
GotoResumesAfterLabel ==
  [][exn.kind = "Goto" /\ exn' = None /\ status' = "run" =>
       \E k \in LabelPositions(prog, Top.ctx, exn.label) : Top'.i = k + 1]_vars
=============================================================================
