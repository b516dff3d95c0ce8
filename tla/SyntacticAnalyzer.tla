------------------------- MODULE SyntacticAnalyzer -------------------------
(***************************************************************************)
(* The pass LuaPP makes over a whole chunk before it interprets it         *)
(* (syntactic_analyzer.cpp).  Interpreter::launch lets ANTLR's             *)
(* ParseTreeWalker call the listener's enter and exit methods in textual   *)
(* order, one action each, and then validates the gotos.  `todo` holds the *)
(* callbacks the walker still has to make for the nodes it has entered.    *)
(***************************************************************************)
EXTENDS Program, SequencesExt

VARIABLES prog,              \* the chunk being analyzed
          todo,              \* the walker's pending callbacks
          result,            \* "pending", "ok", or the exception thrown
          current_context, blocks, scopes, stack_scopes, current_scope,
          loop_blocks, label_to_context, locals_per_block, blocks_relations,
          functions_parents

tables == <<label_to_context, locals_per_block, functions_parents>>
gotoVars == <<scopes, stack_scopes, current_scope>>
vars == <<prog, todo, result, current_context, blocks, loop_blocks, blocks_relations,
          tables, gotoVars>>

Results == {"pending", "ok", "LonelyBreak", "LabelAlreadyDefined", "CrossedLocal",
            "InvisibleLabel", "UnbalancedBlocks"}

(* The callbacks of the listener: `i` is a statement's position in blk.    *)
Callback == [call: {"enterChunk", "enterBlock", "exitBlock", "enterStat",
                    "enterFuncbody", "exitFuncbody"},
             blk: Block, i: Nat]
Do(call, b) == [call |-> call, blk |-> b, i |-> 0]

(* ScopeElement: a variant of Goto, Label, Local and a nested block.       *)
Element == [kind: {"Goto", "Label", "Local"}, id: Name \cup Label, blk: {Nil}]
             \cup [kind: {"Block"}, id: {Nil}, blk: Block]
Elem(kind, id) == [kind |-> kind, id |-> id, blk |-> Nil]
BlockElem(b) == [kind |-> "Block", id |-> Nil, blk |-> b]

(* Maps whose keys appear on first use, as in std::map::operator[].        *)
IsMap(m, K, V) == DOMAIN m \subseteq K /\ m \in [DOMAIN m -> V]
At(m, k, default) == IF k \in DOMAIN m THEN m[k] ELSE default
Put(m, k, v) == [x \in DOMAIN m \cup {k} |-> IF x = k THEN v ELSE m[x]]
AppendAt(m, k, v) == Put(m, k, Append(At(m, k, << >>), v))

IsScope(s) == s.root \in Block /\ IsMap(s.elements, Block, Seq(Element))

TypeOK ==
  /\ prog \in [Block -> BlockCode]
  /\ todo \in Seq(Callback)
  /\ result \in Results
  /\ current_context \in Block \cup {Nil}
  /\ blocks \in Seq(Block)
  /\ blocks_relations \in Seq(Block)
  /\ \A k \in DOMAIN scopes : IsScope(scopes[k])
  /\ stack_scopes \in Seq(Nat)
  /\ current_scope \in Nat
  /\ loop_blocks \subseteq Block
  /\ IsMap(label_to_context, Label, Seq(Block))
  /\ IsMap(locals_per_block, Block, Seq(Name \X Block))
  /\ IsMap(functions_parents, Block, Seq(Block))

Init ==
  /\ prog \in Programs
  /\ todo = <<Do("enterChunk", Main)>>
  /\ result = "pending"
  /\ current_context = Nil
  /\ blocks = << >> /\ blocks_relations = << >>
  /\ scopes = << >> /\ stack_scopes = << >> /\ current_scope = 0
  /\ loop_blocks = {}
  /\ label_to_context = [l \in {} |-> << >>]
  /\ locals_per_block = [b \in {} |-> << >>]
  /\ functions_parents = [b \in {} |-> << >>]

-----------------------------------------------------------------------------
(* The walker: the next callback, and those an entered node adds.          *)
Next_is(call) == result = "pending" /\ todo # << >> /\ Head(todo).call = call
Node == Head(todo).blk
Statement == prog[Node].stats[Head(todo).i]

StatsOf(b) == [i \in DOMAIN prog[b].stats |-> [call |-> "enterStat", blk |-> b, i |-> i]]
BlocksOf(s) == [j \in DOMAIN s.blks |-> Do("enterBlock", s.blks[j])]
BodyOf(s) == IF s.op \in DefOps
             THEN <<Do("enterFuncbody", s.fn), Do("enterBlock", s.fn), Do("exitFuncbody", s.fn)>>
             ELSE << >>
Walk(children) == todo' = children \o Tail(todo)

(* _current_scope->_scope_elements                                         *)
Elements == scopes[current_scope].elements
SetElements(m) == scopes' = [scopes EXCEPT ![current_scope].elements = m]
PushElement(e) == SetElements(AppendAt(Elements, current_context, e))

NewScope(b, elements) ==
  /\ scopes' = Append(scopes, [root |-> b, elements |-> elements])
  /\ current_scope' = Len(scopes')
  /\ stack_scopes' = Append(stack_scopes, current_scope')

EnterChunk ==
  /\ Next_is("enterChunk")
  /\ Walk(<<Do("enterBlock", Node)>>)
  /\ NewScope(Node, [b \in {Node} |-> << >>])
  /\ UNCHANGED <<prog, result, current_context, blocks, loop_blocks, blocks_relations, tables>>

(* Variant: a block does not see the locals of its parent.                 *)
InheritNothing(b) == Put(locals_per_block, b, At(locals_per_block, b, << >>))

(* A block sees the locals of its parent.  The variables of a for and the  *)
(* parameters of a function are already there and stay in front.           *)
InheritLocals(b) ==
  Put(locals_per_block, b,
      IF blocks_relations = << >>
      THEN At(locals_per_block, b, << >>)
      ELSE At(locals_per_block, b, << >>)
             \o At(locals_per_block, Last(blocks_relations), << >>))

EnterBlock ==
  /\ Next_is("enterBlock")
  /\ Walk(StatsOf(Node) \o <<Do("exitBlock", Node)>>)
  /\ blocks' = Append(blocks, Node)
  /\ LET linked == IF current_context # Nil
                   THEN AppendAt(Elements, current_context, BlockElem(Node))
                   ELSE Elements
     IN  SetElements(Put(linked, Node, At(linked, Node, << >>)))
  /\ current_context' = Node
  /\ locals_per_block' = InheritLocals(Node)
  /\ blocks_relations' = Append(blocks_relations, Node)
  /\ UNCHANGED <<prog, result, stack_scopes, current_scope, loop_blocks,
                 label_to_context, functions_parents>>

(* Variants: the context of the parent is not restored, or the block stays *)
(* among the loops.                                                        *)
ExitBlockForgetsContext ==
  /\ Next_is("exitBlock")
  /\ Walk(<< >>)
  /\ blocks' = Front(blocks)
  /\ current_context' = Nil
  /\ loop_blocks' = loop_blocks \ {Node}
  /\ blocks_relations' = Front(blocks_relations)
  /\ UNCHANGED <<prog, result, tables, gotoVars>>
ExitBlockKeepsLoop ==
  /\ Next_is("exitBlock")
  /\ Walk(<< >>)
  /\ blocks' = Front(blocks)
  /\ current_context' = IF blocks' = << >> THEN Nil ELSE Last(blocks')
  /\ blocks_relations' = Front(blocks_relations)
  /\ UNCHANGED <<prog, result, loop_blocks, tables, gotoVars>>

ExitBlock ==
  /\ Next_is("exitBlock")
  /\ IF Last(blocks) # Node
     THEN /\ result' = "UnbalancedBlocks"
          /\ UNCHANGED <<todo, current_context, blocks, loop_blocks, blocks_relations>>
     ELSE /\ Walk(<< >>)
          /\ blocks' = Front(blocks)
          /\ current_context' = IF blocks' = << >> THEN Nil ELSE Last(blocks')
          /\ loop_blocks' = loop_blocks \ {Node}
          /\ blocks_relations' = Front(blocks_relations)
          /\ UNCHANGED result
  /\ UNCHANGED <<prog, tables, gotoVars>>

-----------------------------------------------------------------------------
(* enterStat, one action per branch of its dispatch; entering a label      *)
(* statement is followed at once by enterLabel.                            *)
AtStat(ops) == Next_is("enterStat") /\ Statement.op \in ops
WalkStat == Walk(BlocksOf(Statement) \o BodyOf(Statement))
statFrame == <<prog, current_context, blocks, blocks_relations, stack_scopes,
               current_scope, functions_parents>>

(* Assignments, calls, do, if: an early return.                            *)
EnterOtherStat ==
  /\ AtStat({"def", "do", "error"} \cup BranchOps \cup CallOps)
  /\ WalkStat
  /\ UNCHANGED <<statFrame, result, scopes, loop_blocks, label_to_context, locals_per_block>>

EnterGoto ==
  /\ AtStat({"goto"})
  /\ WalkStat
  /\ PushElement(Elem("Goto", Statement.id))
  /\ UNCHANGED <<statFrame, result, loop_blocks, label_to_context, locals_per_block>>

(* The names come first: the walker enters the function an expression of   *)
(* the statement defines after them.                                       *)
EnterLocal ==
  /\ AtStat(LocalOps)
  /\ WalkStat
  /\ PushElement(Elem("Local", Statement.id))
  /\ LET b == Last(blocks_relations)
     IN  locals_per_block' = AppendAt(locals_per_block, b, <<Statement.id, b>>)
  /\ UNCHANGED <<statFrame, result, loop_blocks, label_to_context>>

EnterFunction ==
  /\ AtStat({"function"})
  /\ WalkStat
  /\ PushElement(Elem("Local", Statement.id))
  /\ UNCHANGED <<statFrame, result, loop_blocks, label_to_context, locals_per_block>>

EnterLabel ==
  /\ AtStat({"label"})
  /\ WalkStat
  /\ label_to_context' = AppendAt(label_to_context, Statement.id, current_context)
  /\ PushElement(Elem("Label", Statement.id))
  /\ UNCHANGED <<statFrame, result, loop_blocks, locals_per_block>>

EnterFor ==
  /\ AtStat(ForLoops)
  /\ WalkStat
  /\ LET b == Statement.blks[1]
     IN  /\ loop_blocks' = loop_blocks \cup {b}
         /\ locals_per_block' = AppendAt(locals_per_block, b, <<Statement.id, b>>)
  /\ UNCHANGED <<statFrame, result, scopes, label_to_context>>

EnterWhileOrRepeat ==
  /\ AtStat(PlainLoops)
  /\ WalkStat
  /\ loop_blocks' = loop_blocks \cup {Statement.blks[1]}
  /\ UNCHANGED <<statFrame, result, scopes, label_to_context, locals_per_block>>

EnterBreak ==
  /\ AtStat({"break"})
  /\ IF loop_blocks = {}
     THEN result' = "LonelyBreak" /\ UNCHANGED todo
     ELSE WalkStat /\ UNCHANGED result
  /\ UNCHANGED <<statFrame, scopes, loop_blocks, label_to_context, locals_per_block>>

(* Variant: only the nearest block is recorded as a parent.                *)
EnterFuncbodyNearest ==
  /\ Next_is("enterFuncbody")
  /\ Walk(<< >>)
  /\ locals_per_block' =
       IF prog[Node].params = {}
       THEN locals_per_block
       ELSE Put(locals_per_block, Node,
                At(locals_per_block, Node, << >>)
                  \o SetToSeq({<<n, Node>> : n \in prog[Node].params}))
  /\ functions_parents' = Put(functions_parents, Node, <<Last(blocks_relations)>>)
  /\ NewScope(Node, [b \in {} |-> << >>])
  /\ current_context' = Nil
  /\ UNCHANGED <<prog, result, blocks, loop_blocks, blocks_relations, label_to_context>>

EnterFuncbody ==
  /\ Next_is("enterFuncbody")
  /\ Walk(<< >>)
  /\ locals_per_block' =
       IF prog[Node].params = {}
       THEN locals_per_block
       ELSE Put(locals_per_block, Node,
                At(locals_per_block, Node, << >>)
                  \o SetToSeq({<<n, Node>> : n \in prog[Node].params}))
  /\ functions_parents' =
       Put(functions_parents, Node, At(functions_parents, Node, << >>) \o blocks_relations)
  /\ NewScope(Node, [b \in {} |-> << >>])
  /\ current_context' = Nil
  /\ UNCHANGED <<prog, result, blocks, loop_blocks, blocks_relations, label_to_context>>

ExitFuncbody ==
  /\ Next_is("exitFuncbody")
  /\ Walk(<< >>)
  /\ stack_scopes' = Front(stack_scopes)
  /\ current_scope' = IF stack_scopes' = << >> THEN 0 ELSE Last(stack_scopes')
  /\ UNCHANGED <<prog, result, current_context, blocks, scopes, loop_blocks,
                 blocks_relations, tables>>

-----------------------------------------------------------------------------
(* Validation (validate_gotos), after the walk.                            *)

(* Variant: locals on the way to the label are not noticed.                *)
ValidateGotoAnyhow(elements, previous, search) ==
  IF \E m \in DOMAIN previous : \E k \in previous[m][2] .. Len(elements[previous[m][1]]) :
        elements[previous[m][1]][k] = Elem("Label", search)
  THEN "ok"
  ELSE "InvisibleLabel"

(* The lookup ahead of a goto, from the innermost range of elements to the *)
(* outermost.  A range starts at a position of a block's elements.         *)
ValidateGoto(elements, previous, search) ==
  LET Hits(m) == {k \in previous[m][2] .. Len(elements[previous[m][1]]) :
                    elements[previous[m][1]][k] = Elem("Label", search)}
      ranges == {m \in DOMAIN previous : Hits(m) # {}}
  IN  IF ranges = {}
      THEN "InvisibleLabel"
      ELSE LET m == Max(ranges)
               crossed == {k \in previous[m][2] .. Min(Hits(m)) :
                             elements[previous[m][1]][k].kind = "Local"}
           IN  IF crossed # {} THEN "CrossedLocal" ELSE "ok"

(* The first exception among those of a sequence of checks.                *)
FirstFailure(checks) ==
  LET failures == {k \in DOMAIN checks : checks[k] # "ok"}
  IN  IF failures = {} THEN "ok" ELSE checks[Min(failures)]

(* Gotos are accepted on sight of an earlier label, in this block or in an *)
(* enclosing one, and otherwise looked up ahead.                           *)
ExploreContext(scope) ==
  LET elements == scope.elements
      Explore[ctx \in Block, labels \in SUBSET Label, iters \in Seq(Block \X Nat)] ==
        LET els == elements[ctx]
            Seen(k) == labels \cup {els[m].id : m \in {x \in 1..(k-1) : els[x].kind = "Label"}}
            Here(k) == Append(iters, <<ctx, k>>)
        IN  FirstFailure([k \in DOMAIN els |->
              CASE els[k].kind = "Goto" ->
                     IF els[k].id \in Seen(k)
                     THEN "ok"
                     ELSE ValidateGoto(elements, Here(k), els[k].id)
                [] els[k].kind = "Block" -> Explore[els[k].blk, Seen(k), Here(k)]
                [] OTHER -> "ok"])
  IN  Explore[scope.root, {}, << >>]

ValidateLabels(scope) ==
  LET Check[ctx \in Block] ==
        LET els == scope.elements[ctx]
        IN  FirstFailure([k \in DOMAIN els |->
              CASE els[k].kind = "Label" ->
                     IF \E m \in 1..(k-1) : els[m] = els[k] THEN "LabelAlreadyDefined" ELSE "ok"
                [] els[k].kind = "Block" -> Check[els[k].blk]
                [] OTHER -> "ok"])
  IN  Check[scope.root]

(* Labels first, then gotos, one scope after the other.                    *)
ValidateGotos ==
  /\ result = "pending" /\ todo = << >>
  /\ result' = FirstFailure([k \in DOMAIN scopes |->
                 FirstFailure(<<ValidateLabels(scopes[k]), ExploreContext(scopes[k])>>)])
  /\ UNCHANGED <<prog, todo, current_context, blocks, loop_blocks, blocks_relations,
                 tables, gotoVars>>

(* launch has returned or thrown.                                          *)
Analyzed == result # "pending" /\ UNCHANGED vars

Next ==
  \/ EnterChunk \/ EnterBlock \/ ExitBlock
  \/ EnterOtherStat \/ EnterGoto \/ EnterLocal \/ EnterFunction \/ EnterLabel
  \/ EnterFor \/ EnterWhileOrRepeat \/ EnterBreak
  \/ EnterFuncbody \/ ExitFuncbody
  \/ ValidateGotos \/ Analyzed

Spec == Init /\ [][Next]_vars

-----------------------------------------------------------------------------
(* What the rest of the interpreter asks the analyzer.                     *)

IsAssociatedWithLabel(b, l) ==
  \E k \in DOMAIN At(label_to_context, l, << >>) : label_to_context[l][k] = b

(* equal_range(name) of a block's locals.                                  *)
GetContextForLocal(b, name) ==
  SelectSeq(At(locals_per_block, b, << >>), LAMBDA e : e[1] = name)

GetParentsOfFunction(f) == At(functions_parents, f, << >>)

-----------------------------------------------------------------------------
(* The tree as the walker sees it: the blocks and functions it is inside,  *)
(* outermost first, when it is about to enter a statement or leave a block.*)
Inside == result = "pending" /\ (Next_is("enterStat") \/ Next_is("exitBlock"))
Pending(call) ==
  LET events == SelectSeq(todo, LAMBDA c : c.call = call)
  IN  [k \in DOMAIN events |-> events[Len(events) + 1 - k].blk]
OpenBlocks == Pending("exitBlock")
OpenFunctions == <<Main>> \o Pending("exitFuncbody")

(* Blocks the chunk really contains, and statements of those blocks.       *)
Used(b) == b = Main \/ \E o \in Enclosing(prog, b) : o[1] = Main
Places(ops) == {o \in Occurrences(prog, ops) : Used(o[1])}
IdAt(o) == prog[o[1]].stats[o[2]].id

(* The parameters and loop variables of block c, with c.                   *)
Implicit(c) ==
  {<<n, c>> : n \in prog[c].params}
    \cup {<<IdAt(o), c>> : o \in {x \in PlaceOf(prog, c) : prog[x[1]].stats[x[2]].op \in ForLoops}}

(* The locals a statement at <<b, i>> may name, with the block that        *)
(* declares each: earlier local statements of b and of the blocks around   *)
(* it, loop variables and parameters.                                      *)
VisibleLocals(b, i) ==
  LET declared(c, k) == {<<prog[c].stats[m].id, c>> : m \in
                          {x \in DOMAIN prog[c].stats :
                             \/ x < k /\ prog[c].stats[x].op \in LocalOps
                             \/ x = k /\ c # b /\ prog[c].stats[x].op = "localfunction"}}
  IN  UNION {declared(o[1], o[2]) \cup Implicit(o[1]) : o \in Enclosing(prog, b) \cup {<<b, i>>}}

(* The locals whose own value is being written: Lua does not see x in the  *)
(* function of local x = function ... end, the analyzer does.              *)
UnfinishedLocals(b) ==
  {<<IdAt(o), o[1]>> : o \in {x \in Enclosing(prog, b) : prog[x[1]].stats[x[2]].op = "localdef"}}

(* The analyzer's notion of where it is -- the block stack, the current    *)
(* context, the stack of scopes -- is the walker's, through nested         *)
(* functions as well: enterFuncbody forgets the context and exitBlock has  *)
(* to find it again.  The tables are well typed.                           *)
StacksFollowTheTree ==
  /\ TypeOK
  /\ Inside => /\ blocks = OpenBlocks
               /\ blocks_relations = OpenBlocks
               /\ current_context = Last(OpenBlocks)
               /\ [k \in DOMAIN stack_scopes |-> scopes[stack_scopes[k]].root] = OpenFunctions
               /\ current_scope = Last(stack_scopes)
  /\ result # "UnbalancedBlocks"

(* At every statement, the locals recorded for the current block, which    *)
(* lookup_name will search, are those visible there and those whose value  *)
(* is being written: none is missing, none leaks from a block that was     *)
(* left.  Their order decides what a name means, since lookup_name takes   *)
(* the last entry that has a value: entries go from the outside inwards,   *)
(* but for loop variables and parameters, which may stand before the       *)
(* variables of outer blocks.                                              *)
LocalsAreLexical ==
  Next_is("enterStat") =>
    \A n \in Name :
      LET entries == GetContextForLocal(Node, n)
      IN  /\ Range(entries) = {e \in VisibleLocals(Node, Head(todo).i)
                                       \cup UnfinishedLocals(Node) : e[1] = n}
          /\ \A j, k \in DOMAIN entries :
                j < k => \/ Depth[entries[j][2]] =< Depth[entries[k][2]]
                         \/ entries[j] \in Implicit(entries[j][2])

(* close_function captures from the blocks listed for a function: these    *)
(* are the blocks around its body, in all functions, outermost first.      *)
ParentsAreLexical ==
  result = "ok" =>
    \A f \in {x \in Body : Used(x)} :
      LET parents == GetParentsOfFunction(f)
      IN  /\ Range(parents) = {o[1] : o \in Enclosing(prog, f)}
          /\ \A k \in 2 .. Len(parents) : Depth[parents[k-1]] < Depth[parents[k]]

(* The goto handler of visitBlock stops at a block associated with the     *)
(* label.  Every goto of an accepted chunk has such a block around it, in  *)
(* its own function, whose label can be reached without entering the scope *)
(* of a local.                                                             *)
AcceptedGotosHaveATarget ==
  result = "ok" =>
    \A g \in Places({"goto"}) : \E o \in Reaching(prog, g[1], g[2]) :
       /\ IsAssociatedWithLabel(o[1], IdAt(g))
       /\ LegalTarget(prog, o[1], o[2], IdAt(g))

(* A chunk is only refused for a goto that really has no label around it,  *)
(* a goto with a label ahead of it across a local, a label written twice   *)
(* in one block, or a break outside any loop; and the last two are always  *)
(* noticed.                                                                *)
RefusedForAReason ==
  LET gotos == Places({"goto"})
      Around(g) == Reaching(prog, g[1], g[2])
      twice == \E b \in {x \in Block : Used(x)}, l \in Label :
                  Cardinality(LabelPositions(prog, b, l)) > 1
      lonely(o) == ~ \E x \in Enclosing(prog, o[1]) : prog[x[1]].stats[x[2]].op \in LoopOps
  IN  /\ result = "InvisibleLabel" =>
           \E g \in gotos : \A o \in Around(g) : LabelPositions(prog, o[1], IdAt(g)) = {}
      /\ result = "CrossedLocal" =>
           \E g \in gotos : \E o \in Around(g) :
              /\ LabelPositions(prog, o[1], IdAt(g)) # {}
              /\ ~ LegalTarget(prog, o[1], o[2], IdAt(g))
      /\ result = "LabelAlreadyDefined" => twice
      /\ result = "LonelyBreak" => lonely(<<Node, Head(todo).i>>)
      /\ result = "ok" => ~ twice /\ \A o \in Places({"break"}) : ~ lonely(o)
=============================================================================
