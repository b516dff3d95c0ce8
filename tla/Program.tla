------------------------------ MODULE Program ------------------------------
(***************************************************************************)
(* Abstract syntax of the Lua programs LuaPP reads: what the parse tree of *)
(* src/Lua.g4 keeps of a chunk once expressions are reduced to the         *)
(* functions they call or define.  A block stands for a BlockContext node  *)
(* of the tree; its identity is the pointer the analyzer and the           *)
(* interpreter compare.                                                    *)
(***************************************************************************)
EXTENDS Naturals, Sequences, FiniteSets

CONSTANTS Block,     \* the block nodes of the parse tree
          Main,      \* the block of the chunk
          Body,      \* the blocks that are function bodies
          Fun,       \* the function body (or Main) a block belongs to
          Depth,     \* nesting depth of a block, over all functions
          Name,      \* names of local variables
          Label,     \* names of labels
          Nil,       \* an absent name, label, block or function
          Programs   \* the programs under study

(* The forms of `stat`.  "localdef" is local x = function ... end, "def"   *)
(* any other statement whose expression defines a function, "error" one    *)
(* whose evaluation throws BadTypeException, "expect_failure" the test     *)
(* primitive of the interpreter applied to a call.  "if" has no else       *)
(* branch, "ifelse" has one.                                               *)
PlainLoops == {"while", "repeat"}
ForLoops   == {"for", "forin"}
LoopOps    == PlainLoops \cup ForLoops
BranchOps  == {"if", "ifelse"}
BlockOps   == LoopOps \cup BranchOps \cup {"do"}
LocalOps   == {"local", "localdef", "localfunction"}
DefOps     == {"function", "localfunction", "localdef", "def"}
CallOps    == {"call", "expect_failure"}
LeafOps    == {"local", "error", "break", "goto", "label"}
Op         == BlockOps \cup DefOps \cup CallOps \cup LeafOps

(* id: the local, loop variable, function name or label of the statement;  *)
(* blks: its nested blocks in textual order; fn: the function it defines,  *)
(* calls, evaluates as a condition or uses as an iterator.                 *)
Stat == [op: Op, id: Name \cup Label \cup {Nil}, blks: Seq(Block), fn: Body \cup {Nil}]

(* block : stat* retstat? ; params are the formal parameters of a body.    *)
BlockCode == [stats: Seq(Stat), ret: BOOLEAN, params: SUBSET Name]

ASSUME TreeAssumption ==
  /\ Main \in Block
  /\ Body \subseteq Block \ {Main}
  /\ Nil \notin Block \cup Name \cup Label
  /\ Name \cap Label = {}
  /\ Fun \in [Block -> Body \cup {Main}]
  /\ \A f \in Body \cup {Main} : Fun[f] = f
  /\ Depth \in [Block -> Nat]

(* What the grammar allows of one statement of block b: nested blocks      *)
(* belong to the same function and lie deeper, bodies belong to their own. *)
WellFormedStat(b, s) ==
  /\ s \in Stat
  /\ s.op \in BlockOps => Len(s.blks) >= 1
  /\ s.op \notin BlockOps => s.blks = << >>
  /\ s.op \notin BranchOps => Len(s.blks) =< 1
  /\ \A j \in DOMAIN s.blks : /\ Fun[s.blks[j]] = Fun[b]
                              /\ Depth[s.blks[j]] > Depth[b]
                              /\ s.blks[j] \notin Body
  /\ s.op \in DefOps \cup CallOps \cup {"forin"} => s.fn # Nil
  /\ s.op \in DefOps => Depth[s.fn] > Depth[b]
  /\ s.op \in LocalOps \cup {"function"} \cup ForLoops => s.id \in Name
  /\ s.op \in {"goto", "label"} => s.id \in Label

WellFormed(p) ==
  /\ p \in [Block -> BlockCode]
  /\ \A b \in Block : \A i \in DOMAIN p[b].stats : WellFormedStat(b, p[b].stats[i])

ASSUME ProgramsAssumption == \A p \in Programs : WellFormed(p)

-----------------------------------------------------------------------------
(* Lexical notions used to state what the analyzer and the interpreter     *)
(* should do; they read the program only.                                  *)

(* The occurrences of operation set ops: pairs of a block and a position.  *)
Occurrences(p, ops) ==
  {o \in UNION {{b} \X (DOMAIN p[b].stats) : b \in Block} : p[o[1]].stats[o[2]].op \in ops}

(* The blocks statement s opens directly, function bodies included.        *)
Opens(s) == {s.blks[j] : j \in DOMAIN s.blks} \cup (IF s.op \in DefOps THEN {s.fn} ELSE {})

(* Each block node has one place in the tree.                              *)
IsTree(p) ==
  /\ \A o1, o2 \in Occurrences(p, Op) :
        o1 # o2 => Opens(p[o1[1]].stats[o1[2]]) \cap Opens(p[o2[1]].stats[o2[2]]) = {}
  /\ \A o \in Occurrences(p, BranchOps) :
        LET blks == p[o[1]].stats[o[2]].blks
        IN  \A j, k \in DOMAIN blks : j # k => blks[j] # blks[k]

(* Where block c is opened: the empty set for Main and unused blocks.      *)
PlaceOf(p, c) == {o \in Occurrences(p, BlockOps \cup DefOps) : c \in Opens(p[o[1]].stats[o[2]])}

(* The places that enclose block b, itself excluded, in all functions.     *)
Enclosing(p, b) ==
  LET Up[n \in Nat] == IF n = 0
                       THEN PlaceOf(p, b)
                       ELSE Up[n-1] \cup UNION {PlaceOf(p, o[1]) : o \in Up[n-1]}
  IN  Up[Depth[b]]

(* The places a goto at <<b, i>> can be looked at from: its own position   *)
(* and the positions of the enclosing statements of the same function.     *)
Reaching(p, b, i) == {<<b, i>>} \cup {o \in Enclosing(p, b) : Fun[o[1]] = Fun[b]}

LabelPositions(p, b, l) ==
  {k \in DOMAIN p[b].stats : p[b].stats[k].op = "label" /\ p[b].stats[k].id = l}

DeclaresLocal(s) == s.op \in LocalOps \cup {"function"}

(* A label of block b behind position i, or ahead of it with no local      *)
(* declared in between.                                                    *)
LegalTarget(p, b, i, l) ==
  \E k \in LabelPositions(p, b, l) :
     k > i => ~ \E m \in i..k : DeclaresLocal(p[b].stats[m])

(* No statement of a function calls that function itself.                  *)
NoSelfCall(p) ==
  \A b \in Block : \A i \in DOMAIN p[b].stats :
     p[b].stats[i].op \in CallOps \cup LoopOps => p[b].stats[i].fn # Fun[b]

(* What the analyzer asks of a chunk (SyntacticAnalyzer checks that it     *)
(* does): no label twice in a block, a label for every goto, a loop around *)
(* every break, if only a loop around the function it is in.               *)
Accepted(p) ==
  /\ \A b \in Block, l \in Label : Cardinality(LabelPositions(p, b, l)) =< 1
  /\ \A g \in Occurrences(p, {"goto"}) : \E o \in Reaching(p, g[1], g[2]) :
        LegalTarget(p, o[1], o[2], p[g[1]].stats[g[2]].id)
  /\ \A o \in Occurrences(p, {"break"}) : \E x \in Enclosing(p, o[1]) :
        p[x[1]].stats[x[2]].op \in LoopOps
=============================================================================
