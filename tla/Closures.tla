------------------------------ MODULE Closures ------------------------------
(***************************************************************************)
(* Names, closures and memory of LuaPP: which cell lookup_name finds for a *)
(* name, which cells close_function captures, and the two reference counts *)
(* that decide when cells (Value::_references) and functions (GC) are      *)
(* deleted, while files are run one after another on one interpreter.      *)
(*                                                                         *)
(* A cell is a Value on the heap, an object a Function on the heap; 0 is   *)
(* the null pointer, and a value is an object or Nil for all the rest.     *)
(* Releases cascade: deleting an object releases the cells it captured,    *)
(* deleting a cell releases its value.  `work` lists the counter updates a *)
(* statement makes, in their order; one is done per step.                  *)
(*                                                                         *)
(* Control is cut down to what moves cells and counts: break, goto and     *)
(* recursion are in Interpreter, argument lists in ValueLists.             *)
(***************************************************************************)
EXTENDS Naturals, FiniteSets, SequencesExt

CONSTANTS Block,      \* block nodes of all files
          Body,       \* those that are function bodies
          Parent,     \* the enclosing block, Nil for the block of a chunk
          Fun,        \* the function body, or the chunk, a block belongs to
          Depth,      \* how deep a block lies
          Name,
          Nil,        \* no name, no block, and every value that is no function
          Scenarios,  \* what is run: files (blocks of chunks) and code
          MaxRounds   \* bound: a for visits its body at most so often

(* An expression is nil, a name, a function or a call of a named or        *)
(* anonymous function with a name (or nothing) as argument.  In a "pcall"  *)
(* the function is found through a pointer: in t.n(arg), for a field n of  *)
(* a global table, which is as good as a global; and in n() within a left  *)
(* side.  A local statement or an assignment may have a second name, id2,  *)
(* for which there is no value.                                            *)
CallKinds == {"call", "pcall"}
Exp == [k: {"nil", "name", "fun"} \cup CallKinds, n: Name \cup {Nil}, f: Body \cup {Nil}, arg: Name \cup {Nil}]
Stat == [op: {"local", "assign", "call", "return", "function", "localfunction", "do", "for"},
         id: Name \cup {Nil}, id2: Name \cup {Nil}, e: Exp, blk: Block \cup {Nil}]
Code == [param: Name \cup {Nil}, stats: Seq(Stat)]

(* What the grammar gives: only a function definition and the call of an   *)
(* anonymous function have a body, which lies in the block around them;    *)
(* nested blocks lie in the block of their statement.                      *)
WellFormedExp(b, e) ==
  /\ e.f # Nil <=> (e.k = "fun" \/ (e.k = "call" /\ e.n = Nil))
  /\ e.f # Nil => Parent[e.f] = b
  /\ e.k \in {"name", "pcall"} => e.n # Nil
  /\ e.k \in {"nil", "fun"} => e.n = Nil
  /\ e.arg # Nil => e.k \in CallKinds
WellFormedStat(b, s) ==
  /\ WellFormedExp(b, s.e)
  /\ s.op \in {"local", "assign", "function", "localfunction", "for"} => s.id # Nil
  /\ s.id2 # Nil => s.op \in {"local", "assign"}
  /\ s.op \in {"function", "localfunction"} => s.e.k = "fun"
  /\ s.op = "call" => s.e.k \in CallKinds
  /\ s.op \in {"do", "for"} <=> s.blk # Nil
  /\ s.blk # Nil => s.e.k = "nil" /\ Parent[s.blk] = b /\ s.blk \notin Body

ASSUME ScenarioAssumption ==
  /\ IsFiniteSet(Block) /\ IsFiniteSet(Name)
  /\ Body \subseteq Block /\ Nil \notin Block \cup Name \cup Nat
  /\ Parent \in [Block -> Block \cup {Nil}] /\ Depth \in [Block -> Nat] /\ Fun \in [Block -> Block]
  /\ \A b \in Block : Parent[b] # Nil => Depth[b] = Depth[Parent[b]] + 1
  /\ \A b \in Block : Fun[b] = IF b \in Body \/ Parent[b] = Nil THEN b ELSE Fun[Parent[b]]
  /\ \A s \in Scenarios :
       /\ s.files \in Seq(Block) /\ s.code \in [Block -> Code]
       /\ \A i \in DOMAIN s.files : Parent[s.files[i]] = Nil /\ s.files[i] \notin Body
       /\ \A b \in Block : \A i \in DOMAIN s.code[b].stats : WellFormedStat(b, s.code[b].stats[i])
  /\ MaxRounds \in Nat

VARIABLES scenario,
          file,       \* how many files have been started
          status,     \* "idle" between files, "run" within one, or how it ended
          failed,     \* history: a file has thrown an exception
          acts,       \* the C++ activations
          blocks,     \* _blocks
          frames,     \* _local_values: per frame, block and name, a cell
          functions,  \* _functions
          globals,    \* _global_values
          cells,      \* the cells allocated so far
          objs,       \* the functions allocated so far
          work,       \* counter updates still to be made
          lost        \* history: cells whose entry was overwritten

control == <<scenario, file, status, failed, acts, blocks, functions>>
stores == <<frames, globals>>
memory == <<cells, objs, lost>>
vars == <<control, stores, memory, work>>

NoStore == [b \in Block |-> [n \in Name |-> 0]]
NoNames == [n \in Name |-> 0]

(* A value is a function, or Nil for all the rest.  A live cell has refs   *)
(* above 0.                                                                *)
Value == DOMAIN objs \cup {Nil}
Cell == [value: Value, refs: Nat]

(* env and own are history: the variables the names mean where the         *)
(* function is defined, and the cells of the frame that defines it.        *)
(* leaked counts the references nobody holds or releases any more.         *)
Obj == [body: Body, file: Nat, closure: [Name -> 0 .. Len(cells)], env: [Name -> Nat],
        own: SUBSET Nat, count: Nat, live: BOOLEAN, leaked: Nat]

(* ctx: the block; i: the statement, or the rounds of a for; name: the     *)
(* name of a for's variable; cur: the caller's block; val: the value the   *)
(* statement has computed; held: the other copies of values alive in this  *)
(* activation; cell and fill: the variables to be assigned.  History: env, *)
(* the variables the names mean here, and the heights of _blocks and       *)
(* _local_values when the activation has begun.                            *)
Activation == [op: {"chunk", "block", "forblock", "for", "call"}, ctx: Block, i: Nat, name: Name \cup {Nil},
               at: {"stat", "store", "fill", "body"}, cur: Block \cup {Nil}, val: Value, held: Seq(Value),
               cell: 0 .. Len(cells), fill: 0 .. Len(cells), env: [Name -> 0 .. Len(cells)],
               base: Nat, level: Nat]

(* A counter update of a function or of a cell.                            *)
CounterUpdate == [op: {"add", "drop"}, x: Value, v: {Nil}]
                   \cup [op: {"dropold", "unref"}, x: DOMAIN cells, v: {Nil}]
                   \cup [op: {"write"}, x: DOMAIN cells, v: Value]

(* Every pointer -- of the stores, of _functions, of values, closures and  *)
(* pending updates -- is to something that was allocated, and the rest is  *)
(* of its type.                                                            *)
TypeOK ==
  /\ file \in 0 .. Len(scenario.files)
  /\ status \in {"idle", "run", "failing", "over", "dangling", "stale", "crash", "cut"} /\ failed \in BOOLEAN
  /\ acts \in Seq(Activation) /\ blocks \in Seq(Block)
  /\ frames \in Seq([Block -> [Name -> 0 .. Len(cells)]]) /\ globals \in [Name -> 0 .. Len(cells)]
  /\ functions \in Seq(DOMAIN objs)
  /\ cells \in Seq(Cell) /\ objs \in Seq(Obj)
  /\ lost \subseteq DOMAIN cells
  /\ work \in Seq(CounterUpdate)

Init ==
  /\ scenario \in Scenarios
  /\ file = 0 /\ status = "idle" /\ failed = FALSE
  /\ acts = << >> /\ blocks = << >> /\ frames = << >> /\ functions = << >>
  /\ globals = NoNames /\ cells = << >> /\ objs = << >> /\ work = << >> /\ lost = {}

-----------------------------------------------------------------------------
Top == acts[Len(acts)]
Code_(b) == scenario.code[b]
S == Code_(Top.ctx).stats[Top.i]
Running == status = "run" /\ work = << >>
AtBlock == Running /\ Top.op \in {"block", "forblock"}
AtStat(ops) == AtBlock /\ Top.at = "stat" /\ Top.i \in DOMAIN Code_(Top.ctx).stats /\ S.op \in ops
Frame == Last(frames)
Current == Last(blocks)

NewAct(op, b, at, env, base, level) ==
  [op |-> op, ctx |-> b, i |-> 1, name |-> Nil, at |-> at, cur |-> Nil, val |-> Nil, held |-> << >>,
   cell |-> 0, fill |-> 0, env |-> env, base |-> base, level |-> level]
SetTop(a) == [acts EXCEPT ![Len(acts)] = a]
Advanced == [Top EXCEPT !.i = @ + 1, !.at = "stat", !.val = Nil, !.held = << >>, !.cell = 0, !.fill = 0]

(* The counter updates: add_reference and remove_reference of the GC on a  *)
(* function, remove_reference on a cell, and a raw write to a cell.        *)
Add(v) == [op |-> "add", x |-> v, v |-> Nil]
Drop(v) == [op |-> "drop", x |-> v, v |-> Nil]
DropOld(c) == [op |-> "dropold", x |-> c, v |-> Nil]
Unref(c) == [op |-> "unref", x |-> c, v |-> Nil]
Write(c, v) == [op |-> "write", x |-> c, v |-> v]
Drops(vs) == [k \in DOMAIN vs |-> Drop(vs[k])]

CellsOf(f, bs) == {f[b][n] : b \in bs, n \in Name} \ {0}
Unrefs(cs) == LET q == SetToSeq(cs) IN [k \in DOMAIN q |-> Unref(q[k])]
Erase(f, bs) == [b \in Block |-> IF b \in bs THEN NoNames ELSE f[b]]
SetFrame(f) == [frames EXCEPT ![Len(frames)] = f]

NewCell(v) == [value |-> v, refs |-> 1]

-----------------------------------------------------------------------------
(* Names.                                                                  *)
LocalsOf(b) == UNION {{Code_(b).stats[i].id, Code_(b).stats[i].id2} : i \in {i \in DOMAIN Code_(b).stats :
                        Code_(b).stats[i].op \in {"local", "localfunction"}}}

(* The blocks around a block, with it: those in every set of blocks that   *)
(* holds it and the parents of its members.                                *)
Chains == [b \in Block |->
  {x \in Block : \A s \in SUBSET Block : b \in s /\ (\A y \in s : Parent[y] \in s \cup {Nil}) => x \in s}]
Chain(b) == Block \cap Chains[b]

(* The last entry of the analyzer's table whose variable exists in this    *)
(* frame.  A block's for variable or parameter stands before the entries   *)
(* of its parent, its locals behind them: so the innermost local wins, and *)
(* without a local the outermost for variable or parameter.                *)
Found(n) ==
  LET with  == {b \in Chain(Current) : Frame[b][n] # 0}
      local == {b \in with : n \in LocalsOf(b)}
  IN  IF with = {} THEN 0
      ELSE IF local # {}
           THEN Frame[CHOOSE b \in local : \A x \in local : Depth[b] >= Depth[x]][n]
           ELSE Frame[CHOOSE b \in with : \A x \in with : Depth[b] =< Depth[x]][n]

Captured(n) == IF functions = << >> THEN 0 ELSE objs[Last(functions)].closure[n]

(* Variant: the closure is looked at before the locals.                    *)
LookupClosureFirst(n) ==
  IF Captured(n) # 0 THEN Captured(n) ELSE IF Found(n) # 0 THEN Found(n) ELSE globals[n]
(* lookup_name: 0 when there is no such variable.                          *)
Lookup(n) ==
  IF Found(n) # 0 THEN Found(n) ELSE IF Captured(n) # 0 THEN Captured(n) ELSE globals[n]
(* The closure of a function that has been deleted.                        *)
ReadsFreed(n) == Found(n) = 0 /\ functions # << >> /\ ~ objs[Last(functions)].live

ValueOf(n) == IF n = Nil \/ Lookup(n) = 0 THEN Nil ELSE cells[Lookup(n)].value

(* close_function: everything this frame holds in the blocks around body,  *)
(* from the outermost inwards; a name that is there twice makes            *)
(* Function::close throw, after it has counted the cells before it.        *)
Around(body) == Chain(body) \ {body}
ClosesTwice(body) ==
  \E a, b \in Around(body) : a # b /\ \E n \in Name : Frame[a][n] # 0 /\ Frame[b][n] # 0
(* Variant: only the nearest block is captured.                            *)
ClosureNearest(body) == [n \in Name |-> Frame[Parent[body]][n]]
Closure(body) ==
  [n \in Name |-> LET with == {b \in Around(body) : Frame[b][n] # 0}
                  IN  IF with = {} THEN 0
                      ELSE Frame[CHOOSE b \in with : \A x \in with : Depth[b] =< Depth[x]][n]]
(* Variant: captured cells are not counted.                                *)
ReferencedNot(closure) == cells
Referenced(closure) ==
  [c \in DOMAIN cells |->
     [cells[c] EXCEPT !.refs = @ + Cardinality({n \in Name : closure[n] = c})]]
NewObj(body, env, count) ==
  [body |-> body, file |-> file, closure |-> Closure(body), env |-> env,
   own |-> CellsOf(Frame, Block), count |-> count, live |-> TRUE, leaked |-> 0]
NextObj == Len(objs) + 1
NextCell == Len(cells) + 1

-----------------------------------------------------------------------------
(* Files.                                                                  *)

(* run_file: visitChunk pushes a frame it never pops, on whatever the file *)
(* before has left.                                                        *)
RunFile ==
  /\ status = "idle" /\ work = << >> /\ file < Len(scenario.files)
  /\ LET main == scenario.files[file + 1]
         h    == Len(blocks)
         l    == Len(frames) + 1
     IN  /\ acts' = <<NewAct("chunk", main, "body", NoNames, h, l), NewAct("block", main, "stat", NoNames, h + 1, l)>>
         /\ blocks' = Append(blocks, main)
  /\ frames' = Append(frames, NoStore)
  /\ file' = file + 1 /\ status' = "run"
  /\ UNCHANGED <<scenario, failed, functions, globals, memory, work>>

FinishFile ==
  /\ Running /\ Top.op = "chunk" /\ Top.at = "store"
  /\ status' = "idle" /\ acts' = << >>
  /\ UNCHANGED <<scenario, file, failed, blocks, functions, stores, memory, work>>

(* An exception unwinds everything up to run_file: activation by           *)
(* activation the copies of values are destroyed, the interpreter's stacks *)
(* stay as they are.                                                       *)
Unwind ==
  /\ status = "failing" /\ work = << >> /\ acts # << >>
  /\ acts' = Front(acts) /\ work' = Drops(Append(Top.held, Top.val))
  /\ UNCHANGED <<scenario, file, status, failed, blocks, functions, stores, memory>>

FailFile ==
  /\ status = "failing" /\ work = << >> /\ acts = << >>
  /\ status' = "idle"
  /\ UNCHANGED <<scenario, file, failed, acts, blocks, functions, stores, memory, work>>

(* ~Interpreter, between two files or after the last: globals, then frame  *)
(* by frame, also those that calls which failed have left.                 *)
Destroy ==
  /\ status = "idle" /\ work = << >>
  /\ status' = "over"
  /\ work' = Unrefs({globals[n] : n \in Name} \ {0})
  /\ globals' = NoNames
  /\ UNCHANGED <<scenario, file, failed, acts, blocks, functions, frames, memory>>

DestroyFrame ==
  /\ status = "over" /\ work = << >> /\ frames # << >>
  /\ work' = Unrefs(CellsOf(Head(frames), Block))
  /\ frames' = Tail(frames)
  /\ UNCHANGED <<scenario, file, status, failed, acts, blocks, functions, globals, memory>>

-----------------------------------------------------------------------------
(* Statements: evaluate, then store.                                       *)

(* Following a pointer to a cell, which may be gone.                       *)
Touch(c) == status' = IF cells[c].refs = 0 THEN "dangling" ELSE status

(* visitVar_ in a left side: the variable, or a new global.                *)
NewGlobal == S.op = "assign" /\ Lookup(S.id) = 0
Target == IF S.op # "assign" THEN 0 ELSE IF NewGlobal THEN NextCell ELSE Lookup(S.id)
WithTarget(cs) == IF NewGlobal THEN Append(cs, NewCell(Nil)) ELSE cs
Names == ({S.e.n, S.e.arg} \cup (IF S.op \in {"assign", "function"} THEN {S.id, S.id2} ELSE {})) \ {Nil}
Readable == \A n \in Names : ~ ReadsFreed(n)
GlobalsWithTarget == IF NewGlobal THEN [globals EXCEPT ![S.id] = NextCell] ELSE globals

(* The second variable of a left side.  It is visited after the first, but *)
(* neither visit can tell.                                                 *)
VisitSecond ==
  /\ AtStat({"assign"}) /\ S.id2 # Nil /\ Top.fill = 0 /\ Readable
  /\ IF Lookup(S.id2) = 0
     THEN /\ acts' = SetTop([Top EXCEPT !.fill = NextCell])
          /\ cells' = Append(cells, NewCell(Nil))
          /\ globals' = [globals EXCEPT ![S.id2] = NextCell]
     ELSE /\ acts' = SetTop([Top EXCEPT !.fill = Lookup(S.id2)])
          /\ UNCHANGED <<cells, globals>>
  /\ UNCHANGED <<scenario, file, status, failed, blocks, functions, frames, objs, work, lost>>
Visited == S.op = "assign" /\ S.id2 # Nil => Top.fill # 0

(* nil and names: a name is copied, which counts its value.                *)
EvalValue ==
  /\ AtStat({"local", "assign", "return"}) /\ S.e.k \in {"nil", "name"} /\ Readable /\ Visited
  /\ LET v == IF S.e.k = "nil" THEN Nil ELSE ValueOf(S.e.n)
     IN  /\ acts' = SetTop([Top EXCEPT !.at = "store", !.val = v, !.cell = Target])
         /\ work' = <<Add(v)>>
  /\ globals' = GlobalsWithTarget /\ cells' = WithTarget(cells)
  /\ UNCHANGED <<scenario, file, status, failed, blocks, functions, frames, objs, lost>>

(* visitFunctiondef: the new function is counted once, for its value.      *)
EvalFunction ==
  /\ AtStat({"local", "assign", "return"}) /\ S.e.k = "fun" /\ Readable /\ Visited /\ ~ ClosesTwice(S.e.f)
  /\ acts' = SetTop([Top EXCEPT !.at = "store", !.val = NextObj, !.cell = Target])
  /\ objs' = Append(objs, NewObj(S.e.f, Top.env, 1))
  /\ globals' = GlobalsWithTarget /\ cells' = WithTarget(Referenced(Closure(S.e.f)))
  /\ UNCHANGED <<scenario, file, status, failed, blocks, functions, frames, work, lost>>

(* Variant: the caller's copies of the function and arguments are not      *)
(* counted.                                                                *)
CallCopiesUncounted(f, a) == <<Add(a)>>
(* process_names_and_args: the source of the call and its copy, and the    *)
(* arguments as they were evaluated and as they are passed, each count;    *)
(* so does the parameter's cell.                                           *)
CallCopies(f, a) == <<Add(f), Add(f), Add(a), Add(a), Add(a)>>

Callee == IF S.e.n # Nil THEN ValueOf(S.e.n) ELSE NextObj
(* What source and copy hold: the function, or a pointer to the variable   *)
(* it was found in, which counts for nothing.                              *)
Source == IF S.e.k = "pcall" THEN Nil ELSE Callee
Active(body) == \E k \in DOMAIN acts : acts[k].op = "call" /\ acts[k].ctx = body
BodyOf == IF S.e.n # Nil THEN objs[Callee].body ELSE S.e.f
Callable == IF S.e.n = Nil THEN ~ ClosesTwice(S.e.f) ELSE Callee # Nil /\ objs[Callee].file = file
Unlisted == S.e.arg # Nil /\ Code_(BodyOf).param = Nil

EvalCall ==
  /\ AtStat({"local", "assign", "return", "call"}) /\ S.e.k \in CallKinds /\ Readable /\ Visited
  /\ Callable /\ ~ Unlisted /\ ~ Active(BodyOf)
  /\ LET f     == Callee
         a     == ValueOf(S.e.arg)
         base  == WithTarget(IF S.e.n = Nil THEN Referenced(Closure(S.e.f)) ELSE cells)
         param == Code_(BodyOf).param
         given == param # Nil
         os    == IF S.e.n = Nil THEN Append(objs, NewObj(S.e.f, Top.env, 0)) ELSE objs
         env   == IF given THEN [os[f].env EXCEPT ![param] = Len(base) + 1] ELSE os[f].env
         h     == Len(blocks)
         l     == Len(frames) + 1
         call  == [NewAct("call", BodyOf, "body", env, h, l) EXCEPT
                     !.cur = Current, !.held = <<Source, Source, a, a>>]
     IN  /\ acts' = SetTop([Top EXCEPT !.at = "store", !.cell = Target])
                      \o <<call, NewAct("block", BodyOf, "stat", env, h + 1, l)>>
         /\ cells' = IF given THEN Append(base, NewCell(a)) ELSE base
         /\ objs' = os
         /\ frames' = Append(frames, IF given
                                     THEN [NoStore EXCEPT ![BodyOf][param] = Len(base) + 1]
                                     ELSE NoStore)
         /\ work' = IF given THEN CallCopies(Source, a) ELSE Front(CallCopies(Source, a))
         /\ blocks' = Append(blocks, BodyOf)
         /\ functions' = Append(functions, f)
  /\ globals' = GlobalsWithTarget
  /\ UNCHANGED <<scenario, file, status, failed, lost>>

(* A call of something else than a function; a function closed twice,      *)
(* which is never deleted and keeps the cells it had captured.             *)
ThrowError ==
  /\ AtStat({"local", "assign", "return", "call", "function", "localfunction"}) /\ Readable /\ Visited
  /\ S.op = "localfunction" => Code_(S.e.f).param # Nil
  /\ \/ /\ S.e.k \in CallKinds /\ S.e.n # Nil /\ Callee = Nil
        /\ cells' = WithTarget(cells) /\ UNCHANGED objs
     \/ /\ S.e.f # Nil /\ ClosesTwice(S.e.f)
        /\ \E captured \in SUBSET {n \in Name : Closure(S.e.f)[n] # 0} :
             LET part == [n \in Name |-> IF n \in captured THEN Closure(S.e.f)[n] ELSE 0]
             IN  /\ cells' = WithTarget(Referenced(part))
                 /\ objs' = Append(objs, [NewObj(S.e.f, Top.env, 0) EXCEPT !.closure = part])
  /\ status' = "failing" /\ failed' = TRUE
  /\ globals' = GlobalsWithTarget
  /\ UNCHANGED <<scenario, file, acts, blocks, functions, frames, work, lost>>

(* Following a pointer into what is gone: the closure of a deleted         *)
(* function ("dangling"), or the parse tree of an earlier file ("stale").  *)
(* "crash": an argument for a function without parameters, and a local     *)
(* function without them.                                                  *)
ReadFreed ==
  /\ AtStat({"local", "assign", "return", "call", "function"}) /\ ~ Readable
  /\ status' = "dangling"
  /\ UNCHANGED <<scenario, file, failed, acts, blocks, functions, stores, memory, work>>

CallStale ==
  /\ AtStat({"local", "assign", "return", "call"}) /\ Readable /\ Visited
  /\ S.e.k \in CallKinds /\ S.e.n # Nil /\ Callee # Nil /\ objs[Callee].file # file
  /\ status' = "stale"
  /\ UNCHANGED <<scenario, file, failed, acts, blocks, functions, stores, memory, work>>

Crash ==
  /\ \/ /\ AtStat({"local", "assign", "return", "call"}) /\ S.e.k \in CallKinds /\ Readable /\ Visited
        /\ Callable /\ Unlisted
     \/ AtStat({"localfunction"}) /\ Code_(S.e.f).param = Nil
  /\ status' = "crash"
  /\ UNCHANGED <<scenario, file, failed, acts, blocks, functions, stores, memory, work>>

(* Recursion, which Interpreter is about.                                  *)
CutRun ==
  /\ AtStat({"local", "assign", "return", "call"}) /\ S.e.k \in CallKinds /\ Readable /\ Visited
  /\ Callable /\ ~ Unlisted /\ Active(BodyOf)
  /\ status' = "cut"
  /\ UNCHANGED <<scenario, file, failed, acts, blocks, functions, stores, memory, work>>

(* Storing what the expression, or the call, has left in val.              *)
AtStore(ops) == AtBlock /\ Top.at = "store" /\ S.op \in ops
Stored == IF S.id2 = Nil THEN Advanced ELSE [Advanced EXCEPT !.i = Top.i, !.at = "fill", !.fill = Top.fill]

(* process_local_variables: a name declared twice keeps its cell, and the  *)
(* old value is overwritten without being released.                        *)
Overwrite(o) == [objs EXCEPT ![o].leaked = @ + 1]
Forget(v) == IF v = Nil THEN objs ELSE Overwrite(v)
StoreLocal ==
  /\ AtStore({"local"})
  /\ LET old == Frame[Current][S.id]
         c   == IF old = 0 THEN NextCell ELSE old
     IN  /\ cells' = IF old = 0 THEN Append(cells, NewCell(Nil)) ELSE cells
         /\ frames' = SetFrame([Frame EXCEPT ![Current][S.id] = c])
         /\ objs' = IF old # 0 THEN Forget(cells[old].value) ELSE objs
         /\ work' = <<Write(c, Top.val), Add(Top.val), Drop(Top.val)>>
         /\ acts' = SetTop([Stored EXCEPT !.env = [@ EXCEPT ![S.id] = c]])
  /\ UNCHANGED <<scenario, file, status, failed, blocks, functions, globals, lost>>

(* A name without a value gets a new cell, whatever entry it finds.        *)
AtFill(ops) == AtBlock /\ Top.at = "fill" /\ S.op \in ops
FillLocal ==
  /\ AtFill({"local"})
  /\ cells' = Append(cells, NewCell(Nil))
  /\ lost' = lost \cup ({Frame[Current][S.id2]} \ {0})
  /\ frames' = SetFrame([Frame EXCEPT ![Current][S.id2] = NextCell])
  /\ acts' = SetTop([Advanced EXCEPT !.env = [@ EXCEPT ![S.id2] = NextCell]])
  /\ UNCHANGED <<scenario, file, status, failed, blocks, functions, globals, objs, work>>

(* Variant: the old value is not released.                                 *)
AssignOpsKeepingOld(c, v) == <<Write(c, v), Add(v), Drop(v)>>
(* process_stat_var_list, and the end of the expression's own copy.        *)
AssignOps(c, v) == <<DropOld(c), Write(c, v), Add(v), Drop(v)>>

StoreAssign ==
  /\ AtStore({"assign"})
  /\ work' = AssignOps(Top.cell, Top.val)
  /\ acts' = SetTop(Stored)
  /\ UNCHANGED <<scenario, file, status, failed, blocks, functions, stores, memory>>

(* The variable without a value is set to nil, and what it had is not      *)
(* released.  The copy of the other value may as well go before.           *)
FillAssign ==
  /\ AtFill({"assign"})
  /\ Touch(Top.fill)
  /\ cells' = [cells EXCEPT ![Top.fill].value = Nil]
  /\ objs' = Forget(cells[Top.fill].value)
  /\ acts' = SetTop(Advanced)
  /\ UNCHANGED <<scenario, file, failed, blocks, functions, stores, work, lost>>

Discard ==
  /\ AtStore({"call"})
  /\ work' = <<Drop(Top.val)>>
  /\ acts' = SetTop(Advanced)
  /\ UNCHANGED <<scenario, file, status, failed, blocks, functions, stores, memory>>

(* function id() ... end always writes a new global cell; local function   *)
(* closes before its own cell exists, so its name means in its body what   *)
(* it meant before, and overwrites an entry it finds.                      *)
DefineFunction ==
  /\ AtStat({"function", "localfunction"}) /\ Readable /\ ~ ClosesTwice(S.e.f)
  /\ S.op = "localfunction" => Code_(S.e.f).param # Nil
  /\ LET c   == NextCell
         old == IF S.op = "function" THEN globals[S.id] ELSE Frame[Current][S.id]
         env == IF S.op = "function" THEN Top.env ELSE [Top.env EXCEPT ![S.id] = c]
     IN  /\ objs' = Append(objs, NewObj(S.e.f, Top.env, 1))
         /\ cells' = Append(Referenced(Closure(S.e.f)), NewCell(NextObj))
         /\ lost' = lost \cup ({old} \ {0})
         /\ IF S.op = "function"
            THEN globals' = [globals EXCEPT ![S.id] = c] /\ UNCHANGED frames
            ELSE frames' = SetFrame([Frame EXCEPT ![Current][S.id] = c]) /\ UNCHANGED globals
         /\ acts' = SetTop([Advanced EXCEPT !.env = env])
  /\ UNCHANGED <<scenario, file, status, failed, blocks, functions, work>>

-----------------------------------------------------------------------------
(* Blocks, loops and the end of calls.                                     *)
Enter ==
  /\ AtStat({"do"})
  /\ acts' = Append(acts, NewAct("block", S.blk, "stat", Top.env, Len(blocks) + 1, Len(frames)))
  /\ blocks' = Append(blocks, S.blk)
  /\ UNCHANGED <<scenario, file, status, failed, functions, stores, memory, work>>

(* A numeric for: one cell for all rounds, in the block of the body.       *)
StartFor ==
  /\ AtStat({"for"})
  /\ cells' = Append(cells, NewCell(Nil))
  /\ frames' = SetFrame([Frame EXCEPT ![S.blk][S.id] = NextCell])
  /\ blocks' = Append(blocks, S.blk)
  /\ acts' = Append(acts, [NewAct("for", S.blk, "stat", [Top.env EXCEPT ![S.id] = NextCell],
                                      Len(blocks) + 1, Len(frames)) EXCEPT !.cell = NextCell, !.name = S.id])
  /\ UNCHANGED <<scenario, file, status, failed, functions, globals, objs, work, lost>>

AtFor(at) == Running /\ Top.op = "for" /\ Top.at = at

Round ==
  /\ AtFor("stat") /\ Top.i =< MaxRounds
  /\ acts' = Append(SetTop([Top EXCEPT !.i = @ + 1]), NewAct("forblock", Top.ctx, "stat", Top.env, Len(blocks), Len(frames)))
  /\ UNCHANGED <<scenario, file, status, failed, blocks, functions, stores, memory, work>>

(* Between rounds the other locals go, and the variable is set to the next *)
(* number without releasing what the body has assigned to it.  What stays  *)
(* is the entry of that name, also when a local function or a local of the *)
(* body has put another cell there.                                        *)
NextRound ==
  /\ AtFor("store")
  /\ LET others == {Frame[Top.ctx][n] : n \in Name \ {Top.name}} \ {0}
     IN  /\ frames' = SetFrame([Frame EXCEPT ![Top.ctx] =
                                  [n \in Name |-> IF n = Top.name THEN @[n] ELSE 0]])
         /\ objs' = Forget(cells[Top.cell].value)
         /\ work' = Append(Unrefs(others), Write(Top.cell, Nil))
  /\ acts' = SetTop([Top EXCEPT !.at = "stat"])
  /\ UNCHANGED <<scenario, file, status, failed, blocks, functions, globals, cells, lost>>

EndFor ==
  /\ AtFor("stat")
  /\ blocks' = Front(blocks)
  /\ frames' = SetFrame(Erase(Frame, {Top.ctx}))
  /\ work' = Unrefs(CellsOf(Frame, {Top.ctx}))
  /\ acts' = LET below == Front(acts) IN [below EXCEPT ![Len(below)].i = @ + 1]
  /\ UNCHANGED <<scenario, file, status, failed, functions, globals, memory>>

(* A block that ends releases its locals, unless a for owns it.            *)
AtEnd == AtBlock /\ Top.at = "stat" /\ Top.i \notin DOMAIN Code_(Top.ctx).stats
Resumed(a) == IF a.op \in {"block", "forblock"} THEN [a EXCEPT !.i = @ + 1] ELSE [a EXCEPT !.at = "store"]
Below == LET below == Front(acts) IN [below EXCEPT ![Len(below)] = Resumed(@)]

(* Variant: the entries go, the cells are not released.                    *)
ReleasedNot(f, bs) == << >>
Released(f, bs) == Unrefs(CellsOf(f, bs))

FinishBlock ==
  /\ AtEnd
  /\ acts' = Below
  /\ IF Top.op = "forblock"
     THEN UNCHANGED <<blocks, frames, work>>
     ELSE /\ blocks' = Front(blocks)
          /\ frames' = SetFrame(Erase(Frame, {Top.ctx}))
          /\ work' = Released(Frame, {Top.ctx})
  /\ UNCHANGED <<scenario, file, status, failed, functions, globals, memory>>

(* A call without results: result = nil overwrites the copy of the         *)
(* function, if there is one, whose count is never given back.             *)
FinishCall ==
  /\ Running /\ Top.op = "call" /\ Top.at = "store"
  /\ functions' = Front(functions) /\ frames' = Front(frames)
  /\ objs' = Forget(Top.held[1])
  /\ work' = Drops(Tail(Top.held))
  /\ acts' = Front(acts)
  /\ UNCHANGED <<scenario, file, status, failed, blocks, globals, cells, lost>>

(* Return, caught by the nearest call: the blocks above the caller's are   *)
(* erased, then the frame, the function and the copies go; the value is    *)
(* handed to the caller's statement.                                       *)
CallIndex == {k \in DOMAIN acts : acts[k].op = "call"}
ReturnOps(f, bs, held) == Released(f, bs) \o Drops(held)

CatchReturn ==
  /\ AtStore({"return"}) /\ CallIndex # {}
  /\ LET k    == CHOOSE j \in CallIndex : \A m \in CallIndex : m =< j
         call == acts[k]
         base == CHOOSE j \in DOMAIN blocks : /\ blocks[j] = call.cur
                                              /\ \A m \in DOMAIN blocks : m > j => blocks[m] # call.cur
         bs   == {blocks[m] : m \in base .. Len(blocks)}
     IN  /\ blocks' = SubSeq(blocks, 1, base)
         /\ work' = ReturnOps(Frame, bs, call.held)
         /\ acts' = [SubSeq(acts, 1, k - 1) EXCEPT ![k - 1].val = Top.val]
  /\ functions' = Front(functions) /\ frames' = Front(frames)
  /\ UNCHANGED <<scenario, file, status, failed, globals, memory>>

(* visitChunk catches the rest: the block and its locals stay.             *)
ReturnFromChunk ==
  /\ AtStore({"return"}) /\ CallIndex = {}
  /\ acts' = <<[acts[1] EXCEPT !.at = "store"]>>
  /\ work' = <<Drop(Top.val)>>
  /\ UNCHANGED <<scenario, file, status, failed, blocks, functions, stores, memory>>

-----------------------------------------------------------------------------
(* The counters: one update per step; one of a cell that is gone ends the  *)
(* run.                                                                    *)
W == Head(work)
Updating(op) == work # << >> /\ status \in {"idle", "run", "failing", "over"} /\ W.op = op
Unmoved == UNCHANGED <<scenario, file, failed, acts, blocks, functions, stores, lost>>

AddReference ==
  /\ Updating("add")
  /\ objs' = IF W.x = Nil THEN objs ELSE [objs EXCEPT ![W.x].count = @ + 1]
  /\ work' = Tail(work)
  /\ UNCHANGED <<cells, status>> /\ Unmoved

(* GC::remove_reference deletes a function whose count reaches 0, and      *)
(* Function::~Function releases the cells it has captured.                 *)
Release(o, rest) ==
  IF o = Nil \/ ~ objs[o].live THEN work' = rest /\ UNCHANGED objs
  ELSE IF objs[o].count > 1 THEN work' = rest /\ objs' = [objs EXCEPT ![o].count = @ - 1]
  ELSE /\ objs' = [objs EXCEPT ![o].count = 0, ![o].live = FALSE]
       /\ work' = Unrefs({objs[o].closure[n] : n \in Name} \ {0}) \o rest

RemoveReference ==
  /\ Updating("drop")
  /\ Release(W.x, Tail(work))
  /\ UNCHANGED <<cells, status>> /\ Unmoved

ReleaseOld ==
  /\ Updating("dropold") /\ Touch(W.x)
  /\ Release(cells[W.x].value, Tail(work))
  /\ UNCHANGED cells /\ Unmoved

(* Value::remove_reference, which deletes the cell at 0; ~Value releases   *)
(* its value.                                                              *)
RemoveCellReference ==
  /\ Updating("unref") /\ Touch(W.x)
  /\ cells' = [cells EXCEPT ![W.x].refs = IF @ = 0 THEN 0 ELSE @ - 1]
  /\ work' = IF cells[W.x].refs = 1 THEN <<Drop(cells[W.x].value)>> \o Tail(work) ELSE Tail(work)
  /\ UNCHANGED objs /\ Unmoved

WriteCell ==
  /\ Updating("write") /\ Touch(W.x)
  /\ cells' = [cells EXCEPT ![W.x].value = W.v]
  /\ work' = Tail(work)
  /\ UNCHANGED objs /\ Unmoved

Update == AddReference \/ RemoveReference \/ ReleaseOld \/ RemoveCellReference \/ WriteCell

Step ==
  \/ RunFile \/ FinishFile \/ Unwind \/ FailFile \/ Destroy \/ DestroyFrame
  \/ VisitSecond \/ EvalValue \/ EvalFunction \/ EvalCall \/ ThrowError \/ ReadFreed \/ CallStale \/ Crash \/ CutRun
  \/ StoreLocal \/ FillLocal \/ StoreAssign \/ FillAssign \/ Discard \/ DefineFunction
  \/ Enter \/ StartFor \/ Round \/ NextRound \/ EndFor \/ FinishBlock \/ FinishCall
  \/ CatchReturn \/ ReturnFromChunk
  \/ Update

Ended ==
  /\ \/ status \in {"dangling", "stale", "crash", "cut"}
     \/ status = "over" /\ work = << >> /\ frames = << >>
  /\ UNCHANGED vars

Next == Step \/ Ended

Spec == Init /\ [][Next]_vars

-----------------------------------------------------------------------------
(* Properties.                                                             *)
Settled == work = << >> /\ status \in {"idle", "run", "failing", "over"}

(* Whenever the updates of a statement, or of ~Interpreter, are done, the  *)
(* reference count of a cell (Value::_references) is the number of its     *)
(* places: entries of _local_values and _global_values, closures of        *)
(* functions that exist, and one for a cell whose entry was overwritten,   *)
(* by `function`, `local function` or a local without a value.  So no cell *)
(* in reach is deleted, and one out of reach is not kept; and every        *)
(* pointer is to something that was allocated.                             *)
CellsAreCounted ==
  TypeOK /\ (Settled =>
    \A c \in DOMAIN cells :
      cells[c].refs =
          Cardinality({e \in (DOMAIN frames) \X Block \X Name : frames[e[1]][e[2]][e[3]] = c})
        + Cardinality({n \in Name : globals[n] = c})
        + Cardinality({e \in (DOMAIN objs) \X Name : objs[e[1]].live /\ objs[e[1]].closure[e[2]] = c})
        + Cardinality({c} \cap lost))

(* The GC's count of a function is the number of cells and of the          *)
(* interpreter's temporary copies that hold it, plus the references the    *)
(* code forgets: a call without results, a local declared twice, a for     *)
(* variable that was assigned to and an assignment with too few values     *)
(* overwrite a function without releasing it.  A function is deleted with  *)
(* its last holder, not before.                                            *)
FunctionsAreCounted ==
  Settled =>
    \A o \in DOMAIN objs :
      objs[o].count =
          Cardinality({c \in DOMAIN cells : cells[c].refs > 0 /\ cells[c].value = o})
        + Cardinality({k \in DOMAIN acts : acts[k].val = o})
        + Cardinality({e \in (DOMAIN acts) \X (1 .. 4) :
                         e[2] \in DOMAIN acts[e[1]].held /\ acts[e[1]].held[e[2]] = o})
        + objs[o].leaked

(* A function called by its name, or anonymous, is not deleted while it    *)
(* runs, whatever its body assigns and whatever it calls: the caller's     *)
(* copies keep it until _functions is popped.  One called through a field  *)
(* may be, by t.f = nil.  After a failure the entries of _functions that   *)
(* the exception left behind may dangle.                                   *)
RunningFunctionsAreAlive ==
  Settled /\ ~ failed =>
    \A k \in CallIndex : acts[k].held[1] # Nil => objs[functions[acts[k].level - file]].live

(* Nothing that is deleted is used or deleted again, neither a cell nor a  *)
(* closure, also not by ~Interpreter after failures; except in the body of *)
(* a function called through a pointer, which may have deleted itself, and *)
(* at the top level of a file run after another has failed inside a call:  *)
(* lookup_name then asks the function left on _functions.                  *)
CalledByPointer ==
  \E k \in CallIndex : (\A m \in CallIndex : m =< k) /\ acts[k].held[1] = Nil
NothingFreedIsTouched ==
  status = "dangling" => acts # << >> /\ (CalledByPointer \/ (failed /\ CallIndex = {}))

(* close_function captures the variables its body can see in the frame     *)
(* that defines it, all of them and no others.  Not so for the variable of *)
(* a for whose entry the body has replaced, from the second round on: the  *)
(* entry kept by its name is captured instead.                             *)
CapturesAreLexical ==
  \A o \in DOMAIN objs : objs[o].count > 0 =>
    \A n \in Name :
      \/ objs[o].env[n] \in lost \ objs[o].own
      \/ objs[o].closure[n] = IF objs[o].env[n] \in objs[o].own THEN objs[o].env[n] ELSE 0

(* A name means the variable that encloses its use in the text, when that  *)
(* variable lives in this frame or in the one that defined the running     *)
(* function, and the global of that name otherwise.  Not so for the for    *)
(* variable or parameter with a variable of the same name around it in the *)
(* same frame: lookup_name takes the outer one; nor for the for variable   *)
(* whose entry the body has replaced, from the second round on, also in    *)
(* the functions defined there; nor at the top level after a failure       *)
(* inside a call.                                                          *)
Shadowing(n) ==
  \E a, b \in Chain(Current) :
    a # b /\ Frame[a][n] = Top.env[n] /\ n \notin LocalsOf(a) /\ Frame[b][n] \notin {0, Top.env[n]}
LookupIsLexical ==
  AtBlock /\ (CallIndex # {} \/ functions = << >>) =>
    \A n \in Name :
      LET c    == Top.env[n]
          here == CellsOf(Frame, Block) \cup
                  (IF functions = << >> THEN {} ELSE objs[Last(functions)].own)
      IN  \/ Shadowing(n)
          \/ c \in lost \ here
          \/ Lookup(n) = IF c \in here THEN c ELSE globals[n]
=============================================================================
