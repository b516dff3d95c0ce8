# TLA+ models of LuaPP

LuaPP is a Lua interpreter in C++ that walks the ANTLR parse tree of a chunk, and
that calls C++ functions from Lua after converting the arguments to the types of
their parameters. It is one sequential program: what makes it hard is not
concurrency but the number of ways in which control leaves a construct. `break`,
`goto` and `return` are C++ exceptions thrown through the recursive `visit`
methods, and every handler must put back in order three stacks that other methods
have pushed to. The models are about that, and about the places where the code
holds a value, a pointer or a mode while something else runs.

## The parts of the system

| Part | State | Operations | Hard about it | Module |
|---|---|---|---|---|
| Grammar (`Lua.g4`) | the parse tree | parsing (generated) | block nodes are identities that both passes compare | `Program` |
| Syntactic analyzer (`syntactic_analyzer.*`) | `_blocks`, `_blocks_relations`, `_scopes`, `_stack_scopes`, `_current_context`, `_loop_blocks`, and the tables of labels, locals and function parents | enter/exit callbacks, `validate_gotos`, three queries | nested functions inside blocks inside functions; context lost and found again; a label name in several blocks | `SyntacticAnalyzer` |
| Interpreter, control (`interpreter.cpp`) | `_blocks`, `_local_values`, `_functions`, the C++ stack | `visitChunk`, `visitBlock`, statements, loops, `call_function`, `stabilize_blocks`, `expect_failure` | break, goto, return and type errors unwinding any nesting of loops and calls | `Interpreter` |
| Interpreter, value lists | argument, result and expression lists, `...` | `visitArgs`, `call_function`, `visitRetstat`, assignment, `local`, `for in` | lists that are too short, too long, empty, multi-valued; written three times | `ValueLists` |
| Interpreter, names and closures | `_local_values`, `_global_values`, `_functions`, the closure of each function | `lookup_name`, `close_function`, `Function::close`, definitions and calls | the analyzer's table, the frame, the closure and the globals must agree on what a name means | `Closures` |
| Interpreter, expressions and numbers | none; the counter of a numeric `for` | operators, weak conversions, equality, `ensure_value_type`, numeric `for` | int and double branches that must agree; signs, overflow, traps; operands read before and used after a call | `Expressions`, `NumericFor` |
| Tables (`types.*`, `visitVar_`) | one map per key type, the shared nil, `_var__context` | constructor, `dot`, `subscript`, store, `border` | left sides resolved in a mode that calls may change; pointers held over calls | `Tables` |
| Memory (`GC`, `Value`) | two reference counts: of cells and of what they hold | copies, assignments, erasing of blocks, deletion | counts that are too high or too low; deletions that cascade through closures | `Closures` (cells and functions) |
| C++ functions (`function_abstraction.*`, `Converter`) | a chain of `CurriedFunction`, conversions | build, `bind_next`, `call` | failure half way through the arguments; ends of the chain | `CFunctions` |
| Environment | an interpreter, a converter | `run_file`, `register_c_function` | a second file on the same interpreter, also after a failure | `Closures`, `CFunctions` |
| Exceptions | none | construction of messages | | control-flow ones in `Interpreter` |
| Test driver, playfield | none | read files, compare messages | | not modelled |

How they interact: `Environment::run_file` parses a file and calls
`Interpreter::launch`, which lets the tree walker drive the analyzer's callbacks,
then has it validate the gotos, then visits the chunk. During the visit the
interpreter asks the analyzer which block a label belongs to
(`is_associated_with_label`), which block declares a local
(`get_context_for_local`) and which blocks surround a function
(`get_parents_of_function`). Calls of registered C++ functions go through
`call_c_function`. There are no threads, no messages and nothing persistent.

What makes each part correct, in a sentence: the analyzer's stacks are the
walker's position, its tables are lexical scoping, and it refuses exactly the
chunks it gives a reason for; the interpreter's three stacks mirror the C++ stack
whatever exception passes; lists of values arrive as Lua adjusts them; the nil
shared by all missing fields stays nil and a held pointer stays a field; a name
means the variable around it, and that variable is alive as long as something can
name it; operators give one number whatever type carries it, and a loop visits its
body once per value; a C++ function runs on its own complete converted arguments or
not at all.

## Modules

**Program** is the abstract syntax: a program maps each block node to its
statements, a flag for a return statement, and the parameters when it is a
function body. Expressions are reduced to the function they call or define. The
constants `Fun` and `Depth` give the function a block belongs to and its nesting
depth; `WellFormed` is what the grammar guarantees. The module also holds the
lexical notions the properties are stated with (`Enclosing`, `Reaching`,
`LegalTarget`), none of which the modelled code uses.

**SyntacticAnalyzer** has one action per callback and per kind of statement that
`enterStat` tells apart. `todo` stands for the walker: the callbacks still to come
for the nodes it has entered. The variables are the class's members under their
names without the leading underscore; `result` is the outcome or the exception.
`ExploreContext` and `FirstFailure` follow `explore_context` and
`validate_gotos`: every goto is looked up through the visible elements of its
scope. `enterStat` recognises statements by the text they begin with; the model
covers statements that are what they begin like. The names of a `local` statement are
recorded before its expressions are walked, so that in `local x = function ... end`
(the statement `localdef`) the body's table already holds `x`.

**Interpreter** makes the C++ call stack explicit. An element of `stack` is one
activation of `visitChunk`, `visitBlock`, a loop method, `call_function` or
`expect_failure`, with its local variables: the block visited, the saved
`current`, the index of the statement, `coming_from_for`, and where the method is.
`exn` is the exception in flight; it unwinds one activation per step, either by
`Propagate` or through the handler of that method (`CatchBreak`, `CatchGoto`,
`RethrowGoto`, `CatchReturn`, `CatchBadType`, `LeaveChunk`). `blocks`,
`local_values` and `functions` are the members; a frame maps a block to the names
it holds a cell for. Conditions, limits and iterator results are free choices, a
call may find its function undefined. `process_for_loop` makes the cell of its
variable before it evaluates the third expression of the head, which may call or
throw, and pushes its block only after that: until then the activation is a
`process_for_head`. Calls in the first two expressions come before any change of
the stacks; they are call statements in front of the loop. Undefined behaviour is a choice or an end
state: `Goto` keeps a reference to a string that has died when a handler compares
it, so the handler may catch or rethrow; a counter stepped through a freed cell
ends in `"freed"`; a null parameter list ends in `"crashed"`.

**Scopes** is the abstract specification of the three stacks: a stack of calls,
each a stack of scopes with their names. A call or a scope is entered and left from
the inside outwards, and only the innermost scope gains or loses names.
`Interpreter` keeps the blocks of all calls in one vector and the names of a call in
a map keyed by parse tree nodes; `Abstract` maps each call's stretch of `_blocks`,
with the names of its frame, to one element of `calls`, and `ImplementsScopes` is
`Abstract!Spec`. The promise is void (`promised`) once a run is no longer sane, see
below.

**ValueLists** follows one call from the evaluation of its expressions through
`visitArgs` (or the head of a `for in`), the binding of the parameters, the return
list, to the variables the results are stored in. A value is a model value, a
list, an `Elipsis`, or a pointer to a field. Reading the last element of an empty
vector ends in `"undefined"`, reading the erased cell of `...` in `"dangling"`, and
the uninitialised index of the `for in` is a free choice.

**Tables** steps through `t[e] = r`: the left side is resolved in the mode
`_var__context = VARLIST`, in which missing fields are created; `e` or `r` may read
a field or call a function that assigns one, which resets the mode; the store goes
through the pointer found first. The seven maps by key type are one map over
disjoint keys. Constructors and the length operator are included.

**CFunctions** is a series of calls of one registered function: the chain is built
anew, arguments are bound and converted one by one (plain types, `std::variant`
alternatives in order, `std::optional`), and the function runs. The host's
conversions are a relation `Accepts` of what they take.

**NumericFor** is `process_for_loop` with its numbers: the three expressions of the
head are evaluated and tested in turn, then the test, the body and the step
alternate. `counter` is the C++ variable beside the loop variable's cell `value`,
which the body may assign, also with another type. Numbers are counted in halves so
that a double can lie between two ints; ints wrap at `IntBound`.

**Expressions** evaluates one operator: the left operand is visited, converted at
once where `visitExp` does so, the right operand is visited and may assign what the
left one was read from, then the operator is applied. Names are copied when they are
read, fields are pointers; within a left side, in the mode VARLIST, names are pointers
as well: the `i` of `t[i + f()] = v` (`LeftVar`). Results are a set, because a shift by a
negative or too large amount and a conversion out of range are undefined. Failures
are told apart by what is thrown: only `BadTypeException` can be caught by a test,
`std::invalid_argument` (from `std::stod`), `std::bad_variant_access` and the trap of
the `%` instruction cannot. `EnsureValueType` is the test infrastructure's function,
with `Value::operator==`, which accepts two doubles that differ by less than their
larger magnitude divided by `Precision` (`Within`), and with it an infinity compared
with any finite double, both sides of the comparison being infinite (`SameDouble`).

**Closures** runs files one after another on one interpreter. Cells (`Value` on the
heap) and functions are numbered as they are allocated; `frames`, `globals` and the
closures hold cell numbers, a cell holds a function or `Nil` for every other value.
`Lookup` goes through the entries of the analyzer's table, then the closure of the
function on top of `_functions`, then the globals. The updates of the counts that a
statement makes are put in `work` in the order of the code and done one per step, so
that a deletion in the midst of them, and what it deletes in turn, has its place.
A call by name, in an expression, counts the function twice more, for the source of
the call and its copy. A function found through a pointer (`t.f()`, `t:f()`, or a name
in a left side: the expression `pcall`) is not counted, and its own body may delete it
(`Source`). A `local` statement or an assignment may have a second variable and no value
for it: the filling gives it a new cell over an existing entry (`FillLocal`), or nil over
what it held (`FillAssign`), and releases neither. Between the rounds of a `for` all
entries of its block go but the one with the name of the loop's variable, whatever cell
it holds by then (`NextRound`).
An exception unwinds activation by activation (`Unwind`), each destroying its copies of
values. `Destroy` is `~Interpreter`, which may come after any file, one that failed too;
it releases the globals and then, frame by frame (`DestroyFrame`), the locals.
Using something deleted ends in `"dangling"`, calling a function of an earlier file,
whose parse tree is gone, in `"stale"`. `env`, in activations and functions, is the
lexical environment the properties compare with; `base` and `level` are the heights of
`_blocks` and `_local_values` at which an activation began. No action reads them to
decide anything.

The MC modules hold the programs, expressions and signatures TLC enumerates.
Definitions headed "Variant" are plausible mistakes in the code, used to see that
each property is able to fail; nothing else refers to them.

## Runs

Passing runs:

| Run | Shows |
|---|---|
| `analyzer` (`MCAnalyzer`, about 114 000 states) | `StacksFollowTheTree`: block stack, context and scopes are the walker's at every statement. `LocalsAreLexical`: the locals recorded for a block are the visible ones and those whose value is being written, and the order in which they are recorded, on which the meaning of a name depends, is from the outside inwards but for loop variables and parameters. `ParentsAreLexical`: likewise the blocks around a function. `AcceptedGotosHaveATarget`, `RefusedForAReason`: each verdict is justified by the chunk. |
| `interpreter` (`MCInterpreter`, 67 000) | `BlocksBalanced`: the three stacks mirror the C++ stack in sane runs. `ImplementsScopes`: so they implement `Scopes`. `IndInv`: the inductive invariant, which includes that "Unbalanced blocks" is not thrown in sane runs (`SaneNeverUnbalanced`). `SearchStops`: the backward search of `stabilize_blocks` stays in the vector, in all runs. `NoStaleLocals`: no local exists outside its block, but for a loop variable while the head of its `for` is evaluated. `NoLocalsDropped`, `CallerFrameUntouched`: a call's frame is popped empty and its handler leaves the caller's locals alone. `ExitsLand`: every `break` and every `return` lands, in the innermost loop or call around it, and leaves nothing else. |
| `value_lists` (61 000) | `AssignmentIsSimultaneous`, `NamesAreAdjusted`, `ArgumentsReachParameters`: what is stored is what Lua's adjustment gives, in all cases in which the code does not hand an `Elipsis` on whole. |
| `tables` (90 000) | `NilStaysNil`, `TargetStaysValid`, `CreationIsInvisible`, `BorderIsABorder`. |
| `c_functions` (12 000) | `TypeSafeCalls`: the function only sees values of its parameter types, one for each. `RunsOwnArguments`: nothing is left from an earlier, failed call. `FailsForAReason`. |
| `numeric_for` (106 000) | `CounterLaw`: the body of round k finds start plus k - 1 steps, whatever earlier rounds assigned. `RoundsReachTheLimit`: one round per value, both ends included. `DownwardsNeverEnds`: without a positive step a loop that has begun ends only by wrapping around. `LoopEnds`: with one it ends. |
| `expressions` (1 832 000) | `OperandsAreSnapshots`: a later assignment does not reach the left operand, unless that is a field or stands in the subscript of a left side. `ResultTypes`, `OneArithmetic`, `QuotientFitsRemainder`: the types of the tests in `01_typing`, and one number for ints, doubles and numerals. `NumbersDoNotFail`, `EnsuredIsEqual`: when operators on numbers fail, and what an accepted comparison means: the same number, up to the tolerance between doubles, or an infinity. |
| `closures` (1 498 000) | `CellsAreCounted`, `FunctionsAreCounted`: both counts are exact after every statement, with what the code is known to forget. `RunningFunctionsAreAlive`, `NothingFreedIsTouched`: nothing deleted is used, except by the body of a function called through a pointer, and at the top level after a file failed inside a call. `CapturesAreLexical`, `LookupIsLexical`: closures and lookups follow the text, but for the variables whose entry was overwritten. |

"Sane" means that no exception but `Return` has left a function and that no
function calls itself directly. In these two cases `stabilize_blocks` cannot
restore the caller's blocks, because it looks for a block node, not a position:
see below. The two cases are part of the model and of the runs; `Sane` limits only
the properties that name it.

Runs in which TLC finds what a comment, an assertion or the documentation says to
be violated:

| Run | Property | What happens |
|---|---|---|
| `interpreter_recursion` | `NeverUnbalanced` | `f` calls itself and returns: `stabilize_blocks` finds the callee's own entry, which is the same node, and removes nothing; the caller's block ends in "Unbalanced blocks". |
| `interpreter_goto` | `GotoResumesAfterLabel` | The scan for the label compares `::L::` with `L`, only ahead of the goto, and ends the block. |
| `value_lists_args` | `ArgumentsAreExpanded` | A multi-valued last argument is passed as itself and then again value by value. |
| `tables_lvalue` | `LeftSidesAreLvalues` | A function called in the subscript of a left side makes an assignment, which resets `_var__context`; the missing field is not created and the left side is no lvalue. |

Further disagreements are visible in the models and have no run of their own: a
label of an outer block can satisfy the check of a goto that the interpreter takes
to a nearer one behind a local; a break in a function defined inside a loop is
accepted; a loop variable or parameter precedes the outer local it shadows in the
multimap `lookup_name` takes the last entry of; a vararg function loses its first
extra argument; a function without parameters called with one reads `back()` of an
empty vector; the last plain expression after `in` is dropped; `a = ...` stores the
`Elipsis` itself; the length of a table counts entries that hold nil; a break caught
by a loop inside a numeric `for` erases the counter's cell, which the next step uses
(`ForStepFreed`); a C++ function without parameters cannot be called
(`EmptyFunction`); a numeric `for` with a negative step never ends; `%` of doubles is
`std::remainder`, `INT % 0` and the smallest int `% -1` trap; `Value::operator==`, which
`ensure_value_type` asks and Lua's `==` does not, throws for 1 and 0.5 and takes an
infinity for equal to every finite double; `and` and `or` evaluate both operands; a left
operand that is a table field, or a name in the subscript of a left side, is read
after the right operand has run; a function called through a field can delete itself by
assigning that field, and then reads its own closure; `local y, x = 1` overwrites the
entry of an earlier `x` and `a, f = 1` the function in `f`, neither with a release; a
`local function` with the name of the loop's variable takes its place from the next
round on; a local is in the table of the function it is initialised with; a variable of a function two levels out is not
captured, and a name in two enclosing blocks makes `Function::close` throw; a local
function does not see itself; a call without results, a local declared twice and an
assigned `for` variable leak a function.

### Bounds

- Programs (analyzer): six blocks in three functions, up to four statements a
  block, two names, two labels. That is enough for a goto, a label and a local in
  every relative order, a label name in two nested blocks, a function in a loop in
  a function, a function that initialises a local, and shadowing by locals,
  parameters and loop variables.
- Programs (interpreter): nests of two blocks or loops of each kind left by break,
  goto or return from the innermost one; calls as statement, condition, iterator
  in the head of a `for` and under `expect_failure`, of functions that end, return,
  fail, call each other or themselves, with loops in between. Programs are those the analyzer accepts (`Accepted`).
- `MaxStack = 14` cuts a run whose C++ stack grows further, which only recursion
  does; two levels of mutual recursion fit below it.
- `MaxExprs = 2`, `MaxFormals = 2`, `MaxTargets = 3`: lists shorter than, equal to
  and longer than what they are adjusted to, with every kind of expression last.
- `MaxSteps = 2` for tables: a constructor or assignment prepares the table for an
  assignment that is interrupted; two tables, keys 1 to 3, one non-integer key, one
  boolean.
- Numeric `for`: three-bit ints, doubles at six values among and around them, every
  combination in the head, every step from -2 to 2; `MaxRounds = 16` is more than the
  eight ints there are, so that a loop that is cut would never have ended.
- `Width = 3` for expressions: sums and products overflow, and shifts reach the
  width; doubles inside and outside the range, strings that are numbers or not; infinities
  and NaN come out as results, meet the doubles of `Expected`, and do not go in as
  operands. `Precision = 8`, coarse enough that 2.25 is within the tolerance of 2.
- Programs (closures): a chunk of up to four statements with a block or loop, two
  functions of which one is inside the other or in the block, a loop inside a function
  whose variable a `local function` of the body replaces, statements with two variables
  and one value, calls by name and through a pointer, and a second file that uses what
  the first left; two names, so that most programs shadow something. A for
  visits its body twice (`MaxRounds = 2`): what a round leaves meets the next one.
- `MaxArgs = 3`, `MaxCalls = 2`: one argument too many for the longest signature,
  and a call after a failed one.

### Fairness

`Spec` of `Interpreter` assumes weak fairness of `Step`. The interpreter is one
thread that never waits: while it has a step to take it takes one. Nothing is
assumed about which way a condition goes, so a loop may run for ever. What cannot go
on for ever is an exception on its way: `ExitsLand` says that a `break` or `return`
reaches the loop or call it leaves, past every handler between. `NumericFor` assumes weak fairness of `Move`, for
the same reason; there the visit of the body is one step, so `LoopEnds` says that the
loop ends provided every visit of its body does. Deadlock is checked everywhere: the end states
stutter explicitly.

## Proofs

`InterpreterProofs` proves for every set of blocks, names and programs, and every
`MaxStack`:

- `TypeCorrect`: `Spec => []TypeOK`. It is more than bookkeeping: a saved `current`
  is a block, so that the comparison in `stabilize_blocks` is between blocks, which
  needs `_blocks` to be non-empty whenever a loop or call starts.
- `SearchesStop`: `Spec => []SearchStops`. The search of `stabilize_blocks` finds
  its block in every run, sane or not: after an exception has left a function, after
  a swallowed type error, in recursion.

Both rest on the inductive invariant `Inv1 == TypeOK /\ WellFormed(prog) /\
Shape(stack, blocks)`. `SearchStops` is not inductive by itself: that the block of
the top activation is there says nothing of the next one, which becomes the top
when the exception unwinds. `Shape` says it of all: activations own positions of
`_blocks` in the order of the C++ stack, and at its position each finds the block
it entered with. The reason it is preserved by `stabilize_blocks` is that the
search goes backwards: the last occurrence of the block is at or above the position
the activation owns, so everything below is kept (`TopmostFacts`,
`StabilizeFacts`). Lemmas about appending, truncating and replacing come first,
then what `Shape` needs for each kind of change of the two sequences (`ShapeReplace`,
`ShapeBlocks`, `ShapePop`, `ShapePush` and those for entering), then one lemma for
each group of actions (`Inv1Still`, `Inv1Move`, `Inv1Enter`, `Inv1Call`,
`Inv1Return`, `Inv1Unwind`, `Inv1Ends`).

From the same invariant, and the fact that nothing is on the C++ stack before
`visitChunk` (`Started`), follows

- `CallersKeepTheirLocals`: `Spec => CallerFrameUntouched`. No step of a callee
  changes a frame of `_local_values` below the one it runs in.

`InterpreterProofs` goes on from there with sane runs, for every program:

- `ChainIsKept`: `Spec => []IndInv`, and from it `BlocksStayBalanced`:
  `Spec => []BlocksBalanced`. `Shape` only says that what an activation needs is
  still there; `Exact` says that nothing else is. Each activation is linked to the one
  below it (`Link`): the height of `_blocks` it found is the one the activation below
  left, a call has one frame and one function more than its caller. What lies above
  the top activation while an exception is in flight are blocks it has left behind, in
  the function and inside the block of that activation. None of them is the block the
  handler looks for, so the last occurrence of that block is the very one the activation
  entered with, and `stabilize_blocks` restores the height exactly (`SaneStabilize`). The invariant is `BalanceInv == Inv1
  /\ Exact /\ SaneNeverUnbalanced /\ Fresh`.
- `LocalsLeaveWithTheirBlock`: `Spec => []NoStaleLocals`, and `CallsDropNoLocals`:
  `Spec => NoLocalsDropped`. The invariant `LocalsInv` cuts `_blocks` into the stretches
  of the open calls: a frame holds names only for blocks of its own stretch, and the
  blocks of a stretch are nested in each other, hence different, so that erasing one by
  its node erases nothing of another. `OwnedInv` adds the variable of a `for` whose head
  is still evaluated, for which the head on the C++ stack answers; it needs that only a
  type error can be thrown through the head of a `for` (`HeadThrows`). Every step is shown to be one of three kinds: it
  stays in the innermost call and only touches the back of its stretch (`InnerStep`),
  it enters a call (`EnterStep`), or it leaves one (`LeaveStep`).
- `StoresImplementScopes`: `Spec => ImplementsScopes`, the refinement of `Scopes`. The
  initial states map to initial states, and each of the three kinds of steps to a step
  of `Scopes` or to none (`StepIsScopeStep`).

`NumericForProofs`, for every width of the ints, every head and every assignment in
the body: `VariableFollowsTheHead` (`CounterLaw`), `RoundsAreTheValues`
(`RoundsReachTheLimit`) and `DownwardsLoopsGoOn` (`DownwardsNeverEnds`). The invariant
`ForInv` says what is known of the head at each stage of its evaluation (`HeadInv`),
that the counter is start plus so many steps as long as no sum wraps (`LoopInv`), that
the cell is the counter again before each test and the loop has only gone on while it
was within the limit (`RangeInv`). From there the number of rounds is a matter of division.

`ExpressionsProofs`, for every width and all operands: `LeftOperandsAreCopies`
(`OperandsAreSnapshots`), `OperatorsKeepTypes` (`ResultTypes`),
`OperatorsIgnoreRepresentation` (`OneArithmetic`), `DivisionFitsTogether`
(`QuotientFitsRemainder`), `OperatorsTakeNumbers` (`NumbersDoNotFail`) and
`AcceptedMeansEqual` (`EnsuredIsEqual`). The invariant `ExpInv` follows the evaluation:
the cell holds the left operand or what the right one stored in it (`CellInv`), where
one was made the copy is the left operand (`CopyInv`), the result is one the operator has for these operands
(`ResultInv`), and what `ensure_value_type` said of it (`EnsuredInv`). The rest are
lemmas about each family of operators: which type it gives, when it fails, and that
fractions with different denominators lead to the same number.

`ValueListsProofs`, for lists, parameters and variables of any number:
`AssignmentsAreSimultaneous` (`AssignmentIsSimultaneous`), `NamesReceiveTheirValues`
(`NamesAreAdjusted`) and `ParametersReceiveArguments` (`ArgumentsReachParameters`).
They rest on two facts about the operators: where no `Elipsis` is handed on whole, the
code's three-way adjustment is Lua's (`AdjustIsLua`), and binding from a list in which
the last argument is doubled still finds every named parameter its argument
(`BoundAsInLua`). The invariant `ListsInv` adds the types, and that the arguments are
the expanded list.

`CFunctionsProofs` proves, for every set of signatures of registered functions:

- `CTypeCorrect`, `CallsAreTypeSafe` (`TypeSafeCalls`), `CallsRunOwnArguments`
  (`RunsOwnArguments`) and `FailuresHaveReasons` (`FailsForAReason`).

None of the last three is inductive, since the function runs only after the last
argument. The invariant adds `ChainInv`: while arguments are being bound, the first
links of the chain hold the first arguments of this very call, each converted for
its parameter, and the other links are empty. That is where it matters that a call
starts with a chain in which nothing is bound, also after a call that failed half way.

`TablesProofs` proves, for every set of tables and names:

- `NilIsNeverWritten` (`NilStaysNil`), `TargetsStayValid` (`TargetStaysValid`),
  `CreatedFieldsAreInvisible` (`CreationIsInvisible`) and `LengthIsABorder`
  (`BorderIsABorder`).

Their invariant adds that a left side is never the shared nil (in the mode VARLIST
a missing field is created, in the other it yields no location: `LeftSides`), and
what is known of the assignment in progress (`InProgress`). For the last one `Typed`
adds that subscripts and right sides are values; that constructors give well-formed
tables needs the positions of positional fields to be ints (`PositionFacts`), and that
a run of keys has an end needs a greatest int (`BorderFacts`).

`ClosuresProofs` and `MemoryProofs` are about `Closures`, for every tree of blocks, all
programs over it, any number of files and any set of names:

- `ClosuresTypeCorrect`: `Spec => []TypeOK`. Every pointer, also one in a release that
  is still to be made, is to something that was allocated.
- `CellCountsAreExact`: `Spec => []CellsAreCounted`.
- `FunctionCountsAreExact`: `Spec => []FunctionsAreCounted`.
- `RunningFunctionsLive`: `Spec => []RunningFunctionsAreAlive`.
- `FreedIsNotTouched`: `Spec => []NothingFreedIsTouched`.

The types need the stacks: `Return` is handled by the nearest call, which looks for its
block in `_blocks` and takes the statement below it as its caller's. `Inv1` therefore
has, beside loose types (`Loose`) and the bounds of all pointers (`Bounded`), the shape
of the three stacks while a file runs (`Struct`): which activation may follow which, at
which height of `_blocks` and of `_local_values`, what a statement that waits for a call
looks like, and that a frame has entries only for blocks that are open in it; then that
frames are as many as functions and files (`Heights`), and what is empty between files
(`Quiet`).

The counts are wrong in the midst of a statement: a cell that was erased is still
counted until its release comes up, and a release may put others before the rest. `Inv2`
is the exact account with what is still to come: the count of a cell is one for its root
(`Roots`: no cell is in two places of the stores), one for each function that exists and
has captured it (`ClosuresDistinct`), and one for each of its releases in `work`
(`CellLedger`). `SetToSeq` gives each cell once, so a block that ends makes as many
releases as it drops roots. When `work` is empty this is `CellsAreCounted`.

For functions the account (`Books`) has credit and debit: the count and the additions
still to be made are the cells and the copies that hold the function, those forgotten,
and the releases still to be made. A write that is pending has made its cell a holder
already. It holds because of the order in which the code makes its updates (`Orderly`):
the old value is released before the cell is written, and a function whose addition is
pending behind a release is held by the copy that is dropped last. It also needs that a
cell to be written has not been deleted meanwhile (`Anchors`): the target of an
assignment, or the second variable that is to be filled, is in the frame, in the globals,
in the closure of the function on top of `_functions`, or its entry was overwritten, and
then its count never reaches zero. A function called by name is kept by the copies in the
calling activation. There are two ways out of that (`Stray`), and they are the exceptions
`NothingFreedIsTouched` makes: the body of a function that was called through a pointer,
which nothing need keep, and the top level of a file run after another has thrown inside
a call, where the closure is that of a function nobody calls any more. `Inv3` says that
all is in order or that the run is in one of these cases with the function on top deleted
(`Good \/ Astray`), where the next use of its closure ends it in `"dangling"`.

Assumptions, all evaluated by TLC on the instances: `TreeAssumption` (bodies and
blocks, `Fun` and `Depth`), `ProgramsAssumption` (programs are well formed),
`MaxStackAssumption`, `ScenarioAssumption` (what the grammar gives: blocks form a tree,
a function lies in the block of its statement), `SignatureAssumption` (every parameter allows some type),
`TablesAssumption` (there is a greatest int, and a constructor has no more fields than
that), `ListsAssumption` (expressions are of their kinds, the list of a call is not
empty), `ForAssumption` (the numbers of a head), `WidthAssumption` (the powers of two
up to the width are positive, which the provers cannot compute for a symbolic width),
`PrecisionAssumption` (epsilon is the inverse of a number greater than one),
`ExpressionsAssumption` and `ExpectedAssumption` (operands have a positive denominator
and an int has denominator 1; a variable holds ints of the width, while a literal may
be larger; what `ensure_value_type` compares with has an integral part that is an int).

Only model-checked:

- The analyzer's five invariants. They compare with what recursively defined functions
  (`Enclosing`, the walk over the tree) give, which cannot be unfolded in a proof.
- `CapturesAreLexical` and `LookupIsLexical`. Looking for their inductive invariant
  brought up a case the programs checked until then did not have. A `local function` in
  the body of a numeric `for`, with the name of the loop's variable, overwrites the entry
  that `process_for_loop` made. The clearing between rounds keeps the entry by its name,
  so the function's cell stays, and from the second round on the name means the function
  of the round before, also in the functions defined there. `MCClosures` has such a
  program; the cells whose entry was overwritten are the history variable `lost`, and the
  two properties except them. The invariant found since relates the entries of
  each frame to the environment of every activation above it, not of the top one only,
  and to the own environment of each function that is held somewhere.
- `ExitsLand` and `LoopEnds`: liveness under fairness is out of the proof system's
  reach.

## Plan

1. `Closures`: a proof of `CapturesAreLexical` and `LookupIsLexical`, which has to follow
   the environments of all open activations through every step that changes a frame.
2. `SyntacticAnalyzer`: that its stacks follow the walk over the tree.

## Not modelled

- The generated lexer and parser, file input, the wording of messages, the test
  driver and `playfield.cpp`: input and output without state of their own.
- `meta_types.h`: computed by the compiler.
- Dotted and method names of functions (`function a.b:c()`), the receiver of a method
  call, and equality of tables and functions by content: they add no control of
  their own to what `Tables` and `Closures` have.
- The reference counts of tables and userdata. `make_table` counts a new table twice,
  so that a table outlives its last holder; no deletion is left to check.
- The analyzer's tables from an earlier file: they hold addresses of nodes that are
  gone, and whether a new node gets an old address is the allocator's choice.
- Rounding, signed zeros, hexadecimal floats, long strings and the formatting of
  numbers in `..`: out of TLC's reach or without effect on control.
- The mode VARLIST that an exception thrown within a left side leaves behind when
  `expect_failure` swallows it: `Tables` ends with the statement that throws. In the mode
  that is left, a missing field is created where it is read.
- A loop variable's cell that an inner `break` frees, in `NumericFor`: that is in
  `Interpreter` (`ForStepFreed`), and `NumericFor` stands for bodies without it.
- Break, goto and recursion in `Closures`: their effect on blocks and frames is in
  `Interpreter`; the memory they leave behind is not counted.
