# Verification of the kisyshot SysY compiler

kisyshot translates SysY, a subset of C, to ARM assembly.  One run of `main`
(`src/main.cc`) takes one file through five phases, each of which reads what
the previous one left in a shared `Context`:

    file -> Lexer -> tokens -> Parser -> syntax tree -> Sema -> annotated tree
         -> CodeGenerator -> TAC -> ArmCodeGenerator / Arms -> assembly text

The program is sequential: no threads, no callbacks, no persistence.  What is
hard in it is *state that must agree with another state*: the allocator's
picture of a machine that does not run yet, scopes that are pushed and popped
by hand, a cursor that error recovery moves back, and offsets computed in one
phase and used in another.

This directory holds TLA+ models of those parts, TLC configurations that check
them on small instances and TLAPS proofs for every instance.

## 1. Inventory

| component | state | operations | hard behaviour | correct when |
|---|---|---|---|---|
| Register allocator and emitter `Arms` (`src/src/ast/arms.cc`) | `regDescriptor`, `RegContents.isDirty/mutexLock`, `stack`, `OutParamNum` | one `generateX` per TAC opcode, `pickRegForVar`, `fillReg`, `spillReg`, `cleanRegFor*`, `generateDiscardVar` | evictions by `rand()`, a compile-time mirror of the run-time stack, code reached by several paths | every emitted instruction reads its operands from where they are |
| Driver of the emitter (`src/src/compiler/armcode.cc`) | `paramNum`, `liveList`, `curFucLabel` | walk over the TAC, discard of temporaries after their last mention | last mention in the text is not last use of an execution | a temporary is discarded after its last use and before it is reused |
| TAC generation (`src/src/compiler/codegen.cc`, `src/src/ast/syntax/*.cc`, `src/src/ast/tac.cc`) | the code list, the counters of `newTempVar` and `newLabel`, `name2VarMap`; `beginLabel`, `endLabel`, `endFuncLabel` of each statement | `genCode` of every syntax node | short circuits, loops with `break` and `continue`, arguments reversed in place | the TAC computes what the tree means |
| Semantic analysis (`src/src/compiler/sema.cc`) | `_globals`, `_variables`, `_blockVars`, `_layerNames`, `_blockName`, `_blockId`, `context->symbols`, frame offsets | `traverse`, `traverseStatement`, `traverseExpression`, `newVariable`, `prepareArrayDef`, `flattenArray`, `checkCompileTimeConstExpr` | scopes as parallel stacks, names that survive their construct, arrays with nested initialisers, constants folded again at each use | an identifier refers to the innermost declaration; every variable has its own slot; folding gives the value the language gives |
| Parser (`src/src/compiler/parser.cc`) | `_current`, `_lookahead`, `_recover` | one function per construct, recovery by moving the cursor | backtracking to pushed positions, loops that must consume | it ends, and accepts what the grammar accepts |
| Lexer (`src/src/compiler/lexer.cc`) | `_code`, `_position`, `_eof`, `context->tokens` | `next` and one scanner per token class | one character of lookahead at the end of the text, escapes, comment ends, numbers | the tokens are the lexemes of the text, in order, none lost; it ends |
| Context (`src/src/context.cc`, `src/src/context_manager.cc`) and diagnostics (`src/src/diagnostic/diagnostic.cc`) | `code`, `lines`, the list of messages | `load` appends the runtime's declarations; `locate`, `firstOfLine`, `lastOfLine`; `Diagnostic::writeTo` | a file that does not end where `load` assumes it does; conventions of the line table | the declarations are read; the caret is under the token |
| Control-flow graph (`src/src/ast/cfg.cc`) | blocks and edges | built, never used | none | not applicable |
| Tree printer, command line | none | I/O and formatting | none | not applicable |

**How the parts interact.** All are calls in one thread.  Sema writes mangled
names, offsets and constants into the tree and `symbols`; TAC generation reads
them.  TAC generation promises Arms a discipline: every temporary is defined
once and consumed once (an index computation redefines its own, and the 0/1
idiom of comparisons defines one in two branches), the `Param`s of a call stand
right before it, forward labels are placed once.  Arms writes `stack` and
`regDescriptor` in step with the text it emits.  The hazards of each part are
listed in `PROJECT.json`, each at its line.

## 2. Modules

### Arms

One module for the class `Arms` and the driver `generateArmCode`, because a
handler and the discards after it are one step.

The generator walks the TAC once in the order of the text.  The model **runs
the emitted code along with the generator**: every action takes one TAC
instruction, changes the allocator as the handler does, and changes a machine
as the emitted instructions would.

| in the model | in the code |
|---|---|
| `regDescriptor`, `isDirty`, `mutexLock`, `stack` | members of `Arms` (`isDirty`, `mutexLock` are fields of `RegContents`) |
| `paramNum` | `ArmCodeGenerator::paramNum` |
| `reg`, `mem`, `stk`, `out` | registers, the memory words of scalars, the run-time stack and the words below `sp` of the program that is compiled |
| `flight` | not in the code: where the followed execution path is jumping to while code it skips is emitted |
| `misread`, `returned` | history: an operand was not in its register; the operand of the `return` on the path |
| `inFunc`, `pending`, `acc`, `sent`, `awaited`, `join`, `jstep` | the TAC discipline of `src/src/ast/syntax` |

*Data.* A place of the machine holds the tag of a variable (it has that
variable's current value) or `Junk`.  An assignment turns every other copy of
the variable to `Junk` (`Define`).  That is all the properties need: an
instruction is right if its operand registers hold the tags of its operands.

*Helpers* (`Pick`, `Fill`, `Insert`, `Evict`, `Flush`, ...) map a record of
allocator and machine to such a record, one per function of `Arms`, and
handlers compose them in the order of the code.  `rand()` in `selectRandomReg`
is a choice over the unlocked registers.  `Become` installs the result; if the
followed path is in flight it changes the allocator only.

*Paths.* A conditional branch lets the path fall through or set `flight` to
the label; `Label` lands it.  A backward jump leaves the text (`Gone`): the
loop head was placed with no pending temporary, and `LabelForgetsVariables`
with `MemoryIsCurrent` say that the code after a head assumes nothing that a
second arrival could break.

*The live list.* `liveList` maps a temporary to the instruction that mentions it
last in the text; the model discards a temporary with the instruction that
consumes it.  `FitsAllocator` of `Tac` shows that this is the same instruction.

`MCArms` gives the constants values.  The runs:

| run | instance | question |
|---|---|---|
| `arms_values` | 3 registers, a local, a global, an array, a constant, 2 temporaries, calls | do loads, write-through, evictions and calls keep the descriptor true and memory current? is a needed value ever lost when the operands of one instruction need the whole register file? |
| `arms_flow` | 3 registers, 2 of them for parameters, calls of up to 3 parameters, 2 temporaries, 2 labels, no label while a needed temporary is on the stack | do parameters stay in place across calls and what is pushed around them, and is the code after a call and after a label right for every path that reaches it? |
| `arms_forget` | 5 registers, labels anywhere | violation, see section 4 |

*Bounds.* The code has 11 registers, 4 for parameters.  The handlers treat
registers alike, and a handler locks at most three, so three registers already
make every operand evict another, and both an eviction and a clean register
occur; `arms_forget` needs five, for a temporary that is pushed while others
stay.  Two argument registers (the least the code's use of r0 and r1
allows) and three parameters give register parameters and one below `sp`.
`MaxStack` cuts behaviours that push more words; two or three words suffice for
a value on top, below the top and under a dead copy.  With no labels, a
temporary set of two is an expression with both operands pending; three add a
pending outer value.

`CHECK_DEADLOCK FALSE` stands in the runs with labels: `MaxStack` can stop
a walk there while a label still waits for the pending set it was jumped to
with.  No run uses fairness and no liveness is claimed of `Arms`: a walk over a
finite list ends.

### Arms_proofs

Four theorems, for every number of registers (more than the argument registers,
which are at least two), any sets of variables that are pairwise disjoint as
`VarsAssumption` says, any labels, parameters and bounds:

* `TypeCorrect == Spec => []TypeOK`
* `Coherence == Spec => []OneRegisterPerVariable`

*Argument.* `Good(c)` says that a configuration is typed, that a register is
dirty exactly when it is mapped, and that no variable is in two registers.  One
lemma per helper shows it maps good configurations to good ones and says what it
does to the locks; `PickGood` adds the fact that makes `InsertGood` true: the
register picked for `v` is the only one that may hold `v`.  `Coherence` is not
inductive alone, nor is `TypeOK`: that `stack` lists temporaries only needs the
descriptor's type, that a parameter's register exists needs the count of
parameters to equal the length of `sent`, and that the 0/1 idiom defines a
temporary needs `join` to be one while `jstep` is not 0.  `Inv` adds those facts
and one lemma per action shows it is kept.

Two more, of what leaves the registers:

* `MemoryCurrent == Spec => []MemoryIsCurrent`
* `CallForgets == Spec => CallForgetsRegisters`

*Argument.* Memory is current only because every
handler ends by writing back the scalar it defined, and a write-back helps only
if the register holds what the descriptor says.  So `MemoryIsCurrent` needs a
part of `DescriptorTruth`: `Truthful(c)`, what the descriptor says of scalars and
arrays is true, and `Settled(c)`, that and every scalar current.  Inside a
handler one scalar may be missing from memory; `FlushTruth` says that flushing
the registers that hold the missing ones settles the configuration again.  While
the path is in flight the machine stands still and the descriptor moves on, so
truth is not claimed there; it comes back at the label because
`CleanForBranchDesc` leaves no scalar or array mapped, and for this the proof
follows the descriptor alone through `CleanForBranch` and `CleanForCall`.
`CallForgets` rests on the same fact: after `CleanForCall` nothing is mapped, and
the parameters that are passed since then are discarded with the call
(`CalleeUnmapped`).

*Assumptions.* `RegsAssumption`: at least two argument registers (the code uses
r0 and r1 by name) and one more (the register that carries further
parameters).  `VarsAssumption`: the kinds of variables are disjoint and the
special values are none of them.  TLC evaluates both in every run of `MCArms`.

### Arms_values_proofs

When no label is placed while a needed temporary may be on the stack
(`~LabelsMayForget`):

* `OperandsAreRead == Spec => []OperandsCorrect`
* `PendingFound == Spec => []PendingFindable`
* `DescriptorTrue == Spec => []DescriptorTruth`
* `ArgumentsStay == Spec => []ArgumentsInPlace`
* `ResultArrives == Spec => []ResultInR0`

and without that condition

* `LabelForgets == Spec => LabelForgetsVariables`.

The condition is not a convenience: `arms_forget` is the counterexample without
it (section 4).  It restricts the expressions of the program, not the code, and
`arms_values` and `arms_flow` are the instances that meet it.

*Argument.* None of the properties is inductive alone: that an operand is read
correctly needs every pending temporary to be findable, findability needs the
place found to hold its value, and that needs the evictions, reloads and
write-backs of *other* variables to leave it alone.  The invariant is
`FlowInv == TempInv /\ (Lossless => ValueInv /\ ArgInv)`:

* `TempInv`: a temporary that is not pending is nowhere, neither mapped nor on
  the mirror of the stack, so that an old copy is never taken for a new value.
  The 0/1 idiom of a comparison is the exception, and keeps its own in a register;
* `ValueInv`: every pending temporary is covered, by a register that holds it or by
  a copy on the stack; the mirror and the stack agree position by position, all
  of them or, while an index computation has redefined its temporary, the
  topmost, which is the one the code finds.  While the path is in flight the
  registers of the temporaries its label awaits stay as they were at the jump;
* `ArgInv`: what was passed lies in its register or below `sp`, and the result of a
  call is on its way.

The steps are carried by one relation, `Keeps(c, d, t)`: from configuration `c` to `d`
a helper that is not about `t` neither maps `t` anew, nor loses a place of it, nor
makes one false.  Each helper (`Insert`, `Evict`, `Flush`, ...) has a lemma for it, the
relation composes, and an action is a chain of helpers.

Of the properties of `Arms` none is only model-checked.  Beyond the proofs are the
discipline of the TAC it assumes (`Tac_proofs` proves it of the generator, as
`FitsAllocator`) and that every walk ends.

### LexicalScopes and Scopes

`LexicalScopes` is what name resolution promises: a stack of scopes, each a map
from identifiers to definitions; a use means the innermost definition.

`Scopes` is what `Sema` does instead.  There are no scope objects: each
identifier has a stack of definitions, each open block a list of the identifiers
it pushed, parameters overwrite `_globals` and are taken back afterwards, and
block names are built from parts that `if` and `while` leave behind for the next
block.  The syntax tree is chosen while it is walked.

| in the model | in the code |
|---|---|
| `variables`, `globals`, `blockVars`, `layerNames`, `blockName`, `blockId` | the members of `Sema` with an underscore |
| `symbols`; `nodes` | `Context::symbols`; the `VarDefinition` nodes in the order they are met |
| `stackSize`, `func`, `recovers` | `Function::stackSize` in words, `_currFunc`, the local `recover` of `traverse` |
| `ctl`, `todo` | the active calls of `traverseStatement`, the functions still to walk |
| `BeginFunction`, `EndFunction` | the loop body of `traverse`, before and after the statement |
| `OpenBlock`, `CloseBlock` | the block case of `traverseStatement`, before and after the children |
| `If`, `Else`, `While`, `Simple`, `Declare` | the other cases; a clause that is no block ends with its statement |
| `Resolve` | the identifier case of `traverseExpression`; a use changes nothing but its own node |

*Refinement.* `ImplementsScopes == Lexical!Spec`.  The mapping `OpenScopes`
rebuilds the scopes from the parallel stacks: the file scope is the first
definition of each global, the parameter scope what `_globals` holds of the
current function, and block `j` declares `i` if its list names `i`, with the
definition at the height of `i`'s stack that the lists of the blocks around it
leave for it.

| run | instance | question |
|---|---|---|
| `scopes_names` | two functions with up to one parameter, identifiers x (also global) and y, blocks nested 3 deep, 3 block numbers, 4 definitions of two words | do the stacks implement scopes, does every use find the innermost definition, by itself and through the symbol table, and do definitions keep their names and words to themselves? |
| `scopes_redeclare` | a block may declare an identifier twice | violation, section 4 |
| `scopes_undeclared` | two functions, one global | violation, section 4 |

*Bounds.* Interference needs a name, one that hides it and one to hide it again:
a global, a parameter and two blocks.  Two functions are needed for what one
leaves to the next, three block numbers for a block named by an `if` or `while`
that is not its parent.  `MayRedeclare = FALSE` keeps the program legal.
`CHECK_DEADLOCK FALSE`: the walk ends, and a bound may end it in a block.

### Scopes_proofs

For every set of identifiers, functions and sizes and every bound, with and without
`MayRedeclare` (`ScopesAssumption`: the identifiers are finite, the globals fit in
`MaxNodes`, a size is a positive number, and no function has the name that stands
for none; evaluated by TLC in the `scopes` runs and in `folding`):

* `TypeCorrect == Spec => []TypeOK`;
* `SlotsDisjoint == Spec => []FrameSlotsDisjoint`.

*Argument.* `TypeOK` is not inductive: `Last` and `Front` of `layerNames` and
`blockVars` are only defined because the walk is inside a block when it reads them.
`Shape` says so: each `"block"` in `ctl` is one open block (the
cardinalities agree, `BlocksOfComplete`), only the first construct is a function's
body, and the second is its block, so that a clause or a declaration is never met outside
one; the first block of a function is named after the function.  For the
frames, `Walked` (the definitions met so far belong to no function still in `todo`)
makes the parameters of a new function the first of its frame.  The steps are taken with
arrays of any length (`WideNext`), because `Folding` declares arrays of the length
it has folded.  `Apart` states
`FrameSlotsDisjoint` of any list of definitions, so that the two steps that add to the list
are two lemmas without variables (`ApartParams`, `ApartDeclared`).

Names, in the second half of the module, for every set of identifiers and functions
and every bound, when no block declares an identifier twice (`~MayRedeclare`;
`scopes_redeclare` shows what a second declaration does, and `scopes_names` is an
instance that meets the hypothesis):

* `SymbolsFind == Spec => []SymbolsFindEveryNode`;
* `UsesFind == Spec => []UsesFindInnermost`;
* `ScopesImplemented == Spec => ImplementsScopes`.

*Argument.* None of the three is inductive.  `Resolved` is, with the types above;
TLC checked it on the instance of `scopes_names` first.

* `NamesInv`: the name of a block is used once.  It is `Root` of a function still to
  walk, or it begins with a number below `_blockId` (`Spent`).  A name that waits for the
  next block (`Waiting`) is in no open block and on no definition.  A definition that carries the name of
  an open block is of an identifier on that block's list (`Listing`), so a declaration
  that the list does not stop gets a mangled name nobody has.
* `MangledInv`: a mangled name tells whether its definition is global, a parameter or in
  a block, and of which function.
* `StacksInv`: the stack of an identifier is as high as the number of open blocks that
  list it, so `CloseBlock` pops what its block pushed, and `IsDuplicate` never drops a
  legal declaration.
* `GlobalsInv`: what `_globals` says of a global is its definition or a parameter in
  `recovers` that will give it back.

`UsesFind` takes the innermost block that lists the identifier: the top of the stack is
its definition, because the blocks inside it list nothing.  In the refinement
`BeginFunction` is `EnterFunction`, `OpenBlock` is `EnterBlock`, `Declare` is `Declare`,
`CloseBlock` and `EndFunction` are `Leave`, and the other steps leave the scopes alone.

### Folding

`checkCompileTimeConstExpr` on top of `Scopes` (the module EXTENDS it): the value
of a constant expression depends on what its names mean *where it is folded*,
and a constant's initialiser is folded again at each use.  The recursion is an
explicit stack of calls, so that endless folding is a behaviour and not an
undefined value.

| in the model | in the code |
|---|---|
| `inits` | `isConst` and `initialValue` of each `VarDefinition` |
| `calls`, `answer` | the active calls of `checkCompileTimeConstExpr`; the pair it returned last |
| `due`, `values` | what its caller folds; `VarDefinition::values` of the globals |
| `worth`, `meant` | not in the code: the value the language gives a constant where it is defined, and what the names mean there |
| no step | the divisor is zero; the dimension is not positive; the stack of the host is full (`MaxCalls`) |
| `FoldLiteral`, `FoldName`, `FoldOperand`, `FoldOperation`, `FoldOther`, `Returned` | the cases of the switch, before and after their operands |
| `StartGlobal`, `EndGlobal` | the first loop of `traverse` |
| `StartArray`, `EndArray` | `prepareArrayDef`, the assertion on the dimension and `newVariable` |

The reference is C's constant expressions and not the switch: `Worth` evaluates an
expression, with parentheses, `&&` and `||`, with the values its names have where it
stands, a constant having the value of the place it was defined in.  An element of a
constant array counts as no constant, as in C.  `FoldsToMeaning` compares every answer
with it:

* what folding answers is that value.  The one case left out is legal SysY, and there
  the code is wrong (section 4): a name that a constant is defined with has been
  declared again.  `Steady` says exactly that, of the names that this folding comes to
  (`ComesTo`) and of no others, and declaring again is a step like any other;
* what folding refuses has no value, or has parentheses, `&&` or `||` in it or in a constant
  it comes to (`Bare`).  The second is a gap of the code: its default case
  (`sema.cc:287`) takes them all for no constants.

`FoldingEnds` says under `Steady` too that folding ends.  Neither premise is idle: without
`Steady` TLC finds a wrong value and a constant that is folded for ever, without `Bare`
a refused pair of parentheses.

`folding` has two globals, each with or without an initial value and `const`;
a function with up to one parameter, a block in its block, and up to two more
definitions; the expressions of `MCFolding`.  That is the least with which a
local constant can be defined by a global one, hide another, and be used in the
dimension of an array in an inner block; one of the initial values is in parentheses.
`MaxCalls` is 6, as deep as a call can get here: a call stuck for want of stack would violate
`FoldingEnds`.  `FoldingEnds` assumes
`WF_allVars(Fold)`: once a call is active the one thread runs on; nothing is
assumed of the tree.  `CHECK_DEADLOCK FALSE`: a file ends, and an array whose
dimension is not positive stops the compiler.

Left out: a divisor of zero (no step), overflow, the dimensions of parameters.

### Folding_proofs

For every file, every walk over its functions and every set of expressions
(`FoldingAssumption`: they are finite trees, which is said by every set of them
having one without an operand in the set; `""` is no identifier; `NoValue` is no
integer; evaluated by TLC in `folding`), when no block declares an identifier twice
(`~MayRedeclare`, without which blocks are no scopes, see `scopes_redeclare`):

* `FoldTypeCorrect == FoldSpec => []FoldTypeOK`;
* `FoldingSound == FoldSpec => []FoldsToMeaning`.

Names may be hidden and declared again at will: whether one of them was is a premise
inside `FoldsToMeaning`, about the state, and not an assumption about the walk.

*Argument.* `FoldInv` is inductive.

* `Walking`: a walk of `Folding` is one of `Scopes`, so the types, `Resolved` and the
  refinement of `LexicalScopes` carry over (`StepWalking`).  The proofs see the scopes only
  as a sequence that gains or loses its last element, or a definition in it.
* `Settled`: what is known of the definitions.  `Meant`: the scopes lead to definitions that
  exist, and the names that a constant is defined with stay declared (`NamesKept`); `MeantDeclare`, `MeantEnter` and
  `MeantLeave` say that a declaration, a new scope and the end of one keep it, `InitMeant`
  says it of the globals of a file.  `Remembered`: `worth` of a constant is what its
  initial value is worth with the definitions of `meant`; definitions are only added, so
  that stays (`RememberMore`).
* `Good`, of the `View` of every set S of names: the names in the active calls are declared, and
  if the folding comes to S and S is steady, each call folds an expression of the same value as
  the operand, global or dimension it was made for (`Faithful`), its names are in S, and
  its arguments are the values of the operands so far.  The step that matters is `FoldName`: a constant's initial value
  takes the place of its name, and is worth here what it was worth there, because S is
  steady (`SteadyWorth`).  What is answered is `Told`: the value, or a refusal that is
  passed on to the outermost call (`CallReturns`).

`Worth`, `Mentioned` and `Refused` are recursive functions on expressions.  That they are defined at
all, and what they give, is proved from the least expression for which it fails
(`Recursion`, `WorthIs`, `MentionedIs`, `RefusedIs`, `WorthSame`).

Only model-checked: `FoldingEnds` (liveness).

### Arrays

The three places that must agree on where an element of an array is: the
flattened initialiser (`prepareArrayDef`, `flattenArray`), the data section
(`generateGlobal`) and index expressions (`IndexExpression::genCode` with the
`accumulation` that Sema writes).  The initialiser is chosen while `flattenArray`
walks it; each open brace carries what the code counts (`target`, `current`,
`singleCount`, the dimension) and, beside it, the sub-array that the rules of C
give it, from which `wanted` is filled.

| in the model | in the code |
|---|---|
| `dimension`, `srcArray` | members of `VarDefinition` |
| `calls` | active calls of `flattenArray` with their locals |
| `Single`, `Nested`, `CloseList` | an element, a nested list, and the zeros at the end of a list |
| `phase = "abort"` | `assert(singleCount == innerTarget)` fails |
| `EmitGlobal`, `data`, `place` | the outer loop of `generateGlobal`, its output and `j` |

`arrays_layout` checks every initialiser C allows, zeros included, of the shapes
4, 3x2, 2x2x2, 2x3x1 and 3x1x2: rows of one element and a third dimension are
where flat and nested positions differ.  Array parameters of up to three
dimensions, whose first length is unknown, are among the index expressions.
`arrays_rows` is a violation, section 4.  `CHECK_DEADLOCK FALSE`: a walk ends.

### Arrays_proofs

For arrays of every number of dimensions and every size, and every choice of `Zero` and
`WholeRows` (`ArraysAssumption`: dimensions are positive, but for the first one of a
parameter; evaluated by TLC in both runs):

* `TypeCorrect == Spec => []TypeOK`;
* `LayoutHolds == Spec => []LayoutIsC`;
* `DataHolds == Spec => []DataIsArray`;
* `IndexHolds == Spec => []IndexFindsElement`.

*Argument.* `LayoutIsC` speaks of the finished list only.  What is inductive is where
each active call of `flattenArray` stands (`IInv`; TLC checked it on the
shapes of `arrays_layout` first):

* `AreCalls`: there is one call for each layer, so `dim` is the sub-array that C means;
  a call's part starts where the next part of the call around it did, and
  `singleCount` is what a call has laid out since its last whole row (`IsCall`).  From
  this the assertion on `singleCount` gives what makes the layout right: a list that
  passes it starts a row, and the row fits (`NextRow`).  `TypeOK` follows.
* `IsLayout`: what has been laid out is what C wants there, and the rest is not given; so
  the zeros at the end of a list are right.
* `IsData`: the directives written so far assemble to the values so far.

`IndexHolds` needs nothing of the state.  An index adds less than the row it is in
(`SumsClimb`); so offsets order the indices as C does (`Below`), none is left out
(`Reaches`), and as many offsets as indices lie below an index (`Ranked`).

*Recursion.* `Words`, `Offset` and `Assembled` are recursive functions.  The provers
cannot instantiate an induction rule with a predicate, so induction is proved once for a
set of numbers (`Induction`, from the well-foundedness of the naturals) and used with the
set of the numbers for which a claim holds; the first use shows that the function exists.

### Tac and TacMeaning

`genCode` and `getVar` of the syntax nodes, and the execution of the TAC.  What
`genCode` does for a node is a list of *orders*, its script, one script per
case of the code: get an operand (`Get`), translate a part into a given variable
(`Into`), translate a clause (`Run`), make a label or a temporary, append an
instruction (`Say`).  The recursion over the tree is a stack of calls of
`genCode`; a step obeys the next order of the call on top, or returns.  When the
stack is empty the code is run, one instruction per step.

`TacMeaning` evaluates the tree directly (`Meaning`), with the results that calls have
returned so far, and compares: the same calls, the same end.

| in the model | in the code |
|---|---|
| `code`, `labelId`, `TempID` | `CodeGenerator::code` and the counters of `newLabel`, `newTempVar` |
| `stack` | the C++ calls of `genCode`: the node, the parameter `temp`, the local variables that hold operands, temporaries and labels |
| `AndScript`, `OrScript`, `ModScript`, `CompareScript`, `SetScript`, `ArithmeticScript` | the cases of `BinaryExpression::genCode` |
| `NotScript`, `SignScript`, `CallScript`, `IfScript`, `WhileScript`, ... | the other `genCode`s |
| `ElementScript`, `InnerScript` | `IndexExpression::genCode` with and without `isOutSideLayer` |
| `GetAtom`, `GetVar`; `GenReturn` | `Expression::getVar`, where it returns at once and where it calls `genCode`; the return |
| labels 1, 2, 3 of a call | `beginLabel`, `endLabel`, `endFuncLabel` handed from statement to statement |
| `pc`, `store`, `mem`, `temps`, `params`, `results`, `returned` | the execution of the TAC |
| `walk` | history: where the allocator of `Arms` will be behind the code so far, and whether its rules were kept |

`less` and `equal` stand for the six comparisons and `add`, `sub`, `mul` for the
operators of the default case, whose code differs in the operator only.

`tac_calls` takes about 2300 bodies: every operator over constants, variables,
calls and operators; index expressions with calls as indices; calls nested in
arguments; and loops, in one another too, with `break`, `continue`, `return` or
a call at every place of an `if` or `if`-`else` inside.  Calls return 0, 1 or 2, so
every condition goes both ways, and up to six calls return before an execution
is cut, which takes a loop through its condition at least three times and lets
every exit be taken in a later round.

`KeepsGoing` assumes `WF_vars(Next)`: the processor does not stop between two
instructions.  Every loop of these bodies has a call in its condition, so a stretch
without a call that never ends would be the generator's doing.
`CHECK_DEADLOCK FALSE`: a function ends.

`FitsAllocator` is the assume-guarantee link to `Arms`: the guards of its actions
on `pending`, `awaited`, `sent`, `join` are the rules that `Walk` checks of
the code, instruction by instruction.  It also shows where `LabelsMayForget = TRUE`
comes from: labels with a temporary pending do occur.

`TacMeaning` declares RECURSIVE operators, because meaning follows the tree, so
`CallsAgree` and `EndAgrees` are checked and not proved.  `Tac` has none: the stack of
calls and the scripts are there so that the generator can be proved about.
`TypeOK` has no proof either: a body that indexes its array outside its bounds has no
typed execution, and the bodies of the run are those that do not.

### Tac_proofs

For every set of trees and bodies that is closed under parts (`NodesAssumption`,
the shape of trees that the parser builds; TLC evaluates it in `tac_calls`), so
for expressions, calls, loops and branches nested in any way and to any depth:

* `CodeFits == Spec => []FitsAllocator`: the generator keeps, on all code it can write,
  the rules under which `Arms` is proved right;
* `GeneratorInvariant == Spec => []IInv`, which carries it.

*Argument.* `FitsAllocator` says only that no rule has been broken so far.  What makes
it inductive relates three things that different code keeps: what an order of a
node's `genCode` finds, what all the unfinished calls hold, and what is pending in the
walk.

* *One node.* `States(e)` is a table: what the call for `e` has done before each of
  its orders (operands held, labels made, placed and jumped to, whether the result
  is written or, behind the first branch of a 0/1 value, has to be written again,
  parameters passed).  `OrderOK` says what an order may do to such a state: an
  instruction reads the last operands got and nothing else, a jump to a label of
  the call's own happens with nothing held, a label that ends a 0/1 value is
  reached with the result written.  `ScriptsOK` shows that every script obeys its
  table, node by node: with lists of any length for calls, blocks and
  initialisers.  This is where the order of the calls in `genCode` matters, and it
  is the only part that looks at the scripts.
* *The stack.* `FrameOK`: a call holds what its table says, every operand a
  temporary at most once.  `StackOK`: a temporary or a label belongs to one call; a
  call that waits does so for the node it ordered; a statement is translated only
  when nothing is held, and its inherited labels are those of a loop or function
  around it.
* *The walk.* `WalkOK`: pending are the temporaries that the calls hold, and the
  result of the top call once it is written; at a label of a call that was jumped
  to, what the calls below it held is awaited, plus the result if it ends a 0/1
  value.  A call below does not run meanwhile, so this is the same for every jump
  to the label and when it is placed, however much was translated in between.

Each action has a lemma; those of `Generate`, one for each kind of instruction
(`PlainStep`, `JumpStep`, `PlaceStep`, `EndStep`), use `OperandsStep`: the operands an
instruction takes leave what is held, and nobody else's do.

### Parser

The parser is a machine with an explicit call stack: one frame for every call of a
parse function that has not returned, named for the place it has reached (`at`).  A
step is what the code does between two calls or returns, so `Next` holds one action for
each such stretch of code.  No operator is recursive.

| in the model | in the code |
|---|---|
| `current`, `recover`; `After(current)` | `_current`, `_recover`; `_lookahead` |
| `stack`, `value` | the C++ calls, each with its locals, and what the innermost has returned |
| `Become`, `Call`, `Return` | the code goes on in the same call, calls another function, returns |
| `UnaryOperator` ... `RightOperand`; `ends`, `limit` | `parseExpression` in its order; its end tokens and the precedence it is called with |
| `Declare` ... `EndDeclaration`, `OpenSize` ... `EndDefinition` | `parseVariableDeclaration`, `parseVariableDefinition` |
| `ReturnStatement` ... `Complete` | `parseStatement`, `parseBlockStatement`, `parseIfStatement`, `parseWhileStatement` |
| `Parameter` ... `EndFunction` | `parseFunction` |
| `ConstItem`, `VariableItem`, `FunctionItem`, `WordItem`, `UnexpectedItem` | the branches of `parse()` |
| `Null` | `nullptr` |
| no step | the code reads behind the last token or through `nullptr`, loops, or an assertion fails (the default build has them) |

The reference is the grammar, not the parser: `MCParser` builds trees level by
level as a SysY grammar does (a product of unary expressions, a sum of products,
...), writes them out as tokens, and `TreeIsSource` says that the parser finds the
tree again.  `parser_trees` takes about 3000 files:

* every expression with up to two operators, calls or indices on a path over the
  six levels of binary operators, and every pair of the thirteen binary operators;
* every statement, ifs and loops nested twice, with and without `else` wherever
  that is not ambiguous; every place an expression can stand in;
* parameters, array sizes, initial values, constants; comments after every token
  or before the first;
* between good items: stray tokens, prototypes (their `;` is not expected:
  `parser.cc:124`), a missing parenthesis, a missing body, a missing clause.

Two items around a wrong one are enough, because only `recover` outlives an item.
Words that leave a position on it stand only where no local declaration and no
constant follows (section 4).  That is 110 632 states, and every action is taken.

| property | question |
|---|---|
| `OperatorsGroup` | is every binary tree grouped by the levels of its operators, also in files that are wrong? |
| `TreeIsSource` | is the tree the one the file was written from? |
| `FaultsReported` | is what is wrong between and in the heads of items reported, and nothing that is right? |
| `MovesForward` | does the cursor never go back? |
| `EndsFile` | is every file parsed to its end? |

The faults of a file are put down where it is written, by the grammar: a stray piece, a
word that begins nothing, a parenthesis that is not closed (the error and the note at
the parenthesis, `Wrong`), a head without a body.  Four kinds of files parser and grammar
judge differently, and `FaultsReported` says nothing of them (`judged` is FALSE, set by
`Misjudged`): the parser reports a comment that stands first and the `;` of a prototype,
which are right (`parser.cc:45`), and is silent about a clause, a body of a loop or an
operand that is missing.  `TreeIsSource` and the others cover these files too.

`EndsFile` assumes `WF_vars(Next)`: one thread
that nothing stops.  `CHECK_DEADLOCK FALSE`: a file ends.  Literals keep their text;
their value, and diagnostics other than their position, are left out.

### Parser_proofs

For every set of files whose last token, and no other, is of kind `eof`
(`ParserAssumption`; what `int eof;` does is in section 4):

* `Invariant == Spec => []IInv`
* `TypesCorrect == Spec => []TypeOK`
* `AlwaysGrouped == Spec => []OperatorsGroup`
* `BackToSavedOnly == Spec => [][recover # <<>> \/ current' >= current]_vars`
* `CursorMovesForward == Spec /\ [][~WordItem]_vars => MovesForward`

*Argument.* That `a - b - c` is grouped from the left is decided in two calls.  The one
that parses the right operand `b` is given the level of the first operator and returns
at the second; the one that waits then meets the same token and takes it for an
operator of its own, unless it ends there too.  Nothing in either call says
so, and `OperatorsGroup` is not inductive.  `IInv` has a part for each side:

* `FrameOK`: what a call has parsed fits below the level it was given (`Fits`: no binary
  operator of that level or a looser one, but an assignment), and the operator it waits
  for does not bind tighter than the one in what it has parsed;
* `LinkOK`: the callee that parses a right operand has the end tokens of its caller and
  the level of the operator;
* `TopOK`: the token at the cursor stops the operand that has just been parsed
  (`StopsAt`), in the call that returned it and in the one that takes it.

`OperatorsGroup` looks at trees in a frame of the stack only.  Every binary tree is
built there (`RightOperand`), so none escapes it.  Besides, the cursor stands on no comment but a
first one and behind no token but the last (`CursorOK`), saved positions are names, and
no statement is parsed between the parentheses of a function (`BottomOK`), so that a
missing semicolon behind them is reported at a token that exists.

Three lemmas say what the shapes of step keep (`BecomeKeeps`, `CallKeeps`,
`ReturnKeeps`); one per group of actions says which shapes its actions have and that
the cursor does not go back (`OperandKeeps` ... `RightOperandKeeps`, `DefinitionKeeps`,
`BlockKeeps`, ...).

`MovesForward` does not hold for every file: a word that `WordItem` leaves on
`recover` is where the next declaration starts (section 4).  The last two theorems
say that this is all: no step goes back unless a position is saved, and without
`WordItem` none is saved between two steps.

Only model-checked: `TreeIsSource` and `FaultsReported`, which relate a whole run to the
grammar that `MCParser` writes files from, by recursion, and `EndsFile` (liveness).

### Chars, Tokens, Lexer

`Chars` holds what both sides share: the characters, the tables of `TokenType.inc`
and how a token's kind follows from its text.  A character stands for those the code
treats alike: "7" for the octal digits but 0, "8" for 8 and 9, "a" for the
hexadecimal letters but e, "g" for the other letters, "high" for bytes that are
in no table.

`Tokens` is the abstract specification: a lexeme is defined as a whole, by what
delimits it (a string reaches to the first quote that an even number of
backslashes precedes), and one step takes the lexeme at `place`.

`Lexer` reads character by character, as the code does:

| in the model | in the code |
|---|---|
| `code`, `position`, `eof` | `_code`, `_position`, `_eof` |
| `tokens`, `diagnostics` | `_context->tokens`; the tokens that a reported diagnostic is at |
| `scanner` | whose loop runs: `next`, or one of `nextStringLiteral`, `nextNumericLiteral` (two loops), `nextIdentifier`, the two comments, and the loop on stray characters |
| `startPos`, `escaped`, `type`, `offset` | locals of the scanners |
| `StartX`, `XChar`, `XEnds` | before, in and after the loop of scanner X |
| no step behind the terminator | `substr` throws |

*Refinement.* `ImplementsTokens` maps `place` to the position between two tokens and
to the start of the token (`Place`) while a scanner runs: its steps are stutters
but the last one, which must take a whole lexeme.

`lexer_texts` takes every text of up to five characters of strings and comments,
four of numbers and of words, three of operators and of bytes that are in no
alphabet, each with a small runtime behind it.  The longest constructs that
decide anything are a string with an escaped backslash, `/**/` and `0.e+`; the
bounds hold each of them.  Past the characters chosen all text
is alike: a scanner remembers nothing but its locals.

| property | question |
|---|---|
| `EveryCharOnce` | is every character in a token, or blank, the quote of a string, or part of what is reported, and is none in two tokens? |
| `LibraryIsSeen` | are the runtime's declarations read behind every file that ends with a newline and in which nothing is reported? |
| `ImplementsTokens` | are the tokens the lexemes? |
| `LexEnds` | does every scanner leave its loop, and `lex` reach the end? |

`LexEnds` assumes `WF_vars(Next)`: `lex()` loops until `_eof` in the only thread.
`CHECK_DEADLOCK FALSE`: it ends.

What the model shows of the code beside the properties: the text always ends with
the newline of the last runtime declaration, so a string or an operator is never
the last thing of it, and the branches for those cases are only reached without
the runtime; they are modelled nevertheless where a comment can reach them.  The
table of wide spaces holds UTF-16 code units, so two bytes are skipped that no
UTF-8 text has together.

### Lexer_proofs

For every set of sources and every runtime that ends with a newline which no
backslash precedes (`LexerAssumption`, evaluated by TLC in `lexer_texts`):

* `TypeCorrect == Spec => []TypeOK`: the scanner never leaves the text, so `substr`
  never throws, and every token's text lies in the text;
* `Implements == Spec => ImplementsTokens`: the tokens are the lexemes;
* `CharsOnce == Spec => []EveryCharOnce`;
* `LibraryFound == Spec => []LibraryIsSeen`.

*Argument.* `TypeOK` is not inductive: that a scanner may look one character
ahead follows from what it has already read.  `IInv` adds for each loop a clause on
the characters between `startPos` and `position` (a string: no quote but
escaped ones, and `escaped` says whether an odd number of backslashes ends here; a
number: which digits and marks, by `type`; a comment: no closing mark yet; and so on).  One lemma per action shows it
is kept (`Invariance`).  The refinement follows scanner by scanner: with the clause
for its loop, the characters read are exactly the definition of the lexeme in
`Tokens`, and so the step that ends the loop is the abstract step.  `EveryCharOnce`
needs one more fact, that the last token ends where `place` is (`LastEnds`).

`LibraryFound` is about every file, whatever strings and comments it leaves open.  It
rests on what the declarations of `context_manager.cc` look like
(`LibraryAssumption`: they begin with a word and hold neither a quote nor the end
of a comment).  `NoneRunsOver`: a lexeme that holds the file's last newline and goes
on behind it is one that is reported; only an open string, an open comment or a
stray run can.  So the scanner comes to the first character of the runtime itself,
or something is reported before (`SeamInv`), and there it can only read a word
(`FirstWord`).

Only model-checked: `LexEnds` (liveness).

### Reports

`Context`'s line table (`Context::Context`, `locate`, `firstOfLine`, `lastOfLine`) and
the lines of `Diagnostic::writeTo` that cut the source text to print, as operators
on the text of `Lexer`.  `ReportsPrint` composes them with the scanner: a
diagnostic at any token the scanner makes is printed with its own line, and the caret
is under its first character.  It is stated for tokens within one line and before
the end; for the others printing throws (section 4).

The table of lines is written as ranks: the start of line `l` is the line start with
`l` starts up to it.  The code finds the same table by one loop over the text, which
would need recursion or a sort, and neither can be reasoned about here.  The loop of
`lastOfLine` is written by the line at which it stops: the least from the line asked
for on after which a line with a token follows, or the last line.

The proofs about `Reports` stand in `Lexer_proofs` too, under the same `LexerAssumption`:

* `Places == Spec => [](IInv /\ PlacesInv)`
* `DiagnosticsPrinted == Spec => []ReportsPrint`

*Argument.* `ReportsPrint` is about three tables that different code fills: the tokens,
the line starts and the characters.  `PlacesInv` says what printing needs of the
scanner: tokens are listed by their offset, every one but the last has a character and
does not begin at a newline, and the last stands behind the text.  It is carried from
step to step with `IInv`, scanner by scanner.  Then the state
stands still.  The line starts are ranked without gaps (`Ranks`), so `locate` finds the line
whose start and end enclose the offset (`LineOf`), `firstOfLine` finds the first
token of a line or `npos` where the line has none (`FirstIs`), and `lastOfLine` of a
line that holds a token the last one of it (`LastIs`).  A token of one line ends
before that line does (`TokenOnLine`), so both `substr` of `writeTo` start within the
line, and what is printed adds up to it.

## 3. Plan

Next modules, in this order:

1. **Frames**: `getOffset`, the prologue and the words below `sp`: caller and callee
   agree on parameters past the fourth; a composition of two instances of the
   calling and the called side.
2. **Live list** (`armcode.cc`) as a computation of its own, composed with `Tac`.

Theorem to add: that `Arms` implements a store of variables that never loses one.

## 4. Findings

Each is a run that TLC ends with a counterexample.

* `arms_forget` (`src/src/ast/arms.cc:432`): `generateLabel` clears the mirror of the
  stack although a temporary that is still needed may have been pushed.  The
  smallest such code is an expression that holds a temporary across a label and a
  call, such as `if (a + 1 == c < f(d))`: the comparison's labels are placed while
  `a + 1` is on the stack, and the later lookup fails without a message.
* `scopes_redeclare` (`src/src/compiler/sema.cc:402`): a second declaration of an
  identifier in an inner block replaces the first in the symbol table.
* `scopes_undeclared` (`src/src/compiler/sema.cc:99`): parameters that hide no global
  stay in `_globals`; the assertion on undeclared identifiers passes for them in
  every later function.
* `arrays_rows` (`src/src/compiler/sema.cc:433`): `int d[4][2] = {1, 2, 3, 4, {5}}` stops
  the compiler.

Observed while reading, not covered by a run:

* parameters are mangled `name%function` (`sema.cc:87`); the comment of
  `test/cases/sema/symbol_test.sy:4` says `name@function`;
* `checkCompileTimeConstExpr` looks a constant's initialiser up in the scope of
  the use: after `const int M = 5; const int N = M;`, a function with its own
  `const int M = 7; int a[N];` gives `a` seven elements (`sema.cc:268`).  After
  `const int x = 1; const int y = x;`, a function with `const int x = y; int b[x];` is
  never compiled to the end: x and y are folded by turns;
* parentheses, `&&` and `||` are no cases of `checkCompileTimeConstExpr` (`sema.cc:287`):
  `int g = (3);` silently becomes 0, and `const int N = (3); int b[N];` stops at the
  assertion on the dimension (`sema.cc:310`);
* `generateGlobal` reads `values[j]` before it compares `j` with the size
  (`arms.cc:624`);
* a block keeps only expression statements whose outermost operator is a call or an
  assignment (`parser.cc:479`): `f(2) + 1;` is dropped with its call.  As the clause of
  an `if`, `a + 1;` is kept and dereferences a null destination (`statement.cc:410`,
  `tac.cc:51`);
* a statement that starts with an operator, a parenthesis or a number (`-f(1);`) is
  read through `nullptr` (`parser.cc:479`), and `int x 5;` is never left
  (`parser.cc:638`);
* a word at file level (`a;`) leaves a position on `_recover` (`parser.cc:29`); the
  next local declaration starts there instead of at the cursor, which
  `include/compiler/parser.h:61` promises, and the compiler crashes; before a `const`
  it never ends;
* a file that starts with a comment, and each prototype that `context_manager.cc:52`
  appends, gets an "unexpected token(s)" (`parser.cc:45`);
* a global whose name contains `_temp_` is taken for a temporary (`tac.cc:14`);
* identifiers spelled like an internal kind of token get that kind (`lexer.cc:380`):
  `int eof = 1;` ends the compiler with a fault;
* a file that ends in a `//` comment without a newline takes the first runtime
  declaration, `int getint();`, into the comment (`context_manager.cc:48`);
* a diagnostic at the end of the text or at a token of several lines makes `writeTo`
  throw (`diagnostic.cc:190`, `diagnostic.cc:208`): the line table has no line there;
* a single `&` or `|` becomes a token of unknown kind without a diagnostic
  (`lexer.cc:387`);
* the comment of `lexer.cc:58` speaks of UTF-8 spaces, its table holds UTF-16 units: a
  wide space in a UTF-8 file is an unexpected character;
* a block that is not closed before the end of the file is never left
  (`parser.cc:479`).

## 5. What is not modelled, and what cannot be proved here

* The text of the assembly, immediate encodings and the literal pool: formatting.
  Addresses in a frame: planned.
* Control-flow graph: its edges are built and never used.  Tree printer, colours
  and wording of diagnostics, file input, command line: I/O.
* In `Tac`: strings, addresses of parts of arrays as arguments, assignments as
  values, globals changed by a call (C leaves the order open).
* Fairness is assumed in `Tac`, `Parser`, `Lexer` and `Folding` only.  Elsewhere a
  finite text or tree is walked once and nothing could go on for ever.
* Liveness and ENABLED are beyond the proof system used, so `KeepsGoing`,
  `EndsFile`, `LexEnds` and `FoldingEnds` are model-checked only.  So is what
  is stated with RECURSIVE operators: `CallsAgree` and `EndAgrees` of `TacMeaning`, which
  evaluate trees; `TreeIsSource` and `FaultsReported` of
  `Parser`, whose files `MCParser` builds by recursion over trees.  The recursive
  functions of `Arrays` and `Folding` are not affected.
* `TypeOK` of `Tac` holds for the bodies of the run, not for every body: one that indexes
  its array outside its bounds has no next step or no value.
