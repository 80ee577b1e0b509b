------------------------------- MODULE Scopes -------------------------------
(***************************************************************************)
(* Name resolution of kisyshot, class Sema (src/src/compiler/sema.cc): the *)
(* walk over the functions of a file that gives every variable a mangled   *)
(* name and a place in its function's frame.                               *)
(*                                                                         *)
(* The syntax tree is chosen while it is walked: an action is the next     *)
(* thing the traversal meets, and ctl holds the constructs it is inside    *)
(* of.  Uses of an identifier change nothing: Resolve is what they find.   *)
(***************************************************************************)
EXTENDS Integers, Sequences, FiniteSets, SequencesExt

CONSTANTS
    Ids,           \* identifiers of variables
    GlobalIds,     \* those with a definition at file level
    Funcs,         \* functions with a body
    Sizes,         \* words a variable takes: 1, or an array's length
    MaxParams,     \* bound: parameters of a function
    MaxBlocks,     \* bound: values of _blockId
    MaxNodes,      \* bound: variable definitions in the tree
    MaxDepth,      \* bound: nested blocks
    MayRedeclare   \* TRUE: a block may declare an identifier twice

\* A layer name such as "i.3@b.1@main" is the sequence of its parts.
Part(tag, num)  == [tag |-> tag, num |-> num]
Root(f)         == <<Part(f, 0)>>
NoName          == <<>>                     \* _blockName.empty()
Mangle(id, mark, layer) == [id |-> id, mark |-> mark, layer |-> layer]
Plain(id)       == Mangle(id, "", NoName)   \* what the parser leaves in mangledId
NoNode          == 0                        \* a null VarDefinition
NoFunction      == "-"

ASSUME ScopesAssumption ==
    /\ GlobalIds \subseteq Ids /\ IsFiniteSet(Ids) /\ Cardinality(GlobalIds) <= MaxNodes
    /\ NoFunction \notin Funcs
    /\ Sizes \subseteq Nat \ {0}
    /\ MaxParams \in Nat /\ MaxBlocks \in Nat /\ MaxNodes \in Nat /\ MaxDepth \in Nat
    /\ MayRedeclare \in BOOLEAN

VARIABLES
    \* --- class Sema
    variables,   \* _variables: identifier -> stack of definitions
    globals,     \* _globals: identifier -> definition, a partial function
    blockVars,   \* _blockVars: per open block, the identifiers it declared
    layerNames,  \* _layerNames: the names of the open blocks
    blockName,   \* _blockName: the name the next block takes
    blockId,     \* _blockId
    \* --- the Context and the tree
    symbols,     \* Context.symbols: mangled name -> definition, partial
    nodes,       \* the VarDefinitions met so far, globals first
    stackSize,   \* Function.stackSize of the function being walked, in words
    \* --- the traversal
    func,        \* the function being walked
    recovers,    \* `recover` of traverse(): identifiers to give back
    ctl,         \* constructs the walk is inside of, innermost last
    todo         \* functions not walked yet

vars == <<variables, globals, blockVars, layerNames, blockName, blockId, symbols,
          nodes, stackSize, func, recovers, ctl, todo>>
names == <<layerNames, blockName, blockId>>
frame == <<nodes, stackSize>>

Node(id, mangled, offset, size, f) ==
    [id |-> id, mangled |-> mangled, offset |-> offset, size |-> size, func |-> f]

\* map[key] = value on an unordered_map.
Bind(map, key, value) == [k \in DOMAIN map \cup {key} |-> IF k = key THEN value ELSE map[k]]

\* What an identifier in an expression finds (traverseExpression); the
\* assertion there is DefinedHere.
Resolve(i) == IF variables[i] # <<>> THEN Last(variables[i]) ELSE globals[i]
DefinedHere(i) == variables[i] # <<>> \/ i \in DOMAIN globals

\* --- the constructs -------------------------------------------------------
\* "body": a function's block is due; "block": inside a block; "then": the
\* clause of an if that has an else; "else": that clause is done; "last": the
\* clause of an if without else, an else clause or a loop's body.
Awaits(kinds) == ctl # <<>> /\ Last(ctl) \in kinds
Clause        == {"then", "last"}
StatementDue  == Awaits({"block"} \cup Clause)

\* The constructs c after the statement that is their innermost is over: what
\* ends with it ends too, and an if turns to its else clause.
Complete(c) ==
    LET open == {k \in DOMAIN c : c[k] \notin {"body", "last"}}
        kept == SubSeq(c, 1, IF open = {} THEN 0 ELSE Max(open))
    IN  IF kept # <<>> /\ Last(kept) = "then"
        THEN Append(Front(kept), "else") ELSE kept

\* _blockName = tag.id@layer
NameNextBlockAgain(tag) ==   \* mutant: _blockId is not incremented
    /\ blockId < MaxBlocks
    /\ blockName' = <<Part(tag, blockId)>> \o Last(layerNames)
    /\ UNCHANGED blockId
NameNextBlock(tag) ==
    /\ blockId < MaxBlocks
    /\ blockName' = <<Part(tag, blockId)>> \o Last(layerNames)
    /\ blockId' = blockId + 1

\* --- traverse: the globals, then a function at a time ----------------------
GlobalSeq == SetToSeq(GlobalIds)

Init ==
    /\ nodes = [n \in 1 .. Len(GlobalSeq) |->
                  Node(GlobalSeq[n], Plain(GlobalSeq[n]), 0, 1, NoFunction)]
    /\ globals = [i \in GlobalIds |-> CHOOSE n \in DOMAIN nodes : nodes[n].id = i]
    /\ symbols = [m \in {Plain(i) : i \in GlobalIds} |-> globals[m.id]]
    /\ variables = [i \in Ids |-> <<>>]
    /\ blockVars = <<>> /\ layerNames = <<>> /\ blockName = NoName /\ blockId = 0
    /\ stackSize = 0 /\ func = NoFunction /\ recovers = {} /\ ctl = <<>>
    /\ todo = Funcs

ParamLists == {ps \in BoundedSeq(Ids, MaxParams) : IsInjective(ps)}

\* The parameters take the place of globals of the same name.
BeginFunction(f, params) ==
    /\ func = NoFunction /\ f \in todo
    /\ Len(nodes) + Len(params) <= MaxNodes
    /\ LET at(k)      == Len(nodes) + k
           mangled(k) == Mangle(params[k], "%", Root(f))
           number(i)  == CHOOSE k \in DOMAIN params : params[k] = i
       IN  /\ nodes' = nodes \o [k \in DOMAIN params |->
                                   Node(params[k], mangled(k), k - 1, 1, f)]
           /\ symbols' = [m \in DOMAIN symbols \cup {mangled(k) : k \in DOMAIN params} |->
                            IF \E k \in DOMAIN params : m = mangled(k)
                            THEN at(number(m.id)) ELSE symbols[m]]
           /\ globals' = [i \in DOMAIN globals \cup Range(params) |->
                            IF i \in Range(params) THEN at(number(i)) ELSE globals[i]]
    /\ recovers' = Range(params) \cap DOMAIN globals
    /\ stackSize' = Len(params)
    /\ blockName' = Root(f)
    /\ func' = f /\ todo' = todo \ {f} /\ ctl' = <<"body">>
    /\ UNCHANGED <<variables, blockVars, layerNames, blockId>>

\* _globals after the function: the identifiers in recover get symbols[id].
GivenBackNothing(table) == globals   \* mutant: without the loop over recover
GivenBack(table) ==
    [i \in DOMAIN globals |-> IF i \in recovers THEN table[Plain(i)] ELSE globals[i]]

\* The parameters' identifiers get their globals back.  An identifier that was
\* known only as the parameter of an earlier function gets symbols[id], which
\* creates a null entry.
EndFunction ==
    /\ func # NoFunction /\ ctl = <<>>
    /\ symbols' = [m \in DOMAIN symbols \cup {Plain(i) : i \in recovers} |->
                     IF m \in DOMAIN symbols THEN symbols[m] ELSE NoNode]
    /\ globals' = GivenBack(symbols')
    /\ func' = NoFunction /\ recovers' = {}
    /\ UNCHANGED <<variables, blockVars, names, frame, ctl, todo>>

\* --- traverseStatement -----------------------------------------------------
OpenBlock ==
    /\ StatementDue \/ Awaits({"body"})
    /\ Len(layerNames) < MaxDepth
    /\ blockVars' = Append(blockVars, <<>>)
    /\ \/ /\ blockName = NoName /\ blockId < MaxBlocks
          /\ layerNames' = Append(layerNames, <<Part("b", blockId)>> \o Last(layerNames))
          /\ blockId' = blockId + 1
          /\ UNCHANGED blockName
       \/ /\ blockName # NoName
          /\ layerNames' = Append(layerNames, blockName)
          /\ blockName' = NoName
          /\ UNCHANGED blockId
    /\ ctl' = Append(ctl, "block")
    /\ UNCHANGED <<variables, globals, symbols, frame, func, recovers, todo>>

\* The stacks after one pop for each identifier in the list `closing`.
Popped(closing) ==
    LET times(i) == Cardinality({k \in DOMAIN closing : closing[k] = i})
    IN  [i \in Ids |-> SubSeq(variables[i], 1, Len(variables[i]) - times(i))]

KeptNames == layerNames      \* mutant: the layer name stays
OuterNames == Front(layerNames)

CloseBlock ==
    /\ Awaits({"block"})
    /\ variables' = Popped(Last(blockVars))
    /\ layerNames' = OuterNames
    /\ blockVars' = Front(blockVars)
    /\ ctl' = Complete(Front(ctl))
    /\ UNCHANGED <<globals, blockName, blockId, symbols, frame, func, recovers, todo>>

If(hasElse) ==
    /\ StatementDue /\ Len(ctl) < 2 * MaxDepth
    /\ NameNextBlock("i")
    /\ ctl' = Append(ctl, IF hasElse THEN "then" ELSE "last")
    /\ UNCHANGED <<variables, globals, blockVars, layerNames, symbols, frame, func,
                   recovers, todo>>

Else ==
    /\ Awaits({"else"})
    /\ NameNextBlock("e")
    /\ ctl' = Append(Front(ctl), "last")
    /\ UNCHANGED <<variables, globals, blockVars, layerNames, symbols, frame, func,
                   recovers, todo>>

While ==
    /\ StatementDue /\ Len(ctl) < 2 * MaxDepth
    /\ NameNextBlock("w")
    /\ ctl' = Append(ctl, "last")
    /\ UNCHANGED <<variables, globals, blockVars, layerNames, symbols, frame, func,
                   recovers, todo>>

\* A clause or loop body that is no block: the name set for it stays.
Simple ==
    /\ Awaits(Clause)
    /\ ctl' = Complete(ctl)
    /\ UNCHANGED <<variables, globals, blockVars, names, symbols, frame, func, recovers,
                   todo>>

\* The test of newVariable for an identifier the block has declared already.
IsDuplicate(i) == Len(variables[i]) = Len(layerNames)

\* The list of the innermost block with one more identifier.
NotListed(i) == blockVars               \* mutant: the block forgets the identifier
ListedToo(i) == Append(Front(blockVars), Append(Last(blockVars), i))

\* The words a declaration takes in the frame.
OneSlot(size) == 1                      \* mutant: arrays take one word
Slot(size) == size

\* newVariable with the place in the frame the declaration takes.
Declare(i, size) ==
    LET n       == Len(nodes) + 1
        dropped == IsDuplicate(i)
        mangled == IF dropped THEN Plain(i) ELSE Mangle(i, "@", Last(layerNames))
    IN  /\ Awaits({"block"})
        /\ n <= MaxNodes
        /\ MayRedeclare \/ i \notin Range(Last(blockVars))
        /\ nodes' = Append(nodes, Node(i, mangled, stackSize, size, func))
        /\ stackSize' = stackSize + Slot(size)
        /\ \/ dropped /\ UNCHANGED <<symbols, variables, blockVars>>
           \/ /\ ~dropped
              /\ symbols' = Bind(symbols, mangled, n)
              /\ variables' = [variables EXCEPT ![i] = Append(@, n)]
              /\ blockVars' = ListedToo(i)
        /\ UNCHANGED <<globals, names, func, recovers, ctl, todo>>

Next ==
    \/ \E f \in Funcs, params \in ParamLists : BeginFunction(f, params)
    \/ EndFunction
    \/ OpenBlock
    \/ CloseBlock
    \/ \E hasElse \in BOOLEAN : If(hasElse)
    \/ Else
    \/ While
    \/ Simple
    \/ \E i \in Ids, size \in Sizes : Declare(i, size)

Spec == Init /\ [][Next]_vars

(***************************************************************************)
(* The scopes these variables stand for.                                   *)
(***************************************************************************)

Local(n)       == n \in DOMAIN nodes /\ nodes[n].func # NoFunction
IsParam(i)     == i \in DOMAIN globals /\ Local(globals[i]) /\ nodes[globals[i]].func = func
Listed(i, j)   == i \in Range(blockVars[j])
Level(i, j)    == Cardinality({k \in 1 .. j : Listed(i, k)})

\* The definition at file level, whatever _globals says of the identifier now.
FileScope == [i \in Ids |->
    IF i \in GlobalIds THEN CHOOSE n \in 1 .. Len(GlobalSeq) : nodes[n].id = i ELSE NoNode]

ParamScope == [i \in Ids |-> IF IsParam(i) THEN globals[i] ELSE NoNode]

\* A block that lists i holds one more element of i's stack than those around it.
BlockScope(j) == [i \in Ids |->
    IF Listed(i, j) /\ Level(i, j) <= Len(variables[i])
    THEN variables[i][Level(i, j)] ELSE NoNode]

OpenScopes ==
    IF func = NoFunction THEN <<FileScope>>
    ELSE <<FileScope, ParamScope>> \o [j \in DOMAIN blockVars |-> BlockScope(j)]

Lexical == INSTANCE LexicalScopes WITH
    NoDef <- NoNode, scopes <- OpenScopes, latest <- Len(nodes)

(***************************************************************************)
(* Properties.                                                             *)
(***************************************************************************)

NameType == Seq([tag : Funcs \cup {"b", "i", "e", "w"}, num : 0 .. MaxBlocks])
IdStacks == [Ids -> Seq(1 .. MaxNodes)]

TypeOK ==
    /\ variables \in IdStacks
    /\ DOMAIN globals \subseteq Ids
    /\ \A i \in DOMAIN globals : globals[i] \in 0 .. Len(nodes)
    /\ blockVars \in Seq(Seq(Ids)) /\ layerNames \in Seq(NameType)
    /\ Len(blockVars) = Len(layerNames)
    /\ blockName \in NameType /\ blockId \in 0 .. MaxBlocks
    /\ \A m \in DOMAIN symbols : symbols[m] \in 0 .. Len(nodes)
    /\ Len(nodes) <= MaxNodes /\ stackSize \in Nat
    /\ func \in Funcs \cup {NoFunction}
    /\ recovers \subseteq Ids /\ todo \subseteq Funcs
    /\ ctl \in Seq({"body", "block", "then", "else", "last"})

\* The per-identifier stacks, pushed by declarations and popped by the list of
\* each block, and the globals overridden by parameters, together behave as
\* nested scopes: nothing is popped that is still declared, nothing is left of
\* a block that is closed, and a legal declaration is never dropped, however
\* deep the blocks are nested (traverse, traverseStatement, newVariable).
ImplementsScopes == Lexical!Spec

\* Wherever an identifier is declared, its use finds the innermost declaration,
\* and the mangled name it is given leads the later phases back to that
\* declaration through Context.symbols (traverseExpression, Arms::getOffset).
UsesFindInnermost ==
    func # NoFunction =>
        \A i \in Ids : Lexical!Lookup(i) # NoNode =>
            /\ Resolve(i) = Lexical!Lookup(i)
            /\ symbols[nodes[Resolve(i)].mangled] = Lexical!Lookup(i)

\* No definition is lost from the symbol table, however blocks are nested and
\* named: all mangled names are different, and none is that of a global
\* (include/context.h: the table maps a mangled name to its definition).
SymbolsFindEveryNode ==
    \A n \in DOMAIN nodes : LET m == nodes[n].mangled
                            IN  /\ m \in DOMAIN symbols /\ symbols[m] = n
                                /\ m.mark = "" <=> nodes[n].func = NoFunction

\* Two variables of a function never share a word of its frame, and the frame
\* has room for all of them.
Words(n) == nodes[n].offset .. (nodes[n].offset + nodes[n].size - 1)
FrameSlotsDisjoint ==
    \A n \in DOMAIN nodes : Local(n) =>
        /\ nodes[n].func = func => Words(n) \subseteq 0 .. (stackSize - 1)
        /\ \A o \in DOMAIN nodes : (o # n /\ nodes[o].func = nodes[n].func)
                                     => Words(n) \cap Words(o) = {}

\* A second declaration in the same block is left out of the tables
\* (newVariable: "TODO error" and the early return).
RedeclarationIsDropped ==
    [][\A i \in Ids :
         (/\ Len(nodes') = Len(nodes) + 1 /\ func # NoFunction
          /\ nodes'[Len(nodes')].id = i /\ i \in Range(Last(blockVars)))
         => UNCHANGED <<variables, symbols>>]_vars

\* The assertion in traverseExpression stops at an identifier that no open
\* scope declares.
UndeclaredIsCaught ==
    func # NoFunction =>
        \A i \in Ids : Lexical!Lookup(i) = NoNode => ~DefinedHere(i)
=============================================================================
