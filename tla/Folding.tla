------------------------------ MODULE Folding ------------------------------
(***************************************************************************)
(* Constant expressions of kisyshot: Sema::checkCompileTimeConstExpr, for  *)
(* the values of globals and the dimensions of local arrays, on top of the *)
(* scopes that decide what its names mean.                                 *)
(*                                                                         *)
(* A name is looked up where the expression is folded, not where the       *)
(* constant is defined, and a constant is folded again at each use.        *)
(* worth remembers what the language gives a constant, its value where it  *)
(* stands, and meant what the names mean there.                            *)
(***************************************************************************)
EXTENDS Scopes

CONSTANTS
    Inits,    \* initial values
    Dims,     \* dimensions of arrays
    Exprs,    \* both, with their operands
    NoValue,  \* the value of what is no constant
    MaxCalls  \* bound: active calls; where it is met, the host's stack runs out

Expr(kind, num, name, operands) ==
    [kind |-> kind, num |-> num, name |-> name, operands |-> operands]
Literal(num) == Expr("literal", num, "", <<>>)
Name(i) == Expr("name", 0, i, <<>>)
Unary(op, e) == Expr("unary", 0, op, <<e>>)
Binary(op, left, right) == Expr("binary", 0, op, <<left, right>>)
Paren(e) == Expr("paren", 0, "", <<e>>)
Other == Expr("other", 0, "", <<>>)   \* a call, an element, a string: no constant
NoExpr == Expr("none", 0, "", <<>>)   \* a null pointer

IsExpr(e) ==
    \/ e = Literal(e.num) /\ e.num \in Int
    \/ e = Name(e.name) /\ e.name \in Ids
    \/ e.kind = "unary" /\ e = Unary(e.name, e.operands[1])
    \/ e.kind = "binary" /\ e = Binary(e.name, e.operands[1], e.operands[2])
    \/ e.kind = "paren" /\ e = Paren(e.operands[1])
    \/ e = Other

\* Expressions are finite trees.
ASSUME FoldingAssumption ==
    /\ Inits \cup Dims \subseteq Exprs
    /\ \A e \in Exprs : IsExpr(e) /\ Range(e.operands) \subseteq Exprs
    /\ \A S \in SUBSET Exprs : S # {} => \E e \in S : Range(e.operands) \cap S = {}
    /\ "" \notin Ids /\ NoValue \notin Int /\ MaxCalls \in Nat

VARIABLES
    inits,    \* per node, isConst and initialValue
    worth,    \* per node, the value of a constant, NoValue for the others
    meant,    \* per node, what each name means where a constant is defined
    values,   \* VarDefinition.values of the globals folded so far
    calls,    \* active calls of checkCompileTimeConstExpr, innermost last
    answer,   \* what the call that has just ended returned
    due       \* what is folded: a global, or the dimension of an array

folding == <<calls, answer, due>>
constants == <<inits, worth, meant, values>>
allVars == <<vars, constants, folding>>

NoAnswer == <<>>
Nothing  == [id |-> "", expr |-> NoExpr]
Initial(isConst, init) == [isConst |-> isConst, init |-> init]
Frame(expr) == [expr |-> expr, args |-> <<>>]
Unknown == [i \in Ids |-> NoNode]

Idle == calls = <<>> /\ answer = NoAnswer

\* --- operators: int arithmetic of the host, / and % towards zero ----------------
Truth(b) == IF b THEN 1 ELSE 0
Abs(n) == IF n < 0 THEN -n ELSE n
Quotient(a, b) == IF (a < 0) = (b < 0) THEN Abs(a) \div Abs(b) ELSE -(Abs(a) \div Abs(b))

UnaryValues(a) == [op \in {"+", "-", "!"} |->
    CASE op = "+" -> a [] op = "-" -> -a [] op = "!" -> Truth(a = 0)]
BinaryValues(a, b) ==
    [op \in {"+", "-", "*", "/", "%", "<", ">", "==", "!=", ">=", "<="} |->
       CASE op = "+" -> a + b [] op = "-" -> a - b [] op = "*" -> a * b
         [] op = "/" -> Quotient(a, b) [] op = "%" -> a - b * Quotient(a, b)
         [] op = "<" -> Truth(a < b) [] op = ">" -> Truth(a > b)
         [] op = "==" -> Truth(a = b) [] op = "!=" -> Truth(a # b)
         [] op = ">=" -> Truth(a >= b) [] op = "<=" -> Truth(a <= b)]

\* Division by zero ends the compiler: no step.
Defined(op, args) == op \in {"/", "%"} => args[2] # 0
Table(args) == IF Len(args) = 1 THEN UnaryValues(args[1]) ELSE BinaryValues(args[1], args[2])

\* --- what the language says -------------------------------------------------------
LogicalValues(a, b) ==
    [op \in {"&&", "||"} |->
       IF op = "&&" THEN Truth(a # 0 /\ b # 0) ELSE Truth(a # 0 \/ b # 0)]

ValueOf(op, args) ==
    IF op \in DOMAIN Table(args) /\ Defined(op, args) THEN Table(args)[op]
    ELSE IF Len(args) = 2 /\ op \in {"&&", "||"} THEN LogicalValues(args[1], args[2])[op]
    ELSE NoValue

\* The value of an expression whose names have the values env gives them.
Worth(expr, env) ==
    LET w[e \in Exprs \cup {NoExpr}] ==
          CASE e.kind = "literal" -> e.num
            [] e.kind = "name" -> env[e.name]
            [] e.kind \in {"none", "other"} -> NoValue
            [] OTHER ->
                 LET args == [k \in DOMAIN e.operands |-> w[e.operands[k]]]
                 IN  IF NoValue \in Range(args) THEN NoValue
                     ELSE IF e.kind = "paren" THEN args[1] ELSE ValueOf(e.name, args)
    IN  w[expr]

Mentioned(expr) ==
    LET m[e \in Exprs \cup {NoExpr}] ==
          IF e.kind = "name" THEN {e.name} ELSE UNION {m[o] : o \in Range(e.operands)}
    IN  m[expr]

\* Does it have a part that checkCompileTimeConstExpr refuses, whatever its value is?
Refused(expr) ==
    LET r[e \in Exprs \cup {NoExpr}] ==
          \/ e.kind = "paren"
          \/ e.kind = "binary" /\ e.name \in {"&&", "||"}
          \/ \E o \in Range(e.operands) : r[o]
    IN  r[expr]

\* What the names mean in the innermost scope that declares them, and their values.
Meanings == [i \in Ids |-> Lexical!Lookup(i)]
Here == [i \in Ids |-> IF Meanings[i] = NoNode THEN NoValue ELSE worth[Meanings[i]]]

\* --- checkCompileTimeConstExpr ----------------------------------------------------
Top == Last(calls)
Folds == calls # <<>> /\ answer = NoAnswer
Returns(value, ok) == answer' = <<value, ok>> /\ calls' = Front(calls)
Elsewhere == UNCHANGED <<vars, constants, due>>

FoldLiteral ==
    /\ Folds /\ Top.expr.kind = "literal"
    /\ Returns(Top.expr.num, TRUE) /\ Elsewhere

\* A constant is folded in the call's place, in the scope that is open now.
TakenForConstant(n) == inits[n].init # NoExpr   \* mutant: any initialised variable
IsConstant(n) == inits[n].isConst
FoldName ==
    /\ Folds /\ Top.expr.kind = "name" /\ DefinedHere(Top.expr.name)
    /\ LET n == Resolve(Top.expr.name)
       IN  \/ /\ IsConstant(n)
              /\ calls' = Append(Front(calls), Frame(inits[n].init))
              /\ UNCHANGED answer
           \/ ~IsConstant(n) /\ Returns(0, FALSE)
    /\ Elsewhere

FoldOperand ==
    /\ Folds /\ Top.expr.kind \in {"unary", "binary"}
    /\ Len(Top.args) < Len(Top.expr.operands) /\ Len(calls) < MaxCalls
    /\ calls' = Append(calls, Frame(Top.expr.operands[Len(Top.args) + 1]))
    /\ UNCHANGED answer /\ Elsewhere

FoldOperation ==
    /\ Folds /\ Top.expr.kind \in {"unary", "binary"}
    /\ Len(Top.args) = Len(Top.expr.operands)
    /\ Defined(Top.expr.name, Top.args)
    /\ LET table == Table(Top.args)
       IN  IF Top.expr.name \in DOMAIN table
           THEN Returns(table[Top.expr.name], TRUE) ELSE Returns(0, FALSE)
    /\ Elsewhere

\* The default: parentheses too.
FoldOther ==
    /\ Folds /\ Top.expr.kind \in {"other", "paren", "none"}
    /\ Returns(0, FALSE) /\ Elsewhere

\* The caller goes on with the operand's value, or returns what it was told.
Returned ==
    /\ calls # <<>> /\ answer # NoAnswer
    /\ \/ /\ answer[2] /\ answer' = NoAnswer
          /\ calls' = Append(Front(calls), [Top EXCEPT !.args = Append(@, answer[1])])
       \/ /\ ~answer[2] /\ UNCHANGED answer
          /\ calls' = Front(calls)
    /\ Elsewhere

Fold == FoldLiteral \/ FoldName \/ FoldOperand \/ FoldOperation \/ FoldOther \/ Returned

\* --- its callers ---------------------------------------------------------------------
Begin(id, expr) ==
    /\ Idle /\ due = Nothing
    /\ due' = [id |-> id, expr |-> expr]
    /\ calls' = <<Frame(expr)>> /\ UNCHANGED answer
Finished == calls = <<>> /\ answer # NoAnswer
Outcome == IF answer[2] THEN answer[1] ELSE 0
Done == answer' = NoAnswer /\ due' = Nothing /\ UNCHANGED calls

\* traverse: the globals in the order of the file, before any function.
InGlobals == Len(values) < Len(GlobalSeq)

StartGlobal ==
    /\ InGlobals /\ Begin(GlobalSeq[Len(values) + 1], inits[Len(values) + 1].init)
    /\ UNCHANGED <<vars, constants>>

EndGlobal ==
    /\ Finished /\ InGlobals
    /\ values' = Append(values, Outcome)
    /\ Done /\ UNCHANGED <<vars, inits, worth, meant>>

\* prepareArrayDef comes before newVariable: the array does not hide a name in its own
\* dimension.  traverseStatement asserts that the dimension is positive.
StartArray(i, expr) ==
    /\ ~InGlobals /\ Awaits({"block"}) /\ Len(nodes) < MaxNodes
    /\ i \notin Range(Last(blockVars))
    /\ \A j \in Mentioned(expr) : Lexical!Lookup(j) # NoNode
    /\ Begin(i, expr)
    /\ UNCHANGED <<vars, constants>>

AnyDimension == TRUE   \* mutant: without the assertion
PositiveDimension == Outcome > 0
EndArray ==
    /\ Finished /\ ~InGlobals
    /\ PositiveDimension /\ Declare(due.id, Outcome)
    /\ inits' = Append(inits, Initial(FALSE, NoExpr)) /\ worth' = Append(worth, NoValue)
    /\ meant' = Append(meant, Unknown)
    /\ Done /\ UNCHANGED values

\* The initial value of a local is not folded where it stands.  A constant is not
\* defined by itself.
DeclareScalar(i, isConst, init) ==
    /\ ~InGlobals /\ Idle /\ due = Nothing
    /\ isConst => Worth(init, Here) # NoValue /\ i \notin Mentioned(init)
    /\ Declare(i, 1)
    /\ inits' = Append(inits, Initial(isConst, init))
    /\ worth' = Append(worth, IF isConst THEN Worth(init, Here) ELSE NoValue)
    /\ meant' = Append(meant, IF isConst THEN Meanings ELSE Unknown)
    /\ UNCHANGED <<values, folding>>

BeginWith(f, params) ==
    /\ ~InGlobals /\ Idle /\ due = Nothing
    /\ BeginFunction(f, params)
    /\ inits' = inits \o [k \in DOMAIN params |-> Initial(FALSE, NoExpr)]
    /\ worth' = worth \o [k \in DOMAIN params |-> NoValue]
    /\ meant' = meant \o [k \in DOMAIN params |-> Unknown]
    /\ UNCHANGED <<values, folding>>

\* Blocks and the end of functions.
Walk ==
    /\ ~InGlobals /\ Idle /\ due = Nothing
    /\ OpenBlock \/ CloseBlock \/ EndFunction
    /\ UNCHANGED <<constants, folding>>

\* Files whose globals are constants of what stands before them, or are no constants.
GlobalWorth(file) ==
    LET w[n \in 0 .. Len(file)] ==
          IF n = 0 THEN [i \in Ids |-> NoValue]
          ELSE [w[n - 1] EXCEPT ![GlobalSeq[n]] =
                  IF file[n].isConst THEN Worth(file[n].init, w[n - 1]) ELSE NoValue]
    IN  [n \in DOMAIN file |-> w[n][GlobalSeq[n]]]

FoldInit ==
    /\ Init
    /\ inits \in [DOMAIN GlobalSeq -> {Initial(isConst, init) : isConst \in BOOLEAN,
                                                                init \in Inits \cup {NoExpr}}]
    /\ worth = GlobalWorth(inits) /\ meant = [n \in DOMAIN inits |-> FileScope]
    /\ \A n \in DOMAIN inits : inits[n].isConst => worth[n] # NoValue
    /\ \A n \in DOMAIN inits : Mentioned(inits[n].init)
                                  \subseteq {GlobalSeq[m] : m \in 1 .. n - 1}
    /\ values = <<>> /\ calls = <<>> /\ answer = NoAnswer /\ due = Nothing

FoldNext ==
    \/ FoldLiteral \/ FoldName \/ FoldOperand \/ FoldOperation \/ FoldOther \/ Returned
    \/ StartGlobal \/ EndGlobal
    \/ \E i \in Ids, e \in Dims : StartArray(i, e)
    \/ EndArray
    \/ \E i \in Ids, isConst \in BOOLEAN, e \in Inits : DeclareScalar(i, isConst, e)
    \/ \E f \in Funcs, params \in ParamLists : BeginWith(f, params)
    \/ Walk

\* The compiler runs on once it folds.
FoldSpec == FoldInit /\ [][FoldNext]_allVars /\ WF_allVars(Fold)

(***************************************************************************)
(* Properties.                                                             *)
(***************************************************************************)

FoldTypeOK ==
    /\ Len(inits) = Len(nodes) /\ Len(worth) = Len(nodes) /\ Len(meant) = Len(nodes)
    /\ \A n \in DOMAIN inits : /\ inits[n].isConst \in BOOLEAN
                               /\ inits[n].init \in Exprs \cup {NoExpr}
    /\ \A n \in DOMAIN nodes : nodes[n].size > 0
    /\ values \in Seq(Int) /\ Len(values) <= Len(GlobalSeq)
    /\ \A k \in DOMAIN calls : Len(calls[k].args) <= Len(calls[k].expr.operands)
    /\ answer # NoAnswer => answer \in Int \X BOOLEAN
    /\ due = Nothing => Idle

\* The names that folding the expression comes to: its own and those its constants are
\* defined with.
ConstantHere(i) == Meanings[i] # NoNode /\ inits[Meanings[i]].isConst
Definition(i) == inits[Meanings[i]].init
ComesTo(S) ==
    /\ Mentioned(due.expr) \subseteq S
    /\ \A i \in S : ConstantHere(i) => Mentioned(Definition(i)) \subseteq S

\* None of them has been declared again since a constant has been defined with it.
Steady(S) == \A i \in S : ConstantHere(i) =>
                \A j \in Mentioned(Definition(i)) : Meanings[j] = meant[Meanings[i]][j]

\* There are no parentheses, no && and no ||.
Bare(S) == ~Refused(due.expr) /\ \A i \in S : ConstantHere(i) => ~Refused(Definition(i))

\* What folding finds is the value the expression has in the language, wherever it stands,
\* though each constant is folded anew in the scopes of its use; and what it refuses has
\* none, or has parentheses, && or || in it or in a constant it comes to.  This is so
\* unless a name that such a constant is defined with has been declared again: there the
\* lookup in _variables and _globals finds another definition than the one that was meant.
Meaning == Worth(due.expr, Here)
FoldsToMeaning ==
    Finished => \A S \in SUBSET Ids : ComesTo(S) /\ Steady(S) =>
        IF answer[2] THEN answer[1] = Meaning ELSE Meaning = NoValue \/ ~Bare(S)

\* Folding ends, with the stack the host has, unless a name that a constant is defined
\* with has been declared again, so that a constant may come to itself.
FoldingEnds ==
    (calls # <<>> /\ \E S \in SUBSET Ids : ComesTo(S) /\ Steady(S)) ~> calls = <<>>
=============================================================================
