------------------------------- MODULE Parser -------------------------------
(***************************************************************************)
(* The syntax analyser of kisyshot (src/src/compiler/parser.cc).           *)
(*                                                                         *)
(* The C++ call stack is `stack': one frame for every call of a parse      *)
(* function that has not returned, named for the place it has reached.     *)
(* What the innermost call has just returned is `value'.  A step is what   *)
(* the code does between two calls or returns.                             *)
(*                                                                         *)
(* A token is a kind and a text; spelled tokens are their own kind.  A     *)
(* position is an index in the tokens, from 1.  `_lookahead' is the token  *)
(* after the cursor whenever the code reads it (step, recover and the      *)
(* entry of parseExpression set it), so it is an operator, not a variable. *)
(*                                                                         *)
(* Where the code reads behind the last token or through a null pointer,   *)
(* or an assertion fails, the model has no step.                           *)
(***************************************************************************)
EXTENDS Integers, Sequences, SequencesExt

CONSTANT Files   \* [tokens, items, faults, judged]: a text, its tree, where it is wrong,
                 \* and whether the parser is expected to find just that

VARIABLES
    file,      \* the file that is parsed
    current,   \* _current: the cursor
    recover,   \* _recover: positions to go back to, the last one on top
    stack,     \* the calls that are running, the innermost last
    value,     \* what the innermost call returned, NotYet while it runs
    unit,      \* _context->syntaxTree: the items of the file
    reported   \* positions of diagnostics

vars == <<file, current, recover, stack, value, unit, reported>>

Null == [is |-> "null"]      \* nullptr
NotYet == [is |-> "running"]

\* The lexer ends every file with one token that marks its end.
ASSUME ParserAssumption == \A f \in Files :
    /\ f.tokens \in Seq(Range(f.tokens)) /\ f.tokens # <<>>
    /\ \A i \in 1 .. Len(f.tokens) : f.tokens[i][1] = "eof" <=> i = Len(f.tokens)
    /\ f.faults \subseteq 1 .. Len(f.tokens) /\ f.judged \in BOOLEAN

\* --- tokens -----------------------------------------------------------------
Inside(i) == i \in DOMAIN file.tokens
Kind(i) == IF Inside(i) THEN file.tokens[i][1] ELSE "none"
Text(i) == file.tokens[i][2]

AfterAny(i) == i + 1   \* mutant: comments are not skipped
\* move(): the next token that is no comment.
After(i) == Min({j \in i + 1 .. Len(file.tokens) : Kind(j) # "comment"}
                 \cup {Len(file.tokens) + 1})
Past(i, kind) == IF Kind(i) = kind THEN After(i) ELSE i
\* step() until a token of ends.
Reached(i, ends) == {j \in i .. Len(file.tokens) :
    Kind(j) \in ends /\ \A l \in i .. j - 1 : Kind(l) \notin ends}

\* --- calls ------------------------------------------------------------------
Top == Last(stack)
Running(at)  == Inside(current) /\ stack # <<>> /\ value = NotYet /\ Top.at = at
Returned(at) == Inside(current) /\ stack # <<>> /\ value # NotYet /\ Top.at = at

\* The cursor moves to i and the innermost call has become frame, ...
Become(i, frame) ==
    /\ current' = i /\ stack' = Append(Front(stack), frame) /\ value' = NotYet
    /\ UNCHANGED <<file, recover, unit, reported>>
\* ... has called callee and waits as frame, ...
Call(i, frame, callee) ==
    /\ current' = i /\ stack' = Append(Append(Front(stack), frame), callee)
    /\ value' = NotYet
    /\ UNCHANGED <<file, recover, unit, reported>>
\* ... or has returned.
Return(i, tree) ==
    /\ current' = i /\ stack' = Front(stack) /\ value' = tree
    /\ UNCHANGED <<file, recover, unit, reported>>

\* --- expressions ------------------------------------------------------------
Initial == 15
Assignment == 14
UnaryLevel == 2
Unary      == {"+", "-", "!"}

\* How tightly an operator binds: the smaller, the tighter.
Level(kind) == CASE kind \in {"*", "/", "%"}        -> 3
                 [] kind \in {"+", "-"}             -> 4
                 [] kind \in {"<", ">", "<=", ">="} -> 6
                 [] kind \in {"==", "!="}           -> 7
                 [] kind = "&&" -> 11
                 [] kind = "||" -> 12
                 [] kind = "="  -> Assignment
                 [] OTHER       -> Initial

\* Mutant: operators of one level group from the right.
StopsLater(level, limit) == level = Initial \/ (level > limit /\ level # Assignment)
\* An operator of this level ends the operand of an operator of level limit.
Stops(level, limit) ==
    level = Initial \/ (level >= limit /\ level # Assignment)

ArrayNode(elems) == [is |-> "array", elems |-> elems]
IndexNode(array, index) ==
    [is |-> "index", name |-> array.name,
     layer |-> IF array.is = "index" THEN array.layer + 1 ELSE 1,
     array |-> array, index |-> index]
CallNode(name, args) == [is |-> "call", name |-> name, args |-> args]
\* The calls of the timer get the number of their line.
Timed(call) ==
    IF call.name \in {"starttime", "stoptime"}
    THEN CallNode("_sysy_" \o call.name, Append(call.args, [is |-> "literal", text |-> "line"]))
    ELSE call

\* A call of parseExpression.  ends: tokens that end it; limit: level of the operator
\* before it; left: what it has parsed; op: the operator whose right operand it waits for.
Expression(ends, limit) ==
    [at |-> "operand", ends |-> ends, limit |-> limit, left |-> Null, op |-> "none"]
\* The same call at another place.
At(place, left, op) ==
    [at |-> place, ends |-> Top.ends, limit |-> Top.limit, left |-> left, op |-> op]
Parsed(left) == At("loop", left, "none")

Prefix == Kind(current) \in Unary /\ UnaryLevel <= Top.limit

UnaryOperator ==
    /\ Running("operand") /\ Prefix
    /\ Call(After(current), At("unary", Null, Kind(current)), Expression(Top.ends, UnaryLevel))

UnaryOperand ==
    /\ Returned("unary")
    /\ Become(current, Parsed([is |-> "unary", op |-> Top.op, right |-> value]))

OpenParenthesis ==
    /\ Running("operand") /\ Kind(current) = "("
    /\ Call(After(current), At("parenthesis", Null, "none"), Expression(Top.ends, Initial))

CloseParenthesis ==
    /\ Returned("parenthesis")
    /\ Become(Past(current, ")"), Parsed([is |-> "paren", inner |-> value]))

\* { ... }
OpenElements ==
    /\ Running("operand") /\ Kind(current) = "{"
    /\ \/ /\ Kind(After(current)) = "}"
          /\ Become(After(After(current)), Parsed(ArrayNode(<<>>)))
       \/ /\ Kind(After(current)) # "}"
          /\ Call(After(current), At("elements", ArrayNode(<<>>), "none"),
                  Expression(Top.ends, Top.limit))

\* A missing element is left out; another one follows whatever is not } or ;.
Element ==
    /\ Returned("elements")
    /\ LET array == IF value = Null THEN Top.left ELSE ArrayNode(Append(Top.left.elems, value))
       IN \/ /\ Kind(current) \in {"}", ";"}
             /\ Become(Past(current, "}"), Parsed(array))
          \/ /\ Kind(current) \notin {"}", ";"}
             /\ Call(Past(current, ","), At("elements", array, "none"),
                     Expression(Top.ends, Top.limit))

Primary ==
    /\ Running("operand") /\ Kind(current) \in {"identifier", "literal"}
    /\ Become(After(current),
              Parsed(IF Kind(current) = "identifier" THEN [is |-> "id", name |-> Text(current)]
                     ELSE [is |-> "literal", text |-> Text(current)]))

\* Before a binary operator the operand is missing; other tokens are skipped.
NoOperand ==
    /\ Running("operand") /\ ~Prefix
    /\ Kind(current) \notin {"(", "{", "identifier", "literal"}
    /\ \E i \in IF Level(Kind(current)) = Initial THEN Reached(current, Top.ends) ELSE {current} :
          Become(i, Parsed(Null))

\* The head of the loop over what follows an operand.
EndOfExpression ==
    /\ Running("loop") /\ Kind(current) \in Top.ends
    /\ Return(current, Top.left)

More == Running("loop") /\ Kind(current) \notin Top.ends
Callable == Kind(current) = "(" /\ Top.left.is = "id"

OpenIndex ==
    /\ More /\ Kind(current) = "["
    /\ Call(After(current), At("index", Top.left, "none"),
            Expression(Top.ends \cup {"]"}, Initial))

\* Only a name or an index has the name of an array: other casts give nullptr.
Index ==
    /\ Returned("index") /\ Top.left.is \in {"id", "index"}
    /\ LET node == IndexNode(Top.left, value)
       IN \/ /\ Kind(current) = "]" /\ Kind(After(current)) = "["
             /\ Call(After(After(current)), At("index", node, "none"),
                     Expression(Top.ends \cup {"]"}, Initial))
          \/ /\ Kind(current) = "]" /\ Kind(After(current)) # "["
             /\ Become(After(current), At("operator", node, "none"))
          \/ /\ Kind(current) # "]"
             /\ \E i \in Reached(current, Top.ends) : Become(i, At("operator", node, "none"))

\* From the parenthesis or a comma: the next argument, or none before ).
NextArgument(call) ==
    \/ /\ Kind(After(current)) = ")"
       /\ Become(After(After(current)), At("operator", Timed(call), "none"))
    \/ /\ Kind(After(current)) # ")"
       /\ Call(After(current), At("arguments", call, "none"),
               Expression(Top.ends \cup {")"}, Initial))

OpenArguments == More /\ Callable /\ NextArgument(CallNode(Top.left.name, <<>>))

Argument ==
    /\ Returned("arguments")
    /\ LET call == CallNode(Top.left.name, Append(Top.left.args, value))
       IN \/ /\ Kind(current) = ","
             /\ NextArgument(call)
          \/ /\ Kind(current) = ")"
             /\ Become(After(current), At("operator", Timed(call), "none"))
          \/ /\ Kind(current) \notin {",", ")"}
             /\ \E i \in Reached(current, Top.ends) : Become(i, At("operator", Timed(call), "none"))

\* After an index or the arguments the loop is not entered from its head.
AtOperator ==
    \/ Running("operator")
    \/ More /\ Kind(current) # "[" /\ ~Callable

Operator ==
    /\ AtOperator /\ ~Stops(Level(Kind(current)), Top.limit)
    /\ Call(After(current), At("right", Top.left, Kind(current)),
            Expression(Top.ends, Level(Kind(current))))

NoOperator ==
    /\ AtOperator /\ Stops(Level(Kind(current)), Top.limit)
    /\ Return(current, Top.left)

BinaryNode(op, left, right) == [is |-> "binary", op |-> op, left |-> left, right |-> right]

RightOperand ==
    /\ Returned("right")
    /\ Become(current, Parsed(BinaryNode(Top.op, Top.left, value)))

\* --- variable definitions ---------------------------------------------------
\* A call of parseVariableDefinition that has taken the name at i.
Definition(def) == [at |-> "definition", def |-> def]
Defined(i) ==
    Definition([is |-> "def", name |-> Text(i), dims |-> <<>>, init |-> Null])
WithSize(size) == Definition([Top.def EXCEPT !.dims = Append(@, size)])

OpenSize ==
    /\ Running("definition") /\ Kind(current) = "["
    /\ \/ /\ Kind(After(current)) = "]"
          /\ Become(After(After(current)), WithSize(Null))
       \/ /\ Kind(After(current)) # "]"
          /\ Call(After(current), [at |-> "size", def |-> Top.def],
                  Expression({"]", ";"}, Initial))

\* The token after the size is taken for the bracket.
CloseSize == Returned("size") /\ Become(After(current), WithSize(value))

OpenInitial ==
    /\ Running("definition") /\ Kind(current) = "="
    /\ Call(After(current), [at |-> "initial", def |-> Top.def],
            Expression({";", ","}, Initial))

InitialValue ==
    /\ Returned("initial")
    /\ Become(current, Definition([Top.def EXCEPT !.init = value]))

DefinitionEndsInBlock == {"eof", ",", ";"}   \* mutant: parameters are forgotten
DefinitionEnds == {")", "eof", ",", ";"}
\* Any other token keeps the code in its loop for ever.
EndDefinition ==
    /\ Running("definition") /\ Kind(current) \in DefinitionEnds
    /\ Return(current, Top.def)

\* --- variable declarations --------------------------------------------------
Target(saved, i) == IF saved = <<>> THEN i ELSE Last(saved)
NotPopped(saved) == saved   \* mutant: recover() leaves the position on the stack
Popped(saved) == IF saved = <<>> THEN saved ELSE Front(saved)
Pushed == Append(recover, current)

DeclarationOf(const, type, defs) ==
    [at |-> "declaration", const |-> const, type |-> type, defs |-> defs]

\* parseVariableDeclaration is called at token i by the last of callers: recover() first.
Declare(saved, i, callers) ==
    /\ LET start == Target(saved, i)
           type  == Past(start, "const")
           names == Kind(type) = "identifier" /\ Kind(After(type)) = "identifier"
       IN \/ /\ names
             /\ stack' = Append(callers, DeclarationOf(type # start, Text(type), <<>>))
             /\ current' = After(type) /\ value' = NotYet
          \/ ~names /\ stack' = callers /\ current' = type /\ value' = Null
    /\ recover' = Popped(saved)
    /\ UNCHANGED <<file, unit, reported>>

NextDefinition ==
    /\ Running("declaration") /\ Kind(current) = "identifier"
    /\ Call(After(current), Top, Defined(current))

DefinitionRead ==
    /\ Returned("declaration")
    /\ Become(Past(current, ","), DeclarationOf(Top.const, Top.type, Append(Top.defs, value)))

EndDeclaration ==
    /\ Running("declaration") /\ Kind(current) # "identifier"
    /\ Return(Past(current, ";"), [is |-> "decl", const |-> Top.const, type |-> Top.type,
                                   defs |-> Top.defs])

\* --- statements -------------------------------------------------------------
Statement == [at |-> "statement"]
BlockAt(children) == [at |-> "block", children |-> children]

\* Without a value, or with one.
ReturnStatement ==
    /\ Running("statement") /\ Kind(current) = "return"
    /\ \/ /\ Kind(After(current)) = ";"
          /\ Return(After(After(current)), [is |-> "return", value |-> Null])
       \/ /\ Kind(After(current)) # ";"
          /\ Call(After(current), [at |-> "return"], Expression({}, Initial))

ReturnValue ==
    Returned("return") /\ Return(Past(current, ";"), [is |-> "return", value |-> value])

Jump ==
    /\ Running("statement") /\ Kind(current) \in {"break", "continue"}
    /\ Return(Past(After(current), ";"), [is |-> Kind(current)])

Nop ==
    /\ Running("statement") /\ Kind(current) = ";"
    /\ Return(After(current), [is |-> "nop"])

ExpressionStatement ==
    /\ Running("statement")
    /\ Kind(current) = "identifier" /\ Kind(After(current)) # "identifier"
    /\ Call(current, [at |-> "expression"], Expression({";"}, Initial))

EndExpression ==
    Returned("expression") /\ Return(Past(current, ";"), [is |-> "expr", expr |-> value])

LocalDeclaration ==
    /\ Running("statement")
    /\ \/ Kind(current) = "const"
       \/ Kind(current) = "identifier" /\ Kind(After(current)) = "identifier"
    /\ Declare(recover, current, Front(stack))

\* parseStatement, parseIfStatement and parseWhileStatement return nullptr.
NoStatement ==
    /\ Running("statement")
    /\ \/ Kind(current) \notin {"return", "break", "continue", ";", "identifier", "const",
                                "{", "if", "while"}
       \/ Kind(current) \in {"if", "while"} /\ Kind(After(current)) # "("
    /\ Return(current, Null)

OpenBlock ==
    /\ Running("statement") /\ Kind(current) = "{"
    /\ Become(After(current), BlockAt(<<>>))

NextStatement ==
    /\ Running("block") /\ Kind(current) # "}"
    /\ Call(current, Top, Statement)

\* A block keeps assignments and calls, no other expression statement.
Dropped(stmt) ==
    /\ stmt.is = "expr" /\ stmt.expr.is # "call"
    /\ stmt.expr.is = "binary" => stmt.expr.op # "="

\* The code reads through the pointer: after nullptr there is no next step.
AddToBlock ==
    /\ Returned("block") /\ value # Null
    /\ Become(current, IF Dropped(value) THEN Top ELSE BlockAt(Append(Top.children, value)))

CloseBlock ==
    /\ Running("block") /\ Kind(current) = "}"
    /\ Return(After(current), [is |-> "block", children |-> Top.children])

OpenCondition ==
    /\ Running("statement") /\ Kind(current) \in {"if", "while"} /\ Kind(After(current)) = "("
    /\ Call(After(After(current)), [at |-> "condition", of |-> Kind(current)],
            Expression({")"}, Initial))

\* The token after the condition is taken for the parenthesis.
Condition ==
    /\ Returned("condition")
    /\ Call(After(current), [at |-> Top.of, cond |-> value], Statement)

ElseFollows ==
    /\ Returned("if") /\ Kind(current) = "else"
    /\ Call(After(current), [at |-> "else", cond |-> Top.cond, then |-> value], Statement)

\* The statement around the clause or the body is complete.
Complete ==
    \/ /\ Returned("if") /\ Kind(current) # "else"
       /\ Return(current, [is |-> "if", cond |-> Top.cond, then |-> value, else |-> Null])
    \/ /\ Returned("else")
       /\ Return(current, [is |-> "if", cond |-> Top.cond, then |-> Top.then, else |-> value])
    \/ /\ Returned("while")
       /\ Return(current, [is |-> "while", cond |-> Top.cond, body |-> value])

\* --- functions --------------------------------------------------------------
\* Its call, with its left parenthesis and the parameters so far; `of' is the type of
\* the next one.
Heading(at, type, name, paren, params, of) ==
    [at |-> at, type |-> type, name |-> name, paren |-> paren, params |-> params, of |-> of]
Parameters(params, of) == Heading("parameters", Top.type, Top.name, Top.paren, params, of)
FunctionNode(head, body) ==
    [is |-> "function", type |-> head.type, name |-> head.name,
     params |-> head.params, body |-> body]

Parameter ==
    /\ Running("parameters") /\ Kind(current) = "identifier"
    /\ Kind(After(current)) = "identifier"
    /\ Call(After(After(current)), Parameters(Top.params, Text(current)), Defined(After(current)))

ParameterRead ==
    /\ Returned("parameters")
    /\ Become(Past(current, ","),
              Parameters(Append(Top.params, [type |-> Top.of, def |-> value]), ""))

\* After the parameters: a body, or none.  A parenthesis that is not closed is
\* reported twice, where it should be and where it is open.
Wrong == IF Kind(current) = ")" THEN {} ELSE {current, Top.paren}
EndParameters ==
    /\ Running("parameters") /\ Kind(current) # "identifier"
    /\ LET next    == Past(current, ")")
           missing == IF Kind(next) = "eof" THEN next - 1 ELSE next
       IN /\ Inside(next)
          /\ \/ /\ Kind(next) = "{"
                /\ stack' = <<[Parameters(Top.params, "") EXCEPT !.at = "function"],
                              BlockAt(<<>>)>>
                /\ current' = After(next)
                /\ reported' = reported \cup Wrong
                /\ UNCHANGED unit
             \/ /\ Kind(next) # "{"
                /\ stack' = <<>>
                /\ current' = next
                /\ reported' = reported \cup Wrong
                               \cup (IF Kind(next) = ";" THEN {} ELSE {missing})
                /\ unit' = Append(unit, FunctionNode(Top, Null))
    /\ UNCHANGED <<file, recover, value>>

\* A body that does not end with a return statement gets one.
EndFunction ==
    /\ Returned("function")
    /\ LET falls == value.children = <<>> \/ Last(value.children).is # "return"
           ret   == [is |-> "return", value |-> Null]
       IN unit' = Append(unit, FunctionNode(Top,
                      IF falls THEN [value EXCEPT !.children = Append(@, ret)] ELSE value))
    /\ stack' = <<>> /\ value' = NotYet
    /\ UNCHANGED <<file, current, recover, reported>>

\* --- the loop over the file -------------------------------------------------
AtItem == stack = <<>> /\ current < Len(file.tokens)
Item == [at |-> "item"]

\* A declaration of the file is complete.
EndItem ==
    /\ stack = <<Item>> /\ value # NotYet
    /\ unit' = Append(unit, value)
    /\ stack' = <<>> /\ value' = NotYet
    /\ UNCHANGED <<file, current, recover, reported>>

ConstItem == AtItem /\ Kind(current) = "const" /\ Declare(recover, current, <<Item>>)

\* The cursor is pushed and steps over the type; the lookahead decides.
AtName == AtItem /\ Kind(current) = "identifier" /\ Inside(After(After(current)))
Decisive == Kind(After(After(current)))

VariableItem ==
    /\ AtName /\ Decisive \in {",", ";", "=", "["}
    /\ Declare(Pushed, After(current), <<Item>>)

FunctionItem ==
    /\ AtName /\ Decisive = "("
    /\ LET i == Target(Pushed, After(current))
       IN /\ Kind(i) = "identifier" /\ Kind(After(i)) = "identifier"
          /\ Kind(After(After(i))) = "("
          /\ current' = After(After(After(i)))
          /\ stack' = <<Heading("parameters", Text(i), Text(After(i)), After(After(i)),
                                <<>>, "")>>
    /\ recover' = Popped(Pushed)
    /\ UNCHANGED <<file, value, unit, reported>>

\* Neither a function nor a variable: what was pushed stays on the stack.
WordItem ==
    /\ AtName /\ Decisive \notin {"(", ",", ";", "=", "["}
    /\ recover' = Pushed
    /\ current' = After(current)
    /\ UNCHANGED <<file, stack, value, unit, reported>>

\* Where the search after an unexpected token stops.
ItemStarts(i) ==
    \/ Kind(i) \in {"eof", "const"}
    \/ /\ Kind(i) = "identifier" /\ Kind(After(i)) = "identifier"
       /\ Kind(After(After(i))) \in {"=", ";", "(", "[", ","}

ResyncHere(i) == i   \* mutant: no search, only a step
Resync(i) == Min({j \in i .. Len(file.tokens) : ItemStarts(j)})

UnexpectedItem ==
    /\ AtItem /\ Kind(current) \notin {"const", "identifier"}
    /\ reported' = reported \cup {current}
    /\ current' = Resync(After(current))
    /\ UNCHANGED <<file, recover, stack, value, unit>>

Finished == stack = <<>> /\ current >= Len(file.tokens)

Init ==
    /\ file \in Files
    /\ current = 1
    /\ recover = <<>> /\ stack = <<>> /\ unit = <<>>
    /\ value = NotYet
    /\ reported = {}

Items == ConstItem \/ VariableItem \/ FunctionItem \/ WordItem \/ UnexpectedItem \/ EndItem
Functions == Parameter \/ ParameterRead \/ EndParameters \/ EndFunction
Statements ==
    \/ ReturnStatement \/ ReturnValue \/ Jump \/ Nop \/ ExpressionStatement \/ EndExpression
    \/ LocalDeclaration \/ NoStatement \/ OpenBlock \/ NextStatement \/ AddToBlock \/ CloseBlock
    \/ OpenCondition \/ Condition \/ ElseFollows \/ Complete
Declarations ==
    \/ NextDefinition \/ DefinitionRead \/ EndDeclaration
    \/ OpenSize \/ CloseSize \/ OpenInitial \/ InitialValue \/ EndDefinition
Expressions ==
    \/ UnaryOperator \/ UnaryOperand \/ OpenParenthesis \/ CloseParenthesis
    \/ OpenElements \/ Element \/ Primary \/ NoOperand
    \/ EndOfExpression \/ OpenIndex \/ Index \/ OpenArguments \/ Argument
    \/ Operator \/ NoOperator \/ RightOperand

Next == Items \/ Functions \/ Statements \/ Declarations \/ Expressions

Spec == Init /\ [][Next]_vars /\ WF_vars(Next)

\* --- properties -------------------------------------------------------------
\* The places of a call of parseExpression, and of calls that wait for one.
InExpression == {"operand", "loop", "operator", "unary", "parenthesis", "elements", "index",
                 "arguments", "right"}
OnExpression == {"unary", "parenthesis", "elements", "index", "arguments", "right", "return",
                 "expression", "condition", "size", "initial"}
InStatement  == {"statement", "return", "expression", "condition", "if", "else", "while",
                 "block", "declaration"}

\* Where the callee of a call at this place may be.
Callees(at) ==
    CASE at \in OnExpression                      -> InExpression
      [] at \in {"declaration", "parameters"}     -> {"definition", "size", "initial"}
      [] at \in {"block", "if", "else", "while"}  -> InStatement
      [] at = "function" -> {"block"}
      [] at = "item"     -> {"declaration"}
      [] OTHER           -> {}

\* Types: the cursor is at most one token behind the text and on no comment (but the
\* first token), saved positions are names, and calls are nested as the code nests them.
TypeOK ==
    /\ current \in 1 .. Len(file.tokens) + 1
    /\ current > 1 => Kind(current) # "comment"
    /\ \A k \in DOMAIN recover : Inside(recover[k]) /\ Kind(recover[k]) = "identifier"
    /\ stack # <<>> => stack[1].at \in {"item", "parameters", "function"}
    /\ \A k \in 1 .. Len(stack) - 1 : stack[k + 1].at \in Callees(stack[k].at)
    /\ stack = <<>> => value = NotYet
    /\ reported \subseteq 1 .. Len(file.tokens)

\* A binary operator has on its left none that binds less tightly and no assignment, on
\* its right an assignment or one that binds more tightly.
Groups(tree) ==
    tree.is = "binary" =>
        /\ tree.left.is = "binary" =>
               Level(tree.left.op) <= Level(tree.op) /\ tree.left.op # "="
        /\ tree.right.is = "binary" =>
               tree.right.op = "=" \/ Level(tree.right.op) < Level(tree.op)

\* Every tree that parseExpression builds is grouped so, whatever the file: operators of
\* one level group from the left, assignments from the right.
OperatorsGroup == \A k \in DOMAIN stack : stack[k].at \in InExpression => Groups(stack[k].left)

\* The tree of the file is the tree it was written from: precedence and
\* association, clauses of if and while, sizes and initial values, parameters, what
\* blocks keep, and every item that follows something the parser rejected.
TreeIsSource == Finished => unit = file.items

\* What is wrong between and in the heads of items is reported, once for each stretch of
\* wrong text, and what is right is not: of every file that has neither a prototype, nor a
\* comment at its start, nor a clause, a body or an operand missing.  Of those the
\* parser is wrong: it reports the first two, and not the others (parser.cc: the search
\* after "unexpected token(s)", and what is expected in parseFunction).
FaultsReported == Finished /\ file.judged => reported = file.faults

\* No step goes back to a token that has been passed: a function and each
\* declaration take back the position that was pushed for them and no other.
MovesForward == [][current' >= current]_vars

\* Every file is parsed to its end.
EndsFile == <>Finished
=============================================================================
