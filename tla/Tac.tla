-------------------------------- MODULE Tac --------------------------------
(***************************************************************************)
(* TAC generation of kisyshot: the genCode and getVar of every syntax node *)
(* (src/src/ast/syntax) with the CodeGenerator (src/src/compiler/          *)
(* codegen.cc), and the execution of the TAC.  The recursion over the tree *)
(* is a stack of calls of genCode.  What genCode does for a node is a list *)
(* of orders, its script; a step obeys the next order of the call on top.  *)
(* TacMeaning compares what the TAC does with what the tree means.         *)
(*                                                                         *)
(* Left out: parts of arrays passed as addresses, strings, assignments     *)
(* used as values, and expression statements that are neither a call nor   *)
(* an assignment (they are handed a null destination).                     *)
(***************************************************************************)
EXTENDS Integers, Sequences, FiniteSets, SequencesExt

CONSTANTS
    Nodes,     \* syntax trees, with every subtree
    Bodies,    \* statements: the function bodies that are translated
    NumVars,   \* local scalar variables 1 .. NumVars
    Dims,      \* dimensions of the one local array
    Results,   \* what a call may return
    Modulus,   \* arithmetic is modulo this
    MaxCalls   \* bound: calls that return

Size == FoldSeq(LAMBDA d, p : d * p, 1, Dims)   \* elements of the array

ASSUME TacAssumption ==
    /\ NumVars \in Nat /\ Modulus \in Nat \ {0} /\ Results \subseteq 0 .. (Modulus - 1)
    /\ MaxCalls \in Nat
    /\ Size < Modulus     \* offsets do not wrap around
    /\ Dims # <<>> /\ \A k \in DOMAIN Dims : Dims[k] \in Nat \ {0}

\* --- syntax trees -----------------------------------------------------------
Num(v)           == [is |-> "num", val |-> v]
Id(x)            == [is |-> "id", var |-> x]
Bin(op, l, r)    == [is |-> op, left |-> l, right |-> r]
Un(op, e)        == [is |-> op, right |-> e]
Fun(f, args)     == [is |-> "call", name |-> f, args |-> args]
Elem(index)      == [is |-> "elem", index |-> index]

Unary      == {"neg", "pos", "not"}
Compare    == {"less", "equal"}
Binary     == {"add", "sub", "mul"}

Set(lhs, e)      == [is |-> "set", lhs |-> lhs, right |-> e]
Do(e)            == [is |-> "do", right |-> e]
Block(ss)        == [is |-> "block", children |-> ss]
If(c, s)         == [is |-> "if", cond |-> c, then |-> s]
IfElse(c, s, t)  == [is |-> "ifelse", cond |-> c, then |-> s, else |-> t]
While(c, s)      == [is |-> "while", cond |-> c, body |-> s]
Break            == [is |-> "break"]
Continue         == [is |-> "continue"]
Return(e)        == [is |-> "return", right |-> e]
Nop              == [is |-> "nop"]
InitArray(es)    == [is |-> "init", children |-> es]   \* int a[..] = {..}, flattened

Logical     == {"and", "or", "not"}
Expressions == {"num", "id", "mod", "call", "elem", "neg", "pos"} \cup Logical \cup Compare \cup Binary
Statements  == {"set", "do", "block", "if", "ifelse", "while", "break", "continue", "return",
                "nop", "init"}

\* The expressions and the statements right below a node.
Operands(e) ==
    CASE e.is \in {"and", "or", "mod"} \cup Compare \cup Binary -> {e.left, e.right}
      [] e.is \in Unary \cup {"do"}        -> {e.right}
      [] e.is = "return"                   -> {e.right} \ {Nop}
      [] e.is = "call"                     -> Range(e.args)
      [] e.is = "elem"                     -> Range(e.index)
      [] e.is = "set"                      -> {e.lhs, e.right}
      [] e.is = "init"                     -> Range(e.children)
      [] e.is \in {"if", "ifelse", "while"} -> {e.cond}
      [] OTHER                             -> {}
Clauses(e) ==
    CASE e.is = "block"  -> Range(e.children)
      [] e.is = "if"     -> {e.then}
      [] e.is = "ifelse" -> {e.then, e.else}
      [] e.is = "while"  -> {e.body}
      [] OTHER           -> {}

IsSequence(s) == s \in Seq(Range(s))

ASSUME NodesAssumption ==
    /\ Bodies \subseteq Nodes
    /\ UNION {Operands(e) \cup Clauses(e) : e \in Nodes} \subseteq Nodes
    /\ \A e \in Nodes :
        /\ e.is \in Expressions \cup Statements
        /\ \A c \in Operands(e) : c.is \in Expressions
        /\ \A c \in Clauses(e) : c.is \in Statements
        /\ e.is = "num" => e.val \in Int
        /\ e.is = "id" => e.var \in 1 .. NumVars
        /\ e.is = "call" => IsSequence(e.args)
        /\ e.is = "elem" => IsSequence(e.index) /\ e.index # <<>>
        /\ e.is \in {"block", "init"} => IsSequence(e.children)
        /\ e.is = "do" => e.right.is = "call"
        /\ e.is = "set" => e.lhs.is \in {"id", "elem"}
    /\ \A e \in Bodies : e.is \in Statements

\* --- TAC ----------------------------------------------------------------------
Const(v) == [kind |-> "const", n |-> v]
Var(x)   == [kind |-> "var", n |-> x]
Temp(t)  == [kind |-> "temp", n |-> t]

\* An instruction: the operands it reads, the one it writes, a label.
None == {}
Ins(op, reads, write, label) ==
    [op |-> op, reads |-> reads, write |-> write, label |-> label,
     name |-> "", n |-> 0]
Assign(src, dst)       == Ins("assign", <<src>>, {dst}, 0)
Operate(op, a, b, dst) == Ins(op, <<a, b>>, {dst}, 0)
Load(offset, dst)      == Ins("load", <<offset>>, {dst}, 0)
Store(src, offset)     == Ins("store", <<src, offset>>, None, 0)
IfZ(v, label)          == Ins("ifz", <<v>>, None, label)
Jump(op, a, b, label)  == [Ins("jump", <<a, b>>, None, label) EXCEPT !.name = op]
Goto(label)            == Ins("goto", <<>>, None, label)
Label(label)           == Ins("label", <<>>, None, label)
Param(v)               == Ins("param", <<v>>, None, 0)
CallTo(f, n, dst)      == [Ins("call", <<>>, dst, 0) EXCEPT !.name = f, !.n = n]
Ret(vs)                == Ins("return", vs, None, 0)
EndFunc                == Ins("endfunc", <<>>, None, 0)

-----------------------------------------------------------------------------
(* Scripts.  Within one, Recent(k) is the operand got k operands before the *)
(* last one, Own(k) the k-th temporary this call has made, and Dst the      *)
(* variable it was given for its result.  Labels are counted: 1, 2, 3 are   *)
(* beginLabel, endLabel and endFuncLabel, the call's own are 4, 5, ...      *)

Recent(k) == [kind |-> "recent", n |-> k]
Own(k)    == [kind |-> "own", n |-> k]
Dst       == [kind |-> "dst", n |-> 0]

Get(e)     == [do |-> "get", node |-> e]                  \* e.getVar
Into(e, v) == [do |-> "into", node |-> e, dst |-> v]       \* e.genCode, with v given
Run(s, at) == [do |-> "run", node |-> s, at |-> at]        \* s.genCode, with the labels at
NewLabel   == [do |-> "label"]
NewTemp    == [do |-> "temp"]
\* An instruction, after which the last `takes' operands have been used, but for `keeps'.
Say(in, takes, keeps) == [do |-> "say", in |-> in, takes |-> takes, keeps |-> keeps]
Emit(in)   == Say(in, 0, <<>>)

\* The 0/1 idiom of the logical operators and comparisons: one value is put into the
\* result and the code that puts the other one is jumped over.
Put(n)     == Emit(Assign(Const(n), Dst))
To(label)  == Emit(Goto(label))
At(label)  == Emit(Label(label))

AndScript(e) == <<NewLabel, NewLabel, Get(e.left), Say(IfZ(Recent(0), 4), 1, <<>>),
                  Get(e.right), Say(IfZ(Recent(0), 4), 1, <<>>),
                  Put(1), To(5), At(4), Put(0), At(5)>>

\* Mutant: the second operand is evaluated whatever the first one is.
OrEagerScript(e) == <<NewLabel, NewLabel, NewLabel, NewLabel, Get(e.left), Get(e.right),
                      Say(IfZ(Recent(1), 4), 2, <<Recent(0)>>), To(5), At(4),
                      Say(IfZ(Recent(0), 6), 1, <<>>), At(5),
                      Put(1), To(7), At(6), Put(0), At(7)>>
OrScript(e) == <<NewLabel, NewLabel, NewLabel, NewLabel,
                 Get(e.left), Say(IfZ(Recent(0), 4), 1, <<>>), To(5), At(4),
                 Get(e.right), Say(IfZ(Recent(0), 6), 1, <<>>), At(5),
                 Put(1), To(7), At(6), Put(0), At(7)>>

\* a % b is a call of the run-time library; b is evaluated first.
Idivmod == "__aeabi_idivmod"
ModScript(e) == <<Get(e.right), Get(e.left), Say(Param(Recent(0)), 1, <<>>),
            Say(Param(Recent(0)), 1, <<>>), Emit(CallTo(Idivmod, 2, {Dst}))>>

CompareScript(e) == <<Get(e.left), Get(e.right), NewLabel, NewLabel,
                      Say(Jump(e.is, Recent(1), Recent(0), 4), 2, <<>>),
                      Put(0), To(5), At(4), Put(1), At(5)>>

ArithmeticScript(e) == <<Get(e.left), Get(e.right),
                   Say(Operate(e.is, Recent(1), Recent(0), Dst), 2, <<>>)>>

NotScript(e) == <<Get(e.right), NewLabel, NewLabel, Say(IfZ(Recent(0), 4), 1, <<>>),
                  Put(0), To(5), At(4), Put(1), At(5)>>
SignScript(e, op) == <<Get(e.right), Say(Operate(op, Const(0), Recent(0), Dst), 1, <<>>)>>

\* Mutant: a parameter is passed as soon as it is evaluated.
PassedAtOnce(e, dst) ==
    [p \in 1 .. 2 * Len(e.args) + 1 |->
        IF p = 2 * Len(e.args) + 1 THEN Emit(CallTo(e.name, Len(e.args), dst))
        ELSE IF p % 2 = 1 THEN Get(e.args[(p + 1) \div 2])
        ELSE Say(Param(Recent(0)), 1, <<>>)]
\* Arguments are evaluated from the right, and passed from the left; dst is empty for a
\* call whose value is not used.
CallScript(e, dst) ==
    LET n == Len(e.args)
    IN  [p \in 1 .. 2 * n + 1 |->
            IF p <= n THEN Get(e.args[n + 1 - p])
            ELSE IF p <= 2 * n THEN Say(Param(Recent(0)), 1, <<>>)
            ELSE Emit(CallTo(e.name, n, dst))]

\* accumulation[layer], see Arrays.
Stride(layer) == FoldSeq(LAMBDA d, p : d * p, 1, SubSeq(Dims, layer + 1, Len(Dims)))

\* An index expression with others inside it: the last index is evaluated first, its
\* offset is added to theirs.  The layers inside have a script of their own (`inner').
Inside(index) == [is |-> "inner", index |-> Front(index)]
InnerScript(e) ==
    IF Len(e.index) = 1
    THEN <<Get(e.index[1]), Say(Operate("mul", Const(Stride(1)), Recent(0), Dst), 1, <<>>)>>
    ELSE <<Get(Last(e.index)), Into(Inside(e.index), Dst), NewTemp,
           Say(Operate("mul", Recent(1), Const(Stride(Len(e.index))), Own(1)), 2, <<Dst, Own(1)>>),
           Say(Operate("add", Recent(1), Recent(0), Dst), 2, <<>>)>>
\* The outermost layer, whose offset is added last, and what is done with the element.
AddLayer == Say(Operate("add", Recent(0), Recent(1), Own(1)), 2, <<Own(1)>>)
ElementScript(index, use) ==
    IF Len(index) = 1 THEN <<Get(index[1]), use>>
    ELSE <<Get(Last(index)), NewTemp, Into(Inside(index), Own(1)), AddLayer, use>>

SetScript(s) ==
    LET index == s.lhs.index
        use   == Say(Store(Recent(1), Recent(0)), 2, <<>>)
    IN  IF s.lhs.is = "id"
        THEN <<Get(s.right), Say(Assign(Recent(0), Var(s.lhs.var)), 1, <<>>)>>
        ELSE IF Len(index) = 1 THEN <<Get(s.right), Get(index[1]), use>>
        ELSE <<Get(s.right), Get(Last(index)), NewTemp, Into(Inside(index), Own(1)), AddLayer, use>>

\* VarDefinition::genCode of an array: the flattened elements, in order.
InitScript(s) ==
    [p \in 1 .. 2 * Len(s.children) |->
        IF p % 2 = 1 THEN Get(s.children[(p + 1) \div 2])
        ELSE Say(Store(Recent(0), Const(p \div 2 - 1)), 1, <<>>)]

Here == <<1, 2, 3>>   \* the labels of a statement are those of the one it is part of
BlockScript(s) == [p \in DOMAIN s.children |-> Run(s.children[p], Here)]

IfScript(s) == <<Get(s.cond), NewLabel, Say(IfZ(Recent(0), 4), 1, <<>>),
                 Run(s.then, Here), At(4)>>
IfElseScript(s) == <<Get(s.cond), NewLabel, NewLabel, Say(IfZ(Recent(0), 4), 1, <<>>),
                     Run(s.then, Here), To(5), At(4),
                     Run(s.else, Here), At(5)>>

\* Mutant: the test of the loop stands before the label it jumps back to.
WhileOnceScript(s) == <<NewLabel, Get(s.cond), NewLabel, At(4),
                  Say(IfZ(Recent(0), 5), 1, <<>>),
                  Run(s.body, <<4, 5, 3>>), To(4), At(5)>>
WhileScript(s) == <<NewLabel, At(4), Get(s.cond), NewLabel,
                    Say(IfZ(Recent(0), 5), 1, <<>>),
                    Run(s.body, <<4, 5, 3>>), To(4), At(5)>>

BreakScript == <<To(2)>>
LeavesLoopScript == <<To(2)>>   \* mutant: continue leaves the loop
ContinueScript == <<To(1)>>

ReturnScript(s) ==
    IF s.right = Nop THEN <<Emit(Ret(<<>>)), To(3)>>
    ELSE <<Get(s.right), Say(Ret(<<Recent(0)>>), 1, <<>>), To(3)>>

\* Function::genCode: its own label is the end of the function.
FunctionScript(f) == <<NewLabel, Run(f.body, <<1, 2, 4>>), At(4), Emit(EndFunc)>>

Script(e) ==
    CASE e.is = "and"      -> AndScript(e)
      [] e.is = "or"       -> OrScript(e)
      [] e.is = "mod"      -> ModScript(e)
      [] e.is = "call"     -> CallScript(e, {Dst})
      [] e.is = "elem"     -> ElementScript(e.index, Say(Load(Recent(0), Dst), 1, <<>>))
      [] e.is = "inner"    -> InnerScript(e)
      [] e.is \in Compare  -> CompareScript(e)
      [] e.is \in Binary   -> ArithmeticScript(e)
      [] e.is = "not"      -> NotScript(e)
      [] e.is = "pos"      -> SignScript(e, "add")
      [] e.is = "neg"      -> SignScript(e, "sub")
      [] e.is = "set"      -> SetScript(e)
      [] e.is = "init"     -> InitScript(e)
      [] e.is = "do"       -> CallScript(e.right, None)
      [] e.is = "block"    -> BlockScript(e)
      [] e.is = "if"       -> IfScript(e)
      [] e.is = "ifelse"   -> IfElseScript(e)
      [] e.is = "while"    -> WhileScript(e)
      [] e.is = "break"    -> BreakScript
      [] e.is = "continue" -> ContinueScript
      [] e.is = "return"   -> ReturnScript(e)
      [] e.is = "nop"      -> <<>>
      [] e.is = "function" -> FunctionScript(e)

-----------------------------------------------------------------------------
(* The register allocator's walk through the text, instruction by           *)
(* instruction: temporaries written and not yet read, the labels met, the   *)
(* temporaries written where a label was jumped to, those that the next     *)
(* instruction has to write again, the Params since the last call, and      *)
(* whether the rules of Arms were kept.                                     *)

TempsOf(is) == {v \in is : v.kind = "temp"}

Walk(w, in) ==
    LET read   == TempsOf(Range(in.reads))
        left   == w.pending \ read
        jump   == in.label # 0 /\ in.op # "label"
        known  == in.label \in DOMAIN w.awaited
        after  == IF known THEN w.awaited[in.label] ELSE {}
        fine   == /\ read \subseteq w.pending
                  /\ TempsOf(in.write) \cap left = {}
                  /\ w.redo \subseteq TempsOf(in.write)
                  /\ w.passed > 0 => in.op \in {"param", "call"}
                  /\ in.op = "call" => in.n = w.passed
                  /\ in.op = "label" => in.label \notin w.placed /\ after \subseteq left
                  /\ jump /\ in.label \in w.placed => left = {}
                  /\ jump /\ known => left = after
                  /\ in.op = "endfunc" => left = {} /\ DOMAIN w.awaited \subseteq w.placed
    IN  [pending |-> IF in.op = "label" THEN after ELSE left \cup TempsOf(in.write),
         placed  |-> IF in.op = "label" THEN w.placed \cup {in.label} ELSE w.placed,
         awaited |-> IF jump
                     THEN [l \in DOMAIN w.awaited \cup {in.label} |->
                              IF l = in.label THEN left ELSE w.awaited[l]]
                     ELSE w.awaited,
         redo    |-> IF in.op = "label" THEN left \ after ELSE {},
         passed  |-> IF in.op = "param" THEN w.passed + 1 ELSE 0,
         kept    |-> w.kept /\ fine]

-----------------------------------------------------------------------------
(* The generator.                                                           *)

VARIABLES
    body,      \* the statement that is translated
    code,      \* CodeGenerator: the instructions so far,
    labelId,   \* the counter of newLabel
    TempID,    \* and the one of newTempVar
    stack,     \* the calls of genCode that have not returned
    walk,      \* history: where the register allocator will be behind the code so far
    pc,        \* the machine: the next instruction of code
    store,     \* variable -> value
    mem,       \* the array
    temps,     \* temporary -> value, those written so far
    params,    \* values passed since the last call
    results,   \* what the calls so far have returned
    returned   \* the value of the return statement passed, if any

genVars == <<code, labelId, TempID, stack, walk>>
machine == <<pc, store, mem, temps, params, results, returned>>
vars    == <<body, genVars, machine>>

\* A call of genCode: the node, the order it obeys next, the variable for its result, the
\* operands it has got and not yet used, its labels and its temporaries.
NoVar == [kind |-> "none", n |-> 0]
Frame(e, dst, labels) ==
    [node |-> e, pos |-> 1, dst |-> dst, held |-> <<>>, labels |-> labels, temps |-> <<>>]
NoLabels == <<0, 0, 0>>

Current   == Last(stack)
Obeys     == Current.pos \in DOMAIN Script(Current.node)
Order     == Script(Current.node)[Current.pos]
Due(kind) == stack # <<>> /\ Obeys /\ Order.do = kind

\* The variable that a script names.
Operand(f, o) == CASE o.kind = "recent" -> f.held[Len(f.held) - o.n]
                   [] o.kind = "own"    -> f.temps[o.n]
                   [] o.kind = "dst"    -> f.dst
                   [] OTHER             -> o
Resolved(f, os) == [k \in DOMAIN os |-> Operand(f, os[k])]

Step(f)    == [f EXCEPT !.pos = @ + 1]
Become(f)  == stack' = [stack EXCEPT ![Len(stack)] = f]
Enter(f)   == stack' = Append(stack, f)

\* Expression::getVar of a name or a number, ...
Atom(e) == IF e.is = "num" THEN Const(e.val) ELSE Var(e.var)
GetAtom ==
    /\ Due("get") /\ Order.node.is \in {"num", "id"}
    /\ Become([Step(Current) EXCEPT !.held = Append(@, Atom(Order.node))])
    /\ UNCHANGED <<body, code, labelId, TempID, walk, machine>>

\* ... and of anything else.
NextTempAgain(id) == id   \* mutant: the counter stands still
NextTemp(id) == id + 1
GetVar ==
    /\ Due("get") /\ Order.node.is \notin {"num", "id"}
    /\ TempID' = NextTemp(TempID)
    /\ Enter(Frame(Order.node, Temp(NextTemp(TempID)), NoLabels))
    /\ UNCHANGED <<body, code, labelId, walk, machine>>

GenInto ==
    /\ Due("into")
    /\ Enter(Frame(Order.node, Operand(Current, Order.dst), NoLabels))
    /\ UNCHANGED <<body, code, labelId, TempID, walk, machine>>

GenStatement ==
    /\ Due("run")
    /\ Enter(Frame(Order.node, NoVar, [k \in 1 .. 3 |-> Current.labels[Order.at[k]]]))
    /\ UNCHANGED <<body, code, labelId, TempID, walk, machine>>

GenLabel ==
    /\ Due("label") /\ labelId' = labelId + 1
    /\ Become([Step(Current) EXCEPT !.labels = Append(@, labelId + 1)])
    /\ UNCHANGED <<body, code, TempID, walk, machine>>

GenTemp ==
    /\ Due("temp") /\ TempID' = NextTemp(TempID)
    /\ Become([Step(Current) EXCEPT !.temps = Append(@, Temp(NextTemp(TempID)))])
    /\ UNCHANGED <<body, code, labelId, walk, machine>>

\* genAssign, genBinaryOp, genIFZ, ...: an instruction is appended.
Said(f, in) ==
    [op |-> in.op, reads |-> Resolved(f, in.reads), write |-> {Operand(f, o) : o \in in.write},
     label |-> IF in.label = 0 THEN 0 ELSE f.labels[in.label], name |-> in.name, n |-> in.n]
Generate ==
    LET in == Said(Current, Order.in)
    IN  /\ Due("say")
        /\ code' = Append(code, in) /\ walk' = Walk(walk, in)
        /\ Become([Step(Current) EXCEPT
               !.held = SubSeq(@, 1, Len(@) - Order.takes) \o Resolved(Current, Order.keeps)])
        /\ UNCHANGED <<body, labelId, TempID, machine>>

\* genCode returns; what it was called for gets the result, if any.
GenReturn ==
    LET below == stack[Len(stack) - 1]
        got   == IF Current.dst = NoVar THEN below.held ELSE Append(below.held, Current.dst)
    IN  /\ stack # <<>> /\ ~Obeys
        /\ stack' = IF Len(stack) = 1 THEN <<>>
                    ELSE Append(SubSeq(stack, 1, Len(stack) - 2),
                                [Step(below) EXCEPT !.held = got])
        /\ UNCHANGED <<body, code, labelId, TempID, walk, machine>>

-----------------------------------------------------------------------------
(* The TAC machine.                                                         *)

Value(v) == v % Modulus
Truth(b) == IF b THEN 1 ELSE 0
Apply(op, a, b) ==
    CASE op = "add"   -> Value(a + b)
      [] op = "sub"   -> Value(a - b)
      [] op = "mul"   -> Value(a * b)
      [] op = "mod"   -> IF b = 0 THEN 0 ELSE a % b
      [] op = "less"  -> Truth(a < b)
      [] op = "equal" -> Truth(a = b)

FirstVars  == [x \in 1 .. NumVars |-> Value(x)]
FirstArray == [o \in 0 .. (Size - 1) |-> Value(o)]


Generated == stack = <<>>
Op == IF Generated THEN code[pc].op ELSE "none"
ValueOf(v) == CASE v.kind = "const" -> v.n
                [] v.kind = "var"   -> store[v.n]
                [] v.kind = "temp"  -> temps[v.n]
Read(k) == ValueOf(code[pc].reads[k])

\* The operand an instruction writes, if any, gets v.
Write(v) ==
    LET dst == code[pc].write
    IN  /\ store' = [x \in DOMAIN store |-> IF Var(x) \in dst THEN v ELSE store[x]]
        /\ temps' = [t \in {w.n : w \in {d \in dst : d.kind = "temp"}} |-> v] @@ temps

Target == CHOOSE i \in DOMAIN code : code[i] = Label(code[pc].label)
StepOn == pc' = pc + 1
Fixed  == <<body, genVars>>

Compute ==
    /\ Op \in {"assign", "load"} \cup Binary
    /\ Write(CASE Op = "assign" -> Read(1)
               [] Op = "load"   -> mem[Read(1)]
               [] OTHER         -> Apply(Op, Read(1), Read(2)))
    /\ StepOn /\ UNCHANGED <<Fixed, mem, params, results, returned>>

StoreElement ==
    /\ Op = "store" /\ mem' = [mem EXCEPT ![Read(2)] = Read(1)]
    /\ StepOn /\ UNCHANGED <<Fixed, store, temps, params, results, returned>>

Branch ==
    /\ Op \in {"goto", "label", "ifz", "jump"}
    /\ pc' = IF \/ Op = "goto"
                \/ Op = "ifz" /\ Read(1) = 0
                \/ Op = "jump" /\ Apply(code[pc].name, Read(1), Read(2)) = 1
             THEN Target ELSE pc + 1
    /\ UNCHANGED <<Fixed, store, mem, temps, params, results, returned>>

PassParam ==
    /\ Op = "param" /\ params' = Append(params, Read(1))
    /\ StepOn /\ UNCHANGED <<Fixed, store, mem, temps, results, returned>>

\* A call of the run-time library: r1 is the remainder.
CallLibrary ==
    /\ Op = "call" /\ code[pc].name = Idivmod
    /\ Write(Apply("mod", params[1], params[2])) /\ params' = <<>>
    /\ StepOn /\ UNCHANGED <<Fixed, mem, results, returned>>

Calls == Op = "call" /\ code[pc].name # Idivmod

\* A call of another function, which returns anything.
Call ==
    /\ Calls /\ Len(results) < MaxCalls
    /\ \E r \in Results : Write(r) /\ results' = Append(results, r)
    /\ params' = <<>>
    /\ StepOn /\ UNCHANGED <<Fixed, mem, returned>>

ReturnValue ==
    /\ Op = "return"
    /\ returned' = {ValueOf(v) : v \in Range(code[pc].reads)}
    /\ StepOn /\ UNCHANGED <<Fixed, store, mem, temps, params, results>>

Init ==
    /\ body \in Bodies
    /\ code = <<>> /\ labelId = 0 /\ TempID = 0
    /\ stack = <<Frame([is |-> "function", body |-> body], NoVar, NoLabels)>>
    /\ walk = [pending |-> {}, placed |-> {}, awaited |-> <<>>, redo |-> {}, passed |-> 0,
               kept |-> TRUE]
    /\ pc = 1 /\ store = FirstVars /\ mem = FirstArray
    /\ temps = <<>> /\ params = <<>> /\ results = <<>> /\ returned = {}

Next == \/ GetAtom \/ GetVar \/ GenInto \/ GenStatement \/ GenLabel \/ GenTemp
        \/ Generate \/ GenReturn
        \/ Compute \/ StoreElement \/ Branch \/ PassParam
        \/ CallLibrary \/ Call \/ ReturnValue

\* Neither the compiler nor the processor stops.
Spec == Init /\ [][Next]_vars /\ WF_vars(Next)
-----------------------------------------------------------------------------
(* Properties *)

Ints == 0 .. (Modulus - 1)

\* Every variable has its type; the temporaries are those of newTempVar.
TypeOK ==
    /\ Generated => pc \in DOMAIN code
    /\ store \in [1 .. NumVars -> Ints] /\ mem \in [0 .. (Size - 1) -> Ints]
    /\ DOMAIN temps \subseteq 1 .. TempID /\ Range(temps) \subseteq Ints
    /\ params \in Seq(Ints) /\ results \in Seq(Results)
    /\ returned \subseteq Ints /\ Cardinality(returned) <= 1

\* The code runs on to the next call or to the end of the function.
KeepsGoing == []<>(Calls \/ Op = "endfunc")

\* The code keeps what the register allocator counts on (the guards of Arms): a
\* temporary is read once, by code that follows its only pending write; the
\* paths that meet at a label have the same temporaries pending, but for the
\* one that a 0/1 value is being put into; nothing is pending where a loop jumps
\* back; and the parameters of a call come right before it.
FitsAllocator == walk.kept
=============================================================================
