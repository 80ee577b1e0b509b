------------------------------ MODULE MCParser ------------------------------
(***************************************************************************)
(* Files for Parser.  Trees are built by the grammar of the language, from *)
(* the operators that bind most tightly to those that bind least, and not  *)
(* by the parser's precedences; a file is a tree written out, with         *)
(* comments or without, and what is wrong is put between its items.        *)
(***************************************************************************)
EXTENDS Parser

\* --- expressions: trees -----------------------------------------------------
A          == [is |-> "id", name |-> "a"]
One        == [is |-> "literal", text |-> "1"]
Un(op, e)  == [is |-> "unary", op |-> op, right |-> e]
Bin(op, l, r) == [is |-> "binary", op |-> op, left |-> l, right |-> r]
Paren(e)   == [is |-> "paren", inner |-> e]
Fun(args)  == [is |-> "call", name |-> "f", args |-> args]
At1(e)     == [is |-> "index", name |-> "a", layer |-> 1, array |-> A, index |-> e]
At2(d, e)  == [is |-> "index", name |-> "a", layer |-> 2, array |-> At1(d), index |-> e]
List(es)   == [is |-> "array", elems |-> es]
Set(x, e)  == Bin("=", x, e)
Timer      == [is |-> "call", name |-> "_sysy_stoptime",
               args |-> <<[is |-> "literal", text |-> "line"]>>]

\* The operators of each level of the grammar, the tightest first.
Grammar == <<{"*", "/", "%"}, {"+", "-"}, {"<", ">", "<=", ">="}, {"==", "!="}, {"&&"},
             {"||"}>>
Some    == <<"*", "+", "<", "==", "&&", "||">>

RECURSIVE Grown(_, _)
\* Trees of at most d operators on a path whose outermost is of level k or tighter;
\* 0 is the level of the unary operators.
Grown(d, k) ==
    IF k > 0
    THEN Grown(d, k - 1) \cup
         (IF d = 0 THEN {}
          ELSE {Bin(Some[k], l, r) : l \in Grown(d - 1, k), r \in Grown(d - 1, k - 1)})
    ELSE {A} \cup
         (IF d = 0 THEN {}
          ELSE {Un("-", e) : e \in Grown(d - 1, 0)}
               \cup UNION {{Paren(e), Fun(<<e>>), Fun(<<A, e>>), At1(e), At2(e, One)} :
                           e \in Grown(d - 1, 6)}
               \cup {Fun(<<>>)})

\* Every pair of operators, grouped as the grammar groups them.
Pairs == UNION {{IF j <= k THEN Bin(q, Bin(p, A, One), A) ELSE Bin(p, A, Bin(q, One, A)) :
                 p \in Grammar[j], q \in Grammar[k]} : j, k \in 1 .. 6}
Signs == {Un("!", Un("-", A)), Bin("-", A, Un("-", One)), Un("+", At2(Fun(<<>>), Un("-", A))),
          Fun(<<Bin("+", A, One), Fun(<<Un("!", A), A>>), At1(Paren(A))>>), Timer}

Few   == {A, Bin("+", A, One), Fun(<<A, One>>), At1(Un("-", A)), Paren(Bin("||", A, One))}
Plain == {A, At1(One)}

\* --- writing expressions ----------------------------------------------------
T(kind)  == <<<<kind, "">>>>
Name(x)  == <<<<"identifier", x>>>>
Listed(parts) ==
    FlattenSeq([k \in DOMAIN parts |-> IF k = 1 THEN parts[k] ELSE T(",") \o parts[k]])

RECURSIVE Write(_)
WriteAll(es) == Listed([k \in DOMAIN es |-> Write(es[k])])
Write(e) ==
    CASE e.is = "null"    -> <<>>
      [] e.is = "id"      -> Name(e.name)
      [] e.is = "literal" -> <<<<"literal", e.text>>>>
      [] e.is = "unary"   -> T(e.op) \o Write(e.right)
      [] e.is = "binary"  -> Write(e.left) \o T(e.op) \o Write(e.right)
      [] e.is = "paren"   -> T("(") \o Write(e.inner) \o T(")")
      [] e.is = "index"   -> Write(e.array) \o T("[") \o Write(e.index) \o T("]")
      [] e.is = "array"   -> T("{") \o WriteAll(e.elems) \o T("}")
      [] e = Timer        -> Name("stoptime") \o T("(") \o T(")")
      [] OTHER            -> Name(e.name) \o T("(") \o WriteAll(e.args) \o T(")")

\* --- statements and items: trees --------------------------------------------
Do(e)        == [is |-> "expr", expr |-> e]
Ret(e)       == [is |-> "return", value |-> e]
Block(s)     == [is |-> "block", children |-> s]
If(c, s, t)  == [is |-> "if", cond |-> c, then |-> s, else |-> t]
While(c, s)  == [is |-> "while", cond |-> c, body |-> s]
Def(x, dims, init) == [is |-> "def", name |-> x, dims |-> dims, init |-> init]
Decl(const, defs)  == [is |-> "decl", const |-> const, type |-> "int", defs |-> defs]
Function(params, body) ==
    [is |-> "function", type |-> "int", name |-> "f",
     params |-> [k \in DOMAIN params |-> [type |-> "int", def |-> params[k]]],
     body |-> body]

\* --- writing them -----------------------------------------------------------
WriteDef(d) ==
    Name(d.name)
    \o FlattenSeq([k \in DOMAIN d.dims |-> T("[") \o Write(d.dims[k]) \o T("]")])
    \o (IF d.init = Null THEN <<>> ELSE T("=") \o Write(d.init))
WriteDecl(s) ==
    (IF s.const THEN T("const") ELSE <<>>) \o Name(s.type)
    \o Listed([k \in DOMAIN s.defs |-> WriteDef(s.defs[k])]) \o T(";")

RECURSIVE WriteStmt(_)
WriteStmt(s) ==
    CASE s = Null         -> <<>>
      [] s.is = "expr"    -> Write(s.expr) \o T(";")
      [] s.is = "return"  -> T("return") \o Write(s.value) \o T(";")
      [] s.is = "nop"     -> T(";")
      [] s.is \in {"break", "continue"} -> T(s.is) \o T(";")
      [] s.is = "decl"    -> WriteDecl(s)
      [] s.is = "block"   ->
             T("{") \o FlattenSeq([k \in DOMAIN s.children |-> WriteStmt(s.children[k])])
             \o T("}")
      [] s.is = "while"   -> T("while") \o T("(") \o Write(s.cond) \o T(")") \o WriteStmt(s.body)
      [] s.is = "if"      ->
             T("if") \o T("(") \o Write(s.cond) \o T(")") \o WriteStmt(s.then)
             \o (IF s.else = Null THEN <<>> ELSE T("else") \o WriteStmt(s.else))

WriteHead(f) ==
    Name(f.type) \o Name(f.name) \o T("(")
    \o Listed([k \in DOMAIN f.params |-> Name("int") \o WriteDef(f.params[k].def)]) \o T(")")

\* --- the tree that is kept --------------------------------------------------
\* Does evaluating the expression call or assign?
Acts(e) == \E k \in DOMAIN Write(e) : Write(e)[k] \in {<<"=", "">>, <<"identifier", "f">>}

RECURSIVE Kept(_)
KeptAll(stmts) ==
    LET acting == SelectSeq(stmts, LAMBDA s : s.is = "expr" => Acts(s.expr))
    IN [k \in DOMAIN acting |-> Kept(acting[k])]
\* Statements of a block that do nothing are left out.
Kept(s) ==
    CASE s.is = "block" -> Block(KeptAll(s.children))
      [] s.is = "while" -> While(s.cond, Kept(s.body))
      [] s.is = "if"    -> If(s.cond, Kept(s.then), Kept(s.else))
      [] OTHER          -> s
\* Every function ends with a return statement.
KeptBody(stmts) ==
    LET kept == KeptAll(stmts)
    IN Block(IF kept # <<>> /\ Last(kept).is = "return" THEN kept
             ELSE Append(kept, Ret(Null)))

\* --- files: pieces of text, with what they add to the tree and what is wrong -
\* A fault is a token that cannot follow what stands before it.
Piece(text, items, faults) ==
    [text |-> text, items |-> items, faults |-> faults, judged |-> TRUE]
\* What the parser takes for wrong and is not, or the other way round.
Misjudged(p) == [p EXCEPT !.judged = FALSE]
Shifted(faults, by) == {i + by : i \in faults}
Joined(pieces) ==
    FoldLeft(LAMBDA p, q : [text |-> p.text \o q.text, items |-> p.items \o q.items,
                            faults |-> p.faults \cup Shifted(q.faults, Len(p.text)),
                            judged |-> p.judged /\ q.judged],
             Piece(<<>>, <<>>, {}), pieces)
Eof == <<"eof", "">>
File(p) == [tokens |-> Append(p.text, Eof), items |-> p.items, faults |-> p.faults,
            judged |-> p.judged]

Comment == T("comment")
\* A comment after every token; and one before the first, which is not wrong.
Commented(p) ==
    [p EXCEPT !.text = FlattenSeq([k \in DOMAIN @ |-> <<@[k]>> \o Comment]),
              !.faults = {2 * k - 1 : k \in @}]
Leading(p) == Misjudged(Joined(<<Piece(Comment, <<>>, {}), p>>))

Fn(params, stmts) ==
    LET f == Function(params, KeptBody(stmts))
    IN Piece(WriteHead(f) \o WriteStmt(Block(stmts)),
             <<f>>, {})
Var(decl)  == Piece(WriteDecl(decl), <<decl>>, {})

\* Wrong: stray tokens, a word, a parenthesis that is not closed (which is a fault too),
\* no body.  Where the file ends for want of a body, that is put at its last token.
Stray(kinds) == Piece(kinds, <<>>, {1})
Word         == Piece(Name("a") \o T(";"), <<>>, {2})
Open(stmts) ==
    Piece(Name("int") \o Name("f") \o T("(") \o WriteStmt(Block(stmts)),
          <<Function(<<>>, KeptBody(stmts))>>, {3, 4})
Bodiless     == Piece(WriteHead(Function(<<>>, Null)), <<Function(<<>>, Null)>>, {5})
BodilessLast == [Bodiless EXCEPT !.faults = {4}]
\* Not wrong.
Prototype(params) ==
    LET f == Function(params, Null)
    IN Misjudged(Piece(WriteHead(f) \o T(";"), <<f>>, {}))
\* Wrong: the k-th token from the end comes where a clause, a body or an operand is due.
Lacking(stmts, k) ==
    LET p == Fn(<<>>, stmts)
    IN Misjudged([p EXCEPT !.faults = {Len(p.text) + 1 - k}])

\* --- the files that are parsed ----------------------------------------------
Assign  == Do(Set(A, One))
Nothing == [is |-> "nop"]
Simple  == {Assign, Do(Fun(<<A>>)), Do(A), Nothing, Ret(Null), Ret(A),
            [is |-> "break"], [is |-> "continue"]}
Local   == Decl(FALSE, <<Def("a", <<>>, Null)>>)
Blocks  == {Block(<<>>), Block(<<Local, Do(Bin("+", A, One)), Assign>>),
            Block(<<Block(<<Ret(A)>>), Do(At1(A))>>)}
Nested(S, T2) ==
    {If(A, s, Null) : s \in S} \cup {While(A, s) : s \in S}
    \cup {If(Paren(A), s, t) : s \in S, t \in T2}

RECURSIVE Ends(_)
\* Would an else after it be taken for its own?
Ends(s) == CASE s.is = "if"    -> s.else # Null /\ Ends(s.else)
             [] s.is = "while" -> Ends(s.body)
             [] OTHER          -> TRUE
RECURSIVE Clear(_)
Clear(s) == CASE s.is = "if"    -> Clear(s.then) /\ Clear(s.else)
                                   /\ (s.else # Null => Ends(s.then))
              [] s.is = "while" -> Clear(s.body)
              [] OTHER          -> TRUE
Once   == Nested(Simple \cup Blocks, {Assign, Nothing, Block(<<Assign>>)})
Twice  == Nested(Nested({Assign, Block(<<Local>>)}, {Nothing, Assign}), Once)
Shapes == {s \in Simple \cup Blocks \cup Once \cup Twice : Clear(s)}

Using(e) == {Do(Set(A, e)), Do(Set(At2(e, One), e)), Do(Fun(<<e, One>>)), If(e, Assign, Null),
             While(e, Nothing), Ret(Un("!", Paren(e))),
             Decl(FALSE, <<Def("a", <<>>, e), Def("b", <<e, One>>, List(<<e, List(<<e>>)>>))>>),
             Decl(TRUE, <<Def("a", <<One>>, List(<<List(<<>>), e>>))>>)}
Params == {<<>>, <<Def("a", <<>>, Null)>>,
           <<Def("a", <<Null>>, Null), Def("b", <<Null, One>>, Null)>>}
Globals == {Decl(c, <<Def("a", d, i), Def("b", <<>>, Null)>>) :
            c \in BOOLEAN, d \in {<<>>, <<One, A>>}, i \in {Null, A, List(<<>>)}}

Single == {Fn(<<>>, <<s, Assign>>) : s \in Shapes \cup UNION {Using(e) : e \in Few}}
          \cup {Fn(p, b) : p \in Params, b \in {<<>>, <<Do(A)>>, <<Local, Ret(A)>>}}
          \cup {Fn(<<>>, <<Ret(e)>>) : e \in Pairs \cup Signs}
          \cup {Var(d) : d \in Globals}
Good   == {Var(Decl(TRUE, <<Def("b", <<>>, One)>>)), Var(Local), Fn(<<>>, <<Local>>)}
Bad    == {Stray(T("literal")), Stray(T(";") \o T("}")), Stray(T("if") \o T("(") \o Name("a")),
           Prototype(<<>>), Prototype(<<Def("a", <<Null>>, Null)>>), Bodiless,
           Open(<<Local, While(A, If(A, Assign, Nothing))>>)}
Mixed  == {Joined(<<g, b, h>>) : g, h \in Good, b \in Bad}
          \cup {Joined(<<b, g>>) : g \in Good, b \in Bad}
\* What is not there is parsed as none.
Absent == {Lacking(<<Local, s>>, 1) : s \in {If(A, Null, Null), While(A, Null)}}
          \cup {Lacking(<<Local, Do(Set(A, Null))>>, 2),
                Lacking(<<Local, Do(Set(A, Bin("*", Null, One)))>>, 4)}
Words  == {Joined(<<Word, Var(Local), Word, Var(Local)>>), Joined(<<Var(Local), Word, Fn(<<>>, <<Assign>>)>>),
           Joined(<<Var(Local), BodilessLast>>), Leading(Var(Local))}

MCFiles ==
    {File(p) : p \in Words \cup Absent
                     \cup {Fn(<<>>, <<Ret(e)>>) : e \in Grown(2, 6)}}
    \cup UNION {{File(p), File(Commented(p))} : p \in Single \cup Mixed}
    \cup {File(Leading(p)) : p \in Single}
=============================================================================
