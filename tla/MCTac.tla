------------------------------- MODULE MCTac -------------------------------
(***************************************************************************)
(* Small function bodies for Tac: every operator over operands that are    *)
(* constants, variables, calls, elements or operators themselves, and      *)
(* loops and branches nested in one another with a way out at every place. *)
(***************************************************************************)
EXTENDS TacMeaning

F == Fun("f", <<>>)
G == Fun("g", <<>>)
x == Id(1)
y == Id(2)

Atoms   == {Num(2), x, F}
Ops     == Binary \cup Compare \cup {"and", "or", "mod"}
Over(L, R) == {Bin(op, l, r) : op \in Ops, l \in L, r \in R}
Simple  == Over(Atoms, {Num(1), G}) \cup {Un(u, a) : u \in Unary, a \in Atoms}
           \cup {Fun("h", <<a, G>>) : a \in Atoms}
Positive == Bin("less", Num(0), F)
Elements == {Elem(<<Num(1), Positive, G>>), Elem(<<Positive, Num(0), Bin("less", x, G)>>)}
Nested  == Over({F, Bin("and", F, x)}, Simple) \cup Over(Simple, {y, G})
           \cup {Un(u, e) : u \in Unary, e \in Simple}
           \cup {Fun("h", <<d, e>>) : d, e \in
                     {x, Bin("less", x, F), Bin("mod", G, F), Fun("h", <<F, x>>)}}
           \cup Elements

Exits   == {Break, Continue, Return(x), Return(Nop), Nop, Do(G)}
Inner   == Exits \cup {If(G, e) : e \in Exits} \cup {IfElse(G, d, e) : d, e \in Exits}
Loop(c, s) == While(c, Block(<<s, Set(x, Bin("add", x, Num(1)))>>))
Loops   == {Loop(Bin("or", F, G), s) : s \in Inner}
           \cup {Loop(F, Block(<<Loop(G, s), d>>)) : s \in {Break, Continue, Nop, If(F, Break)},
                                                     d \in Exits}
Straight == {s \in Inner : \A e \in {Break, Continue} :
                s # e /\ (s.is = "if" => s.then # e)
                      /\ (s.is = "ifelse" => s.then # e /\ s.else # e)}
MCBodies ==
    {Block(<<Set(y, e), Return(Bin("sub", y, x))>>) : e \in Nested}
    \cup {Block(<<Set(Elem(<<Num(0), Positive, x>>), e),
                  Return(Elem(<<Num(0), Num(1), x>>))>>) : e \in Simple}
    \cup {IfElse(e, Do(G), Do(F)) : e \in Simple}
    \cup {Block(<<l, Do(Fun("h", <<x, y>>)), Return(y)>>) : l \in Loops}
    \cup {Block(<<s, Do(Fun("h", <<x, y>>))>>) : s \in Straight}
    \cup {Block(<<InitArray(<<F, Num(2), Bin("or", x, G), Num(0), G, Num(1), y, x,
                                Num(0), Num(0), Num(0), Num(0)>>),
                  Return(Elem(<<Positive, Num(0), Num(2)>>))>>)}
Below(S) == S \cup UNION {Operands(e) \cup Clauses(e) : e \in S}
Below3(S) == Below(Below(Below(S)))
MCNodes == Below3(Below3(Below3(MCBodies)))
MCDims == <<2, 2, 3>>
=============================================================================
