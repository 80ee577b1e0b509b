------------------------------ MODULE MCFolding ------------------------------
(***************************************************************************)
(* A small instance of Folding for TLC: constants of constants, operators  *)
(* that are folded and some that are not, parentheses, and operands that   *)
(* have no value.                                                          *)
(***************************************************************************)
EXTENDS Folding

OneFunction  == {"f"}
TwoFunctions == {"f", "g"}
XY == {"x", "y"}

MCInits ==
    {Literal(3), Name("x"), Name("y"), Binary("-", Name("x"), Literal(1)),
     Binary("/", Unary("-", Literal(7)), Literal(2)), Paren(Name("y"))}
MCDims == {Name("x"), Unary("-", Name("y")), Binary("<", Other, Name("x")),
           Binary("&&", Name("x"), Name("y"))}

Roots == MCInits \cup MCDims
Closure == Roots \cup UNION {Range(e.operands) : e \in Roots}
MCExprs == Closure \cup UNION {Range(e.operands) : e \in Closure}
=============================================================================
