--------------------------- MODULE Folding_proofs ---------------------------
(***************************************************************************)
(* Constant expressions are folded to their value, for every file, every   *)
(* tree and every set of expressions: the walk of Folding is one of Scopes *)
(* in which arrays have any length, a constant has the value of what it is *)
(* defined with, of the names as they were meant there, and the stack of   *)
(* calls holds expressions of one value where these names are steady.      *)
(***************************************************************************)
EXTENDS Folding, Scopes_proofs

Tree   == Exprs \cup {NoExpr}
Values == Int \cup {NoValue}

-----------------------------------------------------------------------------
(* Expressions are finite trees: recursion over them *)

LEMMA ExprParts ==
    \A kind, num, name, operands :
       /\ Expr(kind, num, name, operands).kind = kind
       /\ Expr(kind, num, name, operands).operands = operands
  BY DEF Expr

LEMMA NoExprIs == NoExpr \in Tree /\ NoExpr.kind = "none" /\ NoExpr.operands = <<>>
<1>1. NoExpr.kind = "none" /\ NoExpr.operands = <<>>
  BY DEF NoExpr, Expr
<1> QED
  BY <1>1 DEF Tree

LEMMA ExprsAre ==
    ASSUME NEW e \in Exprs
    PROVE  IsExpr(e) /\ Range(e.operands) \subseteq Exprs
  BY FoldingAssumption, Zenon

LEMMA Minimal ==
    ASSUME NEW S \in SUBSET Exprs, S # {}
    PROVE  \E e \in S : Range(e.operands) \cap S = {}
  BY FoldingAssumption, Zenon

LEMMA TreeIs ==
    ASSUME NEW e \in Tree
    PROVE  /\ e.operands \in Seq(Exprs) /\ Len(e.operands) \in 0 .. 2
           /\ e.kind \in {"literal", "name", "unary", "binary", "paren", "other", "none"}
           /\ e.kind = "literal" => e.num \in Int
           /\ e.kind = "name" => e.name \in Ids
           /\ e.kind \in {"literal", "name", "other", "none"} => e.operands = <<>>
           /\ e.kind \in {"unary", "paren"} => Len(e.operands) = 1
           /\ e.kind = "binary" => Len(e.operands) = 2
           /\ e.kind = "none" <=> e = NoExpr
<1>1. CASE e = NoExpr
  <2>1. e.operands = <<>> /\ e.kind = "none"
    BY <1>1, NoExprIs
  <2> QED
    BY <1>1, <2>1
<1>2. CASE e \in Exprs
  <2>1. IsExpr(e) /\ Range(e.operands) \subseteq Exprs
    BY <1>2, ExprsAre
  <2>2. NoExpr.kind = "none"
    BY NoExprIs
  <2>3. CASE e = Literal(e.num) /\ e.num \in Int
    <3> DEFINE num == e.num
    <3>1. e = Literal(num)
      BY <2>3
    <3> HIDE DEF num
    <3>2. e.operands = <<>> /\ e.kind = "literal"
      BY <3>1 DEF Literal, Expr
    <3> QED
      BY <2>2, <2>3, <3>2
  <2>4. CASE e = Name(e.name) /\ e.name \in Ids
    <3>1. e.operands = <<>> /\ e.kind = "name"
      BY <2>4 DEF Name, Expr
    <3> QED
      BY <2>2, <2>4, <3>1
  <2>5. CASE e.kind = "unary" /\ e = Unary(e.name, e.operands[1])
    <3> DEFINE o == e.operands[1]
    <3>1. e.operands = <<o>>
      BY <2>5, ExprParts DEF Unary
    <3> HIDE DEF o
    <3>2. o \in Exprs
      BY <2>1, <3>1 DEF Range
    <3> QED
      BY <2>2, <2>5, <3>1, <3>2
  <2>6. CASE e.kind = "binary" /\ e = Binary(e.name, e.operands[1], e.operands[2])
    <3> DEFINE o == e.operands[1]
               p == e.operands[2]
    <3>1. e.operands = <<o, p>>
      BY <2>6, ExprParts DEF Binary
    <3> HIDE DEF o, p
    <3>2. o \in Exprs /\ p \in Exprs
      BY <2>1, <3>1 DEF Range
    <3> QED
      BY <2>2, <2>6, <3>1, <3>2
  <2>7. CASE e = Other
    <3>1. e.operands = <<>> /\ e.kind = "other"
      BY <2>7 DEF Other, Expr
    <3> QED
      BY <2>2, <2>7, <3>1
  <2>8. CASE e.kind = "paren" /\ e = Paren(e.operands[1])
    <3> DEFINE o == e.operands[1]
    <3>1. e.operands = <<o>>
      <4>1. e = Paren(o)
        BY <2>8
      <4> HIDE DEF o
      <4>2. Paren(o).operands = <<o>>
        BY DEF Paren, Expr
      <4> QED
        BY <4>1, <4>2
    <3> HIDE DEF o
    <3>2. o \in Exprs
      BY <2>1, <3>1 DEF Range
    <3> QED
      BY <2>2, <2>8, <3>1, <3>2
  <2> QED
    BY <2>1, <2>3, <2>4, <2>5, <2>6, <2>7, <2>8 DEF IsExpr
<1> QED
  BY <1>1, <1>2 DEF Tree

LEMMA LeafKinds ==
    ASSUME NEW e \in Tree, e.operands = <<>>
    PROVE  e.kind \in {"literal", "name", "other", "none"}
<1>1. Len(e.operands) # 1 /\ Len(e.operands) # 2
  OBVIOUS
<1>2. /\ e.kind \in {"literal", "name", "unary", "binary", "paren", "other", "none"}
      /\ e.kind \in {"unary", "paren"} => Len(e.operands) = 1
      /\ e.kind = "binary" => Len(e.operands) = 2
  BY TreeIs
<1> QED
  BY <1>1, <1>2

LEMMA Operand ==
    ASSUME NEW e \in Tree
    PROVE  /\ Len(e.operands) \in Nat /\ DOMAIN e.operands = 1 .. Len(e.operands)
           /\ \A k \in DOMAIN e.operands : e.operands[k] \in Exprs /\ e.operands[k] \in Tree
           /\ Range(e.operands) = {e.operands[k] : k \in DOMAIN e.operands}
<1>1. e.operands \in Seq(Exprs)
  BY TreeIs
<1> QED
  BY <1>1 DEF Range, Tree

\* What a recursion gives the operands.
Args(f, e) == [k \in DOMAIN e.operands |-> f[e.operands[k]]]

LEMMA ArgsAre ==
    ASSUME NEW e \in Tree, NEW V, NEW f,
           \A k \in DOMAIN e.operands : f[e.operands[k]] \in V
    PROVE  /\ Args(f, e) \in Seq(V) /\ Len(Args(f, e)) = Len(e.operands)
           /\ DOMAIN Args(f, e) = 1 .. Len(e.operands)
<1>1. Len(e.operands) \in Nat /\ DOMAIN e.operands = 1 .. Len(e.operands)
  BY Operand
<1>2. Args(f, e) \in [1 .. Len(e.operands) -> V]
  BY <1>1 DEF Args
<1> HIDE DEF Args
<1> QED
  BY <1>1, <1>2

\* A recursion as far as the expressions in C.
Partial(C, f, V, step) ==
    /\ C \subseteq Tree /\ f \in [C -> V]
    /\ \A e \in C : \A k \in DOMAIN e.operands : e.operands[k] \in C
    /\ \A e \in C : f[e] = step[<<e, Args(f, e)>>]

LEMMA PartsAgree ==
    ASSUME NEW V, NEW step, NEW C, NEW f, Partial(C, f, V, step),
           NEW D, NEW g, Partial(D, g, V, step), NEW x \in C \cap D
    PROVE  f[x] = g[x]
<1>1. ASSUME NEW e \in C \cap D, \A k \in DOMAIN e.operands : f[e.operands[k]] = g[e.operands[k]]
      PROVE  f[e] = g[e]
  <2>1. Args(f, e) = Args(g, e)
    BY <1>1 DEF Args
  <2> QED
    BY <2>1 DEF Partial
<1> DEFINE S == {e \in Exprs \cap C \cap D : f[e] # g[e]}
<1>2. ASSUME S # {} PROVE FALSE
  <2>1. PICK e \in S : Range(e.operands) \cap S = {}
    BY <1>2, Minimal
  <2>2. e \in Tree /\ e \in C \cap D /\ f[e] # g[e]
    BY <2>1 DEF Tree
  <2>3. ASSUME NEW k \in DOMAIN e.operands PROVE f[e.operands[k]] = g[e.operands[k]]
    <3>1. /\ e.operands[k] \in Exprs /\ e.operands[k] \in C \cap D
          /\ e.operands[k] \in Range(e.operands)
      BY <2>2, <2>3, Operand DEF Partial
    <3> QED
      BY <2>1, <3>1
  <2> QED
    BY <1>1, <2>2, <2>3
<1>3. CASE x \in Exprs
  BY <1>2, <1>3
<1>4. CASE x = NoExpr
  <2>1. x \in Tree /\ x.operands = <<>>
    BY <1>4, NoExprIs
  <2> QED
    BY <1>1, <2>1
<1> QED
  BY <1>3, <1>4 DEF Partial, Tree

LEMMA Recursion ==
    ASSUME NEW V, NEW step \in [Tree \X Seq(V) -> V]
    PROVE  \E f \in [Tree -> V] : \A e \in Tree : f[e] = step[<<e, Args(f, e)>>]
<1> DEFINE P(C, f) == Partial(C, f, V, step)
           U == {e \in Tree : \E C, f : P(C, f) /\ e \in C}
           g == [e \in U |-> CHOOSE v : \E C, f : P(C, f) /\ e \in C /\ v = f[e]]
<1>1. ASSUME NEW C, NEW f, P(C, f), NEW e \in C
      PROVE  e \in U /\ g[e] = f[e] /\ f[e] \in V
  <2>1. e \in U
    BY <1>1 DEF Partial
  <2>2. \E v : \E D, h : P(D, h) /\ e \in D /\ v = h[e]
    BY <1>1
  <2>3. PICK D, h : P(D, h) /\ e \in D /\ g[e] = h[e]
    BY <2>1, <2>2
  <2>4. h[e] = f[e]
    BY <1>1, <2>3, PartsAgree
  <2> QED
    BY <1>1, <2>1, <2>3, <2>4 DEF Partial
<1>2. P(U, g)
  <2>1. ASSUME NEW e \in U
        PROVE  /\ g[e] \in V /\ \A k \in DOMAIN e.operands : e.operands[k] \in U
               /\ g[e] = step[<<e, Args(g, e)>>]
    <3>1. PICK C, f : P(C, f) /\ e \in C
      BY <2>1
    <3>2. \A k \in DOMAIN e.operands : e.operands[k] \in C
      BY <3>1 DEF Partial
    <3>3. \A k \in DOMAIN e.operands : e.operands[k] \in U /\ g[e.operands[k]] = f[e.operands[k]]
      <4> HIDE DEF U, g, P
      <4> QED
        BY <1>1, <3>1, <3>2
    <3>4. Args(g, e) = Args(f, e)
      <4> HIDE DEF g
      <4> QED
        BY <3>3 DEF Args
    <3>5. g[e] = f[e] /\ f[e] \in V
      <4> HIDE DEF U, g, P
      <4> QED
        BY <1>1, <3>1
    <3>6. f[e] = step[<<e, Args(f, e)>>]
      BY <3>1 DEF Partial
    <3> QED
      BY <3>3, <3>4, <3>5, <3>6
  <2>2. U \subseteq Tree
    OBVIOUS
  <2>3. g = [e \in U |-> g[e]]
    OBVIOUS
  <2> HIDE DEF g, U, P
  <2>4. g \in [U -> V]
    BY <2>1, <2>3
  <2> QED
    BY <2>1, <2>2, <2>4 DEF P, Partial
<1>3. ASSUME NEW e \in Tree, \A k \in DOMAIN e.operands : e.operands[k] \in U
      PROVE  e \in U
  <2> SUFFICES ASSUME e \notin U PROVE FALSE
    OBVIOUS
  <2> HIDE DEF U, g, P
  <2>1. g \in [U -> V] /\ U \subseteq Tree
    BY <1>2 DEF P, Partial
  <2> DEFINE C == U \cup {e}
             f == [x \in C |-> IF x = e THEN step[<<e, Args(g, e)>>] ELSE g[x]]
  <2>2. Args(g, e) \in Seq(V)
    BY <1>3, <2>1, ArgsAre
  <2>3. ASSUME NEW x \in C
        PROVE  /\ f[x] \in V /\ \A k \in DOMAIN x.operands : x.operands[k] \in C
               /\ f[x] = step[<<x, Args(f, x)>>]
    <3>1. \A k \in DOMAIN x.operands : x.operands[k] \in U
      BY <1>2, <1>3, <2>3 DEF P, Partial
    <3>2. \A k \in DOMAIN x.operands : f[x.operands[k]] = g[x.operands[k]]
      BY <3>1
    <3>3. Args(f, x) = Args(g, x)
      <4> HIDE DEF f
      <4> QED
        BY <3>2 DEF Args
    <3>4. f[x] = step[<<x, Args(g, x)>>]
      <4>1. CASE x = e
        BY <4>1
      <4>2. CASE x # e
        <5>1. x \in U /\ f[x] = g[x]
          BY <2>3, <4>2
        <5> QED
          BY <1>2, <5>1 DEF P, Partial
      <4> QED
        BY <4>1, <4>2
    <3>5. f[x] \in V
      <4>1. step[<<e, Args(g, e)>>] \in V
        BY <2>2
      <4> QED
        BY <2>1, <2>3, <4>1
    <3> QED
      BY <3>1, <3>3, <3>4, <3>5
  <2>4. P(C, f)
    <3>1. f = [x \in C |-> f[x]] /\ C \subseteq Tree
      BY <2>1
    <3> HIDE DEF f, C
    <3> QED
      BY <2>3, <3>1 DEF P, Partial
  <2>5. e \in U
    <3> HIDE DEF f
    <3> QED
      BY <1>1, <2>4
  <2> QED
    BY <2>5
<1>4. Tree \subseteq U
  <2> HIDE DEF U, g, P
  <2> DEFINE S == Exprs \ U
  <2>1. ASSUME S # {} PROVE FALSE
    <3>1. PICK e \in S : Range(e.operands) \cap S = {}
      BY <2>1, Minimal
    <3>2. e \in Tree
      BY <3>1 DEF Tree
    <3>3. \A k \in DOMAIN e.operands : e.operands[k] \in U
      BY <3>1, <3>2, Operand
    <3> QED
      BY <1>3, <3>1, <3>2, <3>3
  <2>2. NoExpr \in U
    <3>1. NoExpr \in Tree /\ NoExpr.operands = <<>>
      BY NoExprIs
    <3> QED
      BY <1>3, <3>1
  <2> QED
    BY <2>1, <2>2 DEF Tree
<1>5. U = Tree
  BY <1>4
<1> HIDE DEF U, g, P
<1> QED
  BY <1>2, <1>5 DEF P, Partial

-----------------------------------------------------------------------------
(* What expressions are worth *)

LEMMA QuotientIs ==
    ASSUME NEW a \in Int, NEW b \in Int, b # 0
    PROVE  Quotient(a, b) \in Int
<1>1. Abs(a) \in Nat /\ Abs(b) \in Nat \ {0}
  BY DEF Abs
<1>2. Abs(a) \div Abs(b) \in Int
  BY <1>1
<1> DEFINE q == Abs(a) \div Abs(b)
<1> HIDE DEF q
<1>3. q \in Int
  BY <1>2 DEF q
<1>4. -q \in Int
  BY <1>3
<1> QED
  BY <1>3, <1>4 DEF Quotient, q

LEMMA UnaryIs ==
    ASSUME NEW a \in Int, NEW op \in DOMAIN UnaryValues(a)
    PROVE  UnaryValues(a)[op] \in Int
  BY DEF UnaryValues, Truth

LEMMA BinaryIs ==
    ASSUME NEW a \in Int, NEW b \in Int, NEW op \in DOMAIN BinaryValues(a, b),
           op \in {"/", "%"} => b # 0
    PROVE  BinaryValues(a, b)[op] \in Int
<1> DEFINE q == Quotient(a, b)
<1>1. op \in {"/", "%"} => q \in Int
  BY QuotientIs
<1>2. \A c, d \in Int : Truth(c < d) \in Int /\ Truth(c > d) \in Int /\ Truth(c = d) \in Int
                        /\ Truth(c # d) \in Int /\ Truth(c >= d) \in Int /\ Truth(c <= d) \in Int
  BY DEF Truth
<1>3. a + b \in Int /\ a - b \in Int /\ a * b \in Int
  OBVIOUS
<1>4. op \in {"/", "%"} => a - b * q \in Int
  <2> HIDE DEF q
  <2>1. q \in Int => b * q \in Int
    OBVIOUS
  <2>2. b * q \in Int => a - b * q \in Int
    OBVIOUS
  <2> QED
    BY <1>1, <2>1, <2>2
<1>5. op \in {"+", "-", "*", "/", "%", "<", ">", "==", "!=", ">=", "<="}
  BY DEF BinaryValues
<1> DEFINE product == a * b
           remainder == a - b * q
<1>6. BinaryValues(a, b)[op] =
       CASE op = "+" -> a + b [] op = "-" -> a - b [] op = "*" -> product
         [] op = "/" -> q [] op = "%" -> remainder
         [] op = "<" -> Truth(a < b) [] op = ">" -> Truth(a > b)
         [] op = "==" -> Truth(a = b) [] op = "!=" -> Truth(a # b)
         [] op = ">=" -> Truth(a >= b) [] op = "<=" -> Truth(a <= b)
  BY <1>5 DEF BinaryValues
<1>7. product \in Int /\ (op \in {"/", "%"} => remainder \in Int)
  BY <1>3, <1>4
<1> HIDE DEF q, product, remainder
<1>8. CASE op \in {"+", "-", "*"}
  BY <1>3, <1>6, <1>7, <1>8
<1>9. CASE op \in {"/", "%"}
  BY <1>1, <1>6, <1>7, <1>9
<1>10. CASE op \in {"<", ">", "=="}
  BY <1>2, <1>6, <1>10
<1>11. CASE op \in {"!=", ">=", "<="}
  BY <1>2, <1>6, <1>11
<1> QED
  BY <1>5, <1>8, <1>9, <1>10, <1>11

LEMMA TableIs ==
    ASSUME NEW args \in Seq(Int), Len(args) \in 1 .. 2,
           NEW op \in DOMAIN Table(args), Defined(op, args)
    PROVE  Table(args)[op] \in Int
<1>1. CASE Len(args) = 1
  BY <1>1, UnaryIs DEF Table
<1>2. CASE Len(args) = 2
  <2>1. args[1] \in Int /\ args[2] \in Int
    BY <1>2
  <2> QED
    BY <1>2, <2>1, BinaryIs DEF Table, Defined
<1> QED
  BY <1>1, <1>2

\* An expression with the worths of its operands.
Computed(e, args) ==
    IF NoValue \in Range(args) THEN NoValue
    ELSE IF e.kind = "paren" THEN args[1] ELSE ValueOf(e.name, args)

WorthOf(e, args, env) ==
    CASE e.kind = "literal" -> e.num
      [] e.kind = "name" -> env[e.name]
      [] e.kind \in {"none", "other"} -> NoValue
      [] OTHER -> Computed(e, args)

Envs == [Ids -> Values]

LEMMA ValueOfIs ==
    ASSUME NEW args \in Seq(Int), Len(args) \in 1 .. 2, NEW op
    PROVE  ValueOf(op, args) \in Values
<1>1. CASE op \in DOMAIN Table(args) /\ Defined(op, args)
  <2>1. ValueOf(op, args) = Table(args)[op]
    BY <1>1 DEF ValueOf
  <2> QED
    BY <1>1, <2>1, TableIs DEF Values
<1>2. CASE ~(op \in DOMAIN Table(args) /\ Defined(op, args))
  <2>1. \A a, b : op \in {"&&", "||"} => LogicalValues(a, b)[op] \in Int
    BY DEF LogicalValues, Truth
  <2>2. ValueOf(op, args) = IF Len(args) = 2 /\ op \in {"&&", "||"}
                            THEN LogicalValues(args[1], args[2])[op] ELSE NoValue
    BY <1>2 DEF ValueOf
  <2> QED
    BY <2>1, <2>2 DEF Values
<1> QED
  BY <1>1, <1>2

LEMMA ComputedIs ==
    ASSUME NEW e \in Tree, NEW args \in Seq(Values), e.operands # <<>>,
           Len(args) = Len(e.operands)
    PROVE  Computed(e, args) \in Values
<1>1. e.operands \in Seq(Exprs) /\ Len(e.operands) \in 0 .. 2
  BY TreeIs
<1>2. Len(args) \in 1 .. 2
  <2>1. Len(e.operands) # 0
    BY <1>1
  <2> QED
    BY <1>1, <2>1
<1>3. CASE NoValue \in Range(args)
  BY <1>3 DEF Computed, Values
<1>4. CASE NoValue \notin Range(args)
  <2>1. args \in Seq(Int)
    <3>1. \A k \in 1 .. Len(args) : args[k] \in Int
      BY <1>4 DEF Range, Values
    <3> QED
      BY <3>1
  <2>2. Computed(e, args) = IF e.kind = "paren" THEN args[1] ELSE ValueOf(e.name, args)
    BY <1>4 DEF Computed
  <2>3. args[1] \in Values
    BY <1>2
  <2> QED
    BY <1>2, <2>1, <2>2, <2>3, ValueOfIs
<1> QED
  BY <1>3, <1>4

LEMMA WorthTyped ==
    ASSUME NEW e \in Tree, NEW args \in Seq(Values), NEW env \in Envs,
           Len(args) = Len(e.operands)
    PROVE  WorthOf(e, args, env) \in Values
<1>1. CASE e.kind \in {"unary", "binary", "paren"}
  <2>1. e.operands # <<>>
    BY <1>1, LeafKinds
  <2>2. WorthOf(e, args, env) = Computed(e, args)
    BY <1>1 DEF WorthOf
  <2> QED
    BY <2>1, <2>2, ComputedIs
<1>2. CASE e.kind \notin {"unary", "binary", "paren"}
  <2>1. e.kind \in {"literal", "name", "none", "other"}
    BY <1>2, TreeIs
  <2>2. e.kind = "literal" => WorthOf(e, args, env) = e.num
    BY DEF WorthOf
  <2>3. e.kind = "name" => WorthOf(e, args, env) = env[e.name]
    BY DEF WorthOf
  <2>4. e.kind \in {"none", "other"} => WorthOf(e, args, env) = NoValue
    BY DEF WorthOf
  <2> QED
    BY <2>1, <2>2, <2>3, <2>4, TreeIs DEF Envs, Values
<1> QED
  BY <1>1, <1>2

IsWorth(f, env) == f = [e \in Tree |-> WorthOf(e, Args(f, e), env)]
Worths(env) == CHOOSE f : IsWorth(f, env)

LEMMA WorthsExist ==
    ASSUME NEW env \in Envs
    PROVE  \E f \in [Tree -> Values] : IsWorth(f, env)
<1> DEFINE step == [p \in Tree \X Seq(Values) |->
                      IF Len(p[2]) = Len(p[1].operands)
                      THEN WorthOf(p[1], p[2], env) ELSE NoValue]
<1>1. step \in [Tree \X Seq(Values) -> Values]
  <2>1. ASSUME NEW p \in Tree \X Seq(Values)
        PROVE  (IF Len(p[2]) = Len(p[1].operands)
                THEN WorthOf(p[1], p[2], env) ELSE NoValue) \in Values
    <3>1. p[1] \in Tree /\ p[2] \in Seq(Values) /\ NoValue \in Values
      BY DEF Values
    <3> QED
      BY <3>1, WorthTyped
  <2> QED
    BY <2>1
<1>2. ASSUME NEW e \in Tree, NEW args \in Seq(Values), Len(args) = Len(e.operands)
      PROVE  step[<<e, args>>] = WorthOf(e, args, env)
  <2>1. <<e, args>> \in Tree \X Seq(Values) /\ <<e, args>>[1] = e /\ <<e, args>>[2] = args
    OBVIOUS
  <2> QED
    BY <1>2, <2>1
<1> HIDE DEF step
<1>3. PICK f \in [Tree -> Values] : \A e \in Tree : f[e] = step[<<e, Args(f, e)>>]
  BY <1>1, Recursion
<1>4. ASSUME NEW e \in Tree PROVE f[e] = WorthOf(e, Args(f, e), env)
  <2>1. \A k \in DOMAIN e.operands : f[e.operands[k]] \in Values
    BY <1>3, Operand
  <2>2. Args(f, e) \in Seq(Values) /\ Len(Args(f, e)) = Len(e.operands)
    BY <2>1, ArgsAre
  <2> QED
    BY <1>2, <1>3, <2>2
<1>5. f = [e \in Tree |-> f[e]]
  BY <1>3
<1>6. IsWorth(f, env)
  BY <1>4, <1>5 DEF IsWorth
<1> QED
  BY <1>3, <1>6

LEMMA WorthIs ==
    ASSUME NEW e \in Tree, NEW env \in Envs
    PROVE  LET args == [k \in DOMAIN e.operands |-> Worth(e.operands[k], env)]
           IN  /\ Worth(e, env) = WorthOf(e, args, env)
               /\ Worth(e, env) \in Values
               /\ args \in Seq(Values) /\ Len(args) = Len(e.operands)
               /\ DOMAIN args = 1 .. Len(e.operands)
<1> DEFINE w == Worths(env)
           args == [k \in DOMAIN e.operands |-> Worth(e.operands[k], env)]
<1>1. \A x : Worth(x, env) = w[x]
  BY DEF Worth, Worths, IsWorth, WorthOf, Computed, Args, Tree
<1>2. IsWorth(w, env)
  BY WorthsExist DEF Worths
<1>3. \A x \in Tree : w[x] = WorthOf(x, Args(w, x), env)
  BY <1>2 DEF IsWorth
<1>4. \A x \in Tree : w[x] \in Values
  <2>1. PICK f \in [Tree -> Values] : IsWorth(f, env)
    BY WorthsExist
  <2> DEFINE S == {x \in Exprs : w[x] \notin Values}
  <2>2. ASSUME NEW x \in Tree, \A k \in DOMAIN x.operands : w[x.operands[k]] \in Values
        PROVE  w[x] \in Values
    <3>1. Args(w, x) \in Seq(Values) /\ Len(Args(w, x)) = Len(x.operands)
      BY <2>2, ArgsAre
    <3> QED
      BY <1>3, <3>1, WorthTyped
  <2> HIDE DEF w
  <2>3. ASSUME S # {} PROVE FALSE
    <3>1. PICK x \in S : Range(x.operands) \cap S = {}
      BY <2>3, Minimal
    <3>2. x \in Tree
      BY <3>1 DEF Tree
    <3>3. \A k \in DOMAIN x.operands : w[x.operands[k]] \in Values
      BY <3>1, <3>2, Operand
    <3> QED
      BY <2>2, <3>1, <3>2, <3>3
  <2>4. w[NoExpr] \in Values
    BY <2>2, NoExprIs
  <2> QED
    BY <2>3, <2>4 DEF Tree
<1> HIDE DEF w
<1>5. args = Args(w, e)
  BY <1>1 DEF Args
<1>6. \A k \in DOMAIN e.operands : w[e.operands[k]] \in Values
  BY <1>4, Operand
<1> HIDE DEF args
<1>7. args \in Seq(Values) /\ Len(args) = Len(e.operands) /\ DOMAIN args = 1 .. Len(e.operands)
  BY <1>5, <1>6, ArgsAre
<1> QED
  BY <1>1, <1>3, <1>4, <1>5, <1>7 DEF args

MentionedOf(e, args) == IF e.kind = "name" THEN {e.name} ELSE UNION Range(args)

IsMentioned(f) == f = [e \in Tree |-> IF e.kind = "name" THEN {e.name}
                                      ELSE UNION {f[o] : o \in Range(e.operands)}]

LEMMA MentionedExist == \E f \in [Tree -> SUBSET Ids] : IsMentioned(f)
<1> DEFINE V == SUBSET Ids
           step == [p \in Tree \X Seq(V) |-> MentionedOf(p[1], p[2])]
<1>1. step \in [Tree \X Seq(V) -> V]
  <2>1. ASSUME NEW e \in Tree, NEW args \in Seq(V) PROVE MentionedOf(e, args) \in V
    <3>1. Range(args) \subseteq V
      BY DEF Range
    <3> QED
      BY <3>1, TreeIs DEF MentionedOf
  <2> QED
    BY <2>1
<1>2. ASSUME NEW e \in Tree, NEW args \in Seq(V)
      PROVE  step[<<e, args>>] = MentionedOf(e, args)
  OBVIOUS
<1> HIDE DEF step, V
<1>3. PICK f \in [Tree -> V] : \A e \in Tree : f[e] = step[<<e, Args(f, e)>>]
  BY <1>1, Recursion
<1>4. ASSUME NEW e \in Tree
      PROVE  f[e] = IF e.kind = "name" THEN {e.name} ELSE UNION {f[o] : o \in Range(e.operands)}
  <2>1. \A k \in DOMAIN e.operands : f[e.operands[k]] \in V
    BY <1>3, Operand
  <2>2. Args(f, e) \in Seq(V)
    BY <2>1, ArgsAre
  <2>3. f[e] = MentionedOf(e, Args(f, e))
    BY <1>2, <1>3, <2>2
  <2>4. Range(Args(f, e)) = {f[o] : o \in Range(e.operands)}
    BY DEF Args, Range
  <2> QED
    BY <2>3, <2>4 DEF MentionedOf
<1>5. f = [e \in Tree |-> f[e]]
  BY <1>3
<1>6. IsMentioned(f)
  BY <1>4, <1>5 DEF IsMentioned
<1> QED
  BY <1>3, <1>6 DEF V

LEMMA MentionedIs ==
    ASSUME NEW e \in Tree
    PROVE  Mentioned(e) = IF e.kind = "name" THEN {e.name}
                          ELSE UNION {Mentioned(o) : o \in Range(e.operands)}
<1> DEFINE m == CHOOSE f : IsMentioned(f)
<1>1. \A x : Mentioned(x) = m[x]
  BY DEF Mentioned, IsMentioned, Tree
<1>2. IsMentioned(m)
  BY MentionedExist
<1> HIDE DEF m
<1>3. m[e] = IF e.kind = "name" THEN {e.name} ELSE UNION {m[o] : o \in Range(e.operands)}
  BY <1>2 DEF IsMentioned
<1> QED
  BY <1>1, <1>3

RefusedOf(e, args) ==
    \/ e.kind = "paren"
    \/ e.kind = "binary" /\ e.name \in {"&&", "||"}
    \/ TRUE \in Range(args)

IsRefused(f) == f = [e \in Tree |->
                       \/ e.kind = "paren"
                       \/ e.kind = "binary" /\ e.name \in {"&&", "||"}
                       \/ \E o \in Range(e.operands) : f[o]]

LEMMA RefusedExist == \E f \in [Tree -> BOOLEAN] : IsRefused(f)
<1> DEFINE V == BOOLEAN
           step == [p \in Tree \X Seq(V) |-> RefusedOf(p[1], p[2])]
<1>1. step \in [Tree \X Seq(V) -> V]
  <2>1. ASSUME NEW e \in Tree, NEW args \in Seq(V) PROVE RefusedOf(e, args) \in V
    BY DEF RefusedOf
  <2> QED
    BY <2>1
<1>2. ASSUME NEW e \in Tree, NEW args \in Seq(V)
      PROVE  step[<<e, args>>] = RefusedOf(e, args)
  OBVIOUS
<1> HIDE DEF step, V
<1>3. PICK f \in [Tree -> V] : \A e \in Tree : f[e] = step[<<e, Args(f, e)>>]
  BY <1>1, Recursion
<1>4. ASSUME NEW e \in Tree
      PROVE  f[e] = (\/ e.kind = "paren"
                     \/ e.kind = "binary" /\ e.name \in {"&&", "||"}
                     \/ \E o \in Range(e.operands) : f[o])
  <2>1. \A k \in DOMAIN e.operands : f[e.operands[k]] \in V
    BY <1>3, Operand
  <2>2. Args(f, e) \in Seq(V)
    BY <2>1, ArgsAre
  <2>3. f[e] = RefusedOf(e, Args(f, e))
    BY <1>2, <1>3, <2>2
  <2>4. Range(Args(f, e)) = {f[o] : o \in Range(e.operands)}
    BY DEF Args, Range
  <2>5. \A o \in Range(e.operands) : f[o] \in BOOLEAN
    BY <2>1, Operand DEF V
  <2>6. TRUE \in Range(Args(f, e)) <=> \E o \in Range(e.operands) : f[o]
    <3>1. ASSUME TRUE \in Range(Args(f, e)) PROVE \E o \in Range(e.operands) : f[o]
      <4>1. PICK o \in Range(e.operands) : TRUE = f[o]
        BY <2>4, <3>1
      <4> QED
        BY <4>1, Zenon
    <3>2. ASSUME NEW o \in Range(e.operands), f[o] PROVE TRUE \in Range(Args(f, e))
      <4>1. f[o] = TRUE
        BY <2>5, <3>2, Zenon
      <4> QED
        BY <2>4, <4>1
    <3> QED
      BY <3>1, <3>2, Zenon
  <2> DEFINE all == \/ e.kind = "paren"
                    \/ e.kind = "binary" /\ e.name \in {"&&", "||"}
                    \/ \E o \in Range(e.operands) : f[o]
  <2>7. RefusedOf(e, Args(f, e)) <=> all
    BY <2>6, Zenon DEF RefusedOf
  <2>8. RefusedOf(e, Args(f, e)) \in BOOLEAN /\ all \in BOOLEAN
    BY DEF RefusedOf
  <2> HIDE DEF all
  <2>9. f[e] = all
    BY <2>3, <2>7, <2>8
  <2> QED
    BY <2>9 DEF all
<1>5. f = [e \in Tree |-> f[e]]
  BY <1>3
<1>6. IsRefused(f)
  BY <1>4, <1>5 DEF IsRefused
<1> QED
  BY <1>3, <1>6 DEF V

LEMMA RefusedIs ==
    ASSUME NEW e \in Tree
    PROVE  Refused(e) <=> \/ e.kind = "paren"
                          \/ e.kind = "binary" /\ e.name \in {"&&", "||"}
                          \/ \E o \in Range(e.operands) : Refused(o)
<1> DEFINE m == CHOOSE f : IsRefused(f)
<1>1. \A x : Refused(x) = m[x]
  BY DEF Refused, IsRefused, Tree
<1>2. IsRefused(m)
  BY RefusedExist
<1> HIDE DEF m
<1>3. m[e] = (\/ e.kind = "paren"
              \/ e.kind = "binary" /\ e.name \in {"&&", "||"}
              \/ \E o \in Range(e.operands) : m[o])
  BY <1>2 DEF IsRefused
<1> QED
  BY <1>1, <1>3

\* The cases of the three.
LEMMA LeafIs ==
    ASSUME NEW e \in Tree, NEW env \in Envs
    PROVE  /\ e.kind = "literal" => Worth(e, env) = e.num
           /\ e.kind = "name" => Worth(e, env) = env[e.name] /\ Mentioned(e) = {e.name}
           /\ e.kind \in {"none", "other"} => Worth(e, env) = NoValue
           /\ e.kind \in {"literal", "none", "other"} => Mentioned(e) = {}
<1>1. e.kind \in {"literal", "none", "other"} => Mentioned(e) = {}
  <2>1. e.kind \in {"literal", "none", "other"} => Range(e.operands) = {}
    BY TreeIs DEF Range
  <2> QED
    BY <2>1, MentionedIs
<1>2. e.kind = "name" => Mentioned(e) = {e.name}
  BY MentionedIs
<1> DEFINE args == [k \in DOMAIN e.operands |-> Worth(e.operands[k], env)]
<1>3. Worth(e, env) = WorthOf(e, args, env)
  BY WorthIs
<1> HIDE DEF args
<1>4. /\ e.kind = "literal" => WorthOf(e, args, env) = e.num
      /\ e.kind = "name" => WorthOf(e, args, env) = env[e.name]
      /\ e.kind \in {"none", "other"} => WorthOf(e, args, env) = NoValue
  BY DEF WorthOf
<1> QED
  BY <1>1, <1>2, <1>3, <1>4

LEMMA OperationIs ==
    ASSUME NEW e \in Tree, NEW env \in Envs, e.operands # <<>>
    PROVE  LET args == [k \in DOMAIN e.operands |-> Worth(e.operands[k], env)]
           IN  /\ Worth(e, env) = Computed(e, args)
               /\ \A k \in DOMAIN e.operands : Mentioned(e.operands[k]) \subseteq Mentioned(e)
               /\ Mentioned(e) = UNION {Mentioned(e.operands[k]) : k \in DOMAIN e.operands}
<1> DEFINE args == [k \in DOMAIN e.operands |-> Worth(e.operands[k], env)]
<1>1. e.kind \in {"unary", "binary", "paren"}
  BY TreeIs
<1>2. Worth(e, env) = WorthOf(e, args, env)
  BY WorthIs
<1> HIDE DEF args
<1>3. WorthOf(e, args, env) = Computed(e, args)
  BY <1>1 DEF WorthOf
<1>4. Mentioned(e) = UNION {Mentioned(o) : o \in Range(e.operands)}
  BY <1>1, MentionedIs
<1>5. Mentioned(e) = UNION {Mentioned(e.operands[k]) : k \in DOMAIN e.operands}
  BY <1>4 DEF Range
<1>6. \A k \in DOMAIN e.operands : Mentioned(e.operands[k]) \subseteq Mentioned(e)
  BY <1>5
<1> QED
  BY <1>2, <1>3, <1>5, <1>6 DEF args

LEMMA PartIs ==
    ASSUME NEW e \in Tree, NEW k \in DOMAIN e.operands
    PROVE  /\ e.operands[k] \in Tree /\ Mentioned(e.operands[k]) \subseteq Mentioned(e)
           /\ Refused(e.operands[k]) => Refused(e)
<1>1. e.operands[k] \in Tree /\ e.operands[k] \in Range(e.operands) /\ e.operands # <<>>
  <2>1. DOMAIN e.operands # DOMAIN <<>>
    OBVIOUS
  <2> QED
    BY <2>1, Operand
<1>2. e.kind # "name"
  BY <1>1, TreeIs
<1>3. Mentioned(e) = UNION {Mentioned(o) : o \in Range(e.operands)}
  BY <1>2, MentionedIs
<1> QED
  BY <1>1, <1>3, RefusedIs

LEMMA MentionedIds ==
    ASSUME NEW e \in Tree
    PROVE  Mentioned(e) \subseteq Ids
<1> DEFINE m == CHOOSE f : IsMentioned(f)
           S == {x \in Exprs : ~(Mentioned(x) \subseteq Ids)}
<1>1. ASSUME NEW x \in Tree,
             \A k \in DOMAIN x.operands : Mentioned(x.operands[k]) \subseteq Ids
      PROVE  Mentioned(x) \subseteq Ids
  BY <1>1, MentionedIs, TreeIs DEF Range
<1>2. ASSUME S # {} PROVE FALSE
  <2>1. PICK x \in S : Range(x.operands) \cap S = {}
    BY <1>2, Minimal
  <2>2. x \in Tree
    BY <2>1 DEF Tree
  <2>3. \A k \in DOMAIN x.operands : Mentioned(x.operands[k]) \subseteq Ids
    BY <2>1, <2>2, Operand
  <2> QED
    BY <1>1, <2>1, <2>2, <2>3
<1>3. Mentioned(NoExpr) \subseteq Ids
  BY <1>1, NoExprIs
<1> QED
  BY <1>2, <1>3 DEF Tree

\* An expression is worth what the names it mentions are worth.
LEMMA WorthSame ==
    ASSUME NEW e \in Tree, NEW env \in Envs, NEW other \in Envs,
           \A j \in Mentioned(e) : env[j] = other[j]
    PROVE  Worth(e, env) = Worth(e, other)
<1> DEFINE Agrees(x) == \A j \in Mentioned(x) : env[j] = other[j]
           S == {x \in Exprs : Agrees(x) /\ Worth(x, env) # Worth(x, other)}
<1>1. ASSUME NEW x \in Tree, Agrees(x),
             \A k \in DOMAIN x.operands : Worth(x.operands[k], env) = Worth(x.operands[k], other)
      PROVE  Worth(x, env) = Worth(x, other)
  <2>1. CASE x.operands = <<>>
    <3>1. x.kind \in {"literal", "name", "other", "none"}
      BY <2>1, TreeIs
    <3>2. x.kind = "name" => env[x.name] = other[x.name]
      BY <1>1, LeafIs
    <3> QED
      BY <3>1, <3>2, LeafIs
  <2>2. CASE x.operands # <<>>
    <3> DEFINE p == [k \in DOMAIN x.operands |-> Worth(x.operands[k], env)]
               q == [k \in DOMAIN x.operands |-> Worth(x.operands[k], other)]
    <3>1. p = q
      BY <1>1
    <3>2. Worth(x, env) = Computed(x, p) /\ Worth(x, other) = Computed(x, q)
      BY <2>2, OperationIs
    <3> QED
      BY <3>1, <3>2
  <2> QED
    BY <2>1, <2>2
<1>2. ASSUME S # {} PROVE FALSE
  <2>1. PICK x \in S : Range(x.operands) \cap S = {}
    BY <1>2, Minimal
  <2>2. x \in Tree /\ Agrees(x)
    BY <2>1 DEF Tree
  <2>3. ASSUME NEW k \in DOMAIN x.operands
        PROVE  Worth(x.operands[k], env) = Worth(x.operands[k], other)
    <3>1. x.operands[k] \in Exprs /\ x.operands[k] \in Range(x.operands)
      BY <2>2, <2>3, Operand
    <3>2. x.operands # <<>>
      BY <2>3
    <3>3. Agrees(x.operands[k])
      BY <2>2, <2>3, <3>2, OperationIs
    <3> QED
      BY <2>1, <3>1, <3>3
  <2> QED
    BY <1>1, <2>1, <2>2, <2>3
<1>3. CASE e = NoExpr
  BY <1>1, <1>3, NoExprIs
<1> QED
  BY <1>2, <1>3 DEF Tree

\* What has a value mentions no name without one.
LEMMA WorthNamed ==
    ASSUME NEW e \in Tree, NEW env \in Envs, Worth(e, env) # NoValue,
           NEW j \in Mentioned(e)
    PROVE  env[j] # NoValue
<1> DEFINE S == {x \in Exprs : Worth(x, env) # NoValue /\ \E i \in Mentioned(x) : env[i] = NoValue}
<1>1. ASSUME S # {} PROVE FALSE
  <2>1. PICK x \in S : Range(x.operands) \cap S = {}
    BY <1>1, Minimal
  <2>2. x \in Tree /\ Worth(x, env) # NoValue
    BY <2>1 DEF Tree
  <2>3. PICK i \in Mentioned(x) : env[i] = NoValue
    BY <2>1
  <2> HIDE DEF S
  <2>4. CASE x.operands = <<>>
    <3>1. x.kind \in {"literal", "name", "other", "none"}
      BY <2>2, <2>4, LeafKinds
    <3>2. x.kind = "name"
      BY <2>2, <2>3, <3>1, LeafIs
    <3>3. i = x.name /\ Worth(x, env) = env[x.name]
      BY <2>2, <2>3, <3>2, LeafIs
    <3> QED
      BY <2>2, <2>3, <3>3
  <2>5. CASE x.operands # <<>>
    <3> DEFINE args == [k \in DOMAIN x.operands |-> Worth(x.operands[k], env)]
    <3>1. /\ Worth(x, env) = Computed(x, args)
          /\ Mentioned(x) = UNION {Mentioned(x.operands[k]) : k \in DOMAIN x.operands}
      BY <2>2, <2>5, OperationIs
    <3>2. NoValue \notin Range(args)
      BY <2>2, <3>1 DEF Computed
    <3>3. PICK k \in DOMAIN x.operands : i \in Mentioned(x.operands[k])
      BY <2>3, <3>1
    <3>4. Worth(x.operands[k], env) # NoValue
      BY <3>2, <3>3 DEF Range
    <3>5. x.operands[k] \in Exprs /\ x.operands[k] \in Range(x.operands)
      BY <2>2, <3>3, Operand
    <3>6. x.operands[k] \in S
      BY <2>3, <3>3, <3>4, <3>5 DEF S
    <3> QED
      BY <2>1, <3>5, <3>6
  <2> QED
    BY <2>4, <2>5
<1>2. e # NoExpr
  BY LeafIs, NoExprIs
<1> QED
  BY <1>1, <1>2 DEF Tree

-----------------------------------------------------------------------------
(* Scopes, and the values of the names in them *)

LookIn(s, i) ==
    LET hits == {k \in 1 .. Len(s) : s[k][i] # NoNode}
    IN  IF hits = {} THEN NoNode
        ELSE s[CHOOSE k \in hits : \A l \in hits : l <= k][i]

\* The values of what the names mean.
EnvAt(means, wor) == [i \in Ids |-> IF means[i] = NoNode THEN NoValue ELSE wor[means[i]]]
MeansIn(s) == [i \in Ids |-> LookIn(s, i)]
EnvOf(s, wor) == EnvAt(MeansIn(s), wor)
FoundIn(s) == {i \in Ids : LookIn(s, i) # NoNode}

LEMMA EnvOfIs ==
    ASSUME NEW s, NEW wor
    PROVE  EnvOf(s, wor) = [i \in Ids |-> IF LookIn(s, i) = NoNode THEN NoValue
                                          ELSE wor[LookIn(s, i)]]
  BY DEF EnvOf, EnvAt, MeansIn

LEMMA LookupIn ==
    /\ \A i : Lexical!Lookup(i) = LookIn(OpenScopes, i)
    /\ Meanings = MeansIn(OpenScopes)
    /\ Here = EnvOf(OpenScopes, worth)
<1>1. \A i : Lexical!Lookup(i) = LookIn(OpenScopes, i)
  BY DEF Lexical!Lookup, Lexical!Depth, LookIn
<1>2. Meanings = MeansIn(OpenScopes)
  BY <1>1 DEF Meanings, MeansIn
<1> QED
  BY <1>1, <1>2 DEF Here, EnvOf, EnvAt

LEMMA LookAt ==
    ASSUME NEW s, Len(s) \in Nat, NEW i, NEW k \in 1 .. Len(s), s[k][i] # NoNode,
           \A l \in k + 1 .. Len(s) : s[l][i] = NoNode
    PROVE  LookIn(s, i) = s[k][i]
<1> DEFINE hits == {l \in 1 .. Len(s) : s[l][i] # NoNode}
<1>1. k \in hits /\ \A l \in hits : l <= k
  OBVIOUS
<1>2. \A m \in hits : (\A l \in hits : l <= m) => m = k
  <2> SUFFICES ASSUME NEW m \in hits, \A l \in hits : l <= m PROVE m = k
    OBVIOUS
  <2>1. k <= m /\ m <= k /\ m \in Int /\ k \in Int
    BY <1>1
  <2> QED
    BY <2>1
<1>3. LookIn(s, i) = IF hits = {} THEN NoNode
                     ELSE s[CHOOSE m \in hits : \A l \in hits : l <= m][i]
  BY DEF LookIn
<1> HIDE DEF hits
<1>4. (CHOOSE m \in hits : \A l \in hits : l <= m) = k
  BY <1>1, <1>2
<1> QED
  BY <1>1, <1>3, <1>4

LEMMA LookNone ==
    ASSUME NEW s, NEW i, \A l \in 1 .. Len(s) : s[l][i] = NoNode
    PROVE  LookIn(s, i) = NoNode
  BY DEF LookIn

\* What is found stands in a scope, and no scope inside that one declares it.
LEMMA LookFound ==
    ASSUME NEW s, Len(s) \in Nat, NEW i, NEW k \in 1 .. Len(s), s[k][i] # NoNode
    PROVE  \E d \in k .. Len(s) : /\ s[d][i] # NoNode /\ LookIn(s, i) = s[d][i]
                                  /\ \A l \in d + 1 .. Len(s) : s[l][i] = NoNode
<1> DEFINE hits == {l \in 1 .. Len(s) : s[l][i] # NoNode}
           d == Max(hits)
<1>1. hits \in SUBSET (1 .. Len(s)) /\ k \in hits
  OBVIOUS
<1>2. d \in hits /\ \A l \in hits : l <= d
  <2> HIDE DEF hits
  <2>1. hits # {}
    BY <1>1
  <2> QED
    BY <1>1, <2>1, MaxIs
<1> HIDE DEF d
<1>3. d \in 1 .. Len(s) /\ s[d][i] # NoNode /\ k <= d
  BY <1>1, <1>2
<1>4. ASSUME NEW l \in d + 1 .. Len(s) PROVE s[l][i] = NoNode
  <2> SUFFICES ASSUME s[l][i] # NoNode PROVE FALSE
    OBVIOUS
  <2>1. l \in hits
    BY <1>3, <1>4
  <2>2. l <= d
    BY <1>2, <2>1
  <2> QED
    BY <1>3, <1>4, <2>2
<1>5. LookIn(s, i) = s[d][i]
  BY <1>3, <1>4, LookAt
<1>6. d \in k .. Len(s)
  BY <1>3
<1> QED
  BY <1>3, <1>4, <1>5, <1>6

LEMMA LookDecides ==
    ASSUME NEW s, Len(s) \in Nat, NEW i, LookIn(s, i) # NoNode
    PROVE  \E d \in 1 .. Len(s) : /\ s[d][i] # NoNode /\ LookIn(s, i) = s[d][i]
                                  /\ \A l \in d + 1 .. Len(s) : s[l][i] = NoNode
<1>1. PICK k \in 1 .. Len(s) : s[k][i] # NoNode
  BY LookNone
<1>2. PICK d \in k .. Len(s) : /\ s[d][i] # NoNode /\ LookIn(s, i) = s[d][i]
                               /\ \A l \in d + 1 .. Len(s) : s[l][i] = NoNode
  BY <1>1, LookFound
<1>3. d \in 1 .. Len(s)
  BY <1>1, <1>2
<1> QED
  BY <1>2, <1>3

\* Scopes without i make no difference.
LEMMA LookPrefix ==
    ASSUME NEW s, Len(s) \in Nat, NEW t, Len(t) \in Nat, Len(t) <= Len(s), NEW i,
           \A k \in 1 .. Len(t) : t[k][i] = s[k][i],
           \A k \in Len(t) + 1 .. Len(s) : s[k][i] = NoNode
    PROVE  LookIn(t, i) = LookIn(s, i)
<1>1. CASE \A k \in 1 .. Len(t) : t[k][i] = NoNode
  <2>1. ASSUME NEW k \in 1 .. Len(s) PROVE s[k][i] = NoNode
    <3>1. k \in 1 .. Len(t) \/ k \in Len(t) + 1 .. Len(s)
      OBVIOUS
    <3> QED
      BY <1>1, <3>1
  <2> QED
    BY <1>1, <2>1, LookNone
<1>2. CASE \E k \in 1 .. Len(t) : t[k][i] # NoNode
  <2>1. PICK k \in 1 .. Len(t) : t[k][i] # NoNode
    BY <1>2
  <2>2. PICK d \in k .. Len(t) : /\ t[d][i] # NoNode /\ LookIn(t, i) = t[d][i]
                                 /\ \A l \in d + 1 .. Len(t) : t[l][i] = NoNode
    BY <2>1, LookFound
  <2>3. d \in 1 .. Len(t) /\ d \in 1 .. Len(s)
    BY <2>1, <2>2
  <2>4. ASSUME NEW l \in d + 1 .. Len(s) PROVE s[l][i] = NoNode
    <3>1. (l \in d + 1 .. Len(t) /\ l \in 1 .. Len(t)) \/ l \in Len(t) + 1 .. Len(s)
      BY <2>3, <2>4
    <3> QED
      BY <2>2, <3>1
  <2>5. s[d][i] = t[d][i]
    BY <2>3
  <2>6. LookIn(s, i) = s[d][i]
    BY <2>2, <2>3, <2>4, <2>5, LookAt
  <2> QED
    BY <2>2, <2>5, <2>6
<1> QED
  BY <1>1, <1>2

-----------------------------------------------------------------------------
(* What constants are defined with stays declared, and keeps its value *)

InitType == [isConst : BOOLEAN, init : Tree]

\* Constants, and only they, have values.
Valued(ini, wor) == \A n \in DOMAIN ini : wor[n] # NoValue <=> ini[n].isConst

IsConst(s, ini, d, i) == s[d][i] # NoNode /\ ini[s[d][i]].isConst

\* The names of a constant's initial value are declared in its scope or around it.
NamesKept(s, ini, d, i) ==
    \A j \in Mentioned(ini[s[d][i]].init) : \E c \in 1 .. d : s[c][j] # NoNode

Meant(s, last, ini, wor) ==
    /\ last \in Nat /\ s \in Seq([Ids -> 0 .. last])
    /\ ini \in Seq(InitType) /\ wor \in Seq(Values) /\ Len(ini) = last /\ Len(wor) = last
    /\ Valued(ini, wor)
    /\ \A d \in 1 .. Len(s), i \in Ids : IsConst(s, ini, d, i) => NamesKept(s, ini, d, i)

\* A constant has the value of its initial value, of the names as they were meant.
Remembered(last, ini, wor, mea) ==
    /\ last \in Nat /\ ini \in Seq(InitType) /\ wor \in Seq(Values) /\ mea \in Seq([Ids -> Nat])
    /\ Len(ini) = last /\ Len(wor) = last /\ Len(mea) = last
    /\ \A n \in 1 .. last :
          /\ \A i \in Ids : mea[n][i] <= last
          /\ ini[n].isConst => wor[n] = Worth(ini[n].init, EnvAt(mea[n], wor))

LEMMA EnvAtIs ==
    ASSUME NEW last \in Nat, NEW wor \in Seq(Values), Len(wor) = last,
           NEW means \in [Ids -> Nat], \A i \in Ids : means[i] <= last
    PROVE  EnvAt(means, wor) \in Envs
<1>1. ASSUME NEW i \in Ids
      PROVE  (IF means[i] = NoNode THEN NoValue ELSE wor[means[i]]) \in Values
  <2>1. means[i] = NoNode \/ means[i] \in 1 .. last
    BY DEF NoNode
  <2>2. \A n \in 1 .. last : wor[n] \in Values
    OBVIOUS
  <2> QED
    BY <2>1, <2>2 DEF Values
<1> QED
  BY <1>1 DEF EnvAt, Envs

\* More definitions, each with the value it has among those before it.
Recalls(last, more, ini, wor, mea, ini2, wor2, mea2) ==
    /\ Remembered(last, ini, wor, mea)
    /\ more \in Nat
    /\ ini2 \in Seq(InitType) /\ wor2 \in Seq(Values) /\ mea2 \in Seq([Ids -> Nat])
    /\ Len(ini2) = last + more /\ Len(wor2) = last + more /\ Len(mea2) = last + more
    /\ \A n \in 1 .. last : ini2[n] = ini[n] /\ wor2[n] = wor[n] /\ mea2[n] = mea[n]
    /\ \A n \in last + 1 .. last + more :
          /\ \A i \in Ids : mea2[n][i] <= last
          /\ ini2[n].isConst => wor2[n] = Worth(ini2[n].init, EnvAt(mea2[n], wor))

LEMMA RememberMore ==
    ASSUME NEW last, NEW more, NEW ini, NEW wor, NEW mea, NEW ini2, NEW wor2, NEW mea2,
           Recalls(last, more, ini, wor, mea, ini2, wor2, mea2)
    PROVE  Remembered(last + more, ini2, wor2, mea2)
<1> USE DEF Recalls
<1> DEFINE then == last + more
<1>1. last \in Nat /\ then \in Nat /\ last <= then
  BY DEF Remembered
<1>0. \A n \in 1 .. then : mea2[n] \in [Ids -> Nat]
  BY <1>1
<1>2. ASSUME NEW n \in 1 .. then
      PROVE  /\ \A i \in Ids : mea2[n][i] <= last
             /\ ini2[n].isConst => wor2[n] = Worth(ini2[n].init, EnvAt(mea2[n], wor))
  <2>1. n \in 1 .. last \/ n \in last + 1 .. last + more
    BY <1>1
  <2>2. CASE n \in 1 .. last
    BY <2>2 DEF Remembered
  <2> QED
    BY <2>1, <2>2
<1>3. ASSUME NEW n \in 1 .. then PROVE EnvAt(mea2[n], wor2) = EnvAt(mea2[n], wor)
  <2>1. ASSUME NEW i \in Ids, mea2[n][i] # NoNode PROVE wor2[mea2[n][i]] = wor[mea2[n][i]]
    <3>1. mea2[n][i] \in 1 .. last
      BY <1>0, <1>1, <1>2, <1>3, <2>1 DEF NoNode
    <3> QED
      BY <3>1
  <2> QED
    BY <2>1 DEF EnvAt
<1>4. \A n \in 1 .. then : \A i \in Ids : mea2[n][i] <= then
  <2> SUFFICES ASSUME NEW n \in 1 .. then, NEW i \in Ids PROVE mea2[n][i] <= then
    OBVIOUS
  <2>1. mea2[n][i] \in Nat /\ mea2[n][i] <= last
    BY <1>0, <1>1, <1>2
  <2> QED
    BY <1>1, <2>1
<1>5. \A n \in 1 .. then : ini2[n].isConst => wor2[n] = Worth(ini2[n].init, EnvAt(mea2[n], wor2))
  BY <1>2, <1>3
<1> QED
  BY <1>1, <1>4, <1>5 DEF Remembered

LEMMA MeantTypes ==
    ASSUME NEW s, NEW last, NEW ini, NEW wor, Meant(s, last, ini, wor)
    PROVE  /\ last \in Nat /\ Len(s) \in Nat /\ DOMAIN s = 1 .. Len(s)
           /\ DOMAIN ini = 1 .. last /\ DOMAIN wor = 1 .. last
           /\ \A d \in 1 .. Len(s), i \in Ids : s[d][i] \in 0 .. last
           /\ \A n \in 1 .. last : ini[n] \in InitType /\ ini[n].init \in Tree
                                   /\ wor[n] \in Values
           /\ \A i \in Ids : LookIn(s, i) \in 0 .. last
           /\ EnvOf(s, wor) \in Envs
           /\ \A i \in Ids : EnvOf(s, wor)[i] =
                 IF LookIn(s, i) = NoNode THEN NoValue ELSE wor[LookIn(s, i)]
<1>1. /\ last \in Nat /\ s \in Seq([Ids -> 0 .. last])
      /\ ini \in Seq(InitType) /\ wor \in Seq(Values) /\ Len(ini) = last /\ Len(wor) = last
  BY DEF Meant
<1>2. /\ Len(s) \in Nat /\ DOMAIN s = 1 .. Len(s)
      /\ DOMAIN ini = 1 .. last /\ DOMAIN wor = 1 .. last
      /\ \A d \in 1 .. Len(s), i \in Ids : s[d][i] \in 0 .. last
  BY <1>1
<1>3. \A n \in 1 .. last : ini[n] \in InitType /\ wor[n] \in Values
  BY <1>1
<1>4. \A n \in 1 .. last : ini[n].init \in Tree
  BY <1>3 DEF InitType
<1>5. ASSUME NEW i \in Ids PROVE LookIn(s, i) \in 0 .. last
  <2>1. NoNode \in 0 .. last
    BY <1>1 DEF NoNode
  <2> QED
    BY <1>2, <2>1, LookDecides
<1>6. ASSUME NEW i \in Ids
      PROVE  (IF LookIn(s, i) = NoNode THEN NoValue ELSE wor[LookIn(s, i)]) \in Values
  <2>1. LookIn(s, i) # NoNode => LookIn(s, i) \in 1 .. last
    BY <1>1, <1>5 DEF NoNode
  <2> QED
    BY <1>3, <2>1 DEF Values
<1>7. EnvOf(s, wor) \in Envs
  BY <1>6, EnvOfIs DEF Envs
<1> QED
  BY <1>1, <1>2, <1>3, <1>4, <1>5, <1>7, EnvOfIs

\* A constant that is open before and after a step, in which no name is lost.
LEMMA ConstKept ==
    ASSUME NEW s, NEW last, NEW ini, NEW wor, Meant(s, last, ini, wor),
           NEW t, NEW ini2, NEW d \in 1 .. Len(s), NEW i \in Ids, t[d][i] = s[d][i],
           IsConst(s, ini, d, i), ini2[s[d][i]] = ini[s[d][i]],
           \A c \in 1 .. d : \A j \in Ids : s[c][j] # NoNode => t[c][j] # NoNode
    PROVE  NamesKept(t, ini2, d, i)
<1>1. s[d][i] \in 1 .. last
  BY MeantTypes DEF IsConst, NoNode
<1>2. Mentioned(ini[s[d][i]].init) \subseteq Ids
  BY <1>1, MeantTypes, MentionedIds
<1>3. NamesKept(s, ini, d, i)
  BY DEF Meant
<1> QED
  BY <1>2, <1>3 DEF NamesKept

LEMMA MeantLeave ==
    ASSUME NEW s, NEW last, NEW ini, NEW wor, Meant(s, last, ini, wor), Len(s) > 1
    PROVE  Meant(SubSeq(s, 1, Len(s) - 1), last, ini, wor)
<1> DEFINE t == SubSeq(s, 1, Len(s) - 1)
<1>1. /\ Len(s) \in Nat /\ last \in Nat /\ s \in Seq([Ids -> 0 .. last])
  BY MeantTypes DEF Meant
<1>2. /\ t \in Seq([Ids -> 0 .. last]) /\ Len(t) = Len(s) - 1
      /\ \A k \in 1 .. Len(s) - 1 : t[k] = s[k]
  BY <1>1, CutIs
<1> HIDE DEF t
<1>3. ASSUME NEW d \in 1 .. Len(t), NEW i \in Ids, IsConst(t, ini, d, i)
      PROVE  NamesKept(t, ini, d, i)
  <2>1. d \in 1 .. Len(s) /\ \A c \in 1 .. d : t[c] = s[c]
    <3>1. d \in 1 .. Len(s) - 1 /\ \A c \in 1 .. d : c \in 1 .. Len(s) - 1
      BY <1>1, <1>2
    <3> QED
      BY <1>1, <1>2, <3>1
  <2>2. t[d][i] = s[d][i] /\ IsConst(s, ini, d, i)
    BY <1>3, <2>1 DEF IsConst
  <2>3. \A c \in 1 .. d : \A j \in Ids : s[c][j] # NoNode => t[c][j] # NoNode
    BY <2>1
  <2> QED
    BY <2>1, <2>2, <2>3, ConstKept
<1> QED
  BY <1>2, <1>3 DEF Meant, t

\* Definitions that are no constants come behind the others.
Follows(ini2, wor2, more, ini, wor, last) ==
    /\ ini2 \in Seq(InitType) /\ wor2 \in Seq(Values)
    /\ Len(ini2) = last + more /\ Len(wor2) = last + more
    /\ \A n \in 1 .. last : ini2[n] = ini[n] /\ wor2[n] = wor[n]
    /\ \A n \in last + 1 .. last + more : ~ini2[n].isConst /\ wor2[n] = NoValue

LEMMA MeantEnter ==
    ASSUME NEW s, NEW last, NEW ini, NEW wor, Meant(s, last, ini, wor),
           NEW more \in Nat, NEW ini2, NEW wor2, Follows(ini2, wor2, more, ini, wor, last),
           NEW scope \in [Ids -> 0 .. last + more],
           \A i \in Ids : scope[i] # NoNode => scope[i] > last
    PROVE  Meant(Append(s, scope), last + more, ini2, wor2)
<1> DEFINE t == Append(s, scope)
           then == last + more
<1>1. /\ Len(s) \in Nat /\ last \in Nat /\ s \in Seq([Ids -> 0 .. last]) /\ then \in Nat
      /\ \A d \in 1 .. Len(s), i \in Ids : s[d][i] \in 0 .. last
      /\ DOMAIN ini = 1 .. last
  BY MeantTypes DEF Meant
<1>2. t \in Seq([Ids -> 0 .. then])
  <2>1. \A k \in 1 .. Len(s) : s[k] \in [Ids -> 0 .. last]
    BY <1>1
  <2>2. [Ids -> 0 .. last] \subseteq [Ids -> 0 .. then]
    BY <1>1
  <2>3. s \in Seq([Ids -> 0 .. then])
    BY <1>1, <2>1, <2>2
  <2> QED
    BY <2>3
<1>3. /\ Len(t) = Len(s) + 1 /\ t[Len(s) + 1] = scope
      /\ \A k \in 1 .. Len(s) : t[k] = s[k]
  BY <1>1
<1> HIDE DEF t
<1>4. /\ ini2 \in Seq(InitType) /\ wor2 \in Seq(Values)
      /\ Len(ini2) = then /\ Len(wor2) = then
      /\ DOMAIN ini2 = 1 .. then /\ \A n \in 1 .. then : wor2[n] \in Values
      /\ \A n \in 1 .. last : ini2[n] = ini[n] /\ wor2[n] = wor[n]
      /\ \A n \in last + 1 .. then : ~ini2[n].isConst /\ wor2[n] = NoValue
  BY <1>1 DEF Follows
<1> HIDE DEF then
<1>5. last <= then
  BY <1>1 DEF then
<1>6. Valued(ini2, wor2)
  <2>1. ASSUME NEW n \in 1 .. then PROVE wor2[n] # NoValue <=> ini2[n].isConst
    <3>1. n \in 1 .. last \/ n \in last + 1 .. then
      BY <1>1, <2>1
    <3>2. \A m \in 1 .. last : wor[m] # NoValue <=> ini[m].isConst
      BY <1>1 DEF Meant, Valued
    <3> QED
      BY <1>4, <3>1, <3>2
  <2> QED
    BY <1>4, <2>1 DEF Valued
<1>7. ASSUME NEW d \in 1 .. Len(t), NEW i \in Ids, IsConst(t, ini2, d, i)
      PROVE  NamesKept(t, ini2, d, i)
  <2>1. d # Len(s) + 1
    <3> SUFFICES ASSUME d = Len(s) + 1 PROVE FALSE
      OBVIOUS
    <3>1. scope[i] # NoNode /\ ini2[scope[i]].isConst
      BY <1>3, <1>7 DEF IsConst
    <3>2. scope[i] \in last + 1 .. then
      BY <1>1, <3>1 DEF then
    <3> QED
      BY <1>4, <3>1, <3>2
  <2>2. d \in 1 .. Len(s) /\ \A c \in 1 .. d : c \in 1 .. Len(s)
    BY <1>1, <1>3, <1>7, <2>1
  <2> DEFINE n == s[d][i]
  <2>3. t[d][i] = n /\ n # NoNode /\ n \in 0 .. last
    BY <1>1, <1>3, <1>7, <2>2 DEF IsConst
  <2>4. n \in 1 .. last
    BY <1>1, <2>3 DEF NoNode
  <2>5. ini2[n] = ini[n] /\ IsConst(s, ini, d, i)
    BY <1>4, <1>7, <2>3, <2>4 DEF IsConst
  <2>6. \A c \in 1 .. d : \A j \in Ids : s[c][j] # NoNode => t[c][j] # NoNode
    BY <1>3, <2>2
  <2> QED
    BY <2>2, <2>3, <2>5, <2>6, ConstKept
<1>8. Meant(t, then, ini2, wor2)
  BY <1>1, <1>2, <1>4, <1>6, <1>7 DEF Meant
<1> QED
  BY <1>8 DEF t, then

\* A definition in the innermost scope.
LEMMA MeantDeclare ==
    ASSUME NEW s, NEW last, NEW ini, NEW wor, Meant(s, last, ini, wor), Len(s) > 0,
           NEW x \in Ids, s[Len(s)][x] = NoNode,
           NEW c \in InitType, NEW v \in Values, v # NoValue <=> c.isConst,
           c.isConst => v = Worth(c.init, EnvOf(s, wor))
    PROVE  Meant([s EXCEPT ![Len(s)][x] = last + 1], last + 1, Append(ini, c), Append(wor, v))
<1> DEFINE t == [s EXCEPT ![Len(s)][x] = last + 1]
           D == Len(s)
           then == last + 1
           ini2 == Append(ini, c)
           wor2 == Append(wor, v)
<1>1. /\ D \in Nat /\ last \in Nat /\ s \in Seq([Ids -> 0 .. last]) /\ then \in Nat
      /\ \A d \in 1 .. D, i \in Ids : s[d][i] \in 0 .. last
      /\ D \in 1 .. D /\ then \notin 0 .. last /\ then # NoNode
      /\ ini \in Seq(InitType) /\ wor \in Seq(Values) /\ Len(ini) = last /\ Len(wor) = last
  BY MeantTypes DEF Meant, NoNode
<1>2. /\ Len(t) = D /\ t[D] = [s[D] EXCEPT ![x] = then]
      /\ \A k \in 1 .. D : k # D => t[k] = s[k]
  <2>1. t = [s EXCEPT ![D] = [s[D] EXCEPT ![x] = then]]
    OBVIOUS
  <2>2. D \in DOMAIN s /\ DOMAIN s = 1 .. D
    BY <1>1
  <2> DEFINE row == [s[D] EXCEPT ![x] = then]
  <2> HIDE DEF t, then, row
  <2>3. t = [s EXCEPT ![D] = row]
    BY <2>1 DEF row
  <2>4. t[D] = row /\ \A k \in 1 .. D : k # D => t[k] = s[k]
    BY <2>2, <2>3
  <2>5. Len(t) = Len(s)
    BY <1>1, <2>2, <2>3
  <2> QED
    BY <2>4, <2>5 DEF row
<1>3. \A k \in 1 .. D, i \in Ids : t[k][i] = IF k = D /\ i = x THEN then ELSE s[k][i]
  <2>1. s[D] \in [Ids -> 0 .. last]
    BY <1>1
  <2> HIDE DEF t
  <2> QED
    BY <1>2, <2>1
<1>4. t \in Seq([Ids -> 0 .. then])
  <2>1. \A k \in 1 .. D : s[k] \in [Ids -> 0 .. last]
    BY <1>1
  <2>2. [Ids -> 0 .. last] \subseteq [Ids -> 0 .. then]
    BY <1>1
  <2>3. then \in 0 .. then
    BY <1>1
  <2>4. s \in Seq([Ids -> 0 .. then])
    BY <1>1, <2>1, <2>2
  <2>5. [s[D] EXCEPT ![x] = then] \in [Ids -> 0 .. then]
    BY <1>1, <2>1, <2>2, <2>3
  <2>6. t = [s EXCEPT ![D] = [s[D] EXCEPT ![x] = then]]
    BY <1>1
  <2> HIDE DEF then, t
  <2> QED
    BY <1>1, <2>4, <2>5, <2>6
<1>5. /\ ini2 \in Seq(InitType) /\ wor2 \in Seq(Values)
      /\ Len(ini2) = then /\ Len(wor2) = then
      /\ DOMAIN ini2 = 1 .. then /\ \A n \in 1 .. then : wor2[n] \in Values
      /\ \A n \in 1 .. last : ini2[n] = ini[n] /\ wor2[n] = wor[n]
      /\ ini2[then] = c /\ wor2[then] = v
  BY <1>1
<1>6. \A n \in 1 .. then : n \in 1 .. last \/ n = then
  BY <1>1
<1> HIDE DEF t, ini2, wor2, then, D
<1>7. Valued(ini2, wor2)
  <2>1. \A m \in 1 .. last : wor[m] # NoValue <=> ini[m].isConst
    BY MeantTypes DEF Meant, Valued
  <2> QED
    BY <1>5, <1>6, <2>1 DEF Valued
<1>8. ASSUME NEW j \in Ids, NEW d \in 1 .. D PROVE s[d][j] # NoNode => t[d][j] # NoNode
  BY <1>1, <1>3, <1>8
<1>9. ASSUME NEW d \in 1 .. D, NEW i \in Ids, IsConst(t, ini2, d, i), t[d][i] # then
      PROVE  NamesKept(t, ini2, d, i)
  <2> DEFINE n == s[d][i]
  <2>1. t[d][i] = n /\ n # NoNode
    BY <1>3, <1>9 DEF IsConst
  <2>2. n \in 1 .. last
    BY <1>1, <2>1 DEF NoNode
  <2>3. ini2[n] = ini[n] /\ IsConst(s, ini, d, i)
    BY <1>5, <1>9, <2>1, <2>2 DEF IsConst
  <2>4. d \in 1 .. Len(s) /\ \A k \in 1 .. d : k \in 1 .. D
    BY <1>1 DEF D
  <2>5. \A k \in 1 .. d : \A j \in Ids : s[k][j] # NoNode => t[k][j] # NoNode
    BY <1>8, <2>4
  <2> QED
    BY <2>1, <2>3, <2>4, <2>5, ConstKept
<1>10. ASSUME NEW d \in 1 .. D, NEW i \in Ids, IsConst(t, ini2, d, i), t[d][i] = then
       PROVE  NamesKept(t, ini2, d, i)
  <2>1. d = D /\ i = x
    BY <1>1, <1>3, <1>10
  <2>2. c.isConst /\ c.init \in Tree
    BY <1>5, <1>10 DEF IsConst, InitType
  <2>3. v = Worth(c.init, EnvOf(s, wor)) /\ EnvOf(s, wor) \in Envs
    BY <2>2, MeantTypes
  <2>4. ASSUME NEW j \in Mentioned(c.init) PROVE \E k \in 1 .. D : s[k][j] # NoNode
    <3>1. j \in Ids /\ EnvOf(s, wor)[j] # NoValue
      BY <2>2, <2>3, <2>4, WorthNamed, MentionedIds
    <3>2. LookIn(s, j) # NoNode
      BY <3>1, EnvOfIs
    <3> QED
      BY <1>1, <3>2, LookDecides DEF D
  <2>5. ASSUME NEW j \in Mentioned(c.init) PROVE \E k \in 1 .. d : t[k][j] # NoNode
    <3>1. j \in Ids
      BY <2>2, <2>5, MentionedIds
    <3> QED
      BY <1>8, <2>1, <2>4, <2>5, <3>1
  <2> QED
    BY <1>5, <1>10, <2>5 DEF NamesKept
<1>11. Meant(t, then, ini2, wor2)
  BY <1>1, <1>2, <1>4, <1>5, <1>7, <1>9, <1>10 DEF Meant
<1> QED
  BY <1>11 DEF t, then, ini2, wor2

-----------------------------------------------------------------------------
(* The values of the globals *)

LEMMA Upwards ==
    ASSUME NEW n \in Nat, NEW S, 0 \in S, \A k \in 0 .. n - 1 : k \in S => k + 1 \in S
    PROVE  \A k \in 0 .. n : k \in S
<1> DEFINE T == {j \in 1 .. n + 1 : \A i \in 0 .. j - 1 : i \in S}
           m == Max(T)
<1>1. T \in SUBSET (1 .. n + 1) /\ 1 \in T /\ n + 1 \in Nat
  OBVIOUS
<1>2. m \in T /\ \A j \in T : j <= m
  <2> HIDE DEF T
  <2>1. T # {}
    BY <1>1
  <2> QED
    BY <1>1, <2>1, MaxIs
<1> HIDE DEF m
<1>3. m \in 1 .. n + 1 /\ \A i \in 0 .. m - 1 : i \in S
  BY <1>2
<1>4. m = n + 1
  <2> SUFFICES ASSUME m # n + 1 PROVE FALSE
    OBVIOUS
  <2>1. m - 1 \in 0 .. n - 1 /\ (m - 1) + 1 = m /\ m - 1 \in 0 .. m - 1
    BY <1>3
  <2>2. m \in S
    BY <1>3, <2>1
  <2>3. m + 1 \in 1 .. n + 1 /\ \A i \in 0 .. (m + 1) - 1 : i \in 0 .. m - 1 \/ i = m
    BY <1>3
  <2>4. m + 1 \in T
    BY <1>3, <2>2, <2>3
  <2>5. m + 1 <= m
    BY <1>2, <2>4
  <2> QED
    BY <1>3, <2>5
<1> QED
  BY <1>3, <1>4

NoValues == [i \in Ids |-> NoValue]
Gained(c, env) == IF c.isConst THEN Worth(c.init, env) ELSE NoValue
IsChain(w, file) ==
    w = [n \in 0 .. Len(file) |->
           IF n = 0 THEN NoValues
           ELSE [w[n - 1] EXCEPT ![GlobalSeq[n]] = Gained(file[n], w[n - 1])]]
Chain(file) == CHOOSE w : IsChain(w, file)

LEMMA EnvSet ==
    ASSUME NEW env \in Envs, NEW c \in InitType, NEW i
    PROVE  Gained(c, env) \in Values /\ [env EXCEPT ![i] = Gained(c, env)] \in Envs
<1>1. Gained(c, env) \in Values
  <2>1. c.init \in Tree
    BY DEF InitType
  <2>2. Worth(c.init, env) \in Values
    BY <2>1, WorthIs
  <2> QED
    BY <2>2 DEF Gained, Values
<1> DEFINE v == Gained(c, env)
<1> HIDE DEF v
<1>2. v \in Values
  BY <1>1 DEF v
<1>3. [env EXCEPT ![i] = v] \in Envs
  BY <1>2 DEF Envs
<1> QED
  BY <1>1, <1>3 DEF v

\* The first m links of a chain.
Links(w, m, file) ==
    /\ w \in [0 .. m -> Envs] /\ w[0] = NoValues
    /\ \A n \in 1 .. m : w[n] = [w[n - 1] EXCEPT ![GlobalSeq[n]] = Gained(file[n], w[n - 1])]

LEMMA ChainLonger ==
    ASSUME NEW file \in Seq(InitType), NEW m \in 0 .. Len(file) - 1, NEW w, Links(w, m, file)
    PROVE  \E v : Links(v, m + 1, file)
<1> DEFINE link == [w[m] EXCEPT ![GlobalSeq[m + 1]] = Gained(file[m + 1], w[m])]
           v == [n \in 0 .. m + 1 |-> IF n = m + 1 THEN link ELSE w[n]]
<1>1. Len(file) \in Nat /\ m \in Nat /\ m + 1 \in 1 .. Len(file) /\ file[m + 1] \in InitType
  OBVIOUS
<1>2. link \in Envs
  BY <1>1, EnvSet DEF Links
<1>3. \A n \in 0 .. m + 1 : n = m + 1 \/ n \in 0 .. m
  OBVIOUS
<1>4. v[m + 1] = link /\ \A n \in 0 .. m : v[n] = w[n]
  BY <1>1
<1>5. ASSUME NEW n \in 1 .. m + 1
      PROVE  v[n] = [v[n - 1] EXCEPT ![GlobalSeq[n]] = Gained(file[n], v[n - 1])]
  <2>1. CASE n = m + 1
    <3>1. n - 1 = m /\ m \in 0 .. m
      BY <1>1, <2>1
    <3> HIDE DEF v
    <3>2. v[n - 1] = w[m]
      BY <1>4, <3>1
    <3> QED
      BY <1>4, <2>1, <3>2
  <2>2. CASE n \in 1 .. m
    <3>1. n \in 0 .. m /\ n - 1 \in 0 .. m
      BY <2>2
    <3> HIDE DEF v
    <3> QED
      BY <1>4, <2>2, <3>1 DEF Links
  <2> QED
    BY <1>3, <1>5, <2>1, <2>2
<1> HIDE DEF link
<1>6. v \in [0 .. m + 1 -> Envs] /\ v[0] = NoValues
  <2>1. \A n \in 0 .. m : w[n] \in Envs
    BY DEF Links
  <2>2. 0 \in 0 .. m /\ w[0] = NoValues
    BY <1>1 DEF Links
  <2> QED
    BY <1>2, <1>3, <1>4, <2>1, <2>2
<1> HIDE DEF v
<1>7. Links(v, m + 1, file)
  BY <1>5, <1>6 DEF Links
<1> QED
  BY <1>7

LEMMA ChainIs ==
    ASSUME NEW file \in Seq(InitType)
    PROVE  /\ \A n \in 0 .. Len(file) : Chain(file)[n] \in Envs
           /\ Chain(file)[0] = NoValues
           /\ \A n \in 1 .. Len(file) : Chain(file)[n] =
                 [Chain(file)[n - 1] EXCEPT ![GlobalSeq[n]] = Gained(file[n], Chain(file)[n - 1])]
<1> DEFINE S == {m \in Nat : \E w : Links(w, m, file)}
           N == Len(file)
           w == Chain(file)
<1>1. N \in Nat
  OBVIOUS
<1>2. 0 \in S
  <2> DEFINE v == [n \in 0 .. 0 |-> NoValues]
  <2>1. Links(v, 0, file)
    BY DEF Links, NoValues, Envs, Values
  <2> QED
    BY <2>1
<1>3. \A m \in 0 .. N - 1 : m \in S => m + 1 \in S
  BY <1>1, ChainLonger
<1>4. N \in S
  <2> HIDE DEF S, N
  <2>1. \A k \in 0 .. N : k \in S
    BY <1>1, <1>2, <1>3, Upwards
  <2> QED
    BY <1>1, <2>1
<1>5. PICK v : Links(v, N, file)
  BY <1>4
<1>6. IsChain(v, file)
  <2>1. v = [n \in 0 .. N |-> v[n]]
    BY <1>5 DEF Links
  <2>2. ASSUME NEW n \in 0 .. N
        PROVE  v[n] = IF n = 0 THEN NoValues
                      ELSE [v[n - 1] EXCEPT ![GlobalSeq[n]] = Gained(file[n], v[n - 1])]
    <3>1. n # 0 => n \in 1 .. N
      BY <1>1
    <3> QED
      BY <1>5, <3>1 DEF Links
  <2> QED
    BY <2>1, <2>2 DEF IsChain
<1>7. IsChain(w, file)
  BY <1>6 DEF Chain
<1> HIDE DEF w
<1>8. w[0] = NoValues
  BY <1>1, <1>7 DEF IsChain
<1>9. ASSUME NEW n \in 1 .. N
      PROVE  w[n] = [w[n - 1] EXCEPT ![GlobalSeq[n]] = Gained(file[n], w[n - 1])]
  <2>1. n \in 0 .. N /\ n # 0
    BY <1>1
  <2>2. w = [k \in 0 .. N |->
               IF k = 0 THEN NoValues
               ELSE [w[k - 1] EXCEPT ![GlobalSeq[k]] = Gained(file[k], w[k - 1])]]
    BY <1>7 DEF IsChain
  <2> DEFINE link(k) == [w[k - 1] EXCEPT ![GlobalSeq[k]] = Gained(file[k], w[k - 1])]
  <2>3. w = [k \in 0 .. N |-> IF k = 0 THEN NoValues ELSE link(k)]
    BY <2>2
  <2> HIDE DEF link, N
  <2>4. w[n] = link(n)
    BY <2>1, <2>3
  <2> QED
    BY <2>4 DEF link
<1> DEFINE T == {m \in Nat : m \in 0 .. N => w[m] \in Envs}
<1>10. 0 \in T
  BY <1>8 DEF NoValues, Envs, Values
<1>11. \A m \in 0 .. N - 1 : m \in T => m + 1 \in T
  <2> SUFFICES ASSUME NEW m \in 0 .. N - 1, m \in T PROVE m + 1 \in T
    OBVIOUS
  <2>1. /\ m + 1 \in 1 .. N /\ (m + 1) - 1 = m /\ w[m] \in Envs /\ file[m + 1] \in InitType
        /\ m + 1 \in Nat
    BY <1>1
  <2>2. w[m + 1] = [w[m] EXCEPT ![GlobalSeq[m + 1]] = Gained(file[m + 1], w[m])]
    BY <1>9, <2>1
  <2>3. [w[m] EXCEPT ![GlobalSeq[m + 1]] = Gained(file[m + 1], w[m])] \in Envs
    BY <2>1, EnvSet
  <2>4. w[m + 1] \in Envs
    BY <2>2, <2>3, Zenon
  <2> QED
    BY <2>1, <2>4
<1>12. \A n \in 0 .. N : w[n] \in Envs
  <2> HIDE DEF N
  <2>1. \A k \in 0 .. N : k \in T
    <3> HIDE DEF T
    <3> QED
      BY <1>1, <1>10, <1>11, Upwards
  <2> QED
    BY <2>1
<1> QED
  BY <1>8, <1>9, <1>12 DEF w

\* Each global keeps the value it gets.
LEMMA ChainKeeps ==
    ASSUME NEW file \in Seq(InitType), Len(file) <= Len(GlobalSeq),
           NEW m \in 1 .. Len(file), NEW n \in m .. Len(file)
    PROVE  Chain(file)[n][GlobalSeq[m]] = Gained(file[m], Chain(file)[m - 1])
<1> DEFINE w == Chain(file)
           N == Len(file)
           i == GlobalSeq[m]
           v == Gained(file[m], w[m - 1])
           S == {k \in Nat : k \in m .. N => w[k][i] = v}
<1>1. /\ N \in Nat /\ m \in Nat /\ m \in 1 .. Len(GlobalSeq) /\ i \in Ids
      /\ \A k \in 1 .. N : k \in 1 .. Len(GlobalSeq)
  <2>1. Len(GlobalSeq) \in Nat
    BY GlobalsInOrder, ScopesAssumption
  <2>2. m \in 1 .. Len(GlobalSeq)
    BY <2>1
  <2>3. i \in GlobalIds
    BY <2>2, GlobalsInOrder
  <2> QED
    BY <2>1, <2>2, <2>3, ScopesAssumption
<1>2. /\ \A k \in 0 .. N : w[k] \in Envs
      /\ \A k \in 1 .. N : w[k] = [w[k - 1] EXCEPT ![GlobalSeq[k]] = Gained(file[k], w[k - 1])]
  BY ChainIs
<1> HIDE DEF w
<1>3. w[m][i] = v
  <2>1. m \in 1 .. N /\ m - 1 \in 0 .. N
    BY <1>1
  <2>2. w[m] = [w[m - 1] EXCEPT ![i] = v] /\ w[m - 1] \in Envs
    BY <1>2, <2>1
  <2> HIDE DEF i, v
  <2> QED
    BY <1>1, <2>2 DEF Envs
<1>4. \A k \in 0 .. N - 1 : k \in S => k + 1 \in S
  <2> SUFFICES ASSUME NEW k \in 0 .. N - 1, k \in S PROVE k + 1 \in S
    OBVIOUS
  <2>1. CASE k + 1 = m
    BY <1>3, <2>1
  <2>2. CASE k \in m .. N
    <3>1. w[k][i] = v /\ k + 1 \in 1 .. N /\ (k + 1) - 1 = k /\ k \in 0 .. N /\ k + 1 # m
      BY <1>1, <2>2
    <3>2. GlobalSeq[k + 1] # i
      BY <1>1, <3>1, GlobalsInOrder
    <3>3. w[k + 1] = [w[k] EXCEPT ![GlobalSeq[k + 1]] = Gained(file[k + 1], w[k])]
          /\ w[k] \in Envs
      BY <1>2, <3>1
    <3> HIDE DEF i, v
    <3>4. w[k + 1][i] = w[k][i]
      BY <1>1, <3>2, <3>3 DEF Envs
    <3> QED
      BY <3>1, <3>4
  <2>3. CASE k + 1 # m /\ k \notin m .. N
    <3>1. k + 1 \notin m .. N
      BY <1>1, <2>3
    <3> QED
      BY <3>1
  <2> QED
    BY <2>1, <2>2, <2>3
<1>5. 0 \in S
  BY <1>1
<1>6. \A k \in 0 .. N : k \in S
  <2> HIDE DEF S, N
  <2> QED
    BY <1>1, <1>4, <1>5, Upwards
<1>7. n \in 0 .. N /\ n \in m .. N
  BY <1>1
<1> QED
  BY <1>6, <1>7 DEF w

LEMMA GlobalWorthIs ==
    ASSUME NEW file
    PROVE  GlobalWorth(file) = [n \in DOMAIN file |-> Chain(file)[n][GlobalSeq[n]]]
  BY DEF GlobalWorth, Chain, IsChain, Gained, NoValues

LEMMA InitMeant ==
    FoldInit => /\ Meant(OpenScopes, Len(nodes), inits, worth)
                /\ Remembered(Len(nodes), inits, worth, meant)
<1> SUFFICES ASSUME FoldInit
             PROVE  /\ Meant(OpenScopes, Len(nodes), inits, worth)
                    /\ Remembered(Len(nodes), inits, worth, meant)
  OBVIOUS
<1> DEFINE N == Len(GlobalSeq)
           w == Chain(inits)
           s == <<File>>
<1>1. Init /\ N \in Nat /\ GlobalSeq \in Seq(GlobalIds) /\ DOMAIN GlobalSeq = 1 .. N
  BY GlobalsInOrder, ScopesAssumption DEF FoldInit
<1>2. OpenScopes = s /\ Len(nodes) = N /\ FileScope = File
  <2>1. func = NoFunction /\ GlobalsInv
    BY <1>1, InitGlobals DEF Init
  <2>2. nodes = [n \in 1 .. N |->
                   Node(GlobalSeq[n], Plain(GlobalSeq[n]), 0, 1, NoFunction)]
    BY <1>1 DEF Init
  <2>3. FileScope = File
    BY <2>1, FileScopeIs, GlobalsAre DEF GoodGlobals
  <2> QED
    BY <1>1, <2>1, <2>2, <2>3, OpenScopesAre
<1>3. inits \in [1 .. N -> InitType]
  <2>1. \A isConst \in BOOLEAN, init \in Inits \cup {NoExpr} : Initial(isConst, init) \in InitType
    BY FoldingAssumption DEF Initial, InitType, Tree
  <2>2. inits \in [1 .. N -> {Initial(isConst, init) : isConst \in BOOLEAN,
                                                       init \in Inits \cup {NoExpr}}]
    BY <1>1 DEF FoldInit
  <2> QED
    BY <2>1, <2>2
<1> HIDE DEF N
<1>4. inits \in Seq(InitType) /\ Len(inits) = N /\ DOMAIN inits = 1 .. N
  BY <1>1, <1>3
<1>5. ASSUME NEW n \in 1 .. N
       PROVE  Mentioned(inits[n].init) \subseteq {GlobalSeq[m] : m \in 1 .. n - 1}
  <2>1. \A k \in DOMAIN inits : Mentioned(inits[k].init) \subseteq {GlobalSeq[m] : m \in 1 .. k - 1}
    BY DEF FoldInit
  <2>2. n \in DOMAIN inits
    BY <1>4, <1>5
  <2> QED
    BY <2>1, <2>2, Zenon
<1>6. worth = [n \in 1 .. N |-> w[n][GlobalSeq[n]]]
  BY <1>4, GlobalWorthIs DEF FoldInit
<1>7. \A n \in 1 .. N : GlobalSeq[n] \in GlobalIds /\ GlobalSeq[n] \in Ids
  BY <1>1, ScopesAssumption DEF N
<1>8. /\ \A n \in 0 .. N : w[n] \in Envs
      /\ \A m \in 1 .. N : \A n \in m .. N : w[n][GlobalSeq[m]] = Gained(inits[m], w[m - 1])
  <2>1. \A n \in 0 .. N : w[n] \in Envs
    BY <1>4, ChainIs
  <2>2. Len(inits) <= Len(GlobalSeq)
    BY <1>1, <1>4 DEF N
  <2>3. ASSUME NEW m \in 1 .. N, NEW n \in m .. N
        PROVE  w[n][GlobalSeq[m]] = Gained(inits[m], w[m - 1])
    <3>1. m \in 1 .. Len(inits) /\ n \in m .. Len(inits)
      BY <1>4
    <3> QED
      BY <1>4, <2>2, <3>1, ChainKeeps
  <2> QED
    BY <2>1, <2>3
<1> HIDE DEF w
<1>9. \A n \in 1 .. N : worth[n] = Gained(inits[n], w[n - 1]) /\ worth[n] \in Values
  <2> SUFFICES ASSUME NEW n \in 1 .. N
               PROVE  worth[n] = Gained(inits[n], w[n - 1]) /\ worth[n] \in Values
    OBVIOUS
  <2>1. n \in n .. N /\ n \in 0 .. N
    BY <1>1
  <2>2. worth[n] = w[n][GlobalSeq[n]]
    BY <1>6
  <2>3. w[n][GlobalSeq[n]] = Gained(inits[n], w[n - 1])
    BY <1>8, <2>1
  <2>4. w[n] \in Envs
    BY <1>8, <2>1
  <2>5. w[n][GlobalSeq[n]] \in Values
    BY <1>7, <2>4 DEF Envs
  <2> QED
    BY <2>2, <2>3, <2>5
<1>10. worth \in Seq(Values) /\ Len(worth) = N
  <2>1. worth \in [1 .. N -> Values]
    BY <1>6, <1>9
  <2> QED
    BY <1>1, <2>1
<1>11. Valued(inits, worth)
  <2>1. \A n \in 1 .. N : inits[n].isConst => worth[n] # NoValue
    BY <1>4 DEF FoldInit
  <2>2. \A n \in 1 .. N : ~inits[n].isConst => worth[n] = NoValue
    BY <1>9 DEF Gained
  <2> QED
    BY <1>4, <2>1, <2>2 DEF Valued
<1>12. /\ s \in Seq([Ids -> 0 .. N]) /\ Len(s) = 1 /\ s[1] = File
       /\ \A i \in Ids : File[i] \in 0 .. N
  <2>1. \A i \in Ids : File[i] \in 0 .. N
    <3> SUFFICES ASSUME NEW i \in Ids PROVE File[i] \in 0 .. N
      OBVIOUS
    <3>1. i \in GlobalIds => File[i] \in 1 .. N
      BY FilePosition DEF N
    <3>2. i \notin GlobalIds => File[i] = 0
      BY DEF File, NoNode
    <3> QED
      BY <1>1, <3>1, <3>2
  <2>2. File \in [Ids -> 0 .. N]
    BY <2>1 DEF File
  <2> QED
    BY <2>1, <2>2
<1> HIDE DEF s
<1>13. ASSUME NEW n \in 1 .. N, NEW j \in Mentioned(inits[n].init)
       PROVE  j \in Ids /\ \E m \in 1 .. N : m < n /\ j = GlobalSeq[m] /\ File[j] = m
  <2>1. PICK m \in 1 .. n - 1 : j = GlobalSeq[m]
    BY <1>5, <1>13
  <2>2. m \in 1 .. N /\ m < n
    BY <1>1, <2>1
  <2>3. j \in Ids /\ File[j] = m
    BY <1>7, <2>1, <2>2, FilePosition DEF N
  <2> QED
    BY <2>1, <2>2, <2>3
<1>14. ASSUME NEW d \in 1 .. Len(s), NEW i \in Ids, IsConst(s, inits, d, i)
       PROVE  NamesKept(s, inits, d, i)
  <2> DEFINE n == s[d][i]
  <2>1. d = 1 /\ n # NoNode /\ n \in 0 .. N
    BY <1>12, <1>14 DEF IsConst
  <2>2. n \in 1 .. N
    BY <1>1, <2>1 DEF NoNode
  <2> HIDE DEF n
  <2>3. \A j \in Mentioned(inits[n].init) : s[1][j] # NoNode
    BY <1>12, <1>13, <2>2 DEF NoNode
  <2>4. 1 \in 1 .. d
    BY <2>1
  <2> QED
    BY <2>3, <2>4 DEF NamesKept, n
<1>15. Meant(s, N, inits, worth)
  BY <1>1, <1>4, <1>10, <1>11, <1>12, <1>14 DEF Meant
<1>16. File \in [Ids -> Nat] /\ (\A i \in Ids : File[i] <= N) /\ EnvAt(File, worth) \in Envs
  <2>1. File \in [Ids -> Nat] /\ \A i \in Ids : File[i] <= N
    BY <1>1, <1>12 DEF File
  <2> QED
    BY <1>1, <1>10, <2>1, EnvAtIs
<1>17. ASSUME NEW n \in 1 .. N, inits[n].isConst
       PROVE  worth[n] = Worth(inits[n].init, EnvAt(File, worth))
  <2> DEFINE init == inits[n].init
             env == w[n - 1]
             there == EnvAt(File, worth)
  <2>1. n - 1 \in 0 .. N /\ init \in Tree
    BY <1>1, <1>3 DEF InitType
  <2>2. ASSUME NEW j \in Mentioned(init) PROVE there[j] = env[j]
    <3>1. PICK m \in 1 .. N : m < n /\ j = GlobalSeq[m] /\ File[j] = m
      BY <1>13, <2>2
    <3>2. j \in Ids /\ n - 1 \in m .. N /\ m # NoNode
      BY <1>1, <1>13, <2>2, <3>1 DEF NoNode
    <3>3. there[j] = worth[m]
      BY <3>1, <3>2 DEF EnvAt
    <3>4. env[j] = worth[m]
      BY <1>8, <1>9, <3>1, <3>2
    <3> QED
      BY <3>3, <3>4
  <2>3. env \in Envs /\ there \in Envs
    BY <1>8, <1>16, <2>1
  <2>4. worth[n] = Worth(init, env)
    BY <1>9, <1>17 DEF Gained
  <2> HIDE DEF init, env, there
  <2>5. Worth(init, there) = Worth(init, env)
    BY <2>1, <2>2, <2>3, WorthSame
  <2> QED
    BY <2>4, <2>5 DEF init, there
<1>18. meant \in Seq([Ids -> Nat]) /\ Len(meant) = N /\ \A n \in 1 .. N : meant[n] = File
  <2>1. meant = [n \in 1 .. N |-> File]
    BY <1>2, <1>4 DEF FoldInit
  <2> HIDE DEF N
  <2>2. meant \in [1 .. N -> [Ids -> Nat]]
    BY <1>16, <2>1
  <2> QED
    BY <1>1, <2>1, <2>2
<1>19. Remembered(N, inits, worth, meant)
  BY <1>1, <1>4, <1>10, <1>16, <1>17, <1>18 DEF Remembered
<1> QED
  BY <1>2, <1>15, <1>19

-----------------------------------------------------------------------------
(* The calls of checkCompileTimeConstExpr *)

CallType == {c \in [expr : Tree, args : Seq(Int)] : Len(c.args) <= Len(c.expr.operands)}
OperandDue(c) == Len(c.args) < Len(c.expr.operands)

\* What the call k of the stack cs was made for, when d is folded.
Asked(cs, d, k) ==
    IF k = 1 THEN d.expr ELSE cs[k - 1].expr.operands[Len(cs[k - 1].args) + 1]

Stacked(cs, ans, d) ==
    /\ cs \in Seq(CallType) /\ d.expr \in Tree
    /\ ans = NoAnswer \/ ans \in Int \X BOOLEAN
    /\ d = Nothing => cs = <<>> /\ ans = NoAnswer
    /\ \A k \in 1 .. Len(cs) : (k < Len(cs) \/ ans # NoAnswer) => OperandDue(cs[k])

NamesIn(cs, found) == \A k \in 1 .. Len(cs) : Mentioned(cs[k].expr) \subseteq found

\* What a folding is seen with: the names that are declared and the values of all, whether
\* folding comes to no more than some names that are steady, these names, and whether no
\* parentheses, && and || are in what it comes to.
View(S) ==
    [found |-> FoundIn(OpenScopes), env |-> EnvOf(OpenScopes, worth),
     sure |-> ComesTo(S) /\ Steady(S), names |-> S, bare |-> Bare(S)]

\* A call folds an expression worth what it was made for, and its arguments are the
\* values of the operands.
Told(value, ans, bare) == IF ans[2] THEN ans[1] = value ELSE value = NoValue \/ ~bare
Worthy(c, v) ==
    /\ \A m \in 1 .. Len(c.args) : c.args[m] = Worth(c.expr.operands[m], v.env)
    /\ Mentioned(c.expr) \subseteq v.names /\ (v.bare => ~Refused(c.expr))
Faithful(cs, ans, d, v) ==
    /\ \A k \in 1 .. Len(cs) :
          Worth(cs[k].expr, v.env) = Worth(Asked(cs, d, k), v.env) /\ Worthy(cs[k], v)
    /\ ans # NoAnswer => Told(Worth(Asked(cs, d, Len(cs) + 1), v.env), ans, v.bare)

Good(cs, ans, d, v) ==
    Stacked(cs, ans, d) /\ NamesIn(cs, v.found) /\ (v.sure => Faithful(cs, ans, d, v))

LEMMA CallIs ==
    ASSUME NEW c \in CallType
    PROVE  /\ c.expr \in Tree /\ c.args \in Seq(Int) /\ Len(c.args) \in Nat
           /\ Len(c.args) <= Len(c.expr.operands) /\ Len(c.expr.operands) \in 0 .. 2
           /\ c = [expr |-> c.expr, args |-> c.args]
<1>1. /\ c \in [expr : Tree, args : Seq(Int)] /\ Len(c.args) <= Len(c.expr.operands)
  BY DEF CallType
<1>2. c.expr \in Tree /\ c.args \in Seq(Int)
  BY <1>1
<1> QED
  BY <1>1, <1>2, TreeIs

LEMMA CallMade ==
    ASSUME NEW e \in Tree, NEW args \in Seq(Int), Len(args) <= Len(e.operands)
    PROVE  [expr |-> e, args |-> args] \in CallType
  BY DEF CallType

LEMMA FrameOf ==
    ASSUME NEW e \in Tree
    PROVE  /\ Frame(e) \in CallType /\ Frame(e).expr = e
           /\ \A v : Mentioned(e) \subseteq v.names /\ (v.bare => ~Refused(e)) => Worthy(Frame(e), v)
<1>1. Frame(e) = [expr |-> e, args |-> <<>>]
  BY DEF Frame
<1>2. Len(e.operands) \in Nat /\ Len(<<>>) = 0 /\ <<>> \in Seq(Int)
  BY Operand
<1>3. Frame(e) \in CallType
  BY <1>1, <1>2 DEF CallType
<1>4. \A m \in 1 .. Len(Frame(e).args) : FALSE
  BY <1>1, <1>2
<1> QED
  BY <1>1, <1>3, <1>4 DEF Worthy

\* The calls but for the innermost.
LEMMA OuterCalls ==
    ASSUME NEW cs, NEW ans, NEW d, Stacked(cs, ans, d), cs # <<>>
    PROVE  /\ Len(cs) \in Nat \ {0} /\ Last(cs) \in CallType /\ Last(cs) = cs[Len(cs)]
           /\ Front(cs) \in Seq(CallType) /\ Len(Front(cs)) = Len(cs) - 1 /\ d # Nothing
           /\ \A k \in 1 .. Len(cs) - 1 : Front(cs)[k] = cs[k] /\ OperandDue(cs[k])
           /\ \A k \in 1 .. Len(cs) : Asked(Front(cs), d, k) = Asked(cs, d, k)
<1>1. cs \in Seq(CallType) /\ d # Nothing
  BY DEF Stacked
<1>2. Len(cs) \in Nat \ {0}
  BY <1>1
<1>3. /\ Front(cs) \in Seq(CallType) /\ Len(Front(cs)) = Len(cs) - 1
      /\ \A k \in 1 .. Len(cs) - 1 : Front(cs)[k] = cs[k]
      /\ Last(cs) \in CallType /\ Last(cs) = cs[Len(cs)]
  BY <1>1, FrontIs
<1>4. \A k \in 1 .. Len(cs) - 1 : OperandDue(cs[k])
  BY <1>2 DEF Stacked
<1>5. ASSUME NEW k \in 1 .. Len(cs) PROVE Asked(Front(cs), d, k) = Asked(cs, d, k)
  <2>1. k = 1 \/ (k # 1 /\ k - 1 \in 1 .. Len(cs) - 1)
    BY <1>2
  <2> QED
    BY <1>3, <2>1 DEF Asked
<1> QED
  BY <1>1, <1>2, <1>3, <1>4, <1>5

LEMMA GoodReturn ==
    ASSUME NEW cs, NEW ans, NEW d, NEW v, Good(cs, ans, d, v),
           cs # <<>>, NEW told \in Int \X BOOLEAN,
           v.sure => Told(Worth(Last(cs).expr, v.env), told, v.bare)
    PROVE  Good(Front(cs), told, d, v)
<1> DEFINE front == Front(cs)
           n == Len(cs)
<1>1. Stacked(cs, ans, d) /\ NamesIn(cs, v.found) /\ (v.sure => Faithful(cs, ans, d, v))
  BY DEF Good
<1>2. /\ n \in Nat \ {0} /\ front \in Seq(CallType) /\ Len(front) = n - 1 /\ d # Nothing
      /\ \A k \in 1 .. n - 1 : front[k] = cs[k] /\ OperandDue(cs[k])
      /\ \A k \in 1 .. n : Asked(front, d, k) = Asked(cs, d, k)
      /\ Last(cs) = cs[n]
  BY <1>1, OuterCalls
<1> HIDE DEF front
<1>3. Stacked(front, told, d)
  BY <1>1, <1>2 DEF Stacked
<1>4. NamesIn(front, v.found)
  BY <1>1, <1>2 DEF NamesIn
<1>5. ASSUME v.sure PROVE Faithful(front, told, d, v)
  <2>1. \A k \in 1 .. n - 1 :
           Worth(front[k].expr, v.env) = Worth(Asked(front, d, k), v.env) /\ Worthy(front[k], v)
    BY <1>1, <1>2, <1>5 DEF Faithful
  <2>2. Worth(cs[n].expr, v.env) = Worth(Asked(cs, d, n), v.env)
    BY <1>1, <1>2, <1>5 DEF Faithful
  <2>3. Asked(front, d, n) = Asked(cs, d, n) /\ Len(front) + 1 = n
    BY <1>2
  <2>4. Told(Worth(Asked(front, d, n), v.env), told, v.bare)
    BY <1>2, <1>5, <2>2, <2>3
  <2> QED
    BY <1>2, <2>1, <2>3, <2>4 DEF Faithful
<1> QED
  BY <1>3, <1>4, <1>5 DEF Good, front

\* The innermost call in another's place: for a constant, what it is defined with; for an
\* operation, the same with one more argument.
LEMMA GoodReplace ==
    ASSUME NEW cs, NEW ans, NEW d, NEW v, Good(cs, ans, d, v),
           cs # <<>>, NEW c \in CallType, Mentioned(c.expr) \subseteq v.found,
           v.sure => /\ Worth(c.expr, v.env) = Worth(Last(cs).expr, v.env)
                       /\ Worthy(c, v)
    PROVE  Good(Append(Front(cs), c), NoAnswer, d, v)
<1> DEFINE front == Front(cs)
           n == Len(cs)
           new == Append(front, c)
<1>1. Stacked(cs, ans, d) /\ NamesIn(cs, v.found) /\ (v.sure => Faithful(cs, ans, d, v))
  BY DEF Good
<1>2. /\ n \in Nat \ {0} /\ front \in Seq(CallType) /\ Len(front) = n - 1 /\ d # Nothing
      /\ \A k \in 1 .. n - 1 : front[k] = cs[k] /\ OperandDue(cs[k])
      /\ \A k \in 1 .. n : Asked(front, d, k) = Asked(cs, d, k)
      /\ Last(cs) = cs[n]
  BY <1>1, OuterCalls
<1> HIDE DEF front
<1>3. /\ new \in Seq(CallType) /\ Len(new) = n /\ new[n] = c
      /\ \A k \in 1 .. n - 1 : new[k] = cs[k] /\ OperandDue(new[k])
      /\ \A k \in 1 .. n : k \in 1 .. n - 1 \/ k = n
  BY <1>2
<1> HIDE DEF new
<1>4. \A k \in 1 .. n : Asked(new, d, k) = Asked(cs, d, k)
  <2> SUFFICES ASSUME NEW k \in 1 .. n PROVE Asked(new, d, k) = Asked(cs, d, k)
    OBVIOUS
  <2>1. k = 1 \/ (k # 1 /\ k - 1 \in 1 .. n - 1)
    BY <1>2
  <2> QED
    BY <1>3, <2>1 DEF Asked
<1>5. Stacked(new, NoAnswer, d)
  <2>1. \A k \in 1 .. n : k < n => k \in 1 .. n - 1
    BY <1>2
  <2> QED
    BY <1>1, <1>2, <1>3, <2>1 DEF Stacked
<1>6. NamesIn(new, v.found)
  BY <1>1, <1>2, <1>3 DEF NamesIn
<1>7. ASSUME v.sure PROVE Faithful(new, NoAnswer, d, v)
  <2>1. \A k \in 1 .. n :
           Worth(cs[k].expr, v.env) = Worth(Asked(cs, d, k), v.env) /\ Worthy(cs[k], v)
    BY <1>1, <1>7 DEF Faithful
  <2>2. Worth(c.expr, v.env) = Worth(cs[n].expr, v.env) /\ Worthy(c, v)
    BY <1>2, <1>7
  <2>3. ASSUME NEW k \in 1 .. n
        PROVE  Worth(new[k].expr, v.env) = Worth(Asked(new, d, k), v.env) /\ Worthy(new[k], v)
    BY <1>3, <1>4, <2>1, <2>2, <2>3
  <2> QED
    BY <1>3, <2>3 DEF Faithful
<1> QED
  BY <1>5, <1>6, <1>7 DEF Good, new, front

\* A call for an operand.
LEMMA GoodPush ==
    ASSUME NEW cs, NEW d, NEW v, Good(cs, NoAnswer, d, v),
           cs # <<>>, OperandDue(Last(cs)), NEW o, o = Last(cs).expr.operands[Len(Last(cs).args) + 1]
    PROVE  Good(Append(cs, Frame(o)), NoAnswer, d, v)
<1> DEFINE n == Len(cs)
           new == Append(cs, Frame(o))
<1>1. /\ Stacked(cs, NoAnswer, d) /\ NamesIn(cs, v.found)
      /\ v.sure => Faithful(cs, NoAnswer, d, v)
  BY DEF Good
<1>2. /\ n \in Nat \ {0} /\ cs \in Seq(CallType) /\ d # Nothing
      /\ \A k \in 1 .. n - 1 : OperandDue(cs[k])
      /\ Last(cs) = cs[n] /\ Last(cs) \in CallType
  BY <1>1, OuterCalls DEF Stacked
<1>3. /\ o \in Tree /\ Mentioned(o) \subseteq Mentioned(cs[n].expr)
      /\ Refused(o) => Refused(cs[n].expr)
  <2> DEFINE e == Last(cs).expr
             m == Len(Last(cs).args) + 1
  <2>1. e \in Tree /\ m \in DOMAIN e.operands
    <3>1. e \in Tree /\ Len(Last(cs).args) \in Nat /\ Len(Last(cs).args) < Len(e.operands)
      BY <1>2, CallIs DEF OperandDue
    <3>2. Len(e.operands) \in Nat /\ DOMAIN e.operands = 1 .. Len(e.operands)
      BY <3>1, Operand
    <3> QED
      BY <3>1, <3>2
  <2>2. o = e.operands[m] /\ e = cs[n].expr
    BY <1>2
  <2> HIDE DEF e, m
  <2> QED
    BY <2>1, <2>2, PartIs
<1>4. Frame(o) \in CallType /\ Frame(o).expr = o
  BY <1>3, FrameOf
<1>5. /\ new \in Seq(CallType) /\ Len(new) = n + 1 /\ new[n + 1] = Frame(o)
      /\ \A k \in 1 .. n : new[k] = cs[k]
      /\ \A k \in 1 .. n + 1 : k \in 1 .. n \/ k = n + 1
  BY <1>2, <1>4
<1> HIDE DEF new
<1>6. \A k \in 1 .. n : Asked(new, d, k) = Asked(cs, d, k)
  <2> SUFFICES ASSUME NEW k \in 1 .. n PROVE Asked(new, d, k) = Asked(cs, d, k)
    OBVIOUS
  <2>1. k = 1 \/ (k # 1 /\ k - 1 \in 1 .. n)
    BY <1>2
  <2> QED
    BY <1>5, <2>1 DEF Asked
<1>7. Asked(new, d, n + 1) = o
  <2>1. n + 1 # 1 /\ (n + 1) - 1 = n /\ n \in 1 .. n
    BY <1>2
  <2> QED
    BY <1>2, <1>5, <2>1 DEF Asked
<1>8. Stacked(new, NoAnswer, d)
  <2>1. \A k \in 1 .. n : OperandDue(new[k])
    <3>1. \A k \in 1 .. n : k \in 1 .. n - 1 \/ k = n
      BY <1>2
    <3> QED
      BY <1>2, <1>5, <3>1
  <2>2. \A k \in 1 .. n + 1 : k < n + 1 => k \in 1 .. n
    BY <1>2
  <2> QED
    BY <1>1, <1>2, <1>5, <2>1, <2>2 DEF Stacked
<1>9. NamesIn(new, v.found)
  <2>1. \A k \in 1 .. n : Mentioned(cs[k].expr) \subseteq v.found
    BY <1>1 DEF NamesIn
  <2>2. Mentioned(o) \subseteq v.found
    BY <1>2, <1>3, <2>1
  <2> QED
    BY <1>4, <1>5, <2>1, <2>2 DEF NamesIn
<1>10. ASSUME v.sure PROVE Faithful(new, NoAnswer, d, v)
  <2>1. \A k \in 1 .. n :
           Worth(cs[k].expr, v.env) = Worth(Asked(cs, d, k), v.env) /\ Worthy(cs[k], v)
    BY <1>1, <1>10 DEF Faithful
  <2>2. n \in 1 .. n
    BY <1>2
  <2>3. Mentioned(cs[n].expr) \subseteq v.names /\ (v.bare => ~Refused(cs[n].expr))
    BY <2>1, <2>2 DEF Worthy
  <2>4. Worthy(Frame(o), v)
    BY <1>3, <2>3, FrameOf
  <2>5. ASSUME NEW k \in 1 .. n + 1
        PROVE  Worth(new[k].expr, v.env) = Worth(Asked(new, d, k), v.env) /\ Worthy(new[k], v)
    BY <1>4, <1>5, <1>6, <1>7, <2>1, <2>4, <2>5
  <2> QED
    BY <1>5, <2>5 DEF Faithful
<1> QED
  BY <1>8, <1>9, <1>10 DEF Good, new

\* The caller goes on with the operand's value.
LEMMA GoodGain ==
    ASSUME NEW cs, NEW ans, NEW d, NEW v, Good(cs, ans, d, v),
           cs # <<>>, ans # NoAnswer, ans[2], NEW c,
           c = [Last(cs) EXCEPT !.args = Append(@, ans[1])]
    PROVE  Good(Append(Front(cs), c), NoAnswer, d, v)
<1> DEFINE top == Last(cs)
           n == Len(cs)
           m == Len(top.args)
<1>1. Stacked(cs, ans, d) /\ NamesIn(cs, v.found) /\ (v.sure => Faithful(cs, ans, d, v))
  BY DEF Good
<1>2. n \in Nat \ {0} /\ top \in CallType /\ top = cs[n] /\ OperandDue(top) /\ ans[1] \in Int
  <2>1. n \in Nat \ {0} /\ top \in CallType /\ top = cs[n]
    BY <1>1, OuterCalls
  <2>2. OperandDue(cs[n]) /\ ans[1] \in Int
    BY <1>1, <2>1 DEF Stacked
  <2> QED
    BY <2>1, <2>2
<1>3. /\ top.expr \in Tree /\ top.args \in Seq(Int) /\ m \in Nat
      /\ m < Len(top.expr.operands) /\ Len(top.expr.operands) \in 0 .. 2
      /\ top = [expr |-> top.expr, args |-> top.args]
  BY <1>2, CallIs DEF OperandDue
<1>4. c = [expr |-> top.expr, args |-> Append(top.args, ans[1])]
  BY <1>3
<1> DEFINE more == Append(top.args, ans[1])
<1>5. /\ more \in Seq(Int) /\ Len(more) = m + 1 /\ more[m + 1] = ans[1]
      /\ \A k \in 1 .. m : more[k] = top.args[k]
      /\ \A k \in 1 .. m + 1 : k \in 1 .. m \/ k = m + 1
  BY <1>2, <1>3
<1>6. c.expr = top.expr /\ c.args = more
  BY <1>4
<1> HIDE DEF more, top, m
<1>7. c \in CallType
  <2>1. c = [expr |-> top.expr, args |-> more]
    BY <1>4 DEF more
  <2>2. [expr |-> top.expr, args |-> more] \in CallType
    BY <1>3, <1>5, CallMade
  <2> QED
    BY <2>1, <2>2, Zenon
<1>8. Mentioned(c.expr) \subseteq v.found
  BY <1>1, <1>2, <1>6 DEF NamesIn
<1>9. ASSUME v.sure PROVE Worthy(c, v)
  <2>1. Worthy(cs[n], v) /\ Told(Worth(Asked(cs, d, n + 1), v.env), ans, v.bare)
    BY <1>1, <1>2, <1>9 DEF Faithful
  <2>2. Asked(cs, d, n + 1) = top.expr.operands[m + 1]
    <3>1. n + 1 # 1 /\ (n + 1) - 1 = n
      BY <1>2
    <3> QED
      BY <1>2, <3>1 DEF Asked, m
  <2>3. ans[1] = Worth(top.expr.operands[m + 1], v.env)
    BY <2>1, <2>2 DEF Told
  <2>4. \A k \in 1 .. m : top.args[k] = Worth(top.expr.operands[k], v.env)
    BY <1>2, <2>1 DEF Worthy, m
  <2>5. Mentioned(c.expr) \subseteq v.names /\ (v.bare => ~Refused(c.expr))
    BY <1>2, <1>6, <2>1 DEF Worthy
  <2> QED
    BY <1>5, <1>6, <2>3, <2>4, <2>5 DEF Worthy
<1>10. Worth(c.expr, v.env) = Worth(Last(cs).expr, v.env)
  BY <1>6 DEF top
<1> QED
  BY <1>7, <1>8, <1>9, <1>10, GoodReplace

\* An operation has no value if an operand has none, and is refused if an operand is.
LEMMA GoodPass ==
    ASSUME NEW cs, NEW ans, NEW d, NEW v, v.env \in Envs, Good(cs, ans, d, v),
           cs # <<>>, ans # NoAnswer, ~ans[2]
    PROVE  Good(Front(cs), ans, d, v)
<1> DEFINE top == Last(cs)
           n == Len(cs)
           m == Len(top.args)
<1>1. Stacked(cs, ans, d) /\ NamesIn(cs, v.found) /\ (v.sure => Faithful(cs, ans, d, v))
  BY DEF Good
<1>2. /\ n \in Nat \ {0} /\ top \in CallType /\ top = cs[n] /\ OperandDue(top)
      /\ ans \in Int \X BOOLEAN
  <2>1. n \in Nat \ {0} /\ top \in CallType /\ top = cs[n]
    BY <1>1, OuterCalls
  <2>2. OperandDue(cs[n]) /\ ans \in Int \X BOOLEAN
    BY <1>1, <2>1 DEF Stacked
  <2> QED
    BY <2>1, <2>2
<1>3. top.expr \in Tree /\ m + 1 \in DOMAIN top.expr.operands
  <2>1. top.expr \in Tree /\ m \in Nat /\ m < Len(top.expr.operands)
    BY <1>2, CallIs DEF OperandDue
  <2>2. Len(top.expr.operands) \in Nat /\ DOMAIN top.expr.operands = 1 .. Len(top.expr.operands)
    BY <2>1, Operand
  <2> QED
    BY <2>1, <2>2
<1> HIDE DEF top, m
<1>4. ASSUME v.sure, v.bare PROVE Worth(top.expr, v.env) = NoValue
  <2>1. Told(Worth(Asked(cs, d, n + 1), v.env), ans, v.bare)
    BY <1>1, <1>4 DEF Faithful
  <2>2. Asked(cs, d, n + 1) = top.expr.operands[m + 1]
    <3>1. n + 1 # 1 /\ (n + 1) - 1 = n
      BY <1>2
    <3> QED
      BY <1>2, <3>1 DEF Asked, m
  <2>3. Worth(top.expr.operands[m + 1], v.env) = NoValue
    BY <1>4, <2>1, <2>2 DEF Told
  <2> DEFINE args == [k \in DOMAIN top.expr.operands |-> Worth(top.expr.operands[k], v.env)]
  <2>4. Worth(top.expr, v.env) = Computed(top.expr, args)
    <3>1. top.expr.operands # <<>>
      BY <1>3
    <3> QED
      BY <1>3, <3>1, OperationIs
  <2>5. NoValue \in Range(args)
    BY <1>3, <2>3 DEF Range
  <2> QED
    BY <2>4, <2>5 DEF Computed
<1>5. v.sure => Told(Worth(Last(cs).expr, v.env), ans, v.bare)
  BY <1>4 DEF Told, top
<1> QED
  BY <1>2, <1>5, GoodReturn

-----------------------------------------------------------------------------
(* The invariant *)

Walking == Typed /\ Resolved /\ Walked /\ \A n \in DOMAIN nodes : nodes[n].size > 0

Settled ==
    /\ Meant(OpenScopes, Len(nodes), inits, worth)
    /\ Remembered(Len(nodes), inits, worth, meant)
    /\ values \in Seq(Int) /\ Len(values) <= Len(GlobalSeq)

\* The globals are folded before any function is walked, and have been found fit to fold.
GlobalsFold == InGlobals =>
    /\ func = NoFunction
    /\ \A n \in 1 .. Len(GlobalSeq) : Mentioned(inits[n].init) \subseteq GlobalIds

ArrayFolds == (due # Nothing /\ ~InGlobals) => due.id \in Ids

FoldInv ==
    /\ Walking /\ Settled /\ GlobalsFold /\ ArrayFolds
    /\ \A S \in SUBSET Ids : Good(calls, answer, due, View(S))

LEMMA ViewIs ==
    ASSUME NEW S
    PROVE  /\ View(S).found = FoundIn(OpenScopes) /\ View(S).env = EnvOf(OpenScopes, worth)
           /\ View(S).names = S /\ (View(S).sure <=> ComesTo(S) /\ Steady(S))
           /\ View(S).bare <=> Bare(S)
  BY DEF View

LEMMA ResolveIs ==
    ASSUME Typed, Resolved, NEW i \in FoundIn(OpenScopes)
    PROVE  i \in Ids /\ Resolve(i) = LookIn(OpenScopes, i)
<1>1. i \in Ids /\ LookIn(OpenScopes, i) # NoNode
  BY DEF FoundIn
<1>2. CASE func = NoFunction
  <2>1. OpenScopes = <<File>>
    BY <1>2, OpenScopesAre DEF Resolved
  <2>2. PICK d \in 1 .. 1 : File[i] # NoNode /\ LookIn(OpenScopes, i) = File[i]
    <3> DEFINE s == <<File>>
    <3>1. Len(s) = 1 /\ s[1] = File
      OBVIOUS
    <3> HIDE DEF s
    <3>2. LookIn(s, i) # NoNode
      BY <1>1, <2>1 DEF s
    <3>3. PICK d \in 1 .. Len(s) : s[d][i] # NoNode /\ LookIn(s, i) = s[d][i]
      BY <3>1, <3>2, LookDecides
    <3>4. d = 1
      BY <3>1
    <3> QED
      BY <2>1, <3>1, <3>3, <3>4 DEF s
  <2>3. i \in GlobalIds
    BY <1>1, <2>2 DEF File
  <2>4. ctl = <<>> /\ blockVars = <<>>
    BY <1>2, Outside DEF Typed, Shape
  <2>5. variables[i] = <<>>
    <3>1. Len(variables[i]) = Level(i, 0)
      BY <1>1, <2>4 DEF Resolved, StacksInv
    <3>2. Level(i, 0) = 0
      <4>1. {k \in 1 .. 0 : Listed(i, k)} = {}
        OBVIOUS
      <4> QED
        BY <4>1, FS_EmptySet DEF Level
    <3> QED
      BY <1>1, <3>1, <3>2, StackIs
  <2>6. globals[i] = File[i]
    <3>1. GoodGlobals(nodes, globals, func, recovers)
      BY GlobalsAre DEF Resolved
    <3> QED
      BY <1>2, <2>3, <3>1 DEF GoodGlobals
  <2> QED
    BY <1>1, <2>2, <2>5, <2>6 DEF Resolve
<1>3. CASE func # NoFunction
  <2>1. Lexical!Lookup(i) = LookIn(OpenScopes, i)
    BY LookupIn
  <2> QED
    BY <1>1, <1>3, <2>1, InnermostFound
<1> QED
  BY <1>1, <1>2, <1>3

\* What one step of the walk keeps.
LEMMA StepWalking ==
    ASSUME ~MayRedeclare, Walking, [WideNext]_vars
    PROVE  Walking'
<1>1. Typed' /\ Resolved' /\ Walked'
  BY StepTyped, StepResolved, StepWalked DEF Walking
<1>2. \/ \E f \in Funcs, params \in ParamLists : BeginFunction(f, params)
      \/ \E i \in Ids, size \in Nat \ {0} : Declare(i, size)
      \/ nodes' = nodes
  <2>1. EndFunction => nodes' = nodes
    BY DEF EndFunction, frame
  <2>2. UNCHANGED vars => nodes' = nodes
    BY DEF vars
  <2> QED
    BY <2>1, <2>2, WalkKeepsNodes DEF WideNext, WalkStep
<1>3. ASSUME NEW f \in Funcs, NEW params \in ParamLists, BeginFunction(f, params),
             NEW n \in DOMAIN nodes'
      PROVE  nodes'[n].size > 0
  <2>1. /\ DOMAIN nodes = 1 .. Len(nodes) /\ Len(nodes) \in Nat /\ Len(params) \in Nat
        /\ DOMAIN nodes' = 1 .. Len(nodes) + Len(params)
        /\ \A k \in 1 .. Len(nodes) : nodes'[k] = nodes[k]
        /\ \A k \in 1 .. Len(params) : nodes'[Len(nodes) + k].size = 1
    BY <1>3, BeginNodes DEF Walking
  <2>2. CASE n \in 1 .. Len(nodes)
    BY <2>1, <2>2 DEF Walking
  <2>3. CASE n \notin 1 .. Len(nodes)
    <3>1. n - Len(nodes) \in 1 .. Len(params) /\ n = Len(nodes) + (n - Len(nodes))
      BY <1>3, <2>1, <2>3
    <3> QED
      BY <2>1, <3>1
  <2> QED
    BY <2>2, <2>3
<1>4. ASSUME NEW i \in Ids, NEW size \in Nat \ {0}, Declare(i, size), NEW n \in DOMAIN nodes'
      PROVE  nodes'[n].size > 0
  <2>1. /\ DOMAIN nodes = 1 .. Len(nodes) /\ DOMAIN nodes' = 1 .. Len(nodes) + 1
        /\ \A k \in 1 .. Len(nodes) : nodes'[k] = nodes[k]
        /\ nodes'[Len(nodes) + 1].size = size /\ Len(nodes) \in Nat
    BY <1>4, DeclareNodes DEF Walking
  <2>2. n \in 1 .. Len(nodes) \/ n = Len(nodes) + 1
    BY <1>4, <2>1
  <2> QED
    BY <2>1, <2>2 DEF Walking
<1>5. nodes' = nodes => \A n \in DOMAIN nodes' : nodes'[n].size > 0
  BY DEF Walking
<1> QED
  BY <1>1, <1>2, <1>3, <1>4, <1>5 DEF Walking

-----------------------------------------------------------------------------
(* Folding *)

LEMMA FoldTypes ==
    ASSUME FoldInv
    PROVE  /\ Meant(OpenScopes, Len(nodes), inits, worth)
           /\ EnvOf(OpenScopes, worth) \in Envs /\ Stacked(calls, answer, due)
           /\ answer # NoAnswer => answer \in Int \X BOOLEAN
           /\ calls # <<>> => /\ Top \in CallType /\ Mentioned(Top.expr) \subseteq FoundIn(OpenScopes)
                              /\ Top.expr \in Tree /\ Top.args \in Seq(Int)
                              /\ due # Nothing
<1>1. /\ Meant(OpenScopes, Len(nodes), inits, worth) /\ Stacked(calls, answer, due)
      /\ NamesIn(calls, FoundIn(OpenScopes))
  <2>1. Good(calls, answer, due, View({}))
    BY DEF FoldInv
  <2> QED
    BY <2>1, ViewIs DEF FoldInv, Settled, Good
<1>2. EnvOf(OpenScopes, worth) \in Envs
  BY <1>1, MeantTypes
<1>3. answer # NoAnswer => answer \in Int \X BOOLEAN
  BY <1>1 DEF Stacked
<1>4. ASSUME calls # <<>>
      PROVE  /\ Top \in CallType /\ Mentioned(Top.expr) \subseteq FoundIn(OpenScopes)
             /\ due # Nothing
  <2>1. /\ Len(calls) \in Nat \ {0} /\ Last(calls) \in CallType
        /\ Last(calls) = calls[Len(calls)] /\ due # Nothing
    BY <1>1, <1>4, OuterCalls
  <2> QED
    BY <1>1, <2>1 DEF NamesIn, Top
<1> QED
  BY <1>1, <1>2, <1>3, <1>4, CallIs

\* Folding changes nothing but the calls.
LEMMA OnlyFolds ==
    ASSUME ~MayRedeclare, FoldInv, Elsewhere,
           \A S \in SUBSET Ids : Good(calls', answer', due, View(S))
    PROVE  FoldInv'
<1>1. /\ UNCHANGED vars /\ UNCHANGED <<inits, worth, meant>> /\ values' = values /\ due' = due
      /\ nodes' = nodes /\ func' = func
  BY DEF Elsewhere, constants, vars
<1>2. Walking'
  BY <1>1, StepWalking DEF FoldInv
<1>3. OpenScopes' = OpenScopes /\ Len(nodes') = Len(nodes)
  BY <1>1, SameScopes DEF vars
<1>4. Settled'
  BY <1>1, <1>3 DEF FoldInv, Settled
<1>5. GlobalsFold' /\ ArrayFolds'
  BY <1>1 DEF FoldInv, GlobalsFold, ArrayFolds, InGlobals
<1>6. \A S \in SUBSET Ids : View(S)' = View(S)
  <2>1. Meanings' = Meanings
    BY <1>3 DEF Meanings, Lexical!Lookup, Lexical!Depth
  <2>2. ASSUME NEW S \in SUBSET Ids
        PROVE  ComesTo(S)' = ComesTo(S) /\ Steady(S)' = Steady(S) /\ Bare(S)' = Bare(S)
    BY <1>1, <2>1 DEF ComesTo, Steady, Bare, ConstantHere, Definition
  <2> QED
    BY <1>1, <1>3, <2>2 DEF View
<1>7. \A S \in SUBSET Ids : Good(calls', answer', due', View(S)')
  BY <1>1, <1>6
<1> QED
  BY <1>2, <1>4, <1>5, <1>7 DEF FoldInv

\* The innermost call returns.
LEMMA CallReturns ==
    ASSUME ~MayRedeclare, FoldInv, Folds, NEW told \in Int \X BOOLEAN,
           calls' = Front(calls), answer' = told, Elsewhere,
           \A S \in SUBSET Ids : ComesTo(S) /\ Steady(S) =>
              Told(Worth(Top.expr, EnvOf(OpenScopes, worth)), told, Bare(S))
    PROVE  FoldInv'
<1>1. calls # <<>>
  BY DEF Folds
<1>2. ASSUME NEW S \in SUBSET Ids PROVE Good(calls', answer', due, View(S))
  <2> DEFINE v == View(S)
  <2>1. Good(calls, answer, due, v)
    BY DEF FoldInv
  <2>2. v.sure => Told(Worth(Last(calls).expr, v.env), told, v.bare)
    BY ViewIs DEF Told, Top
  <2> HIDE DEF v
  <2>3. Good(Front(calls), told, due, v)
    BY <1>1, <2>1, <2>2, GoodReturn
  <2> QED
    BY <2>3 DEF v
<1> QED
  BY <1>2, OnlyFolds

LEMMA FoldReturns ==
    ASSUME ~MayRedeclare, FoldInv, Folds, NEW value \in Int, Returns(value, TRUE), Elsewhere,
           \A S \in SUBSET Ids : ComesTo(S) /\ Steady(S) =>
              value = Worth(Top.expr, EnvOf(OpenScopes, worth))
    PROVE  FoldInv'
<1> DEFINE told == <<value, TRUE>>
<1>1. calls' = Front(calls) /\ answer' = told
  BY DEF Returns
<1>2. told \in Int \X BOOLEAN /\ told[1] = value /\ told[2] = TRUE
  OBVIOUS
<1> HIDE DEF told
<1>3. \A S \in SUBSET Ids : ComesTo(S) /\ Steady(S) =>
         Told(Worth(Top.expr, EnvOf(OpenScopes, worth)), told, Bare(S))
  BY <1>2 DEF Told
<1> QED
  BY <1>1, <1>2, <1>3, CallReturns

LEMMA FoldFails ==
    ASSUME ~MayRedeclare, FoldInv, Folds, Returns(0, FALSE), Elsewhere,
           \A S \in SUBSET Ids : ComesTo(S) /\ Steady(S) =>
              Worth(Top.expr, EnvOf(OpenScopes, worth)) = NoValue \/ ~Bare(S)
    PROVE  FoldInv'
<1> DEFINE told == <<0, FALSE>>
<1>1. calls' = Front(calls) /\ answer' = told
  BY DEF Returns
<1>2. told \in Int \X BOOLEAN /\ ~told[2]
  <2>1. 0 \in Int /\ FALSE \in BOOLEAN
    OBVIOUS
  <2> QED
    BY <2>1, Zenon
<1> HIDE DEF told
<1>3. \A S \in SUBSET Ids : ComesTo(S) /\ Steady(S) =>
         Told(Worth(Top.expr, EnvOf(OpenScopes, worth)), told, Bare(S))
  BY <1>2 DEF Told
<1> QED
  BY <1>1, <1>2, <1>3, CallReturns

LEMMA TopIs ==
    ASSUME FoldInv, calls # <<>>, NEW S \in SUBSET Ids, ComesTo(S), Steady(S)
    PROVE  /\ Mentioned(Top.expr) \subseteq S /\ (Bare(S) => ~Refused(Top.expr))
           /\ \A m \in 1 .. Len(Top.args) :
                 Top.args[m] = Worth(Top.expr.operands[m], EnvOf(OpenScopes, worth))
<1>1. Good(calls, answer, due, View(S)) /\ Stacked(calls, answer, due)
  BY FoldTypes DEF FoldInv
<1>2. Faithful(calls, answer, due, View(S))
  BY <1>1, ViewIs DEF Good
<1>3. Len(calls) \in Nat \ {0} /\ Last(calls) = calls[Len(calls)]
  BY <1>1, OuterCalls
<1>4. Worthy(Top, View(S))
  BY <1>2, <1>3 DEF Faithful, Top
<1> QED
  BY <1>4, ViewIs DEF Worthy

LEMMA LiteralFolds == ASSUME ~MayRedeclare, FoldInv, FoldLiteral PROVE FoldInv'
<1>1. Folds /\ calls # <<>> /\ Top.expr.kind = "literal" /\ Returns(Top.expr.num, TRUE) /\ Elsewhere
  BY DEF FoldLiteral, Folds
<1>2. Top.expr \in Tree /\ EnvOf(OpenScopes, worth) \in Envs
  BY <1>1, FoldTypes
<1>3. Top.expr.num \in Int /\ Worth(Top.expr, EnvOf(OpenScopes, worth)) = Top.expr.num
  BY <1>1, <1>2, TreeIs, LeafIs
<1> DEFINE num == Top.expr.num
<1>4. num \in Int /\ Returns(num, TRUE) /\ num = Worth(Top.expr, EnvOf(OpenScopes, worth))
  BY <1>1, <1>3
<1> HIDE DEF num
<1> QED
  BY <1>1, <1>4, FoldReturns

LEMMA OtherFolds == ASSUME ~MayRedeclare, FoldInv, FoldOther PROVE FoldInv'
<1>1. /\ Folds /\ calls # <<>> /\ Top.expr.kind \in {"other", "paren", "none"}
      /\ Returns(0, FALSE) /\ Elsewhere
  BY DEF FoldOther, Folds
<1>2. Top.expr \in Tree /\ EnvOf(OpenScopes, worth) \in Envs
  BY <1>1, FoldTypes
<1>3. Top.expr.kind # "paren" => Worth(Top.expr, EnvOf(OpenScopes, worth)) = NoValue
  BY <1>1, <1>2, LeafIs
<1>4. Top.expr.kind = "paren" => Refused(Top.expr)
  BY <1>2, RefusedIs
<1>5. \A S \in SUBSET Ids : ComesTo(S) /\ Steady(S) => (Bare(S) => ~Refused(Top.expr))
  BY <1>1, TopIs
<1> QED
  BY <1>1, <1>3, <1>4, <1>5, FoldFails

\* A name that is found is a constant with its value, or is none.
LEMMA FoundName ==
    ASSUME FoldInv, NEW i \in FoundIn(OpenScopes)
    PROVE  LET n == LookIn(OpenScopes, i)
           IN  /\ n \in 1 .. Len(nodes) /\ EnvOf(OpenScopes, worth)[i] = worth[n]
               /\ ~inits[n].isConst => worth[n] = NoValue
               /\ inits[n].isConst =>
                     /\ inits[n].init \in Tree /\ ConstantHere(i)
                     /\ Definition(i) = inits[n].init
                     /\ Mentioned(inits[n].init) \subseteq FoundIn(OpenScopes)
<1> DEFINE s == OpenScopes
           n == LookIn(s, i)
           last == Len(nodes)
<1>1. Meant(s, last, inits, worth) /\ i \in Ids /\ n # NoNode
  BY FoldTypes DEF FoundIn
<1>2. Meanings[i] = n
  BY <1>1, LookupIn DEF MeansIn
<1> HIDE DEF s, last
<1>3. /\ last \in Nat /\ Len(s) \in Nat /\ n \in 0 .. last
      /\ DOMAIN inits = 1 .. last
      /\ \A k \in 1 .. last : inits[k].init \in Tree
      /\ EnvOf(s, worth)[i] = IF n = NoNode THEN NoValue ELSE worth[n]
  BY <1>1, MeantTypes
<1>4. n \in 1 .. last /\ EnvOf(s, worth)[i] = worth[n]
  BY <1>1, <1>3 DEF NoNode
<1>5. ~inits[n].isConst => worth[n] = NoValue
  BY <1>1, <1>3, <1>4 DEF Meant, Valued
<1>6. PICK d \in 1 .. Len(s) : s[d][i] # NoNode /\ n = s[d][i]
  BY <1>1, <1>3, LookDecides
<1>7. ASSUME inits[n].isConst PROVE Mentioned(inits[n].init) \subseteq FoundIn(s)
  <2>1. IsConst(s, inits, d, i)
    BY <1>6, <1>7 DEF IsConst
  <2>2. NamesKept(s, inits, d, i)
    BY <1>1, <2>1 DEF Meant
  <2>3. ASSUME NEW j \in Mentioned(inits[n].init) PROVE j \in FoundIn(s)
    <3>1. PICK c \in 1 .. d : s[c][j] # NoNode
      BY <1>6, <2>2, <2>3 DEF NamesKept
    <3>2. c \in 1 .. Len(s) /\ j \in Ids
      BY <1>3, <1>4, <2>3, MentionedIds
    <3>3. LookIn(s, j) # NoNode
      BY <1>3, <3>1, <3>2, LookFound
    <3> QED
      BY <3>2, <3>3 DEF FoundIn
  <2> QED
    BY <2>3
<1>8. inits[n].isConst => ConstantHere(i) /\ Definition(i) = inits[n].init
  BY <1>1, <1>2 DEF ConstantHere, Definition
<1> QED
  BY <1>3, <1>4, <1>5, <1>7, <1>8 DEF s, last

\* The initial value of a constant is worth here what it is worth where it stands, if its
\* names mean the same.
LEMMA SteadyWorth ==
    ASSUME FoldInv, NEW i \in Ids, ConstantHere(i), LookIn(OpenScopes, i) = Meanings[i],
           Meanings[i] \in 1 .. Len(nodes),
           \A j \in Mentioned(Definition(i)) : Meanings[j] = meant[Meanings[i]][j]
    PROVE  worth[Meanings[i]] = Worth(Definition(i), EnvOf(OpenScopes, worth))
<1> DEFINE n == Meanings[i]
           last == Len(nodes)
           init == inits[n].init
           there == EnvAt(meant[n], worth)
           here == EnvOf(OpenScopes, worth)
<1>1. Remembered(last, inits, worth, meant) /\ Definition(i) = init /\ inits[n].isConst
  BY DEF FoldInv, Settled, Definition, ConstantHere
<1>2. /\ last \in Nat /\ worth \in Seq(Values) /\ Len(worth) = last
      /\ meant[n] \in [Ids -> Nat] /\ \A j \in Ids : meant[n][j] <= last
      /\ worth[n] = Worth(init, there)
  BY <1>1 DEF Remembered
<1>3. init \in Tree /\ here \in Envs
  BY FoldTypes, MeantTypes
<1>4. there \in Envs
  BY <1>2, EnvAtIs
<1>5. ASSUME NEW j \in Mentioned(init) PROVE here[j] = there[j]
  <2>1. j \in Ids /\ Meanings[j] = meant[n][j]
    BY <1>1, <1>3, <1>5, MentionedIds
  <2>2. here = EnvAt(Meanings, worth)
    BY LookupIn DEF EnvOf
  <2> QED
    BY <2>1, <2>2 DEF EnvAt
<1> HIDE DEF n, init, there, here
<1>6. Worth(init, here) = Worth(init, there)
  BY <1>3, <1>4, <1>5, WorthSame
<1> QED
  BY <1>1, <1>2, <1>6 DEF n, here

LEMMA NameFolds == ASSUME ~MayRedeclare, FoldInv, FoldName PROVE FoldInv'
<1> DEFINE i == Top.expr.name
           n == Resolve(i)
           env == EnvOf(OpenScopes, worth)
<1>1. Folds /\ calls # <<>> /\ answer = NoAnswer /\ Top.expr.kind = "name" /\ Elsewhere
  BY DEF FoldName, Folds
<1>2. /\ Top.expr \in Tree /\ env \in Envs /\ Mentioned(Top.expr) \subseteq FoundIn(OpenScopes)
  BY <1>1, FoldTypes
<1>3. i \in FoundIn(OpenScopes) /\ Worth(Top.expr, env) = env[i] /\ Mentioned(Top.expr) = {i}
  BY <1>1, <1>2, LeafIs
<1>4. n = LookIn(OpenScopes, i) /\ i \in Ids
  BY <1>3, ResolveIs DEF FoldInv, Walking
<1>5. \/ inits[n].isConst /\ calls' = Append(Front(calls), Frame(inits[n].init)) /\ answer' = answer
      \/ ~inits[n].isConst /\ Returns(0, FALSE)
  BY DEF FoldName, IsConstant
<1> HIDE DEF i, n
<1>6. CASE ~inits[n].isConst
  <2>1. Worth(Top.expr, env) = NoValue
    BY <1>3, <1>4, <1>6, FoundName
  <2>2. Returns(0, FALSE)
    BY <1>5, <1>6
  <2> QED
    BY <1>1, <2>1, <2>2, FoldFails
<1>7. CASE inits[n].isConst
  <2> DEFINE init == inits[n].init
             c == Frame(init)
  <2>1. /\ init \in Tree /\ Mentioned(init) \subseteq FoundIn(OpenScopes)
        /\ ConstantHere(i) /\ Definition(i) = init /\ n \in 1 .. Len(nodes) /\ env[i] = worth[n]
    BY <1>3, <1>4, <1>7, FoundName
  <2>2. calls' = Append(Front(calls), c) /\ answer' = NoAnswer
    BY <1>1, <1>5, <1>7
  <2>3. Meanings[i] = n
    BY <1>4, LookupIn DEF MeansIn
  <2> HIDE DEF init
  <2>4. c \in CallType /\ c.expr = init
    BY <2>1, FrameOf
  <2>5. ASSUME NEW S \in SUBSET Ids, ComesTo(S), Steady(S)
        PROVE  /\ Worth(init, env) = Worth(Top.expr, env)
               /\ Mentioned(init) \subseteq S /\ (Bare(S) => ~Refused(init))
    <3>1. i \in S
      BY <1>1, <1>3, <2>5, TopIs
    <3>2. Mentioned(init) \subseteq S /\ (Bare(S) => ~Refused(init))
      BY <2>1, <2>5, <3>1 DEF ComesTo, Bare
    <3>3. \A j \in Mentioned(init) : Meanings[j] = meant[n][j]
      BY <2>1, <2>3, <2>5, <3>1 DEF Steady
    <3>4. worth[n] = Worth(init, env)
      BY <1>4, <2>1, <2>3, <3>3, SteadyWorth
    <3> QED
      BY <1>3, <2>1, <3>2, <3>4
  <2>6. ASSUME NEW S \in SUBSET Ids PROVE Good(calls', answer', due, View(S))
    <3> DEFINE v == View(S)
    <3>1. Good(calls, answer, due, v)
      BY DEF FoldInv
    <3>2. Mentioned(c.expr) \subseteq v.found
      BY <2>1, <2>4, ViewIs
    <3>3. v.sure => Mentioned(init) \subseteq v.names /\ (v.bare => ~Refused(init))
      BY <2>5, ViewIs
    <3>4. v.sure => Worthy(c, v)
      BY <2>1, <3>3, FrameOf
    <3>5. v.sure => Worth(c.expr, v.env) = Worth(Last(calls).expr, v.env)
      BY <2>4, <2>5, ViewIs DEF Top
    <3> HIDE DEF v, c
    <3>6. Good(Append(Front(calls), c), NoAnswer, due, v)
      BY <1>1, <2>4, <3>1, <3>2, <3>4, <3>5, GoodReplace
    <3> QED
      BY <2>2, <3>6 DEF v
  <2> QED
    BY <1>1, <2>6, OnlyFolds
<1> QED
  BY <1>6, <1>7

LEMMA OperandFolds == ASSUME ~MayRedeclare, FoldInv, FoldOperand PROVE FoldInv'
<1> DEFINE o == Last(calls).expr.operands[Len(Last(calls).args) + 1]
<1>1. /\ calls # <<>> /\ answer = NoAnswer /\ OperandDue(Last(calls)) /\ Elsewhere
      /\ calls' = Append(calls, Frame(o)) /\ answer' = NoAnswer
  BY DEF FoldOperand, Folds, OperandDue, Top
<1> HIDE DEF o
<1>2. \A S \in SUBSET Ids : Good(calls, NoAnswer, due, View(S))
  BY <1>1 DEF FoldInv
<1>3. \A S \in SUBSET Ids : Good(Append(calls, Frame(o)), NoAnswer, due, View(S))
  BY <1>1, <1>2, GoodPush DEF o
<1> QED
  BY <1>1, <1>3, OnlyFolds

LEMMA OperationFolds == ASSUME ~MayRedeclare, FoldInv, FoldOperation PROVE FoldInv'
<1> DEFINE e == Top.expr
           name == e.name
           args == Top.args
           env == EnvOf(OpenScopes, worth)
           worths == [k \in DOMAIN e.operands |-> Worth(e.operands[k], env)]
<1>1. /\ Folds /\ calls # <<>> /\ e.kind \in {"unary", "binary"} /\ Len(args) = Len(e.operands)
      /\ Defined(name, args) /\ Elsewhere
      /\ IF name \in DOMAIN Table(args) THEN Returns(Table(args)[name], TRUE) ELSE Returns(0, FALSE)
  BY DEF FoldOperation, Folds
<1>2. e \in Tree /\ args \in Seq(Int) /\ env \in Envs
  BY <1>1, FoldTypes
<1>3. Len(args) \in 1 .. 2 /\ e.operands # <<>> /\ (Len(args) = 2 => e.kind = "binary")
  <2>1. /\ e.kind = "unary" => Len(e.operands) = 1
        /\ e.kind = "binary" => Len(e.operands) = 2
    BY <1>2, TreeIs
  <2>2. Len(e.operands) \in 1 .. 2 /\ (Len(e.operands) = 2 => e.kind = "binary")
    BY <1>1, <2>1
  <2>3. e.operands # <<>>
    <3> HIDE DEF e
    <3>1. Len(<<>>) = 0
      OBVIOUS
    <3> QED
      BY <2>2, <3>1
  <2> QED
    BY <1>1, <2>2, <2>3
<1>4. ASSUME NEW S \in SUBSET Ids, ComesTo(S), Steady(S)
      PROVE  Worth(e, env) = Computed(e, args) /\ (Bare(S) => ~Refused(e))
  <2>1. /\ \A k \in 1 .. Len(args) : args[k] = Worth(e.operands[k], env)
        /\ Bare(S) => ~Refused(e)
    BY <1>1, <1>4, TopIs
  <2>2. DOMAIN e.operands = 1 .. Len(args) /\ args = [k \in 1 .. Len(args) |-> args[k]]
    BY <1>1, <1>2, Operand
  <2>3. args = worths
    <3> HIDE DEF e, args, env
    <3> QED
      BY <2>1, <2>2
  <2>4. Worth(e, env) = Computed(e, worths)
    BY <1>2, <1>3, OperationIs
  <2> QED
    BY <2>1, <2>3, <2>4
<1>5. e.kind = "binary" /\ name \in {"&&", "||"} => Refused(e)
  BY <1>2, RefusedIs
<1>6. e.kind # "paren"
  BY <1>1
<1>7. Computed(e, args) = IF NoValue \in Range(args) THEN NoValue ELSE ValueOf(name, args)
  BY <1>6 DEF Computed
<1> HIDE DEF args, e, name, env, worths
<1>8. NoValue \notin Range(args)
  <2>1. \A k \in DOMAIN args : args[k] \in Int
    BY <1>2
  <2>2. NoValue \notin Int
    BY FoldingAssumption, Zenon
  <2> QED
    BY <2>1, <2>2 DEF Range
<1>9. CASE name \in DOMAIN Table(args)
  <2> DEFINE value == Table(args)[name]
  <2>1. value \in Int
    BY <1>1, <1>2, <1>3, <1>9, TableIs
  <2>2. ValueOf(name, args) = value
    BY <1>1, <1>9 DEF ValueOf
  <2>3. Returns(value, TRUE)
    BY <1>1, <1>9
  <2> HIDE DEF value
  <2>4. \A S \in SUBSET Ids : ComesTo(S) /\ Steady(S) =>
           value = Worth(Top.expr, EnvOf(OpenScopes, worth))
    BY <1>4, <1>7, <1>8, <2>2 DEF e, env
  <2> QED
    BY <1>1, <2>1, <2>3, <2>4, FoldReturns
<1>10. CASE name \notin DOMAIN Table(args)
  <2>1. ValueOf(name, args) = NoValue \/ Refused(e)
    <3>1. ValueOf(name, args) = IF Len(args) = 2 /\ name \in {"&&", "||"}
                                THEN LogicalValues(args[1], args[2])[name] ELSE NoValue
      BY <1>10 DEF ValueOf
    <3> QED
      BY <1>3, <1>5, <3>1
  <2>2. \A S \in SUBSET Ids : ComesTo(S) /\ Steady(S) =>
           Worth(Top.expr, EnvOf(OpenScopes, worth)) = NoValue \/ ~Bare(S)
    BY <1>4, <1>7, <1>8, <2>1 DEF e, env
  <2>3. Returns(0, FALSE)
    BY <1>1, <1>10
  <2> QED
    BY <1>1, <2>2, <2>3, FoldFails
<1> QED
  BY <1>9, <1>10

LEMMA ReturnedFolds == ASSUME ~MayRedeclare, FoldInv, Returned PROVE FoldInv'
<1> DEFINE c == [Last(calls) EXCEPT !.args = Append(@, answer[1])]
<1>1. /\ calls # <<>> /\ answer # NoAnswer /\ Elsewhere
      /\ \/ answer[2] /\ answer' = NoAnswer /\ calls' = Append(Front(calls), c)
         \/ ~answer[2] /\ answer' = answer /\ calls' = Front(calls)
  BY DEF Returned, Top
<1>2. ASSUME NEW S \in SUBSET Ids
      PROVE  Good(calls, answer, due, View(S)) /\ View(S).env \in Envs
  BY FoldTypes, ViewIs DEF FoldInv
<1> HIDE DEF c
<1>3. CASE answer[2] /\ answer' = NoAnswer /\ calls' = Append(Front(calls), c)
  <2>1. ASSUME NEW S \in SUBSET Ids
        PROVE  Good(Append(Front(calls), c), NoAnswer, due, View(S))
    BY <1>1, <1>2, <1>3, GoodGain DEF c
  <2> QED
    BY <1>1, <1>3, <2>1, OnlyFolds
<1>4. CASE ~answer[2] /\ answer' = answer /\ calls' = Front(calls)
  <2>1. ASSUME NEW S \in SUBSET Ids PROVE Good(Front(calls), answer, due, View(S))
    BY <1>1, <1>2, <1>4, GoodPass
  <2> QED
    BY <1>1, <1>4, <2>1, OnlyFolds
<1> QED
  BY <1>1, <1>3, <1>4

-----------------------------------------------------------------------------
(* Its callers *)

LEMMA GoodIdle == \A v : Good(<<>>, NoAnswer, Nothing, v)
<1>1. <<>> \in Seq(CallType) /\ Len(<<>>) = 0 /\ Nothing.expr \in Tree
  BY NoExprIs DEF Nothing
<1>2. \A k \in 1 .. 0 : FALSE
  OBVIOUS
<1> QED
  BY <1>1, <1>2 DEF Good, Stacked, NamesIn, Faithful

LEMMA GoodBegin ==
    ASSUME NEW d, d.expr \in Tree, d # Nothing, NEW v, Mentioned(d.expr) \subseteq v.found,
           v.sure => Mentioned(d.expr) \subseteq v.names /\ (v.bare => ~Refused(d.expr))
    PROVE  Good(<<Frame(d.expr)>>, NoAnswer, d, v)
<1> DEFINE c == Frame(d.expr)
           cs == <<c>>
<1>1. c \in CallType /\ c.expr = d.expr /\ (v.sure => Worthy(c, v))
  BY FrameOf
<1> HIDE DEF c
<1>2. cs \in Seq(CallType) /\ Len(cs) = 1 /\ cs[1] = c
  BY <1>1
<1> HIDE DEF cs
<1>3. Asked(cs, d, 1) = d.expr /\ \A k \in 1 .. 1 : k = 1 /\ ~(k < 1)
  BY DEF Asked
<1>4. Stacked(cs, NoAnswer, d)
  BY <1>2, <1>3 DEF Stacked
<1>5. NamesIn(cs, v.found)
  BY <1>1, <1>2, <1>3 DEF NamesIn
<1>6. v.sure => Faithful(cs, NoAnswer, d, v)
  BY <1>1, <1>2, <1>3 DEF Faithful
<1> QED
  BY <1>4, <1>5, <1>6 DEF Good, cs, c

\* Where a folding begins.
LEMMA Begins ==
    ASSUME due'.expr \in Tree, due' # Nothing, Mentioned(due'.expr) \subseteq FoundIn(OpenScopes'),
           calls' = <<Frame(due'.expr)>>, answer' = NoAnswer, NEW S \in SUBSET Ids
    PROVE  Good(calls', answer', due', View(S)')
<1> DEFINE v == View(S)'
<1>1. /\ v.found = FoundIn(OpenScopes') /\ v.names = S
      /\ v.sure => Mentioned(due'.expr) \subseteq S
      /\ v.bare => ~Refused(due'.expr)
  BY DEF View, ComesTo, Bare
<1> HIDE DEF v
<1>2. Good(<<Frame(due'.expr)>>, NoAnswer, due', v)
  BY <1>1, GoodBegin
<1> QED
  BY <1>2 DEF v

\* Where nothing is folded.
LEMMA Rests ==
    ASSUME Walking', Settled', GlobalsFold', calls' = <<>>, answer' = NoAnswer, due' = Nothing
    PROVE  FoldInv'
<1>1. \A S \in SUBSET Ids : Good(calls', answer', due', View(S)')
  BY GoodIdle
<1>2. ArrayFolds'
  BY DEF ArrayFolds
<1> QED
  BY <1>1, <1>2 DEF FoldInv

LEMMA Unmoved ==
    ASSUME ~MayRedeclare, FoldInv, UNCHANGED vars, UNCHANGED <<inits, worth, meant>>
    PROVE  /\ Walking' /\ OpenScopes' = OpenScopes /\ Len(nodes') = Len(nodes)
           /\ func' = func /\ Meant(OpenScopes', Len(nodes'), inits', worth')
           /\ Remembered(Len(nodes'), inits', worth', meant')
<1>1. Walking'
  BY StepWalking DEF FoldInv
<1>2. OpenScopes' = OpenScopes /\ Len(nodes') = Len(nodes) /\ func' = func
  BY SameScopes DEF vars
<1> QED
  BY <1>1, <1>2, FoldTypes DEF FoldInv, Settled

LEMMA MeaningsAre ==
    ASSUME FoldInv
    PROVE  Meanings \in [Ids -> Nat] /\ \A i \in Ids : Meanings[i] <= Len(nodes)
<1>1. Meant(OpenScopes, Len(nodes), inits, worth)
  BY FoldTypes
<1>2. Len(nodes) \in Nat /\ \A i \in Ids : LookIn(OpenScopes, i) \in 0 .. Len(nodes)
  BY <1>1, MeantTypes
<1> QED
  BY <1>2, LookupIn DEF MeansIn

LEMMA GlobalsFound ==
    ASSUME Resolved, func = NoFunction
    PROVE  GlobalIds \subseteq FoundIn(OpenScopes)
<1> SUFFICES ASSUME NEW j \in GlobalIds PROVE j \in FoundIn(OpenScopes)
  OBVIOUS
<1>1. OpenScopes = <<File>>
  BY OpenScopesAre DEF Resolved
<1>2. j \in Ids /\ File[j] # NoNode
  BY FilePosition DEF NoNode
<1> DEFINE s == <<File>>
<1>3. Len(s) = 1 /\ s[1] = File /\ 1 \in 1 .. Len(s) /\ Len(s) \in Nat
  OBVIOUS
<1> HIDE DEF s
<1>4. LookIn(s, j) # NoNode
  <2>1. s[1][j] # NoNode
    BY <1>2, <1>3
  <2> QED
    BY <1>3, <2>1, LookFound
<1> QED
  BY <1>1, <1>2, <1>4 DEF FoundIn, s

LEMMA BeginIs ==
    ASSUME NEW id \in Ids, NEW e \in Tree, Begin(id, e)
    PROVE  /\ due' # Nothing /\ due'.id = id /\ due'.expr = e
           /\ calls' = <<Frame(due'.expr)>> /\ answer' = NoAnswer
<1>1. due' = [id |-> id, expr |-> e] /\ calls' = <<Frame(e)>> /\ answer' = NoAnswer
  BY DEF Begin, Idle
<1>2. due'.id = id /\ due'.expr = e
  BY <1>1
<1>3. Nothing.id = "" /\ id # ""
  BY FoldingAssumption DEF Nothing
<1> QED
  BY <1>1, <1>2, <1>3

LEMMA GlobalStarts == ASSUME ~MayRedeclare, FoldInv, StartGlobal PROVE FoldInv'
<1> DEFINE n == Len(values) + 1
           e == inits[n].init
           id == GlobalSeq[n]
<1>1. /\ InGlobals /\ Begin(id, e) /\ UNCHANGED vars /\ UNCHANGED <<inits, worth, meant>>
      /\ values' = values
  BY DEF StartGlobal, constants
<1>2. /\ values \in Seq(Int) /\ Len(GlobalSeq) \in Nat /\ Len(GlobalSeq) <= Len(nodes)
      /\ func = NoFunction
      /\ \A k \in 1 .. Len(GlobalSeq) : Mentioned(inits[k].init) \subseteq GlobalIds
  BY <1>1, GlobalsInOrder, ScopesAssumption
     DEF FoldInv, Settled, GlobalsFold, Walking, Resolved, GlobalsInv
<1>3. n \in 1 .. Len(GlobalSeq) /\ n \in 1 .. Len(nodes)
  <2>1. Len(values) \in Nat /\ Len(values) < Len(GlobalSeq) /\ Len(nodes) \in Nat
    BY <1>1, <1>2, WalkTypes DEF InGlobals, FoldInv, Walking
  <2> QED
    BY <1>2, <2>1
<1> HIDE DEF n
<1>4. id \in Ids
  <2>1. id \in GlobalIds
    BY <1>3, GlobalsInOrder
  <2> QED
    BY <2>1, ScopesAssumption
<1>5. e \in Tree
  BY <1>3, FoldTypes, MeantTypes
<1>6. Mentioned(e) \subseteq FoundIn(OpenScopes)
  BY <1>2, <1>3, GlobalsFound DEF FoldInv, Walking
<1> HIDE DEF e, id
<1>7. /\ due' # Nothing /\ due'.expr = e /\ calls' = <<Frame(due'.expr)>> /\ answer' = NoAnswer
  BY <1>1, <1>4, <1>5, BeginIs
<1>8. /\ Walking' /\ OpenScopes' = OpenScopes /\ func' = func
      /\ Meant(OpenScopes', Len(nodes'), inits', worth')
      /\ Remembered(Len(nodes'), inits', worth', meant')
  BY <1>1, Unmoved
<1>9. \A S \in SUBSET Ids : Good(calls', answer', due', View(S)')
  BY <1>5, <1>6, <1>7, <1>8, Begins
<1>10. Settled' /\ GlobalsFold' /\ ArrayFolds'
  BY <1>1, <1>8 DEF FoldInv, Settled, GlobalsFold, ArrayFolds, InGlobals
<1> QED
  BY <1>8, <1>9, <1>10 DEF FoldInv

LEMMA ArrayStarts ==
    ASSUME ~MayRedeclare, FoldInv, NEW i \in Ids, NEW e \in Dims, StartArray(i, e)
    PROVE  FoldInv'
<1>1. /\ ~InGlobals /\ Begin(i, e) /\ UNCHANGED vars /\ UNCHANGED <<inits, worth, meant>>
      /\ values' = values /\ \A j \in Mentioned(e) : Lexical!Lookup(j) # NoNode
  BY DEF StartArray, constants
<1>2. e \in Tree
  BY FoldingAssumption DEF Tree
<1>3. Mentioned(e) \subseteq FoundIn(OpenScopes)
  BY <1>1, <1>2, MentionedIds, LookupIn DEF FoundIn
<1>4. /\ due' # Nothing /\ due'.expr = e /\ due'.id = i
      /\ calls' = <<Frame(due'.expr)>> /\ answer' = NoAnswer
  BY <1>1, <1>2, BeginIs
<1>5. /\ Walking' /\ OpenScopes' = OpenScopes /\ func' = func
      /\ Meant(OpenScopes', Len(nodes'), inits', worth')
      /\ Remembered(Len(nodes'), inits', worth', meant')
  BY <1>1, Unmoved
<1>6. \A S \in SUBSET Ids : Good(calls', answer', due', View(S)')
  BY <1>2, <1>3, <1>4, <1>5, Begins
<1>7. Settled' /\ GlobalsFold' /\ ArrayFolds'
  BY <1>1, <1>4, <1>5 DEF FoldInv, Settled, GlobalsFold, ArrayFolds, InGlobals
<1> QED
  BY <1>5, <1>6, <1>7 DEF FoldInv

LEMMA OutcomeIs ==
    ASSUME FoldInv, Finished
    PROVE  Outcome \in Int /\ due # Nothing
<1>1. answer \in Int \X BOOLEAN /\ answer # NoAnswer
  BY FoldTypes DEF Finished
<1>2. answer[1] \in Int
  BY <1>1
<1>3. due # Nothing
  BY <1>1, FoldTypes DEF Stacked
<1> QED
  BY <1>2, <1>3 DEF Outcome

LEMMA GlobalEnds == ASSUME ~MayRedeclare, FoldInv, EndGlobal PROVE FoldInv'
<1>1. /\ InGlobals /\ Finished /\ values' = Append(values, Outcome)
      /\ calls' = <<>> /\ answer' = NoAnswer /\ due' = Nothing
      /\ UNCHANGED vars /\ UNCHANGED <<inits, worth, meant>>
  BY DEF EndGlobal, Done, Finished
<1>2. /\ Walking' /\ OpenScopes' = OpenScopes /\ func' = func
      /\ Meant(OpenScopes', Len(nodes'), inits', worth')
      /\ Remembered(Len(nodes'), inits', worth', meant')
  BY <1>1, Unmoved
<1>3. values' \in Seq(Int) /\ Len(values') <= Len(GlobalSeq)
  <2>1. Outcome \in Int /\ values \in Seq(Int) /\ Len(values) < Len(GlobalSeq)
    BY <1>1, OutcomeIs DEF FoldInv, Settled, InGlobals
  <2>2. Len(GlobalSeq) \in Nat
    BY GlobalsInOrder, ScopesAssumption
  <2> HIDE DEF Outcome
  <2>3. values' \in Seq(Int) /\ Len(values') = Len(values) + 1
    BY <1>1, <2>1
  <2> QED
    BY <2>1, <2>2, <2>3
<1>4. Settled'
  BY <1>2, <1>3 DEF Settled
<1>5. GlobalsFold'
  BY <1>1, <1>2 DEF FoldInv, GlobalsFold
<1> QED
  BY <1>1, <1>2, <1>4, <1>5, Rests

LEMMA DeclareFolds ==
    ASSUME ~MayRedeclare, FoldInv, ~InGlobals, NEW i \in Ids, NEW size \in Nat \ {0},
           Declare(i, size),
           NEW c \in InitType, NEW v \in Values, v # NoValue <=> c.isConst,
           NEW m \in {Meanings, Unknown},
           c.isConst => v = Worth(c.init, EnvOf(OpenScopes, worth)) /\ m = Meanings,
           inits' = Append(inits, c), worth' = Append(worth, v), meant' = Append(meant, m),
           values' = values, calls' = <<>>, answer' = NoAnswer, due' = Nothing
    PROVE  FoldInv'
<1>1. [WideNext]_vars
  BY DEF WideNext
<1>2. Walking'
  BY <1>1, StepWalking DEF FoldInv
<1>3. Lexical!Declare(i)
  BY <1>2, DeclareRefines DEF FoldInv, Walking
<1>4. /\ Len(OpenScopes) > 2 /\ OpenScopes[Len(OpenScopes)][i] = NoNode
      /\ Len(nodes') = Len(nodes) + 1
      /\ OpenScopes' = [OpenScopes EXCEPT ![Len(OpenScopes)][i] = Len(nodes) + 1]
  BY <1>3 DEF Lexical!Declare, Lexical!Depth
<1> DEFINE s == OpenScopes
           last == Len(nodes)
<1>5. Meant(s, last, inits, worth) /\ Len(s) > 0
  <2>1. Meant(s, last, inits, worth)
    BY FoldTypes
  <2>2. Len(s) \in Nat
    BY <2>1, MeantTypes
  <2> QED
    BY <1>4, <2>1, <2>2
<1> HIDE DEF s, last
<1>6. Meant([s EXCEPT ![Len(s)][i] = last + 1], last + 1, Append(inits, c), Append(worth, v))
  BY <1>4, <1>5, MeantDeclare DEF s
<1>7. Meant(OpenScopes', Len(nodes'), inits', worth')
  BY <1>4, <1>6 DEF s, last
<1>8. Remembered(Len(nodes'), inits', worth', meant')
  <2>1. /\ Remembered(last, inits, worth, meant) /\ last \in Nat
        /\ inits \in Seq(InitType) /\ worth \in Seq(Values) /\ meant \in Seq([Ids -> Nat])
        /\ Len(inits) = last /\ Len(worth) = last /\ Len(meant) = last
    BY DEF FoldInv, Settled, Remembered, last
  <2>2. m \in [Ids -> Nat] /\ \A j \in Ids : m[j] <= last
    BY <2>1, MeaningsAre DEF Unknown, NoNode, last
  <2>3. c.isConst => v = Worth(c.init, EnvAt(m, worth))
    BY LookupIn DEF EnvOf
  <2>4. /\ inits' \in Seq(InitType) /\ worth' \in Seq(Values) /\ meant' \in Seq([Ids -> Nat])
        /\ Len(inits') = last + 1 /\ Len(worth') = last + 1 /\ Len(meant') = last + 1
        /\ inits'[last + 1] = c /\ worth'[last + 1] = v /\ meant'[last + 1] = m
        /\ \A n \in 1 .. last : inits'[n] = inits[n] /\ worth'[n] = worth[n] /\ meant'[n] = meant[n]
    <3> HIDE DEF last
    <3>1. inits' \in Seq(InitType) /\ Len(inits') = last + 1 /\ inits'[last + 1] = c
          /\ \A n \in 1 .. last : inits'[n] = inits[n]
      BY <2>1
    <3>2. worth' \in Seq(Values) /\ Len(worth') = last + 1 /\ worth'[last + 1] = v
          /\ \A n \in 1 .. last : worth'[n] = worth[n]
      BY <2>1
    <3>3. meant' \in Seq([Ids -> Nat]) /\ Len(meant') = last + 1 /\ meant'[last + 1] = m
          /\ \A n \in 1 .. last : meant'[n] = meant[n]
      BY <2>1, <2>2
    <3> QED
      BY <3>1, <3>2, <3>3
  <2>5. \A n \in last + 1 .. last + 1 : n = last + 1
    BY <2>1
  <2> DEFINE ini2 == inits'
             wor2 == worth'
             mea2 == meant'
  <2>6. Len(nodes') = last + 1
    BY <1>4 DEF last
  <2> HIDE DEF ini2, wor2, mea2, last
  <2>7. /\ ini2 \in Seq(InitType) /\ wor2 \in Seq(Values) /\ mea2 \in Seq([Ids -> Nat])
        /\ Len(ini2) = last + 1 /\ Len(wor2) = last + 1 /\ Len(mea2) = last + 1
        /\ ini2[last + 1] = c /\ wor2[last + 1] = v /\ mea2[last + 1] = m
        /\ \A n \in 1 .. last : ini2[n] = inits[n] /\ wor2[n] = worth[n] /\ mea2[n] = meant[n]
    BY <2>4 DEF ini2, wor2, mea2
  <2>8. ASSUME NEW n \in last + 1 .. last + 1
        PROVE  /\ \A j \in Ids : mea2[n][j] <= last
               /\ ini2[n].isConst => wor2[n] = Worth(ini2[n].init, EnvAt(mea2[n], worth))
    <3>1. n = last + 1
      BY <2>5
    <3>2. ini2[n] = c /\ wor2[n] = v /\ mea2[n] = m
      BY <2>7, <3>1
    <3> QED
      BY <2>2, <2>3, <3>2
  <2>9. Recalls(last, 1, inits, worth, meant, ini2, wor2, mea2)
    BY <2>1, <2>7, <2>8 DEF Recalls
  <2>10. Remembered(last + 1, ini2, wor2, mea2)
    BY <2>9, RememberMore, Zenon
  <2> QED
    BY <2>6, <2>10 DEF ini2, wor2, mea2
<1>9. Settled' /\ GlobalsFold'
  BY <1>7, <1>8 DEF FoldInv, Settled, GlobalsFold, InGlobals
<1> QED
  BY <1>2, <1>9, Rests

LEMMA ArrayEnds == ASSUME ~MayRedeclare, FoldInv, EndArray PROVE FoldInv'
<1> DEFINE c == Initial(FALSE, NoExpr)
<1>1. /\ Finished /\ ~InGlobals /\ Outcome > 0 /\ Declare(due.id, Outcome)
      /\ inits' = Append(inits, c) /\ worth' = Append(worth, NoValue) /\ values' = values
      /\ meant' = Append(meant, Unknown)
      /\ calls' = <<>> /\ answer' = NoAnswer /\ due' = Nothing
  BY DEF EndArray, PositiveDimension, Done, Finished
<1>2. Outcome \in Nat \ {0} /\ due # Nothing
  BY <1>1, OutcomeIs
<1>3. due.id \in Ids
  BY <1>1, <1>2 DEF FoldInv, ArrayFolds
<1>4. c \in InitType /\ ~c.isConst
  BY NoExprIs DEF Initial, InitType
<1> HIDE DEF c, Outcome
<1>5. NoValue \in Values
  BY DEF Values
<1> QED
  BY <1>1, <1>2, <1>3, <1>4, <1>5, DeclareFolds

LEMMA ScalarDeclared ==
    ASSUME ~MayRedeclare, FoldInv, NEW i \in Ids, NEW isConst \in BOOLEAN, NEW e \in Inits,
           DeclareScalar(i, isConst, e)
    PROVE  FoldInv'
<1> DEFINE c == Initial(isConst, e)
           env == EnvOf(OpenScopes, worth)
           v == IF isConst THEN Worth(e, env) ELSE NoValue
           m == IF isConst THEN Meanings ELSE Unknown
<1>1. Here = env
  BY LookupIn
<1>2. /\ ~InGlobals /\ Declare(i, 1) /\ (isConst => Worth(e, env) # NoValue)
      /\ inits' = Append(inits, c) /\ worth' = Append(worth, v) /\ meant' = Append(meant, m)
      /\ values' = values /\ calls' = <<>> /\ answer' = NoAnswer /\ due' = Nothing
  BY <1>1 DEF DeclareScalar, folding, Idle
<1>3. e \in Tree /\ env \in Envs
  BY FoldTypes, FoldingAssumption DEF Tree
<1>4. c \in InitType /\ c.isConst = isConst /\ c.init = e
  BY <1>3 DEF Initial, InitType
<1>5. v \in Values /\ (v # NoValue <=> isConst) /\ m \in {Meanings, Unknown}
  BY <1>2, <1>3, WorthIs DEF Values
<1>6. c.isConst => v = Worth(c.init, env) /\ m = Meanings
  BY <1>4
<1> HIDE DEF c, v, m
<1> QED
  BY <1>2, <1>4, <1>5, <1>6, DeclareFolds

\* A function's parameters are new definitions.
LEMMA ParamsEnter ==
    ASSUME Typed, Resolved, Typed', Resolved', Walked, NEW f \in Funcs,
           NEW params \in ParamLists, BeginFunction(f, params)
    PROVE  \E scope \in [Ids -> 0 .. Len(nodes) + Len(params)] :
              /\ OpenScopes' = Append(OpenScopes, scope)
              /\ \A i \in Ids : scope[i] # NoNode => scope[i] > Len(nodes) /\ i \in Range(params)
<1> DEFINE last == Len(nodes)
           then == Len(nodes')
<1>1. then = last + Len(params) /\ last \in Nat /\ then \in Nat
  BY BeginNodes
<1>2. Lexical!EnterFunction
  BY BeginRefines
<1>3. PICK scope \in Lexical!Scope(last + 1, then) : OpenScopes' = Append(OpenScopes, scope)
  BY <1>2 DEF Lexical!EnterFunction
<1>4. /\ func = NoFunction /\ func' = f /\ f \in Funcs
      /\ \A i : (i \in DOMAIN globals' /\ i \notin Range(params)) =>
            i \in DOMAIN globals /\ globals'[i] = globals[i]
  BY DEF BeginFunction
<1>5. func' # NoFunction
  BY <1>4, ScopesAssumption
<1>6. OpenScopes = <<File>>
  BY <1>4, OpenScopesAre DEF Resolved
<1>7. OpenScopes'[2] = scope
  BY <1>3, <1>6
<1>8. OpenScopes'[2] = ParamsOf(globals', nodes', func')
  BY <1>5, OpenIsNext DEF IsScopes
<1>9. ASSUME NEW i \in Ids
      PROVE  scope[i] = NoNode \/ scope[i] \in last + 1 .. then
  BY <1>3 DEF Lexical!Scope
<1>10. scope \in [Ids -> 0 .. then]
  <2>1. DOMAIN scope = Ids /\ scope = [i \in Ids |-> scope[i]]
    BY <1>3 DEF Lexical!Scope
  <2>2. \A i \in Ids : scope[i] \in 0 .. then
    BY <1>1, <1>9 DEF NoNode
  <2> HIDE DEF then
  <2> QED
    BY <2>1, <2>2
<1>11. ASSUME NEW i \in Ids, scope[i] # NoNode
       PROVE  scope[i] > last /\ i \in Range(params)
  <2>1. scope[i] > last
    BY <1>1, <1>9, <1>11
  <2>2. scope[i] = ParamsOf(globals', nodes', func')[i]
    BY <1>7, <1>8
  <2>3. i \in DOMAIN globals' /\ globals'[i] = scope[i]
    BY <1>11, <2>2 DEF ParamsOf
  <2>4. SUFFICES ASSUME i \notin Range(params) PROVE FALSE
    BY <2>1
  <2>5. globals[i] \in 0 .. last /\ globals[i] = scope[i]
    BY <1>4, <2>3, <2>4 DEF Typed, TypeOK
  <2> QED
    BY <1>1, <2>1, <2>5
<1> QED
  BY <1>1, <1>3, <1>10, <1>11

LEMMA FunctionBegins ==
    ASSUME ~MayRedeclare, FoldInv, NEW f \in Funcs, NEW params \in ParamLists,
           BeginWith(f, params)
    PROVE  FoldInv'
<1> DEFINE last == Len(nodes)
           more == Len(params)
           c == Initial(FALSE, NoExpr)
           news == [k \in DOMAIN params |-> c]
           nones == [k \in DOMAIN params |-> NoValue]
           blanks == [k \in DOMAIN params |-> Unknown]
<1>1. /\ ~InGlobals /\ BeginFunction(f, params)
      /\ inits' = inits \o news /\ worth' = worth \o nones /\ meant' = meant \o blanks
      /\ values' = values
      /\ calls' = <<>> /\ answer' = NoAnswer /\ due' = Nothing
  BY DEF BeginWith, folding, Idle
<1>2. Walking'
  <2>1. [WideNext]_vars
    BY <1>1 DEF WideNext
  <2> QED
    BY <2>1, StepWalking DEF FoldInv
<1>3. /\ Len(nodes') = last + more /\ more \in Nat /\ DOMAIN params = 1 .. more
      /\ last \in Nat
  BY <1>1, BeginNodes DEF FoldInv, Walking
<1>4. PICK scope \in [Ids -> 0 .. last + more] :
         /\ OpenScopes' = Append(OpenScopes, scope)
         /\ \A i \in Ids : scope[i] # NoNode => scope[i] > last /\ i \in Range(params)
  BY <1>1, <1>2, ParamsEnter DEF FoldInv, Walking
<1>5. Meant(OpenScopes, last, inits, worth)
  BY FoldTypes
<1>6. \A i \in Ids : scope[i] # NoNode => scope[i] > last
  BY <1>4
<1>7. Follows(inits', worth', more, inits, worth, last)
  <2>1. c \in InitType /\ ~c.isConst
    BY NoExprIs DEF Initial, InitType
  <2> HIDE DEF c
  <2>2. NoValue \in Values
    BY DEF Values
  <2>3. news \in Seq(InitType) /\ Len(news) = more /\ \A k \in 1 .. more : news[k] = c
    BY <1>3, <2>1
  <2>4. nones \in Seq(Values) /\ Len(nones) = more /\ \A k \in 1 .. more : nones[k] = NoValue
    BY <1>3, <2>2
  <2> HIDE DEF news, nones
  <2>5. inits \in Seq(InitType) /\ worth \in Seq(Values) /\ Len(inits) = last /\ Len(worth) = last
    BY <1>5 DEF Meant
  <2> HIDE DEF last, more
  <2>6. /\ Len(inits \o news) = last + more
        /\ \A n \in 1 .. last : (inits \o news)[n] = inits[n]
        /\ \A k \in 1 .. more : (inits \o news)[last + k] = news[k]
    <3>1. inits \in Seq(InitType) /\ news \in Seq(InitType)
      BY <2>3, <2>5
    <3>2. /\ Len(inits \o news) = Len(inits) + Len(news)
          /\ \A n \in 1 .. Len(inits) : (inits \o news)[n] = inits[n]
          /\ \A k \in 1 .. Len(news) : (inits \o news)[Len(inits) + k] = news[k]
      <4>1. \A p, q \in Seq(InitType) :
               /\ Len(p \o q) = Len(p) + Len(q)
               /\ \A n \in 1 .. Len(p) : (p \o q)[n] = p[n]
               /\ \A k \in 1 .. Len(q) : (p \o q)[Len(p) + k] = q[k]
        BY ConcatIs
      <4> QED
        BY <3>1, <4>1, Zenon
    <3>3. Len(inits) = last /\ Len(news) = more
      BY <2>3, <2>5
    <3> QED
      BY <3>2, <3>3, Zenon
  <2>7. /\ Len(worth \o nones) = last + more
        /\ \A n \in 1 .. last : (worth \o nones)[n] = worth[n]
        /\ \A k \in 1 .. more : (worth \o nones)[last + k] = nones[k]
    BY <2>4, <2>5, ConcatIs
  <2>8. inits \o news \in Seq(InitType) /\ worth \o nones \in Seq(Values)
    BY <2>3, <2>4, <2>5
  <2>9. ASSUME NEW n \in last + 1 .. last + more
        PROVE  ~inits'[n].isConst /\ worth'[n] = NoValue
    <3>1. n - last \in 1 .. more /\ last + (n - last) = n
      BY <1>3, <2>9 DEF last, more
    <3>2. inits'[n] = c /\ worth'[n] = NoValue
      BY <1>1, <2>3, <2>4, <2>6, <2>7, <3>1
    <3> QED
      BY <2>1, <3>2
  <2> QED
    BY <1>1, <2>6, <2>7, <2>8, <2>9 DEF Follows
<1> HIDE DEF last, more, news, nones, blanks
<1>8. Meant(Append(OpenScopes, scope), last + more, inits', worth')
  BY <1>3, <1>4, <1>5, <1>6, <1>7, MeantEnter
<1>9. Meant(OpenScopes', Len(nodes'), inits', worth')
  BY <1>3, <1>4, <1>8
<1>10. Remembered(Len(nodes'), inits', worth', meant')
  <2>1. Remembered(last, inits, worth, meant) /\ meant \in Seq([Ids -> Nat]) /\ Len(meant) = last
    BY DEF FoldInv, Settled, Remembered, last
  <2>2. Unknown \in [Ids -> Nat] /\ \A i \in Ids : Unknown[i] = 0
    BY DEF Unknown, NoNode
  <2>3. blanks \in Seq([Ids -> Nat]) /\ Len(blanks) = more /\ \A k \in 1 .. more : blanks[k] = Unknown
    BY <1>3, <2>2 DEF blanks
  <2>4. /\ meant' \in Seq([Ids -> Nat]) /\ Len(meant') = last + more
        /\ \A n \in 1 .. last : meant'[n] = meant[n]
        /\ \A k \in 1 .. more : meant'[last + k] = Unknown
    <3>1. /\ Len(meant \o blanks) = Len(meant) + Len(blanks)
          /\ \A n \in 1 .. Len(meant) : (meant \o blanks)[n] = meant[n]
          /\ \A k \in 1 .. Len(blanks) : (meant \o blanks)[Len(meant) + k] = blanks[k]
      <4>1. \A p, q \in Seq([Ids -> Nat]) :
               /\ Len(p \o q) = Len(p) + Len(q)
               /\ \A n \in 1 .. Len(p) : (p \o q)[n] = p[n]
               /\ \A k \in 1 .. Len(q) : (p \o q)[Len(p) + k] = q[k]
        BY ConcatIs
      <4> QED
        BY <2>1, <2>3, <4>1, Zenon
    <3>2. meant \o blanks \in Seq([Ids -> Nat])
      BY <2>1, <2>3
    <3> QED
      BY <1>1, <2>1, <2>3, <3>1, <3>2
  <2>5. ASSUME NEW n \in last + 1 .. last + more
        PROVE  (\A i \in Ids : meant'[n][i] <= last) /\ ~inits'[n].isConst
    <3>1. n - last \in 1 .. more /\ last + (n - last) = n
      BY <1>3, <2>5
    <3>2. meant'[n] = Unknown
      BY <2>4, <3>1
    <3> QED
      BY <1>3, <1>7, <2>2, <3>2 DEF Follows
  <2> DEFINE ini2 == inits'
             wor2 == worth'
             mea2 == meant'
  <2>6. Len(nodes') = last + more
    BY <1>3
  <2> HIDE DEF ini2, wor2, mea2
  <2>7. /\ ini2 \in Seq(InitType) /\ wor2 \in Seq(Values) /\ mea2 \in Seq([Ids -> Nat])
        /\ Len(ini2) = last + more /\ Len(wor2) = last + more /\ Len(mea2) = last + more
        /\ \A n \in 1 .. last : ini2[n] = inits[n] /\ wor2[n] = worth[n]
    BY <1>7, <2>4 DEF ini2, wor2, mea2, Follows
  <2>8. \A n \in 1 .. last : mea2[n] = meant[n]
    BY <2>4 DEF mea2
  <2>9. \A n \in last + 1 .. last + more :
           /\ \A i \in Ids : mea2[n][i] <= last
           /\ ini2[n].isConst => wor2[n] = Worth(ini2[n].init, EnvAt(mea2[n], worth))
    BY <2>5 DEF ini2, mea2
  <2>10. more \in Nat
    BY <1>3
  <2>11. Recalls(last, more, inits, worth, meant, ini2, wor2, mea2)
    BY <2>1, <2>7, <2>8, <2>9, <2>10 DEF Recalls
  <2>12. Remembered(last + more, ini2, wor2, mea2)
    BY <2>11, RememberMore, Zenon
  <2> QED
    BY <2>6, <2>12 DEF ini2, wor2, mea2
<1>11. Settled' /\ GlobalsFold'
  BY <1>1, <1>9, <1>10 DEF FoldInv, Settled, GlobalsFold, InGlobals
<1> QED
  BY <1>1, <1>2, <1>11, Rests

LEMMA MeantBlank ==
    ASSUME NEW s, NEW last, Meant(s, last, inits, worth)
    PROVE  Meant(Append(s, Lexical!Blank), last, inits, worth)
<1> DEFINE blank == Lexical!Blank
<1>1. last \in Nat /\ last + 0 = last /\ 0 \in Nat
  BY MeantTypes
<1>2. /\ inits \in Seq(InitType) /\ worth \in Seq(Values)
      /\ Len(inits) = last /\ Len(worth) = last
  BY DEF Meant
<1>3. \A n \in last + 1 .. last : FALSE
  BY <1>1
<1>4. Follows(inits, worth, 0, inits, worth, last)
  BY <1>1, <1>2, <1>3 DEF Follows
<1>5. blank = [i \in Ids |-> NoNode] /\ NoNode = 0
  BY DEF Lexical!Blank, NoNode
<1> HIDE DEF blank
<1>6. blank \in [Ids -> 0 .. last] /\ \A i \in Ids : blank[i] = NoNode
  BY <1>1, <1>5
<1> HIDE DEF NoNode
<1>7. Meant(Append(s, blank), last + 0, inits, worth)
  BY <1>1, <1>4, <1>6, MeantEnter
<1> QED
  BY <1>1, <1>7 DEF blank

LEMMA WalkFolds == ASSUME ~MayRedeclare, FoldInv, Walk PROVE FoldInv'
<1>1. /\ ~InGlobals /\ (OpenBlock \/ CloseBlock \/ EndFunction)
      /\ inits' = inits /\ worth' = worth /\ meant' = meant /\ values' = values
      /\ calls' = <<>> /\ answer' = NoAnswer /\ due' = Nothing
  BY DEF Walk, constants, folding, Idle
<1>2. Walking'
  <2>1. [WideNext]_vars
    BY <1>1 DEF WideNext
  <2> QED
    BY <2>1, StepWalking DEF FoldInv
<1>3. Meant(OpenScopes, Len(nodes), inits, worth)
  BY FoldTypes
<1>4. ASSUME OpenBlock PROVE Meant(OpenScopes', Len(nodes'), inits', worth')
  <2>1. Lexical!EnterBlock
    BY <1>2, <1>4, OpenRefines DEF FoldInv, Walking
  <2>2. OpenScopes' = Append(OpenScopes, Lexical!Blank) /\ Len(nodes') = Len(nodes)
    BY <2>1 DEF Lexical!EnterBlock
  <2> QED
    BY <1>1, <1>3, <2>2, MeantBlank
<1>5. ASSUME CloseBlock \/ EndFunction
      PROVE  Meant(OpenScopes', Len(nodes'), inits', worth')
  <2>1. Lexical!Leave
    BY <1>2, <1>5, CloseRefines, EndRefines DEF FoldInv, Walking
  <2>2. /\ Len(OpenScopes) > 1 /\ Len(nodes') = Len(nodes)
        /\ OpenScopes' = SubSeq(OpenScopes, 1, Len(OpenScopes) - 1)
    BY <2>1 DEF Lexical!Leave, Lexical!Depth
  <2> QED
    BY <1>1, <1>3, <2>2, MeantLeave
<1>6. Meant(OpenScopes', Len(nodes'), inits', worth')
  BY <1>1, <1>4, <1>5
<1>7. Len(nodes') = Len(nodes)
  <2>1. OpenBlock => Lexical!EnterBlock
    BY <1>2, OpenRefines DEF FoldInv, Walking
  <2>2. CloseBlock \/ EndFunction => Lexical!Leave
    BY <1>2, CloseRefines, EndRefines DEF FoldInv, Walking
  <2> QED
    BY <1>1, <2>1, <2>2 DEF Lexical!EnterBlock, Lexical!Leave
<1>8. Settled' /\ GlobalsFold'
  BY <1>1, <1>6, <1>7 DEF FoldInv, Settled, GlobalsFold, InGlobals
<1> QED
  BY <1>1, <1>2, <1>8, Rests

-----------------------------------------------------------------------------
(* Every step of the walk and of the folding *)

LEMMA InitFolds == FoldInit => FoldInv
<1> SUFFICES ASSUME FoldInit PROVE FoldInv
  OBVIOUS
<1>1. /\ Init /\ values = <<>> /\ calls = <<>> /\ answer = NoAnswer /\ due = Nothing
      /\ \A n \in DOMAIN inits : Mentioned(inits[n].init) \subseteq {GlobalSeq[m] : m \in 1 .. n - 1}
  BY DEF FoldInit
<1>2. Len(GlobalSeq) \in Nat /\ \A m \in 1 .. Len(GlobalSeq) : GlobalSeq[m] \in GlobalIds
  BY GlobalsInOrder, ScopesAssumption
<1>3. Walking
  <2>1. \A n \in DOMAIN nodes : nodes[n].size = 1
    BY <1>1 DEF Init, Node
  <2> QED
    BY <1>1, <2>1, InitTyped, InitResolved, InitWalked DEF Walking
<1>4. Settled
  <2>1. /\ Meant(OpenScopes, Len(nodes), inits, worth)
        /\ Remembered(Len(nodes), inits, worth, meant)
    BY InitMeant
  <2> QED
    BY <1>1, <1>2, <2>1 DEF Settled
<1>5. GlobalsFold
  <2>1. func = NoFunction
    BY <1>1 DEF Init
  <2>2. Len(GlobalSeq) <= Len(nodes) /\ Len(nodes) \in Nat
    BY <1>3, WalkTypes DEF Walking, Resolved, GlobalsInv
  <2>3. ASSUME NEW n \in 1 .. Len(GlobalSeq)
        PROVE  Mentioned(inits[n].init) \subseteq GlobalIds
    <3>1. n \in 1 .. Len(nodes)
      BY <1>2, <2>2, <2>3
    <3>2. n \in DOMAIN inits
      BY <1>4, <3>1, MeantTypes DEF Settled
    <3>3. Mentioned(inits[n].init) \subseteq {GlobalSeq[m] : m \in 1 .. n - 1}
      BY <1>1, <3>2, Zenon
    <3>4. \A m \in 1 .. n - 1 : m \in 1 .. Len(GlobalSeq)
      BY <1>2
    <3> QED
      BY <1>2, <3>3, <3>4
  <2> QED
    BY <2>1, <2>3 DEF GlobalsFold
<1>6. ArrayFolds
  BY <1>1 DEF ArrayFolds
<1>7. \A S \in SUBSET Ids : Good(calls, answer, due, View(S))
  BY <1>1, GoodIdle
<1> QED
  BY <1>3, <1>4, <1>5, <1>6, <1>7 DEF FoldInv

LEMMA SameFolds == ASSUME ~MayRedeclare, FoldInv, UNCHANGED allVars PROVE FoldInv'
<1>1. Elsewhere /\ calls' = calls /\ answer' = answer
  BY DEF allVars, Elsewhere, folding
<1> QED
  BY <1>1, OnlyFolds DEF FoldInv

LEMMA StepFolds == ASSUME ~MayRedeclare, FoldInv, [FoldNext]_allVars PROVE FoldInv'
<1>1. CASE FoldLiteral
  BY <1>1, LiteralFolds
<1>2. CASE FoldName
  BY <1>2, NameFolds
<1>3. CASE FoldOperand
  BY <1>3, OperandFolds
<1>4. CASE FoldOperation
  BY <1>4, OperationFolds
<1>5. CASE FoldOther
  BY <1>5, OtherFolds
<1>6. CASE Returned
  BY <1>6, ReturnedFolds
<1>7. CASE StartGlobal
  BY <1>7, GlobalStarts
<1>8. CASE EndGlobal
  BY <1>8, GlobalEnds
<1>9. CASE \E i \in Ids, e \in Dims : StartArray(i, e)
  BY <1>9, ArrayStarts
<1>10. CASE EndArray
  BY <1>10, ArrayEnds
<1>11. CASE \E i \in Ids, isConst \in BOOLEAN, e \in Inits : DeclareScalar(i, isConst, e)
  BY <1>11, ScalarDeclared
<1>12. CASE \E f \in Funcs, params \in ParamLists : BeginWith(f, params)
  BY <1>12, FunctionBegins
<1>13. CASE Walk
  BY <1>13, WalkFolds
<1>14. CASE UNCHANGED allVars
  BY <1>14, SameFolds
<1> QED
  BY <1>1, <1>2, <1>3, <1>4, <1>5, <1>6, <1>7, <1>8, <1>9, <1>10, <1>11, <1>12, <1>13,
     <1>14 DEF FoldNext

LEMMA AlwaysFolds == ASSUME ~MayRedeclare PROVE FoldSpec => []FoldInv
<1>1. FoldInit => FoldInv
  BY InitFolds
<1>2. FoldInv /\ [FoldNext]_allVars => FoldInv'
  BY StepFolds
<1> QED
  BY <1>1, <1>2, PTL DEF FoldSpec

-----------------------------------------------------------------------------
(* The theorems *)

LEMMA InvTyped == FoldInv => FoldTypeOK
<1> SUFFICES ASSUME FoldInv PROVE FoldTypeOK
  OBVIOUS
<1>1. Meant(OpenScopes, Len(nodes), inits, worth) /\ Stacked(calls, answer, due)
  BY FoldTypes
<1>2. Len(inits) = Len(nodes) /\ Len(worth) = Len(nodes) /\ Len(meant) = Len(nodes)
  BY DEF FoldInv, Settled, Remembered
<1>3. \A n \in DOMAIN inits : inits[n].isConst \in BOOLEAN /\ inits[n].init \in Exprs \cup {NoExpr}
  <2>1. \A n \in DOMAIN inits : inits[n] \in InitType
    BY <1>1, MeantTypes
  <2> QED
    BY <2>1 DEF InitType, Tree
<1>4. /\ \A n \in DOMAIN nodes : nodes[n].size > 0
      /\ values \in Seq(Int) /\ Len(values) <= Len(GlobalSeq)
  BY DEF FoldInv, Walking, Settled
<1>5. \A k \in DOMAIN calls : Len(calls[k].args) <= Len(calls[k].expr.operands)
  <2>1. \A k \in DOMAIN calls : calls[k] \in CallType
    BY <1>1 DEF Stacked
  <2> QED
    BY <2>1, CallIs
<1>6. /\ answer # NoAnswer => answer \in Int \X BOOLEAN
      /\ due = Nothing => Idle
  BY <1>1 DEF Stacked, Idle
<1> QED
  BY <1>2, <1>3, <1>4, <1>5, <1>6 DEF FoldTypeOK

LEMMA InvMeaning == FoldInv => FoldsToMeaning
<1> SUFFICES ASSUME FoldInv, Finished, NEW S \in SUBSET Ids, ComesTo(S), Steady(S)
             PROVE  IF answer[2] THEN answer[1] = Meaning ELSE Meaning = NoValue \/ ~Bare(S)
  BY DEF FoldsToMeaning
<1>1. Meaning = Worth(due.expr, EnvOf(OpenScopes, worth))
  BY LookupIn DEF Meaning
<1>2. calls = <<>> /\ answer # NoAnswer
  BY DEF Finished
<1>3. Faithful(calls, answer, due, View(S))
  <2>1. Good(calls, answer, due, View(S))
    BY DEF FoldInv
  <2> QED
    BY <2>1, ViewIs DEF Good
<1>4. Asked(calls, due, Len(calls) + 1) = due.expr
  BY <1>2 DEF Asked
<1>5. Told(Meaning, answer, View(S).bare)
  BY <1>1, <1>2, <1>3, <1>4, ViewIs DEF Faithful
<1> QED
  BY <1>5, ViewIs DEF Told

\* The state of the folding has its type: every call has at most as many arguments as its
\* expression has operands, only what has been asked for is answered, and no variable
\* gets a size that is not positive (checkCompileTimeConstExpr, prepareArrayDef).
THEOREM FoldTypeCorrect ==
    ASSUME ~MayRedeclare
    PROVE  FoldSpec => []FoldTypeOK
<1>1. FoldSpec => []FoldInv
  BY AlwaysFolds
<1>2. FoldInv => FoldTypeOK
  BY InvTyped
<1> QED
  BY <1>1, <1>2, PTL

\* Whatever file is walked and however its constants are defined with each other: where
\* no name that a constant is defined with has been declared again since, what folding
\* finds is the value the expression has in the language, and what it refuses has none or
\* has parentheses, && or || in it, though checkCompileTimeConstExpr looks names up where
\* it folds and folds a constant anew at each use.
THEOREM FoldingSound ==
    ASSUME ~MayRedeclare
    PROVE  FoldSpec => []FoldsToMeaning
<1>1. FoldSpec => []FoldInv
  BY AlwaysFolds
<1>2. FoldInv => FoldsToMeaning
  BY InvMeaning
<1> QED
  BY <1>1, <1>2, PTL
=============================================================================
