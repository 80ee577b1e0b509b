----------------------------- MODULE Tac_proofs -----------------------------
(***************************************************************************)
(* The TAC of every function body, over every tree, keeps the rules of the *)
(* register allocator (FitsAllocator).                                     *)
(*                                                                         *)
(* The argument has three layers.  A table (States) says of each node what *)
(* its genCode has done before each of its orders; that every script obeys *)
(* its table is a finite case per kind of node (ScriptsOK).  FrameOK and   *)
(* StackOK say what the calls of genCode that have not returned hold, and  *)
(* that no two of them share a temporary or a label.  WalkOK ties the      *)
(* allocator's walk to the calls: what is pending is what they hold.       *)
(***************************************************************************)
EXTENDS Tac, TLAPS, SequenceTheorems, FiniteSetTheorems

(* What a script has done before each of its orders *)

\* An operand that was got by getVar; the other operands a call holds are its own.
Got == [kind |-> "got", n |-> 0]
Held == {Got, Dst, Own(1)}
IsExpr(e) == e.is \in Expressions \cup {"inner"}

\* held: the operands the call holds; temps: the temporaries it has made, labels: the
\* labels; writ: its result has been written ("redo": it has to be written again); placed,
\* jumped: which of its labels are, and were jumped to; passed: the parameters passed.
Was(held, own, labels, writ, placed, jumped) ==
    [held |-> held, temps |-> own, labels |-> labels, writ |-> writ,
     placed |-> placed, jumped |-> jumped, passed |-> 0]
Has(held)       == Was(held, 0, 0, "no", {}, {})
HasOwn(held)    == Was(held, 1, 0, "no", {}, {})
HasPassed(q, n) == [held |-> q, temps |-> 0, labels |-> 0, writ |-> "no",
                    placed |-> {}, jumped |-> {}, passed |-> n]
Jumped(held, labels, jumped) == Was(held, 0, labels, "no", {}, jumped)
Wrote       == Was(<<>>, 0, 0, "yes", {}, {})
WroteOwn    == Was(<<>>, 1, 0, "yes", {}, {})
Gots(n)     == [i \in 1 .. n |-> Got]

\* In the 0/1 idiom.
Puts(labels, writ, placed, jumped) == Was(<<>>, 0, labels, writ, placed, jumped)

AndWas == <<Has(<<>>), Jumped(<<>>, 1, {}), Jumped(<<>>, 2, {}), Jumped(<<Got>>, 2, {}),
            Jumped(<<>>, 2, {4}), Jumped(<<Got>>, 2, {4}), Jumped(<<>>, 2, {4}),
            Puts(2, "yes", {}, {4}), Puts(2, "yes", {}, {4, 5}), Puts(2, "redo", {4}, {4, 5}),
            Puts(2, "yes", {4}, {4, 5}), Puts(2, "yes", {4, 5}, {4, 5})>>
OrWas == <<Has(<<>>), Jumped(<<>>, 1, {}), Jumped(<<>>, 2, {}), Jumped(<<>>, 3, {}),
           Jumped(<<>>, 4, {}), Jumped(<<Got>>, 4, {}), Jumped(<<>>, 4, {4}),
           Jumped(<<>>, 4, {4, 5}), Was(<<>>, 0, 4, "no", {4}, {4, 5}),
           Was(<<Got>>, 0, 4, "no", {4}, {4, 5}), Was(<<>>, 0, 4, "no", {4}, {4, 5, 6}),
           Was(<<>>, 0, 4, "no", {4, 5}, {4, 5, 6}),
           Puts(4, "yes", {4, 5}, {4, 5, 6}), Puts(4, "yes", {4, 5}, {4, 5, 6, 7}),
           Puts(4, "redo", {4, 5, 6}, {4, 5, 6, 7}), Puts(4, "yes", {4, 5, 6}, {4, 5, 6, 7}),
           Puts(4, "yes", {4, 5, 6, 7}, {4, 5, 6, 7})>>
ModWas == <<Has(<<>>), Has(<<Got>>), Has(<<Got, Got>>), HasPassed(<<Got>>, 1),
            HasPassed(<<>>, 2), Wrote>>
CompareWas == <<Has(<<>>), Has(<<Got>>), Has(<<Got, Got>>), Jumped(<<Got, Got>>, 1, {}),
                Jumped(<<Got, Got>>, 2, {}), Jumped(<<>>, 2, {4}),
                Puts(2, "yes", {}, {4}), Puts(2, "yes", {}, {4, 5}), Puts(2, "redo", {4}, {4, 5}),
                Puts(2, "yes", {4}, {4, 5}), Puts(2, "yes", {4, 5}, {4, 5})>>
ArithmeticWas == <<Has(<<>>), Has(<<Got>>), Has(<<Got, Got>>), Wrote>>
NotWas == <<Has(<<>>), Has(<<Got>>), Jumped(<<Got>>, 1, {}), Jumped(<<Got>>, 2, {}),
            Jumped(<<>>, 2, {4}),
            Puts(2, "yes", {}, {4}), Puts(2, "yes", {}, {4, 5}), Puts(2, "redo", {4}, {4, 5}),
            Puts(2, "yes", {4}, {4, 5}), Puts(2, "yes", {4, 5}, {4, 5})>>
SignWas == <<Has(<<>>), Has(<<Got>>), Wrote>>
CallWas(n, last) ==
    [p \in 1 .. 2 * n + 2 |->
        IF p <= n THEN Has(Gots(p - 1))
        ELSE IF p <= 2 * n + 1 THEN HasPassed(Gots(2 * n + 1 - p), p - n - 1)
        ELSE last]
InnerWas(index) ==
    IF Len(index) = 1 THEN <<Has(<<>>), Has(<<Got>>), Wrote>>
    ELSE <<Has(<<>>), Has(<<Got>>), Has(<<Got, Dst>>), HasOwn(<<Got, Dst>>),
           HasOwn(<<Dst, Own(1)>>), WroteOwn>>
ElementWas(index) ==
    IF Len(index) = 1 THEN <<Has(<<>>), Has(<<Got>>), Wrote>>
    ELSE <<Has(<<>>), Has(<<Got>>), HasOwn(<<Got>>), HasOwn(<<Got, Own(1)>>),
           HasOwn(<<Own(1)>>), WroteOwn>>
SetWas(s) ==
    IF s.lhs.is = "id" THEN <<Has(<<>>), Has(<<Got>>), Has(<<>>)>>
    ELSE IF Len(s.lhs.index) = 1 THEN <<Has(<<>>), Has(<<Got>>), Has(<<Got, Got>>), Has(<<>>)>>
    ELSE <<Has(<<>>), Has(<<Got>>), Has(<<Got, Got>>), HasOwn(<<Got, Got>>),
           HasOwn(<<Got, Got, Own(1)>>), HasOwn(<<Got, Own(1)>>), HasOwn(<<>>)>>
InitWas(n)  == [p \in 1 .. 2 * n + 1 |-> IF p % 2 = 1 THEN Has(<<>>) ELSE Has(<<Got>>)]
BlockWas(n) == [p \in 1 .. n + 1 |-> Has(<<>>)]
IfWas == <<Has(<<>>), Has(<<Got>>), Jumped(<<Got>>, 1, {}), Jumped(<<>>, 1, {4}),
           Jumped(<<>>, 1, {4}), Was(<<>>, 0, 1, "no", {4}, {4})>>
IfElseWas == <<Has(<<>>), Has(<<Got>>), Jumped(<<Got>>, 1, {}), Jumped(<<Got>>, 2, {}),
               Jumped(<<>>, 2, {4}), Jumped(<<>>, 2, {4}), Jumped(<<>>, 2, {4, 5}),
               Was(<<>>, 0, 2, "no", {4}, {4, 5}), Was(<<>>, 0, 2, "no", {4}, {4, 5}),
               Was(<<>>, 0, 2, "no", {4, 5}, {4, 5})>>
WhileWas == <<Has(<<>>), Jumped(<<>>, 1, {}), Was(<<>>, 0, 1, "no", {4}, {}),
              Was(<<Got>>, 0, 1, "no", {4}, {}), Was(<<Got>>, 0, 2, "no", {4}, {}),
              Was(<<>>, 0, 2, "no", {4}, {5}), Was(<<>>, 0, 2, "no", {4}, {5}),
              Was(<<>>, 0, 2, "no", {4}, {4, 5}), Was(<<>>, 0, 2, "no", {4, 5}, {4, 5})>>
ReturnWas(s) == IF s.right = Nop THEN <<Has(<<>>), Has(<<>>), Has(<<>>)>>
                ELSE <<Has(<<>>), Has(<<Got>>), Has(<<>>), Has(<<>>)>>
FunctionWas == <<Has(<<>>), Jumped(<<>>, 1, {}), Jumped(<<>>, 1, {}),
                 Was(<<>>, 0, 1, "no", {4}, {}), Was(<<>>, 0, 1, "no", {4}, {})>>

States(e) ==
    CASE e.is = "and"      -> AndWas
      [] e.is = "or"       -> OrWas
      [] e.is = "mod"      -> ModWas
      [] e.is = "call"     -> CallWas(Len(e.args), Wrote)
      [] e.is = "elem"     -> ElementWas(e.index)
      [] e.is = "inner"    -> InnerWas(e.index)
      [] e.is \in Compare  -> CompareWas
      [] e.is \in Binary   -> ArithmeticWas
      [] e.is = "not"      -> NotWas
      [] e.is = "pos"      -> SignWas
      [] e.is = "neg"      -> SignWas
      [] e.is = "set"      -> SetWas(e)
      [] e.is = "init"     -> InitWas(Len(e.children))
      [] e.is = "do"       -> CallWas(Len(e.right.args), Has(<<>>))
      [] e.is = "block"    -> BlockWas(Len(e.children))
      [] e.is = "if"       -> IfWas
      [] e.is = "ifelse"   -> IfElseWas
      [] e.is = "while"    -> WhileWas
      [] e.is = "break"    -> <<Has(<<>>), Has(<<>>)>>
      [] e.is = "continue" -> <<Has(<<>>), Has(<<>>)>>
      [] e.is = "return"   -> ReturnWas(e)
      [] e.is = "nop"      -> <<Has(<<>>)>>
      [] e.is = "function" -> FunctionWas

\* The label behind which the result of a call is pending.
EndOf(e) == CASE e.is \in {"and", "not"} \cup Compare -> 5
              [] e.is = "or" -> 7
              [] OTHER -> 0

\* The nodes of calls of genCode: those of the tree, the inner layers, the function.
ExprNodes == {e \in Nodes : e.is \in Expressions}
Layered == {[is |-> "inner", index |-> q] : q \in Seq(ExprNodes) \ {<<>>}}
Function == {[is |-> "function", body |-> b] : b \in Bodies}
Called == {e \in Nodes : e.is \notin {"num", "id"}} \cup Layered \cup Function

(* Each order takes what was true before it to what is true behind it. *)

\* Nothing has been put into the result and no parameter is passed.
Idle(a) == a.writ = "no" /\ a.passed = 0
Alike(a, b) == /\ b.labels = a.labels /\ b.placed = a.placed /\ b.jumped = a.jumped
               /\ b.temps = a.temps

GetOK(o, a, b) ==
    /\ o.node \in Nodes /\ o.node.is \in Expressions
    /\ Idle(a) /\ Idle(b) /\ Alike(a, b) /\ b.held = Append(a.held, Got)

\* An operand of the call itself.
IsOwn(e, a, v) == (v = Dst /\ IsExpr(e)) \/ (v = Own(1) /\ a.temps = 1)

IntoOK(e, o, a, b) ==
    /\ o.node \in Layered /\ IsOwn(e, a, o.dst)
    /\ \A i \in DOMAIN a.held : a.held[i] # o.dst
    /\ Idle(a) /\ Idle(b) /\ Alike(a, b) /\ b.held = Append(a.held, o.dst)

RunOK(e, o, a, b) ==
    /\ o.node \in Nodes /\ o.node.is \in Statements /\ ~IsExpr(e)
    /\ a.held = <<>> /\ b.held = <<>> /\ Idle(a) /\ Idle(b) /\ Alike(a, b)
    /\ \A k \in 1 .. 3 : o.at[k] \in 1 .. 3 + a.labels

LabelOK(a, b) ==
    /\ Idle(a) /\ Idle(b) /\ b.labels = a.labels + 1
    /\ b.held = a.held /\ b.temps = a.temps /\ b.placed = a.placed /\ b.jumped = a.jumped
TempOK(a, b)  ==
    /\ Idle(a) /\ Idle(b) /\ a.temps = 0 /\ b.temps = 1
    /\ b.held = a.held /\ b.labels = a.labels /\ b.placed = a.placed /\ b.jumped = a.jumped

\* The operands that an instruction reads are those taken, but for those kept.
Reads(in, k) == \E r \in DOMAIN in.reads : in.reads[r] = Recent(k)
OperandsOK(e, o, a, b) ==
    LET in == o.in
        n  == Len(a.held)
        m  == n - o.takes
    IN  /\ o.takes \in 0 .. n
        /\ \A r \in DOMAIN in.reads :
              \/ in.reads[r].kind \in {"const", "var"}
              \/ \E k \in 0 .. o.takes - 1 : in.reads[r] = Recent(k)
        /\ \A i \in m + 1 .. n :
              \/ Reads(in, n - i)
              \/ a.held[i] # Got /\ \E j \in DOMAIN o.keeps : o.keeps[j] = a.held[i]
        /\ \A j \in DOMAIN o.keeps :
              /\ IsOwn(e, a, o.keeps[j])
              /\ \/ o.keeps[j] \in in.write
                 \/ \E i \in m + 1 .. n : a.held[i] = o.keeps[j] /\ ~Reads(in, n - i)
              /\ \A i \in 1 .. m : a.held[i] # o.keeps[j]
              /\ \A k \in DOMAIN o.keeps : o.keeps[k] = o.keeps[j] => j = k
        /\ \A w \in in.write :
              /\ in.write = {w}
              /\ \/ w.kind = "var"
                 \/ /\ IsOwn(e, a, w)
                    /\ \A i \in 1 .. n : a.held[i] = w => Reads(in, n - i)
                    /\ w = Own(1) => \E j \in DOMAIN o.keeps : o.keeps[j] = w
                    /\ w = Dst => a.writ # "yes" /\ \A j \in DOMAIN o.keeps : o.keeps[j] # w
        /\ o.keeps \in Seq(Held) /\ Len(b.held) = m + Len(o.keeps)
        /\ \A i \in 1 .. m : b.held[i] = a.held[i]
        /\ \A j \in 1 .. Len(o.keeps) : b.held[m + j] = o.keeps[j]
        /\ b.temps = a.temps /\ b.labels = a.labels

PlainOK(e, in, a, b) ==
    /\ in.op \notin {"label", "endfunc"} /\ in.label = 0
    /\ b.placed = a.placed /\ b.jumped = a.jumped
    /\ a.writ = "redo" => in.write = {Dst}
    /\ b.writ = IF in.write = {Dst} THEN "yes" ELSE a.writ
    /\ a.passed > 0 => in.op \in {"param", "call"}
    /\ in.op = "call" => in.n = a.passed
    /\ b.passed = IF in.op = "param" THEN a.passed + 1 ELSE 0

JumpOK(e, in, a, b) ==
    /\ in.op \notin {"label", "endfunc", "param", "call"} /\ in.write = {}
    /\ b.held = <<>> /\ a.writ # "redo" /\ b.writ = a.writ
    /\ a.passed = 0 /\ b.passed = 0 /\ b.placed = a.placed
    /\ \/ in.label \in 1 .. 3 /\ ~IsExpr(e) /\ b.jumped = a.jumped /\ a.writ = "no"
       \/ /\ in.label \in 4 .. 3 + a.labels /\ b.jumped = a.jumped \cup {in.label}
          /\ in.label \in a.placed => ~IsExpr(e)
          /\ a.writ = (IF in.label = EndOf(e) THEN "yes" ELSE "no")

PlaceOK(e, in, a, b) ==
    /\ in.op = "label" /\ in.write = {} /\ in.label \in (4 .. 3 + a.labels) \ a.placed
    /\ a.held = <<>> /\ b.held = <<>> /\ a.passed = 0 /\ b.passed = 0 /\ b.jumped = a.jumped
    /\ b.placed = a.placed \cup {in.label}
    /\ IsExpr(e) => in.label \in a.jumped
    /\ IF in.label = EndOf(e) THEN a.writ = "yes" /\ b.writ = "yes"
       ELSE \/ a.writ = "no" /\ b.writ = "no"
            \/ IsExpr(e) /\ a.writ = "yes" /\ b.writ = "redo"

EndOK(e, in, a, b) ==
    /\ in.op = "endfunc" /\ in.write = {} /\ in.label = 0 /\ e.is = "function"
    /\ a.held = <<>> /\ b.held = <<>> /\ Idle(a) /\ Idle(b) /\ Alike(a, b)
    /\ 4 .. 3 + a.labels \subseteq a.placed

OrderOK(e, o, a, b) ==
    \/ o.do = "get" /\ GetOK(o, a, b)
    \/ o.do = "into" /\ IntoOK(e, o, a, b)
    \/ o.do = "run" /\ RunOK(e, o, a, b)
    \/ o.do = "label" /\ LabelOK(a, b)
    \/ o.do = "temp" /\ TempOK(a, b)
    \/ /\ o.do = "say" /\ OperandsOK(e, o, a, b)
       /\ \/ PlainOK(e, o.in, a, b) \/ JumpOK(e, o.in, a, b)
          \/ PlaceOK(e, o.in, a, b) \/ EndOK(e, o.in, a, b)

StateOK(a) ==
    /\ a.held \in Seq(Held) /\ a.temps \in {0, 1} /\ a.labels \in Nat
    /\ a.writ \in {"no", "yes", "redo"} /\ a.passed \in Nat
    /\ a.writ # "no" => a.held = <<>>
    /\ a.placed \subseteq 4 .. 3 + a.labels /\ a.jumped \subseteq 4 .. 3 + a.labels

\* A script of n orders.
ScriptHas(e, orders, was, n, m) ==
    /\ n \in Nat /\ m = n + 1
    /\ DOMAIN orders = 1 .. n /\ DOMAIN was = 1 .. m
    /\ \A p \in 1 .. m : StateOK(was[p])
    /\ \A p \in 1 .. n : OrderOK(e, orders[p], was[p], was[p + 1])
    /\ was[1] = Has(<<>>) /\ was[m].held = <<>> /\ was[m].passed = 0
    /\ was[m].writ = (IF IsExpr(e) THEN "yes" ELSE "no")
    /\ 4 .. 3 + was[m].labels \subseteq was[m].placed
ScriptOK(e) == \E n \in Nat : ScriptHas(e, Script(e), States(e), n, n + 1)

-----------------------------------------------------------------------------
(* The orders of the scripts, shape by shape.                               *)

LEMMA SayIs ==
    ASSUME NEW in, NEW takes, NEW keeps
    PROVE  LET o == Say(in, takes, keeps)
           IN  o.do = "say" /\ o.in = in /\ o.takes = takes /\ o.keeps = keeps
  BY DEF Say

LEMMA InsIs ==
    ASSUME NEW op, NEW reads, NEW write, NEW label
    PROVE  LET in == Ins(op, reads, write, label)
           IN  in.op = op /\ in.reads = reads /\ in.write = write /\ in.label = label
  BY DEF Ins

LEMMA WasIs ==
    ASSUME NEW held, NEW own, NEW labels, NEW writ, NEW placed, NEW jumped
    PROVE  LET a == Was(held, own, labels, writ, placed, jumped)
           IN  /\ a.held = held /\ a.temps = own /\ a.labels = labels /\ a.writ = writ
               /\ a.placed = placed /\ a.jumped = jumped /\ a.passed = 0
  BY DEF Was

\* An instruction that takes nothing that is held.
LEMMA TakesNone ==
    ASSUME NEW e, NEW in, NEW a, NEW b, StateOK(a),
           \A r \in DOMAIN in.reads : in.reads[r].kind \in {"const", "var"},
           \/ in.write = {}
           \/ in.write = {Dst} /\ IsExpr(e) /\ a.writ # "yes" /\ a.held = <<>>,
           b.held = a.held, b.temps = a.temps, b.labels = a.labels
    PROVE  OperandsOK(e, Emit(in), a, b)
<1>1. /\ Emit(in).in = in /\ Emit(in).takes = 0 /\ Emit(in).keeps = <<>>
  BY SayIs DEF Emit
<1>2. a.held \in Seq(Held) /\ Len(a.held) \in Nat /\ <<>> \in Seq(Held)
  BY DEF StateOK
<1>3. Dst # Own(1) /\ Dst.kind = "dst"
  BY DEF Dst, Own
<1> QED
  BY <1>1, <1>2, <1>3 DEF OperandsOK, IsOwn

\* An instruction that takes the last operand held.
LEMMA TakesOne ==
    ASSUME NEW e, NEW in, NEW a, NEW b, StateOK(a), StateOK(b), Len(a.held) = Len(b.held) + 1,
           \A i \in 1 .. Len(b.held) : b.held[i] = a.held[i],
           \A r \in DOMAIN in.reads :
              in.reads[r].kind \in {"const", "var"} \/ in.reads[r] = Recent(0),
           \E r \in DOMAIN in.reads : in.reads[r] = Recent(0),
           \/ in.write = {}
           \/ \E w : in.write = {w} /\ w.kind = "var"
           \/ in.write = {Dst} /\ IsExpr(e) /\ a.writ # "yes" /\ Len(b.held) = 0,
           b.temps = a.temps, b.labels = a.labels
    PROVE  OperandsOK(e, Say(in, 1, <<>>), a, b)
<1> DEFINE o == Say(in, 1, <<>>)
<1>1. o.in = in /\ o.takes = 1 /\ o.keeps = <<>>
  BY SayIs
<1> HIDE DEF o
<1>2. a.held \in Seq(Held) /\ b.held \in Seq(Held) /\ Len(b.held) \in Nat /\ <<>> \in Seq(Held)
  BY DEF StateOK
<1>3. Dst # Own(1) /\ Dst.kind = "dst" /\ Len(<<>>) = 0
  BY DEF Dst, Own
<1> DEFINE m == Len(b.held)
<1>4. m \in Nat /\ Len(a.held) = m + 1 /\ m + 1 - 1 = m
  BY <1>2
<1> HIDE DEF m
<1>5. \A i \in m + 1 .. m + 1 : i = m + 1 /\ m + 1 - i = 0
  BY <1>4
<1>6. 0 \in 0 .. 1 - 1 /\ 1 \in 0 .. m + 1 /\ m + 0 = m
  BY <1>4
<1>7. Reads(in, 0)
  BY DEF Reads
<1>8. \A r \in DOMAIN in.reads :
          \/ in.reads[r].kind \in {"const", "var"}
          \/ \E k \in 0 .. 1 - 1 : in.reads[r] = Recent(k)
  BY <1>6
<1>9. \A i \in m + 1 .. m + 1 : Reads(in, m + 1 - i)
  BY <1>5, <1>7
<1>10. \A w \in in.write :
          /\ in.write = {w}
          /\ \/ w.kind = "var"
             \/ /\ IsOwn(e, a, w) /\ w = Dst /\ a.writ # "yes"
                /\ \A i \in 1 .. m + 1 : Reads(in, m + 1 - i)
  <2> TAKE w \in in.write
  <2>1. CASE in.write = {Dst} /\ IsExpr(e) /\ a.writ # "yes" /\ m = 0
    <3>1. \A i \in 1 .. 1 : Reads(in, 1 - i)
      BY <1>7
    <3> QED
      BY <2>1, <3>1 DEF IsOwn
  <2> QED
    BY <2>1 DEF m
<1>11. OperandsOK(e, o, a, b)
  BY <1>1, <1>2, <1>3, <1>4, <1>6, <1>8, <1>9, <1>10 DEF OperandsOK, m
<1> QED
  BY <1>11 DEF o

\* An instruction that takes the last two.
LEMMA TakesTwo ==
    ASSUME NEW e, NEW in, NEW a, NEW b, StateOK(a), StateOK(b), Len(a.held) = Len(b.held) + 2,
           \A i \in 1 .. Len(b.held) : b.held[i] = a.held[i],
           \A r \in DOMAIN in.reads : in.reads[r] = Recent(0) \/ in.reads[r] = Recent(1),
           \E r \in DOMAIN in.reads : in.reads[r] = Recent(0),
           \E r \in DOMAIN in.reads : in.reads[r] = Recent(1),
           \/ in.write = {}
           \/ in.write = {Dst} /\ IsExpr(e) /\ a.writ # "yes" /\ Len(b.held) = 0,
           b.temps = a.temps, b.labels = a.labels
    PROVE  OperandsOK(e, Say(in, 2, <<>>), a, b)
<1> DEFINE o == Say(in, 2, <<>>)
<1>1. o.in = in /\ o.takes = 2 /\ o.keeps = <<>>
  BY SayIs
<1> HIDE DEF o
<1>2. a.held \in Seq(Held) /\ b.held \in Seq(Held) /\ Len(b.held) \in Nat /\ <<>> \in Seq(Held)
  BY DEF StateOK
<1>3. Dst # Own(1) /\ Dst.kind = "dst" /\ Len(<<>>) = 0
  BY DEF Dst, Own
<1> DEFINE m == Len(b.held)
<1>4. m \in Nat /\ Len(a.held) = m + 2 /\ m + 2 - 2 = m
  BY <1>2
<1> HIDE DEF m
<1>5. \A i \in m + 1 .. m + 2 : m + 2 - i = 0 \/ m + 2 - i = 1
  BY <1>4
<1>6. 0 \in 0 .. 2 - 1 /\ 1 \in 0 .. 2 - 1 /\ 2 \in 0 .. m + 2 /\ m + 0 = m
  BY <1>4
<1>7. Reads(in, 0) /\ Reads(in, 1)
  BY DEF Reads
<1>8. \A r \in DOMAIN in.reads :
          \/ in.reads[r].kind \in {"const", "var"}
          \/ \E k \in 0 .. 2 - 1 : in.reads[r] = Recent(k)
  BY <1>6
<1>9. \A i \in m + 1 .. m + 2 : Reads(in, m + 2 - i)
  BY <1>5, <1>7
<1>10. \A w \in in.write :
          /\ in.write = {w}
          /\ IsOwn(e, a, w) /\ w = Dst /\ a.writ # "yes"
          /\ \A i \in 1 .. m + 2 : Reads(in, m + 2 - i)
  <2> TAKE w \in in.write
  <2>1. CASE in.write = {Dst} /\ IsExpr(e) /\ a.writ # "yes" /\ m = 0
    <3>1. \A i \in 1 .. 2 : Reads(in, 2 - i)
      BY <1>9, <2>1
    <3> QED
      BY <2>1, <3>1 DEF IsOwn
  <2> QED
    BY <2>1 DEF m
<1>11. OperandsOK(e, o, a, b)
  BY <1>1, <1>2, <1>3, <1>4, <1>6, <1>8, <1>9, <1>10 DEF OperandsOK, m
<1> QED
  BY <1>11 DEF o

\* The states of the scripts without parameters.
LEMMA StatesOK ==
    ASSUME NEW held \in Seq(Held), NEW own \in {0, 1}, NEW labels \in Nat,
           NEW writ \in {"no", "yes", "redo"},
           NEW placed, placed \subseteq 4 .. 3 + labels, NEW jumped, jumped \subseteq 4 .. 3 + labels,
           writ # "no" => held = <<>>
    PROVE  StateOK(Was(held, own, labels, writ, placed, jumped))
  BY DEF StateOK, Was

LEMMA Tests ==
    ASSUME NEW e, NEW labels \in Nat, NEW placed, placed \subseteq 4 .. 3 + labels,
           NEW jumped, jumped \subseteq 4 .. 3 + labels, NEW l \in 4 .. 3 + labels,
           l # EndOf(e), l \in placed => ~IsExpr(e), NEW now, now = jumped \cup {l}
    PROVE  OrderOK(e, Say(IfZ(Recent(0), l), 1, <<>>), Was(<<Got>>, 0, labels, "no", placed, jumped),
                   Was(<<>>, 0, labels, "no", placed, now))
<1> DEFINE a == Was(<<Got>>, 0, labels, "no", placed, jumped)
           b == Was(<<>>, 0, labels, "no", placed, now)
           in == IfZ(Recent(0), l)
           o == Say(in, 1, <<>>)
<1>1. /\ a.held = <<Got>> /\ a.temps = 0 /\ a.labels = labels /\ a.writ = "no"
      /\ a.placed = placed /\ a.jumped = jumped /\ a.passed = 0
  BY WasIs
<1>2. /\ b.held = <<>> /\ b.temps = 0 /\ b.labels = labels /\ b.writ = "no"
      /\ b.placed = placed /\ b.jumped = jumped \cup {l} /\ b.passed = 0
  BY WasIs
<1>3. in.op = "ifz" /\ in.reads = <<Recent(0)>> /\ in.write = {} /\ in.label = l
  BY InsIs DEF IfZ, None
<1>4. o.do = "say" /\ o.in = in
  BY SayIs
<1> HIDE DEF a, b, in
<1>5. StateOK(a) /\ StateOK(b)
  BY <1>1, <1>2 DEF StateOK, Held
<1>6. OperandsOK(e, o, a, b)
  <2>1. Len(a.held) = Len(b.held) + 1 /\ Len(b.held) = 0
    BY <1>1, <1>2
  <2>2. \A i \in 1 .. Len(b.held) : b.held[i] = a.held[i]
    BY <2>1
  <2>3. /\ \A r \in DOMAIN in.reads : in.reads[r] = Recent(0)
        /\ \E r \in DOMAIN in.reads : in.reads[r] = Recent(0)
    BY <1>3
  <2>4. b.temps = a.temps /\ b.labels = a.labels
    BY <1>1, <1>2
  <2> HIDE DEF o
  <2>5. OperandsOK(e, Say(in, 1, <<>>), a, b)
    BY <1>3, <1>5, <2>1, <2>2, <2>3, <2>4, TakesOne
  <2> QED
    BY <2>5 DEF o
<1>7. JumpOK(e, in, a, b)
  BY <1>1, <1>2, <1>3 DEF JumpOK
<1> HIDE DEF o
<1>8. OrderOK(e, o, a, b)
  BY <1>4, <1>6, <1>7 DEF OrderOK
<1> QED
  BY <1>8 DEF o, in, a, b

LEMMA Jumps ==
    ASSUME NEW e, NEW labels \in Nat, NEW placed, placed \subseteq 4 .. 3 + labels,
           NEW jumped, jumped \subseteq 4 .. 3 + labels, NEW l \in 4 .. 3 + labels,
           l \in placed => ~IsExpr(e), NEW now, now = jumped \cup {l},
           NEW writ, (l = EndOf(e) /\ writ = "yes") \/ (l # EndOf(e) /\ writ = "no")
    PROVE  OrderOK(e, To(l), Was(<<>>, 0, labels, writ, placed, jumped),
                   Was(<<>>, 0, labels, writ, placed, now))
<1> DEFINE a == Was(<<>>, 0, labels, writ, placed, jumped)
           b == Was(<<>>, 0, labels, writ, placed, now)
           in == Goto(l)
           o == To(l)
<1>1. /\ a.held = <<>> /\ a.temps = 0 /\ a.labels = labels /\ a.writ = writ
      /\ a.placed = placed /\ a.jumped = jumped /\ a.passed = 0
  BY WasIs
<1>2. /\ b.held = <<>> /\ b.temps = 0 /\ b.labels = labels /\ b.writ = writ
      /\ b.placed = placed /\ b.jumped = jumped \cup {l} /\ b.passed = 0
  BY WasIs
<1>3. in.op = "goto" /\ in.reads = <<>> /\ in.write = {} /\ in.label = l
  BY InsIs DEF Goto, None
<1>4. o.do = "say" /\ o.in = in /\ o = Emit(in)
  BY SayIs DEF To, Emit
<1>5. writ \in {"no", "yes", "redo"}
  OBVIOUS
<1> HIDE DEF a, b, in
<1>6. StateOK(a)
  BY <1>1, <1>5 DEF StateOK, Held
<1>7. OperandsOK(e, o, a, b)
  BY <1>1, <1>2, <1>3, <1>4, <1>6, TakesNone
<1>8. JumpOK(e, in, a, b)
  BY <1>1, <1>2, <1>3 DEF JumpOK
<1> HIDE DEF o
<1>9. OrderOK(e, o, a, b)
  BY <1>4, <1>7, <1>8 DEF OrderOK
<1> QED
  BY <1>9 DEF o, in, a, b

LEMMA Places ==
    ASSUME NEW e, NEW labels \in Nat, NEW placed, placed \subseteq 4 .. 3 + labels,
           NEW jumped, jumped \subseteq 4 .. 3 + labels, NEW l \in (4 .. 3 + labels) \ placed,
           IsExpr(e) => l \in jumped, NEW now, now = placed \cup {l}, NEW from, NEW to, from \in {"no", "yes"},
           IF l = EndOf(e) THEN from = "yes" /\ to = "yes"
           ELSE (from = "no" /\ to = "no") \/ (IsExpr(e) /\ from = "yes" /\ to = "redo")
    PROVE  OrderOK(e, At(l), Was(<<>>, 0, labels, from, placed, jumped),
                   Was(<<>>, 0, labels, to, now, jumped))
<1> DEFINE a == Was(<<>>, 0, labels, from, placed, jumped)
           b == Was(<<>>, 0, labels, to, now, jumped)
           in == Label(l)
           o == At(l)
<1>1. /\ a.held = <<>> /\ a.temps = 0 /\ a.labels = labels /\ a.writ = from
      /\ a.placed = placed /\ a.jumped = jumped /\ a.passed = 0
  BY WasIs
<1>2. /\ b.held = <<>> /\ b.temps = 0 /\ b.labels = labels /\ b.writ = to
      /\ b.placed = placed \cup {l} /\ b.jumped = jumped /\ b.passed = 0
  BY WasIs
<1>3. in.op = "label" /\ in.reads = <<>> /\ in.write = {} /\ in.label = l
  BY InsIs DEF Label, None
<1>4. o.do = "say" /\ o.in = in /\ o = Emit(in)
  BY SayIs DEF At, Emit
<1>5. from \in {"no", "yes", "redo"}
  OBVIOUS
<1> HIDE DEF a, b, in
<1>6. StateOK(a)
  BY <1>1, <1>5 DEF StateOK, Held
<1>7. OperandsOK(e, o, a, b)
  BY <1>1, <1>2, <1>3, <1>4, <1>6, TakesNone
<1>8. PlaceOK(e, in, a, b)
  BY <1>1, <1>2, <1>3 DEF PlaceOK
<1> HIDE DEF o
<1>9. OrderOK(e, o, a, b)
  BY <1>4, <1>7, <1>8 DEF OrderOK
<1> QED
  BY <1>9 DEF o, in, a, b

LEMMA PutsIt ==
    ASSUME NEW e, NEW n, IsExpr(e), NEW labels \in Nat, NEW placed, placed \subseteq 4 .. 3 + labels,
           NEW jumped, jumped \subseteq 4 .. 3 + labels, NEW from \in {"no", "redo"}
    PROVE  OrderOK(e, Put(n), Was(<<>>, 0, labels, from, placed, jumped),
                   Was(<<>>, 0, labels, "yes", placed, jumped))
<1> DEFINE a == Was(<<>>, 0, labels, from, placed, jumped)
           b == Was(<<>>, 0, labels, "yes", placed, jumped)
           in == Assign(Const(n), Dst)
           o == Put(n)
<1>1. /\ a.held = <<>> /\ a.temps = 0 /\ a.labels = labels /\ a.writ = from
      /\ a.placed = placed /\ a.jumped = jumped /\ a.passed = 0
  BY WasIs
<1>2. /\ b.held = <<>> /\ b.temps = 0 /\ b.labels = labels /\ b.writ = "yes"
      /\ b.placed = placed /\ b.jumped = jumped /\ b.passed = 0
  BY WasIs
<1>3. in.op = "assign" /\ in.reads = <<Const(n)>> /\ in.write = {Dst} /\ in.label = 0
  BY InsIs DEF Assign
<1>4. o.do = "say" /\ o.in = in /\ o = Emit(in)
  BY SayIs DEF Put, Emit
<1>6. Const(n).kind = "const"
  BY DEF Const
<1> HIDE DEF a, b, in
<1>5. StateOK(a)
  BY <1>1 DEF StateOK, Held
<1>7. OperandsOK(e, o, a, b)
  BY <1>1, <1>2, <1>3, <1>4, <1>5, <1>6, TakesNone
<1>8. PlainOK(e, in, a, b)
  BY <1>1, <1>2, <1>3 DEF PlainOK
<1> HIDE DEF o
<1>9. OrderOK(e, o, a, b)
  BY <1>4, <1>7, <1>8 DEF OrderOK
<1> QED
  BY <1>9 DEF o, in, a, b

LEMMA TakesOneOrder ==
    ASSUME NEW e, NEW in, NEW own \in {0, 1}, NEW h \in Held, NEW writ,
           in.op \notin {"label", "endfunc", "param", "call"}, in.label = 0,
           \A r \in DOMAIN in.reads :
              in.reads[r].kind \in {"const", "var"} \/ in.reads[r] = Recent(0),
           \E r \in DOMAIN in.reads : in.reads[r] = Recent(0),
           \/ /\ writ = "no"
              /\ in.write = {} \/ \E w : in.write = {w} /\ w.kind = "var"
           \/ writ = "yes" /\ in.write = {Dst} /\ IsExpr(e)
    PROVE  OrderOK(e, Say(in, 1, <<>>), Was(<<h>>, own, 0, "no", {}, {}),
                   Was(<<>>, own, 0, writ, {}, {}))
<1> DEFINE a == Was(<<h>>, own, 0, "no", {}, {})
           b == Was(<<>>, own, 0, writ, {}, {})
           o == Say(in, 1, <<>>)
<1>1. /\ a.held = <<h>> /\ a.temps = own /\ a.labels = 0 /\ a.writ = "no"
      /\ a.placed = {} /\ a.jumped = {} /\ a.passed = 0
  BY WasIs
<1>2. /\ b.held = <<>> /\ b.temps = own /\ b.labels = 0 /\ b.writ = writ
      /\ b.placed = {} /\ b.jumped = {} /\ b.passed = 0
  BY WasIs
<1>3. o.do = "say" /\ o.in = in
  BY SayIs
<1> HIDE DEF a, b
<1>4. StateOK(a) /\ StateOK(b)
  BY <1>1, <1>2 DEF StateOK
<1>5. Len(a.held) = Len(b.held) + 1 /\ Len(b.held) = 0
  BY <1>1, <1>2
<1>6. \A i \in 1 .. Len(b.held) : b.held[i] = a.held[i]
  BY <1>5
<1>7. b.temps = a.temps /\ b.labels = a.labels
  BY <1>1, <1>2
<1> HIDE DEF o
<1>8. OperandsOK(e, Say(in, 1, <<>>), a, b)
  BY <1>1, <1>4, <1>5, <1>6, <1>7, TakesOne
<1>9. PlainOK(e, in, a, b)
  <2>1. Dst.kind # "var"
    BY DEF Dst
  <2> QED
    BY <1>1, <1>2, <2>1 DEF PlainOK
<1>10. OrderOK(e, o, a, b)
  BY <1>3, <1>8, <1>9 DEF OrderOK, o
<1> QED
  BY <1>10 DEF o, a, b

LEMMA TakesTwoOrder ==
    ASSUME NEW e, NEW in, NEW own \in {0, 1}, NEW g \in Held, NEW h \in Held, NEW writ,
           in.op \notin {"label", "endfunc", "param", "call"}, in.label = 0,
           \A r \in DOMAIN in.reads : in.reads[r] = Recent(0) \/ in.reads[r] = Recent(1),
           \E r \in DOMAIN in.reads : in.reads[r] = Recent(0),
           \E r \in DOMAIN in.reads : in.reads[r] = Recent(1),
           \/ writ = "no" /\ in.write = {}
           \/ writ = "yes" /\ in.write = {Dst} /\ IsExpr(e)
    PROVE  OrderOK(e, Say(in, 2, <<>>), Was(<<g, h>>, own, 0, "no", {}, {}),
                   Was(<<>>, own, 0, writ, {}, {}))
<1> DEFINE a == Was(<<g, h>>, own, 0, "no", {}, {})
           b == Was(<<>>, own, 0, writ, {}, {})
           o == Say(in, 2, <<>>)
<1>1. /\ a.held = <<g, h>> /\ a.temps = own /\ a.labels = 0 /\ a.writ = "no"
      /\ a.placed = {} /\ a.jumped = {} /\ a.passed = 0
  BY WasIs
<1>2. /\ b.held = <<>> /\ b.temps = own /\ b.labels = 0 /\ b.writ = writ
      /\ b.placed = {} /\ b.jumped = {} /\ b.passed = 0
  BY WasIs
<1>3. o.do = "say" /\ o.in = in
  BY SayIs
<1> HIDE DEF a, b
<1>4. StateOK(a) /\ StateOK(b)
  BY <1>1, <1>2 DEF StateOK
<1>5. Len(a.held) = Len(b.held) + 2 /\ Len(b.held) = 0
  BY <1>1, <1>2
<1>6. \A i \in 1 .. Len(b.held) : b.held[i] = a.held[i]
  BY <1>5
<1>7. b.temps = a.temps /\ b.labels = a.labels
  BY <1>1, <1>2
<1> HIDE DEF o
<1>8. OperandsOK(e, Say(in, 2, <<>>), a, b)
  BY <1>1, <1>4, <1>5, <1>6, <1>7, TakesTwo
<1>9. PlainOK(e, in, a, b)
  BY <1>1, <1>2 DEF PlainOK
<1>10. OrderOK(e, o, a, b)
  BY <1>3, <1>8, <1>9 DEF OrderOK, o
<1> QED
  BY <1>10 DEF o, a, b

\* Parameters, and the call.
LEMMA Params ==
    ASSUME NEW e, NEW n \in Nat, NEW passed \in Nat
    PROVE  OrderOK(e, Say(Param(Recent(0)), 1, <<>>), HasPassed(Gots(n + 1), passed),
                   HasPassed(Gots(n), passed + 1))
<1> DEFINE a == HasPassed(Gots(n + 1), passed)
           b == HasPassed(Gots(n), passed + 1)
           in == Param(Recent(0))
           o == Say(in, 1, <<>>)
<1>1. /\ a.held = Gots(n + 1) /\ a.temps = 0 /\ a.labels = 0 /\ a.writ = "no"
      /\ a.placed = {} /\ a.jumped = {} /\ a.passed = passed
  BY DEF HasPassed
<1>2. /\ b.held = Gots(n) /\ b.temps = 0 /\ b.labels = 0 /\ b.writ = "no"
      /\ b.placed = {} /\ b.jumped = {} /\ b.passed = passed + 1
  BY DEF HasPassed
<1>3. o.do = "say" /\ o.in = in
  BY SayIs
<1>4. in.op = "param" /\ in.reads = <<Recent(0)>> /\ in.write = {} /\ in.label = 0
  BY InsIs DEF Param, None
<1>5. /\ Gots(n + 1) \in Seq(Held) /\ Gots(n) \in Seq(Held)
      /\ Len(Gots(n + 1)) = Len(Gots(n)) + 1
      /\ \A i \in 1 .. Len(Gots(n)) : Gots(n)[i] = Gots(n + 1)[i]
  BY DEF Gots, Held
<1> HIDE DEF a, b, in
<1>6. StateOK(a) /\ StateOK(b)
  BY <1>1, <1>2, <1>5 DEF StateOK
<1>7. b.temps = a.temps /\ b.labels = a.labels
  BY <1>1, <1>2
<1>8. /\ \A r \in DOMAIN in.reads : in.reads[r] = Recent(0)
      /\ \E r \in DOMAIN in.reads : in.reads[r] = Recent(0)
  BY <1>4
<1> HIDE DEF o
<1>9. OperandsOK(e, Say(in, 1, <<>>), a, b)
  BY <1>1, <1>2, <1>4, <1>5, <1>6, <1>7, <1>8, TakesOne
<1>10. PlainOK(e, in, a, b)
  BY <1>1, <1>2, <1>4 DEF PlainOK
<1>11. OrderOK(e, o, a, b)
  BY <1>3, <1>9, <1>10 DEF OrderOK, o
<1> QED
  BY <1>11 DEF o, in, a, b

LEMMA CallsIt ==
    ASSUME NEW e, NEW f, NEW n \in Nat, NEW dst, NEW last,
           \/ dst = {Dst} /\ IsExpr(e) /\ last = Wrote
           \/ dst = None /\ last = Has(<<>>)
    PROVE  OrderOK(e, Emit(CallTo(f, n, dst)), HasPassed(<<>>, n), last)
<1> DEFINE a == HasPassed(<<>>, n)
           in == CallTo(f, n, dst)
           o == Emit(in)
<1>1. /\ a.held = <<>> /\ a.temps = 0 /\ a.labels = 0 /\ a.writ = "no"
      /\ a.placed = {} /\ a.jumped = {} /\ a.passed = n
  BY DEF HasPassed
<1>2. /\ last.held = <<>> /\ last.temps = 0 /\ last.labels = 0
      /\ last.writ = IF dst = {Dst} THEN "yes" ELSE "no"
      /\ last.placed = {} /\ last.jumped = {} /\ last.passed = 0
  BY DEF Has, Wrote, Was, None
<1>3. o.do = "say" /\ o.in = in
  BY SayIs DEF Emit
<1>4. /\ in.op = "call" /\ in.reads = <<>> /\ in.write = dst /\ in.label = 0 /\ in.n = n
  BY DEF CallTo, Ins
<1> HIDE DEF a, in
<1>5. StateOK(a)
  BY <1>1 DEF StateOK
<1>6. \A r \in DOMAIN in.reads : in.reads[r].kind \in {"const", "var"}
  BY <1>4
<1> HIDE DEF o
<1>7. OperandsOK(e, Emit(in), a, last)
  BY <1>1, <1>2, <1>4, <1>5, <1>6, TakesNone DEF None
<1>8. PlainOK(e, in, a, last)
  BY <1>1, <1>2, <1>4 DEF PlainOK
<1>9. OrderOK(e, o, a, last)
  BY <1>3, <1>7, <1>8 DEF OrderOK, o
<1> QED
  BY <1>9 DEF o, in, a

\* A test of two operands.
LEMMA TestsTwo ==
    ASSUME NEW e, NEW op, IsExpr(e), EndOf(e) = 5
    PROVE  OrderOK(e, Say(Jump(op, Recent(1), Recent(0), 4), 2, <<>>), Jumped(<<Got, Got>>, 2, {}),
                   Jumped(<<>>, 2, {4}))
<1> DEFINE a == Jumped(<<Got, Got>>, 2, {})
           b == Jumped(<<>>, 2, {4})
           in == Jump(op, Recent(1), Recent(0), 4)
           o == Say(in, 2, <<>>)
<1>1. /\ a.held = <<Got, Got>> /\ a.temps = 0 /\ a.labels = 2 /\ a.writ = "no"
      /\ a.placed = {} /\ a.jumped = {} /\ a.passed = 0
  BY WasIs DEF Jumped
<1>2. /\ b.held = <<>> /\ b.temps = 0 /\ b.labels = 2 /\ b.writ = "no"
      /\ b.placed = {} /\ b.jumped = {4} /\ b.passed = 0
  BY WasIs DEF Jumped
<1>3. /\ in.op = "jump" /\ in.reads = <<Recent(1), Recent(0)>> /\ in.write = {}
      /\ in.label = 4
  BY DEF Jump, Ins, None
<1>4. o.do = "say" /\ o.in = in
  BY SayIs
<1> HIDE DEF a, b, in
<1>5. StateOK(a) /\ StateOK(b)
  BY <1>1, <1>2 DEF StateOK, Held
<1>6. Len(a.held) = Len(b.held) + 2 /\ Len(b.held) = 0
  BY <1>1, <1>2
<1>7. \A i \in 1 .. Len(b.held) : b.held[i] = a.held[i]
  BY <1>6
<1>8. b.temps = a.temps /\ b.labels = a.labels
  BY <1>1, <1>2
<1>9. /\ \A r \in DOMAIN in.reads : in.reads[r] = Recent(0) \/ in.reads[r] = Recent(1)
      /\ \E r \in DOMAIN in.reads : in.reads[r] = Recent(0)
      /\ \E r \in DOMAIN in.reads : in.reads[r] = Recent(1)
  BY <1>3
<1> HIDE DEF o
<1>10. OperandsOK(e, Say(in, 2, <<>>), a, b)
  BY <1>3, <1>5, <1>6, <1>7, <1>8, <1>9, TakesTwo
<1>11. JumpOK(e, in, a, b)
  BY <1>1, <1>2, <1>3 DEF JumpOK
<1>12. OrderOK(e, o, a, b)
  BY <1>4, <1>10, <1>11 DEF OrderOK, o
<1> QED
  BY <1>12 DEF o, in, a, b

\* An element with several indices: its own temporary stays held.
LEMMA AddsLayer ==
    ASSUME NEW e, NEW q, NEW r, \/ q = <<Got, Own(1)>> /\ r = <<Own(1)>>
                                \/ q = <<Got, Got, Own(1)>> /\ r = <<Got, Own(1)>>
    PROVE  OrderOK(e, AddLayer, HasOwn(q), HasOwn(r))
<1> DEFINE a == HasOwn(q)
           b == HasOwn(r)
           in == Operate("add", Recent(0), Recent(1), Own(1))
           o == AddLayer
<1>1. /\ a.held = q /\ a.temps = 1 /\ a.labels = 0 /\ a.writ = "no"
      /\ a.placed = {} /\ a.jumped = {} /\ a.passed = 0
  BY WasIs DEF HasOwn
<1>2. /\ b.held = r /\ b.temps = 1 /\ b.labels = 0 /\ b.writ = "no"
      /\ b.placed = {} /\ b.jumped = {} /\ b.passed = 0
  BY WasIs DEF HasOwn
<1>3. in.op = "add" /\ in.reads = <<Recent(0), Recent(1)>> /\ in.write = {Own(1)} /\ in.label = 0
  BY InsIs DEF Operate
<1>4. o.do = "say" /\ o.in = in /\ o.takes = 2 /\ o.keeps = <<Own(1)>>
  BY SayIs DEF AddLayer
<1>5. Got # Own(1) /\ Dst # Own(1) /\ Own(1).kind # "var" /\ Own(1) \in Held
  BY DEF Got, Own, Dst, Held
<1> HIDE DEF a, b, in, o
<1>6. Reads(in, 0) /\ Reads(in, 1)
  BY <1>3 DEF Reads
<1>7. /\ \A k \in DOMAIN in.reads : \E i \in 0 .. 2 - 1 : in.reads[k] = Recent(i)
      /\ <<Own(1)>> \in Seq(Held) /\ Len(<<Own(1)>>) = 1 /\ DOMAIN <<Own(1)>> = {1}
      /\ <<Own(1)>>[1] = Own(1)
  BY <1>3, <1>5
<1>8. OperandsOK(e, o, a, b)
  <2>1. CASE q = <<Got, Own(1)>> /\ r = <<Own(1)>>
    <3>1. Len(a.held) = 2 /\ a.held[1] = Got /\ a.held[2] = Own(1)
      BY <1>1, <2>1
    <3>2. Len(b.held) = 1 /\ b.held[1] = Own(1)
      BY <1>2, <2>1
    <3> QED
      BY <1>1, <1>2, <1>3, <1>4, <1>5, <1>6, <1>7, <3>1, <3>2 DEF OperandsOK, IsOwn
  <2>2. CASE q = <<Got, Got, Own(1)>> /\ r = <<Got, Own(1)>>
    <3>1. Len(a.held) = 3 /\ a.held[1] = Got /\ a.held[2] = Got /\ a.held[3] = Own(1)
      BY <1>1, <2>2
    <3>2. Len(b.held) = 2 /\ b.held[1] = Got /\ b.held[2] = Own(1)
      BY <1>2, <2>2
    <3> QED
      BY <1>1, <1>2, <1>3, <1>4, <1>5, <1>6, <1>7, <3>1, <3>2 DEF OperandsOK, IsOwn
  <2> QED
    BY <2>1, <2>2
<1>9. PlainOK(e, in, a, b)
  <2>1. {Own(1)} # {Dst}
    BY <1>5
  <2> QED
    BY <1>1, <1>2, <1>3, <2>1 DEF PlainOK
<1>10. OrderOK(e, o, a, b)
  BY <1>4, <1>8, <1>9 DEF OrderOK
<1> QED
  BY <1>10 DEF o, in, a, b

\* The layers inside hold their result while they work out their share.
MulLayer(n) == Say(Operate("mul", Recent(1), Const(n), Own(1)), 2, <<Dst, Own(1)>>)
LEMMA MultipliesLayer ==
    ASSUME NEW e, NEW n, IsExpr(e)
    PROVE  OrderOK(e, MulLayer(n), HasOwn(<<Got, Dst>>), HasOwn(<<Dst, Own(1)>>))
<1> DEFINE a == HasOwn(<<Got, Dst>>)
           b == HasOwn(<<Dst, Own(1)>>)
           in == Operate("mul", Recent(1), Const(n), Own(1))
           o == MulLayer(n)
<1>1. /\ a.held = <<Got, Dst>> /\ a.temps = 1 /\ a.labels = 0 /\ a.writ = "no"
      /\ a.placed = {} /\ a.jumped = {} /\ a.passed = 0
  BY WasIs DEF HasOwn
<1>2. /\ b.held = <<Dst, Own(1)>> /\ b.temps = 1 /\ b.labels = 0 /\ b.writ = "no"
      /\ b.placed = {} /\ b.jumped = {} /\ b.passed = 0
  BY WasIs DEF HasOwn
<1>3. in.op = "mul" /\ in.reads = <<Recent(1), Const(n)>> /\ in.write = {Own(1)} /\ in.label = 0
  BY InsIs DEF Operate
<1>4. o.do = "say" /\ o.in = in /\ o.takes = 2 /\ o.keeps = <<Dst, Own(1)>>
  BY SayIs DEF MulLayer
<1>5. /\ Got # Own(1) /\ Dst # Own(1) /\ Dst # Got /\ Own(1).kind # "var"
      /\ Own(1) \in Held /\ Dst \in Held
  BY DEF Got, Own, Dst, Held
<1>6. /\ \A i \in Nat : Const(n) # Recent(i) /\ Const(n).kind = "const"
      /\ Recent(1) # Recent(0)
  BY DEF Const, Recent
<1> HIDE DEF a, b, in, o
<1>7. Reads(in, 1) /\ ~Reads(in, 0)
  BY <1>3, <1>6 DEF Reads
<1>8. /\ \A k \in DOMAIN in.reads :
            in.reads[k].kind \in {"const", "var"} \/ \E i \in 0 .. 2 - 1 : in.reads[k] = Recent(i)
      /\ <<Dst, Own(1)>> \in Seq(Held) /\ Len(<<Dst, Own(1)>>) = 2
      /\ DOMAIN <<Dst, Own(1)>> = {1, 2}
      /\ <<Dst, Own(1)>>[1] = Dst /\ <<Dst, Own(1)>>[2] = Own(1)
  BY <1>3, <1>5, <1>6
<1>9. Len(a.held) = 2 /\ a.held[1] = Got /\ a.held[2] = Dst
  BY <1>1
<1>10. Len(b.held) = 2 /\ b.held[1] = Dst /\ b.held[2] = Own(1)
  BY <1>2
<1>11. OperandsOK(e, o, a, b)
  BY <1>1, <1>2, <1>3, <1>4, <1>5, <1>7, <1>8, <1>9, <1>10 DEF OperandsOK, IsOwn
<1>12. PlainOK(e, in, a, b)
  <2>1. {Own(1)} # {Dst}
    BY <1>5
  <2> QED
    BY <1>1, <1>2, <1>3, <2>1 DEF PlainOK
<1>13. OrderOK(e, o, a, b)
  BY <1>4, <1>11, <1>12 DEF OrderOK
<1> QED
  BY <1>13 DEF o, in, a, b

\* A jump to a label of the statement around this one.
LEMMA JumpsOut ==
    ASSUME NEW e, ~IsExpr(e), NEW l \in 1 .. 3
    PROVE  OrderOK(e, To(l), Has(<<>>), Has(<<>>))
<1> DEFINE a == Has(<<>>)
           in == Goto(l)
           o == To(l)
<1>1. /\ a.held = <<>> /\ a.temps = 0 /\ a.labels = 0 /\ a.writ = "no"
      /\ a.placed = {} /\ a.jumped = {} /\ a.passed = 0
  BY WasIs DEF Has
<1>2. in.op = "goto" /\ in.reads = <<>> /\ in.write = {} /\ in.label = l
  BY InsIs DEF Goto, None
<1>3. o.do = "say" /\ o.in = in /\ o = Emit(in)
  BY SayIs DEF To, Emit
<1> HIDE DEF a, in
<1>4. StateOK(a)
  BY <1>1 DEF StateOK
<1>5. OperandsOK(e, o, a, a)
  BY <1>2, <1>3, <1>4, TakesNone
<1>6. JumpOK(e, in, a, a)
  BY <1>1, <1>2 DEF JumpOK
<1> HIDE DEF o
<1>7. OrderOK(e, o, a, a)
  BY <1>3, <1>5, <1>6 DEF OrderOK
<1> QED
  BY <1>7 DEF o, a

\* return; and the end of a function.
LEMMA ReturnsNothing ==
    ASSUME NEW e
    PROVE  OrderOK(e, Emit(Ret(<<>>)), Has(<<>>), Has(<<>>))
<1> DEFINE a == Has(<<>>)
           in == Ret(<<>>)
           o == Emit(in)
<1>1. /\ a.held = <<>> /\ a.temps = 0 /\ a.labels = 0 /\ a.writ = "no"
      /\ a.placed = {} /\ a.jumped = {} /\ a.passed = 0
  BY WasIs DEF Has
<1>2. in.op = "return" /\ in.reads = <<>> /\ in.write = {} /\ in.label = 0
  BY InsIs DEF Ret, None
<1>3. o.do = "say" /\ o.in = in
  BY SayIs DEF Emit
<1> HIDE DEF a, in
<1>4. StateOK(a)
  BY <1>1 DEF StateOK
<1>5. OperandsOK(e, Emit(in), a, a)
  BY <1>2, <1>4, TakesNone
<1>6. PlainOK(e, in, a, a)
  BY <1>1, <1>2 DEF PlainOK
<1> HIDE DEF o
<1>7. OrderOK(e, o, a, a)
  BY <1>3, <1>5, <1>6 DEF OrderOK, o
<1> QED
  BY <1>7 DEF o, in, a

LEMMA Ends ==
    ASSUME NEW e, e.is = "function"
    PROVE  LET a == Was(<<>>, 0, 1, "no", {4}, {}) IN OrderOK(e, Emit(EndFunc), a, a)
<1> DEFINE a == Was(<<>>, 0, 1, "no", {4}, {})
           in == EndFunc
           o == Emit(in)
<1>1. /\ a.held = <<>> /\ a.temps = 0 /\ a.labels = 1 /\ a.writ = "no"
      /\ a.placed = {4} /\ a.jumped = {} /\ a.passed = 0
  BY WasIs
<1>2. in.op = "endfunc" /\ in.reads = <<>> /\ in.write = {} /\ in.label = 0
  BY InsIs DEF EndFunc, None
<1>3. o.do = "say" /\ o.in = in
  BY SayIs DEF Emit
<1> HIDE DEF a, in
<1>4. StateOK(a)
  BY <1>1 DEF StateOK
<1>5. OperandsOK(e, Emit(in), a, a)
  BY <1>2, <1>4, TakesNone
<1>6. EndOK(e, in, a, a)
  BY <1>1, <1>2 DEF EndOK, Idle, Alike
<1> HIDE DEF o
<1>7. OrderOK(e, o, a, a)
  BY <1>3, <1>5, <1>6 DEF OrderOK, o
<1> QED
  BY <1>7 DEF o, in, a

\* The orders that generate nothing themselves.
LEMMA Gets ==
    ASSUME NEW e, NEW c \in Nodes, c.is \in Expressions, NEW own, NEW labels, NEW placed,
           NEW jumped
    PROVE  /\ OrderOK(e, Get(c), Was(<<>>, own, labels, "no", placed, jumped),
                      Was(<<Got>>, own, labels, "no", placed, jumped))
           /\ OrderOK(e, Get(c), Was(<<Got>>, own, labels, "no", placed, jumped),
                      Was(<<Got, Got>>, own, labels, "no", placed, jumped))
  BY DEF OrderOK, Get, GetOK, Idle, Alike, Was

LEMMA RunsIt ==
    ASSUME NEW e, ~IsExpr(e), NEW s \in Nodes, s.is \in Statements, NEW labels \in Nat,
           NEW placed, NEW jumped, NEW at, \A k \in 1 .. 3 : at[k] \in 1 .. 3 + labels
    PROVE  OrderOK(e, Run(s, at), Was(<<>>, 0, labels, "no", placed, jumped),
                   Was(<<>>, 0, labels, "no", placed, jumped))
  BY WasIs DEF OrderOK, Run, RunOK, Idle, Alike

LEMMA NewLabels ==
    ASSUME NEW e, NEW q, NEW labels \in Nat, NEW placed, NEW jumped, NEW now, now = labels + 1
    PROVE  OrderOK(e, NewLabel, Was(q, 0, labels, "no", placed, jumped),
                   Was(q, 0, now, "no", placed, jumped))
  BY WasIs DEF OrderOK, NewLabel, LabelOK, Idle

LEMMA NewTemps ==
    ASSUME NEW e, NEW q
    PROVE  OrderOK(e, NewTemp, Has(q), HasOwn(q))
  BY WasIs DEF OrderOK, NewTemp, TempOK, Idle, Has, HasOwn

LEMMA ChildOK ==
    ASSUME NEW e \in Nodes, NEW c
    PROVE  /\ c \in Operands(e) => c \in Nodes /\ c.is \in Expressions
           /\ c \in Clauses(e) => c \in Nodes /\ c.is \in Statements
  BY NodesAssumption

LEMMA ScriptIs ==
    ASSUME NEW e, NEW n, NEW m, ScriptHas(e, Script(e), States(e), n, m)
    PROVE  ScriptOK(e)
  BY DEF ScriptOK, ScriptHas

LEMMA LabelSets ==
    /\ \A n \in 0 .. 4 : {} \subseteq 4 .. 3 + n
    /\ \A n \in 1 .. 4 : {4} \subseteq 4 .. 3 + n /\ 4 \in 4 .. 3 + n
    /\ \A n \in 2 .. 4 : {5} \subseteq 4 .. 3 + n /\ {4, 5} \subseteq 4 .. 3 + n /\ 5 \in 4 .. 3 + n
    /\ {4, 5, 6} \subseteq 4 .. 3 + 4 /\ {4, 5, 6, 7} \subseteq 4 .. 3 + 4
    /\ 6 \in 4 .. 3 + 4 /\ 7 \in 4 .. 3 + 4
    /\ {} \cup {4} = {4} /\ {4} \cup {5} = {4, 5} /\ {4, 5} \cup {6} = {4, 5, 6}
    /\ {4, 5} \cup {4} = {4, 5} /\ {4} \cup {4} = {4}
    /\ {4, 5, 6} \cup {7} = {4, 5, 6, 7}
  OBVIOUS

LEMMA HeldSeqs ==
    /\ <<>> \in Seq(Held) /\ <<Got>> \in Seq(Held) /\ <<Got, Got>> \in Seq(Held)
    /\ <<Got, Dst>> \in Seq(Held) /\ <<Got, Own(1)>> \in Seq(Held) /\ <<Own(1)>> \in Seq(Held)
    /\ <<Dst, Own(1)>> \in Seq(Held) /\ <<Got, Got, Own(1)>> \in Seq(Held)
  BY DEF Held

LEMMA StatesAre ==
    /\ \A q \in {<<>>, <<Got>>, <<Got, Got>>, <<Got, Dst>>} : StateOK(Has(q))
    /\ \A q \in {<<>>, <<Got, Dst>>, <<Got>>, <<Got, Got>>, <<Got, Own(1)>>, <<Own(1)>>, <<Dst, Own(1)>>, <<Got, Got, Own(1)>>} :
          StateOK(HasOwn(q))
    /\ StateOK(Wrote) /\ StateOK(WroteOwn)
    /\ \A q \in {<<>>, <<Got>>, <<Got, Got>>} :
          /\ \A n \in 1 .. 4 : StateOK(Jumped(q, n, {})) /\ StateOK(Jumped(q, n, {4}))
          /\ \A n \in 2 .. 4 : StateOK(Jumped(q, n, {4, 5}))
    /\ \A w \in {"yes", "redo"} : \A i \in {{}, {4}, {4, 5}} : \A j \in {{4}, {4, 5}} :
          StateOK(Puts(2, w, i, j))
    /\ \A w \in {"yes", "redo"} : \A i, j \in {{4, 5}, {4, 5, 6}, {4, 5, 6, 7}} : StateOK(Puts(4, w, i, j))
    /\ \A q \in {<<>>, <<Got>>} :
          /\ \A j \in {{}, {4}} : StateOK(Was(q, 0, 1, "no", {4}, j))
          /\ \A i \in {{4}, {4, 5}} : \A j \in {{}, {5}, {4, 5}} : StateOK(Was(q, 0, 2, "no", i, j))
          /\ \A i \in {{4}, {4, 5}} : \A j \in {{4, 5}, {4, 5, 6}} : StateOK(Was(q, 0, 4, "no", i, j))
<1>1. \A q \in {<<>>, <<Got>>, <<Got, Got>>, <<Got, Dst>>} : StateOK(Has(q))
  BY HeldSeqs, StatesOK, LabelSets DEF Has
<1>2. \A q \in {<<>>, <<Got, Dst>>, <<Got>>, <<Got, Got>>, <<Got, Own(1)>>, <<Own(1)>>, <<Dst, Own(1)>>,
                <<Got, Got, Own(1)>>} : StateOK(HasOwn(q))
  BY HeldSeqs, StatesOK, LabelSets DEF HasOwn
<1>3. StateOK(Wrote) /\ StateOK(WroteOwn)
  BY HeldSeqs, StatesOK, LabelSets DEF Wrote, WroteOwn
<1>4. ASSUME NEW q \in {<<>>, <<Got>>, <<Got, Got>>}
      PROVE  /\ \A n \in 1 .. 4 : StateOK(Jumped(q, n, {})) /\ StateOK(Jumped(q, n, {4}))
             /\ \A n \in 2 .. 4 : StateOK(Jumped(q, n, {4, 5}))
  <2>1. q \in Seq(Held)
    BY <1>4, HeldSeqs
  <2>2. \A n \in 1 .. 4 : StateOK(Jumped(q, n, {}))
    BY <2>1, StatesOK, LabelSets DEF Jumped
  <2>3. \A n \in 1 .. 4 : StateOK(Jumped(q, n, {4}))
    BY <2>1, StatesOK, LabelSets DEF Jumped
  <2>4. \A n \in 2 .. 4 : StateOK(Jumped(q, n, {4, 5}))
    BY <2>1, StatesOK, LabelSets DEF Jumped
  <2> QED
    BY <2>2, <2>3, <2>4
<1>5. ASSUME NEW w \in {"yes", "redo"}, NEW i \in {{}, {4}, {4, 5}}, NEW j \in {{4}, {4, 5}}
      PROVE  StateOK(Puts(2, w, i, j))
  <2>1. i \subseteq 4 .. 3 + 2 /\ j \subseteq 4 .. 3 + 2
    BY <1>5
  <2> QED
    BY <2>1, HeldSeqs, StatesOK DEF Puts
<1>6. ASSUME NEW w \in {"yes", "redo"}, NEW i \in {{4, 5}, {4, 5, 6}, {4, 5, 6, 7}},
             NEW j \in {{4, 5}, {4, 5, 6}, {4, 5, 6, 7}}
      PROVE  StateOK(Puts(4, w, i, j))
  <2>1. i \subseteq 4 .. 3 + 4 /\ j \subseteq 4 .. 3 + 4
    BY <1>6
  <2> QED
    BY <2>1, HeldSeqs, StatesOK DEF Puts
<1>7. ASSUME NEW q \in {<<>>, <<Got>>}
      PROVE  /\ \A j \in {{}, {4}} : StateOK(Was(q, 0, 1, "no", {4}, j))
             /\ \A i \in {{4}, {4, 5}} : \A j \in {{}, {5}, {4, 5}} : StateOK(Was(q, 0, 2, "no", i, j))
             /\ \A i \in {{4}, {4, 5}} : \A j \in {{4, 5}, {4, 5, 6}} : StateOK(Was(q, 0, 4, "no", i, j))
  <2>1. q \in Seq(Held)
    BY <1>7, HeldSeqs
  <2>2. \A j \in {{}, {4}} : j \subseteq 4 .. 3 + 1
    OBVIOUS
  <2>3. \A j \in {{}, {4}, {5}, {4, 5}} : j \subseteq 4 .. 3 + 2
    OBVIOUS
  <2>4. \A j \in {{4}, {4, 5}, {4, 5, 6}} : j \subseteq 4 .. 3 + 4
    OBVIOUS
  <2>5. \A j \in {{}, {4}} : StateOK(Was(q, 0, 1, "no", {4}, j))
    BY <2>1, <2>2, StatesOK
  <2>6. \A i \in {{4}, {4, 5}} : \A j \in {{}, {5}, {4, 5}} : StateOK(Was(q, 0, 2, "no", i, j))
    BY <2>1, <2>3, StatesOK
  <2>7. \A i \in {{4}, {4, 5}} : \A j \in {{4, 5}, {4, 5, 6}} : StateOK(Was(q, 0, 4, "no", i, j))
    BY <2>1, <2>4, StatesOK
  <2> QED
    BY <2>5, <2>6, <2>7
<1> QED
  BY <1>1, <1>2, <1>3, <1>4, <1>5, <1>6, <1>7

\* The jumps over the second value.
LEMMA JumpsOver ==
    ASSUME NEW e, IsExpr(e)
    PROVE  /\ EndOf(e) = 5 => OrderOK(e, To(5), Puts(2, "yes", {}, {4}), Puts(2, "yes", {}, {4, 5}))
           /\ EndOf(e) = 7 =>
                 /\ OrderOK(e, To(5), Jumped(<<>>, 4, {4}), Jumped(<<>>, 4, {4, 5}))
                 /\ OrderOK(e, To(7), Puts(4, "yes", {4, 5}, {4, 5, 6}),
                            Puts(4, "yes", {4, 5}, {4, 5, 6, 7}))
<1>1. ASSUME EndOf(e) = 5
      PROVE  OrderOK(e, To(5), Was(<<>>, 0, 2, "yes", {}, {4}), Was(<<>>, 0, 2, "yes", {}, {4, 5}))
  <2>1. {4} \cup {5} = {4, 5} /\ {} \subseteq 4 .. 3 + 2 /\ {4} \subseteq 4 .. 3 + 2 /\ 5 \in 4 .. 3 + 2
    OBVIOUS
  <2> QED
    BY <1>1, <2>1, Jumps
<1>2. ASSUME EndOf(e) = 7
      PROVE  OrderOK(e, To(5), Was(<<>>, 0, 4, "no", {}, {4}), Was(<<>>, 0, 4, "no", {}, {4, 5}))
  <2>1. {4} \cup {5} = {4, 5} /\ {} \subseteq 4 .. 3 + 4 /\ {4} \subseteq 4 .. 3 + 4 /\ 5 \in 4 .. 3 + 4
    OBVIOUS
  <2> QED
    BY <1>2, <2>1, Jumps
<1>3. ASSUME EndOf(e) = 7
      PROVE  OrderOK(e, To(7), Was(<<>>, 0, 4, "yes", {4, 5}, {4, 5, 6}),
                     Was(<<>>, 0, 4, "yes", {4, 5}, {4, 5, 6, 7}))
  <2>1. {4, 5, 6} \cup {7} = {4, 5, 6, 7} /\ {4, 5} \subseteq 4 .. 3 + 4
        /\ {4, 5, 6} \subseteq 4 .. 3 + 4 /\ 7 \in 4 .. 3 + 4
    OBVIOUS
  <2> QED
    BY <1>3, <2>1, Jumps
<1> QED
  BY <1>1, <1>2, <1>3 DEF Puts, Jumped

LEMMA PassedOK ==
    ASSUME NEW n \in Nat, NEW passed \in Nat
    PROVE  StateOK(HasPassed(Gots(n), passed))
<1>1. Gots(n) \in Seq(Held)
  BY DEF Gots, Held
<1> QED
  BY <1>1 DEF HasPassed, StateOK

LEMMA InsOthers ==
    /\ Dst.kind = "dst" /\ \A k : Recent(k).kind = "recent"
    /\ \A n : Const(n).kind = "const" /\ Var(n).kind = "var"
  BY DEF Dst, Recent, Const, Var

LEMMA HeldAre == Got \in Held /\ Dst \in Held /\ Own(1) \in Held
  BY DEF Held

LEMMA Intos ==
    ASSUME NEW e, NEW c \in Layered
    PROVE  /\ OrderOK(e, Into(c, Own(1)), HasOwn(<<Got>>), HasOwn(<<Got, Own(1)>>))
           /\ OrderOK(e, Into(c, Own(1)), HasOwn(<<Got, Got>>), HasOwn(<<Got, Got, Own(1)>>))
           /\ IsExpr(e) => OrderOK(e, Into(c, Dst), Has(<<Got>>), Has(<<Got, Dst>>))
<1>1. Got # Own(1) /\ Got # Dst
  BY DEF Got, Own, Dst
<1>2. IntoOK(e, Into(c, Own(1)), HasOwn(<<Got>>), HasOwn(<<Got, Own(1)>>))
  BY <1>1 DEF Into, IntoOK, IsOwn, HasOwn, Was, Idle, Alike
<1>3. IntoOK(e, Into(c, Own(1)), HasOwn(<<Got, Got>>), HasOwn(<<Got, Got, Own(1)>>))
  BY <1>1 DEF Into, IntoOK, IsOwn, HasOwn, Was, Idle, Alike
<1>4. IsExpr(e) => IntoOK(e, Into(c, Dst), Has(<<Got>>), Has(<<Got, Dst>>))
  BY <1>1 DEF Into, IntoOK, IsOwn, Has, Was, Idle, Alike
<1>5. Into(c, Own(1)).do = "into" /\ Into(c, Dst).do = "into"
  BY DEF Into
<1> QED
  BY <1>2, <1>3, <1>4, <1>5 DEF OrderOK

\* A sequence of expressions: its members, and the index within the last one.
LEMMA IndexIs ==
    ASSUME NEW q \in Seq(ExprNodes), q # <<>>
    PROVE  /\ q[1] \in Nodes /\ q[1].is \in Expressions
           /\ Last(q) \in Nodes /\ Last(q).is \in Expressions
           /\ Len(q) # 1 => Inside(q) \in Layered
<1>1. Len(q) \in Nat \ {0} /\ q[1] \in ExprNodes /\ q[Len(q)] \in ExprNodes
  OBVIOUS
<1>2. ASSUME Len(q) # 1
      PROVE  Front(q) \in Seq(ExprNodes) \ {<<>>}
  <2>4. /\ Len(q) - 1 \in Nat \ {0} /\ 1 <= Len(q) - 1 /\ Len(q) - 1 - 1 + 1 = Len(q) - 1
        /\ \A i \in 1 .. Len(q) - 1 : i \in 1 .. Len(q)
    <3>1. \A n \in Nat \ {0} : n # 1 =>
             /\ n - 1 \in Nat \ {0} /\ 1 <= n - 1 /\ n - 1 - 1 + 1 = n - 1
             /\ \A i \in 1 .. n - 1 : i \in 1 .. n
      OBVIOUS
    <3> QED
      BY <1>1, <1>2, <3>1
  <2>5. \A i \in 1 .. Len(q) : q[i] \in ExprNodes
    OBVIOUS
  <2>1. /\ Len(q) - 1 \in Nat \ {0} /\ 1 <= Len(q) - 1 /\ Len(q) - 1 - 1 + 1 = Len(q) - 1
        /\ \A i \in 1 .. Len(q) - 1 : q[i] \in ExprNodes
    BY <2>4, <2>5
  <2> DEFINE r == SubSeq(q, 1, Len(q) - 1)
             n == Len(q) - 1
  <2>2. r \in Seq(ExprNodes) /\ Len(r) = IF 1 <= n THEN n - 1 + 1 ELSE 0
    BY <2>1, SubSeqProperties
  <2> HIDE DEF r
  <2>3. r # <<>>
    BY <2>1, <2>2
  <2> QED
    BY <2>2, <2>3 DEF Front, r
<1> QED
  BY <1>1, <1>2 DEF Last, Inside, Layered, ExprNodes

LEMMA ListIs ==
    ASSUME NEW q, IsSequence(q), Range(q) \subseteq ExprNodes
    PROVE  q \in Seq(ExprNodes)
  BY DEF IsSequence

LEMMA IndicesIs ==
    ASSUME NEW e \in Nodes, e.is = "elem"
    PROVE  e.index \in Seq(ExprNodes) /\ e.index # <<>>
<1>1. Operands(e) = Range(e.index)
  BY DEF Operands, Unary, Compare, Binary
<1>2. Range(e.index) \subseteq ExprNodes
  BY <1>1, ChildOK DEF ExprNodes
<1> QED
  BY <1>2, ListIs, NodesAssumption

LEMMA AndOK ==
    ASSUME NEW e \in Nodes, e.is = "and"
    PROVE  ScriptOK(e)
<1>1. Script(e) = AndScript(e) /\ States(e) = AndWas
  BY DEF Script, States, Compare, Binary
<1>2. e.left \in Nodes /\ e.left.is \in Expressions /\ e.right \in Nodes /\ e.right.is \in Expressions
  <2>1. Operands(e) = {e.left, e.right}
    BY DEF Operands, Clauses, Unary, Compare, Binary
  <2> QED
    BY <2>1, ChildOK
<1>3. IsExpr(e) /\ EndOf(e) = 5
  BY DEF IsExpr, Expressions, Logical, Compare, Binary, EndOf
<1>4. DOMAIN AndScript(e) = 1 .. 11 /\ DOMAIN AndWas = 1 .. 12
  BY DEF AndScript, AndWas
<1>5. \A p \in 1 .. 12 : StateOK(AndWas[p])
  BY StatesAre DEF AndWas
<1>6. AndWas[1] = Has(<<>>) /\ AndWas[12] = Puts(2, "yes", {4, 5}, {4, 5})
  BY DEF AndWas
<1>7. \A p \in 1 .. 11 : OrderOK(e, AndScript(e)[p], AndWas[p], AndWas[p + 1])
  <2> DEFINE OK(p) == OrderOK(e, AndScript(e)[p], AndWas[p], AndWas[p + 1])
  <2>1. OK(1) /\ OK(2)
    BY NewLabels DEF AndScript, AndWas, Has, Jumped
  <2>2. OK(3) /\ OK(5)
    BY <1>2, Gets DEF AndScript, AndWas, Jumped
  <2>3. OK(4) /\ OK(6)
    BY <1>3, Tests, LabelSets DEF AndScript, AndWas, Jumped
  <2>4. OK(7) /\ OK(10)
    BY <1>3, PutsIt, LabelSets DEF AndScript, AndWas, Jumped, Puts
  <2>5. OK(8)
    BY <1>3, JumpsOver DEF AndScript, AndWas
  <2>6. OK(9) /\ OK(11)
    BY <1>3, Places, LabelSets DEF AndScript, AndWas, Jumped, Puts
  <2> HIDE DEF OK
  <2>7. \A p \in 1 .. 11 : OK(p)
    BY <2>1, <2>2, <2>3, <2>4, <2>5, <2>6
  <2> QED
    BY <2>7 DEF OK
<1>8. LET last == AndWas[12]
      IN  /\ last.held = <<>> /\ last.passed = 0 /\ last.writ = "yes"
          /\ 4 .. 3 + last.labels \subseteq last.placed
  BY <1>6 DEF Puts, Was
<1>9. ScriptHas(e, AndScript(e), AndWas, 11, 12)
  BY <1>3, <1>4, <1>5, <1>6, <1>7, <1>8 DEF ScriptHas
<1> QED
  BY <1>1, <1>9, ScriptIs

LEMMA OrOK ==
    ASSUME NEW e \in Nodes, e.is = "or"
    PROVE  ScriptOK(e)
<1>1. Script(e) = OrScript(e) /\ States(e) = OrWas
  BY DEF Script, States, Compare, Binary
<1>2. e.left \in Nodes /\ e.left.is \in Expressions /\ e.right \in Nodes /\ e.right.is \in Expressions
  <2>1. Operands(e) = {e.left, e.right}
    BY DEF Operands, Clauses, Unary, Compare, Binary
  <2> QED
    BY <2>1, ChildOK
<1>3. IsExpr(e) /\ EndOf(e) = 7
  BY DEF IsExpr, Expressions, Logical, Compare, Binary, EndOf
<1>4. DOMAIN OrScript(e) = 1 .. 16 /\ DOMAIN OrWas = 1 .. 17
  BY DEF OrScript, OrWas
<1>5. \A p \in 1 .. 17 : StateOK(OrWas[p])
  BY StatesAre DEF OrWas
<1>6. OrWas[1] = Has(<<>>) /\ OrWas[17] = Puts(4, "yes", {4, 5, 6, 7}, {4, 5, 6, 7})
  BY DEF OrWas
<1>7. \A p \in 1 .. 16 : OrderOK(e, OrScript(e)[p], OrWas[p], OrWas[p + 1])
  <2> DEFINE OK(p) == OrderOK(e, OrScript(e)[p], OrWas[p], OrWas[p + 1])
  <2>1. OK(1) /\ OK(2)
    BY NewLabels DEF OrScript, OrWas, Has, Jumped
  <2>2. OK(3)
    BY NewLabels DEF OrScript, OrWas, Jumped
  <2>3. OK(4)
    BY NewLabels DEF OrScript, OrWas, Jumped
  <2>4. OK(5) /\ OK(9)
    BY <1>2, Gets DEF OrScript, OrWas, Jumped
  <2>5. OK(6)
    BY <1>3, Tests, LabelSets DEF OrScript, OrWas, Jumped
  <2>6. OK(7)
    BY <1>3, JumpsOver DEF OrScript, OrWas
  <2>7. OK(8)
    BY <1>3, Places, LabelSets DEF OrScript, OrWas, Jumped
  <2>8. OK(10)
    BY <1>3, Tests, LabelSets DEF OrScript, OrWas
  <2>9. OK(11)
    BY <1>3, Places, LabelSets DEF OrScript, OrWas
  <2>10. OK(12) /\ OK(15)
    BY <1>3, PutsIt, LabelSets DEF OrScript, OrWas, Jumped, Puts
  <2>11. OK(13)
    BY <1>3, JumpsOver DEF OrScript, OrWas
  <2>12. OK(14) /\ OK(16)
    BY <1>3, Places, LabelSets DEF OrScript, OrWas, Jumped, Puts
  <2> HIDE DEF OK
  <2>13. \A p \in 1 .. 16 : OK(p)
    BY <2>1, <2>2, <2>3, <2>4, <2>5, <2>6, <2>7, <2>8, <2>9, <2>10, <2>11, <2>12
  <2> QED
    BY <2>13 DEF OK
<1>8. LET last == OrWas[17]
      IN  /\ last.held = <<>> /\ last.passed = 0 /\ last.writ = "yes"
          /\ 4 .. 3 + last.labels \subseteq last.placed
  BY <1>6 DEF Puts, Was
<1>9. ScriptHas(e, OrScript(e), OrWas, 16, 17)
  BY <1>3, <1>4, <1>5, <1>6, <1>7, <1>8 DEF ScriptHas
<1> QED
  BY <1>1, <1>9, ScriptIs

LEMMA CompareOK ==
    ASSUME NEW e \in Nodes, e.is \in Compare
    PROVE  ScriptOK(e)
<1>1. Script(e) = CompareScript(e) /\ States(e) = CompareWas
  BY DEF Script, States, Compare, Binary
<1>2. e.left \in Nodes /\ e.left.is \in Expressions /\ e.right \in Nodes /\ e.right.is \in Expressions
  <2>1. Operands(e) = {e.left, e.right}
    BY DEF Operands, Clauses, Unary, Compare, Binary
  <2> QED
    BY <2>1, ChildOK
<1>3. IsExpr(e) /\ EndOf(e) = 5
  BY DEF IsExpr, Expressions, Logical, Compare, Binary, EndOf
<1>4. DOMAIN CompareScript(e) = 1 .. 10 /\ DOMAIN CompareWas = 1 .. 11
  BY DEF CompareScript, CompareWas
<1>5. \A p \in 1 .. 11 : StateOK(CompareWas[p])
  BY StatesAre DEF CompareWas
<1>6. CompareWas[1] = Has(<<>>) /\ CompareWas[11] = Puts(2, "yes", {4, 5}, {4, 5})
  BY DEF CompareWas
<1>7. \A p \in 1 .. 10 : OrderOK(e, CompareScript(e)[p], CompareWas[p], CompareWas[p + 1])
  <2> DEFINE OK(p) == OrderOK(e, CompareScript(e)[p], CompareWas[p], CompareWas[p + 1])
  <2>1. OK(1) /\ OK(2)
    BY <1>2, Gets DEF CompareScript, CompareWas, Has
  <2>2. OK(3) /\ OK(4)
    BY NewLabels DEF CompareScript, CompareWas, Has, Jumped
  <2>3. OK(5)
    BY <1>3, TestsTwo DEF CompareScript, CompareWas
  <2>4. OK(6) /\ OK(9)
    BY <1>3, PutsIt, LabelSets DEF CompareScript, CompareWas, Jumped, Puts
  <2>5. OK(7)
    BY <1>3, JumpsOver DEF CompareScript, CompareWas
  <2>6. OK(8) /\ OK(10)
    BY <1>3, Places, LabelSets DEF CompareScript, CompareWas, Jumped, Puts
  <2> HIDE DEF OK
  <2>7. \A p \in 1 .. 10 : OK(p)
    BY <2>1, <2>2, <2>3, <2>4, <2>5, <2>6
  <2> QED
    BY <2>7 DEF OK
<1>8. LET last == CompareWas[11]
      IN  /\ last.held = <<>> /\ last.passed = 0 /\ last.writ = "yes"
          /\ 4 .. 3 + last.labels \subseteq last.placed
  BY <1>6 DEF Puts, Was
<1>9. ScriptHas(e, CompareScript(e), CompareWas, 10, 11)
  BY <1>3, <1>4, <1>5, <1>6, <1>7, <1>8 DEF ScriptHas
<1> QED
  BY <1>1, <1>9, ScriptIs

LEMMA NotOK ==
    ASSUME NEW e \in Nodes, e.is = "not"
    PROVE  ScriptOK(e)
<1>1. Script(e) = NotScript(e) /\ States(e) = NotWas
  BY DEF Script, States, Compare, Binary
<1>2. e.right \in Nodes /\ e.right.is \in Expressions
  <2>1. Operands(e) = {e.right}
    BY DEF Operands, Clauses, Unary, Compare, Binary
  <2> QED
    BY <2>1, ChildOK
<1>3. IsExpr(e) /\ EndOf(e) = 5
  BY DEF IsExpr, Expressions, Logical, Compare, Binary, EndOf
<1>4. DOMAIN NotScript(e) = 1 .. 9 /\ DOMAIN NotWas = 1 .. 10
  BY DEF NotScript, NotWas
<1>5. \A p \in 1 .. 10 : StateOK(NotWas[p])
  BY StatesAre DEF NotWas
<1>6. NotWas[1] = Has(<<>>) /\ NotWas[10] = Puts(2, "yes", {4, 5}, {4, 5})
  BY DEF NotWas
<1>7. \A p \in 1 .. 9 : OrderOK(e, NotScript(e)[p], NotWas[p], NotWas[p + 1])
  <2> DEFINE OK(p) == OrderOK(e, NotScript(e)[p], NotWas[p], NotWas[p + 1])
  <2>1. OK(1)
    BY <1>2, Gets DEF NotScript, NotWas, Has
  <2>2. OK(2) /\ OK(3)
    BY NewLabels DEF NotScript, NotWas, Has, Jumped
  <2>3. OK(4)
    BY <1>3, Tests, LabelSets DEF NotScript, NotWas, Jumped
  <2>4. OK(5) /\ OK(8)
    BY <1>3, PutsIt, LabelSets DEF NotScript, NotWas, Jumped, Puts
  <2>5. OK(6)
    BY <1>3, JumpsOver DEF NotScript, NotWas
  <2>6. OK(7) /\ OK(9)
    BY <1>3, Places, LabelSets DEF NotScript, NotWas, Jumped, Puts
  <2> HIDE DEF OK
  <2>7. \A p \in 1 .. 9 : OK(p)
    BY <2>1, <2>2, <2>3, <2>4, <2>5, <2>6
  <2> QED
    BY <2>7 DEF OK
<1>8. LET last == NotWas[10]
      IN  /\ last.held = <<>> /\ last.passed = 0 /\ last.writ = "yes"
          /\ 4 .. 3 + last.labels \subseteq last.placed
  BY <1>6 DEF Puts, Was
<1>9. ScriptHas(e, NotScript(e), NotWas, 9, 10)
  BY <1>3, <1>4, <1>5, <1>6, <1>7, <1>8 DEF ScriptHas
<1> QED
  BY <1>1, <1>9, ScriptIs

LEMMA ModOK ==
    ASSUME NEW e \in Nodes, e.is = "mod"
    PROVE  ScriptOK(e)
<1>1. Script(e) = ModScript(e) /\ States(e) = ModWas
  BY DEF Script, States, Compare, Binary
<1>2. e.left \in Nodes /\ e.left.is \in Expressions /\ e.right \in Nodes /\ e.right.is \in Expressions
  <2>1. Operands(e) = {e.left, e.right}
    BY DEF Operands, Clauses, Unary, Compare, Binary
  <2> QED
    BY <2>1, ChildOK
<1>10. /\ Has(<<Got, Got>>) = HasPassed(Gots(1 + 1), 0)
       /\ HasPassed(<<Got>>, 1) = HasPassed(Gots(1), 0 + 1)
       /\ HasPassed(<<Got>>, 1) = HasPassed(Gots(0 + 1), 1)
       /\ HasPassed(<<>>, 2) = HasPassed(Gots(0), 1 + 1)
  BY DEF Has, HasPassed, Was, Gots
<1>11. StateOK(HasPassed(<<Got>>, 1)) /\ StateOK(HasPassed(<<>>, 2))
  <2>1. StateOK(HasPassed(Gots(0 + 1), 1)) /\ StateOK(HasPassed(Gots(0), 1 + 1))
    BY PassedOK
  <2> QED
    BY <1>10, <2>1
<1>12. OrderOK(e, Say(Param(Recent(0)), 1, <<>>), Has(<<Got, Got>>), HasPassed(<<Got>>, 1))
  <2>1. OrderOK(e, Say(Param(Recent(0)), 1, <<>>), HasPassed(Gots(1 + 1), 0), HasPassed(Gots(1), 0 + 1))
    BY Params
  <2> QED
    BY <1>10, <2>1
<1>13. OrderOK(e, Say(Param(Recent(0)), 1, <<>>), HasPassed(<<Got>>, 1), HasPassed(<<>>, 2))
  <2>1. OrderOK(e, Say(Param(Recent(0)), 1, <<>>), HasPassed(Gots(0 + 1), 1), HasPassed(Gots(0), 1 + 1))
    BY Params
  <2> QED
    BY <1>10, <2>1
<1>3. IsExpr(e) /\ EndOf(e) = 0
  BY DEF IsExpr, Expressions, Logical, Compare, Binary, EndOf
<1>4. DOMAIN ModScript(e) = 1 .. 5 /\ DOMAIN ModWas = 1 .. 6
  BY DEF ModScript, ModWas
<1>5. \A p \in 1 .. 6 : StateOK(ModWas[p])
  BY <1>11, StatesAre DEF ModWas
<1>6. ModWas[1] = Has(<<>>) /\ ModWas[6] = Wrote
  BY DEF ModWas
<1>7. \A p \in 1 .. 5 : OrderOK(e, ModScript(e)[p], ModWas[p], ModWas[p + 1])
  <2> DEFINE OK(p) == OrderOK(e, ModScript(e)[p], ModWas[p], ModWas[p + 1])
  <2>1. OK(1) /\ OK(2)
    BY <1>2, Gets DEF ModScript, ModWas, Has
  <2>2. OK(3)
    BY <1>12 DEF ModScript, ModWas
  <2>3. OK(4)
    BY <1>13 DEF ModScript, ModWas
  <2>4. OK(5)
    BY <1>3, CallsIt DEF ModScript, ModWas
  <2> HIDE DEF OK
  <2>5. \A p \in 1 .. 5 : OK(p)
    BY <2>1, <2>2, <2>3, <2>4
  <2> QED
    BY <2>5 DEF OK
<1>8. LET last == ModWas[6]
      IN  /\ last.held = <<>> /\ last.passed = 0 /\ last.writ = "yes"
          /\ 4 .. 3 + last.labels \subseteq last.placed
  BY <1>6 DEF Wrote, Was
<1>9. ScriptHas(e, ModScript(e), ModWas, 5, 6)
  BY <1>3, <1>4, <1>5, <1>6, <1>7, <1>8 DEF ScriptHas
<1> QED
  BY <1>1, <1>9, ScriptIs

LEMMA ArithmeticOK ==
    ASSUME NEW e \in Nodes, e.is \in Binary
    PROVE  ScriptOK(e)
<1>1. Script(e) = ArithmeticScript(e) /\ States(e) = ArithmeticWas
  BY DEF Script, States, Compare, Binary
<1>2. e.left \in Nodes /\ e.left.is \in Expressions /\ e.right \in Nodes /\ e.right.is \in Expressions
  <2>1. Operands(e) = {e.left, e.right}
    BY DEF Operands, Clauses, Unary, Compare, Binary
  <2> QED
    BY <2>1, ChildOK
<1>3. IsExpr(e) /\ EndOf(e) = 0
  BY DEF IsExpr, Expressions, Logical, Compare, Binary, EndOf
<1>10. OrderOK(e, Say(Operate(e.is, Recent(1), Recent(0), Dst), 2, <<>>), Has(<<Got, Got>>), Wrote)
  <2> DEFINE in == Operate(e.is, Recent(1), Recent(0), Dst)
  <2>1. /\ in.op \notin {"label", "endfunc", "param", "call"} /\ in.label = 0
        /\ in.reads = <<Recent(1), Recent(0)>> /\ in.write = {Dst}
    BY InsIs DEF Operate, Binary
  <2> HIDE DEF in
  <2>2. /\ \A r \in DOMAIN in.reads : in.reads[r] = Recent(0) \/ in.reads[r] = Recent(1)
        /\ \E r \in DOMAIN in.reads : in.reads[r] = Recent(0)
        /\ \E r \in DOMAIN in.reads : in.reads[r] = Recent(1)
    BY <2>1, InsOthers
  <2>3. OrderOK(e, Say(in, 2, <<>>), Was(<<Got, Got>>, 0, 0, "no", {}, {}),
                Was(<<>>, 0, 0, "yes", {}, {}))
    BY <1>3, <2>1, <2>2, TakesTwoOrder, HeldAre, InsOthers
  <2> QED
    BY <2>3 DEF in, Has, Wrote, HasOwn, WroteOwn
<1>4. DOMAIN ArithmeticScript(e) = 1 .. 3 /\ DOMAIN ArithmeticWas = 1 .. 4
  BY DEF ArithmeticScript, ArithmeticWas
<1>5. \A p \in 1 .. 4 : StateOK(ArithmeticWas[p])
  BY StatesAre DEF ArithmeticWas
<1>6. ArithmeticWas[1] = Has(<<>>) /\ ArithmeticWas[4] = Wrote
  BY DEF ArithmeticWas
<1>7. \A p \in 1 .. 3 : OrderOK(e, ArithmeticScript(e)[p], ArithmeticWas[p], ArithmeticWas[p + 1])
  <2> DEFINE OK(p) == OrderOK(e, ArithmeticScript(e)[p], ArithmeticWas[p], ArithmeticWas[p + 1])
  <2>1. OK(1) /\ OK(2)
    BY <1>2, Gets DEF ArithmeticScript, ArithmeticWas, Has
  <2>2. OK(3)
    BY <1>10 DEF ArithmeticScript, ArithmeticWas
  <2> HIDE DEF OK
  <2>3. \A p \in 1 .. 3 : OK(p)
    BY <2>1, <2>2
  <2> QED
    BY <2>3 DEF OK
<1>8. LET last == ArithmeticWas[4]
      IN  /\ last.held = <<>> /\ last.passed = 0 /\ last.writ = "yes"
          /\ 4 .. 3 + last.labels \subseteq last.placed
  BY <1>6 DEF Wrote, Was
<1>9. ScriptHas(e, ArithmeticScript(e), ArithmeticWas, 3, 4)
  BY <1>3, <1>4, <1>5, <1>6, <1>7, <1>8 DEF ScriptHas
<1> QED
  BY <1>1, <1>9, ScriptIs

LEMMA PosOK ==
    ASSUME NEW e \in Nodes, e.is = "pos"
    PROVE  ScriptOK(e)
<1>1. Script(e) = SignScript(e, "add") /\ States(e) = SignWas
  BY DEF Script, States, Compare, Binary
<1>2. e.right \in Nodes /\ e.right.is \in Expressions
  <2>1. Operands(e) = {e.right}
    BY DEF Operands, Clauses, Unary, Compare, Binary
  <2> QED
    BY <2>1, ChildOK
<1>3. IsExpr(e) /\ EndOf(e) = 0
  BY DEF IsExpr, Expressions, Logical, Compare, Binary, EndOf
<1>10. OrderOK(e, Say(Operate("add", Const(0), Recent(0), Dst), 1, <<>>), Has(<<Got>>), Wrote)
  <2> DEFINE in == Operate("add", Const(0), Recent(0), Dst)
  <2>1. /\ in.op \notin {"label", "endfunc", "param", "call"} /\ in.label = 0
        /\ in.reads = <<Const(0), Recent(0)>> /\ in.write = {Dst}
    BY InsIs DEF Operate
  <2> HIDE DEF in
  <2>2. /\ \A r \in DOMAIN in.reads : in.reads[r].kind \in {"const", "var"} \/ in.reads[r] = Recent(0)
        /\ \E r \in DOMAIN in.reads : in.reads[r] = Recent(0)
    BY <2>1, InsOthers
  <2>3. OrderOK(e, Say(in, 1, <<>>), Was(<<Got>>, 0, 0, "no", {}, {}),
                Was(<<>>, 0, 0, "yes", {}, {}))
    BY <1>3, <2>1, <2>2, TakesOneOrder, HeldAre, InsOthers
  <2> QED
    BY <2>3 DEF in, Has, Wrote, HasOwn, WroteOwn
<1>4. DOMAIN SignScript(e, "add") = 1 .. 2 /\ DOMAIN SignWas = 1 .. 3
  BY DEF SignScript, SignWas
<1>5. \A p \in 1 .. 3 : StateOK(SignWas[p])
  BY StatesAre DEF SignWas
<1>6. SignWas[1] = Has(<<>>) /\ SignWas[3] = Wrote
  BY DEF SignWas
<1>7. \A p \in 1 .. 2 : OrderOK(e, SignScript(e, "add")[p], SignWas[p], SignWas[p + 1])
  <2> DEFINE OK(p) == OrderOK(e, SignScript(e, "add")[p], SignWas[p], SignWas[p + 1])
  <2>1. OK(1)
    BY <1>2, Gets DEF SignScript, SignWas, Has
  <2>2. OK(2)
    BY <1>10 DEF SignScript, SignWas
  <2> HIDE DEF OK
  <2>3. \A p \in 1 .. 2 : OK(p)
    BY <2>1, <2>2
  <2> QED
    BY <2>3 DEF OK
<1>8. LET last == SignWas[3]
      IN  /\ last.held = <<>> /\ last.passed = 0 /\ last.writ = "yes"
          /\ 4 .. 3 + last.labels \subseteq last.placed
  BY <1>6 DEF Wrote, Was
<1>9. ScriptHas(e, SignScript(e, "add"), SignWas, 2, 3)
  BY <1>3, <1>4, <1>5, <1>6, <1>7, <1>8 DEF ScriptHas
<1> QED
  BY <1>1, <1>9, ScriptIs

LEMMA NegOK ==
    ASSUME NEW e \in Nodes, e.is = "neg"
    PROVE  ScriptOK(e)
<1>1. Script(e) = SignScript(e, "sub") /\ States(e) = SignWas
  BY DEF Script, States, Compare, Binary
<1>2. e.right \in Nodes /\ e.right.is \in Expressions
  <2>1. Operands(e) = {e.right}
    BY DEF Operands, Clauses, Unary, Compare, Binary
  <2> QED
    BY <2>1, ChildOK
<1>3. IsExpr(e) /\ EndOf(e) = 0
  BY DEF IsExpr, Expressions, Logical, Compare, Binary, EndOf
<1>10. OrderOK(e, Say(Operate("sub", Const(0), Recent(0), Dst), 1, <<>>), Has(<<Got>>), Wrote)
  <2> DEFINE in == Operate("sub", Const(0), Recent(0), Dst)
  <2>1. /\ in.op \notin {"label", "endfunc", "param", "call"} /\ in.label = 0
        /\ in.reads = <<Const(0), Recent(0)>> /\ in.write = {Dst}
    BY InsIs DEF Operate
  <2> HIDE DEF in
  <2>2. /\ \A r \in DOMAIN in.reads : in.reads[r].kind \in {"const", "var"} \/ in.reads[r] = Recent(0)
        /\ \E r \in DOMAIN in.reads : in.reads[r] = Recent(0)
    BY <2>1, InsOthers
  <2>3. OrderOK(e, Say(in, 1, <<>>), Was(<<Got>>, 0, 0, "no", {}, {}),
                Was(<<>>, 0, 0, "yes", {}, {}))
    BY <1>3, <2>1, <2>2, TakesOneOrder, HeldAre, InsOthers
  <2> QED
    BY <2>3 DEF in, Has, Wrote, HasOwn, WroteOwn
<1>4. DOMAIN SignScript(e, "sub") = 1 .. 2 /\ DOMAIN SignWas = 1 .. 3
  BY DEF SignScript, SignWas
<1>5. \A p \in 1 .. 3 : StateOK(SignWas[p])
  BY StatesAre DEF SignWas
<1>6. SignWas[1] = Has(<<>>) /\ SignWas[3] = Wrote
  BY DEF SignWas
<1>7. \A p \in 1 .. 2 : OrderOK(e, SignScript(e, "sub")[p], SignWas[p], SignWas[p + 1])
  <2> DEFINE OK(p) == OrderOK(e, SignScript(e, "sub")[p], SignWas[p], SignWas[p + 1])
  <2>1. OK(1)
    BY <1>2, Gets DEF SignScript, SignWas, Has
  <2>2. OK(2)
    BY <1>10 DEF SignScript, SignWas
  <2> HIDE DEF OK
  <2>3. \A p \in 1 .. 2 : OK(p)
    BY <2>1, <2>2
  <2> QED
    BY <2>3 DEF OK
<1>8. LET last == SignWas[3]
      IN  /\ last.held = <<>> /\ last.passed = 0 /\ last.writ = "yes"
          /\ 4 .. 3 + last.labels \subseteq last.placed
  BY <1>6 DEF Wrote, Was
<1>9. ScriptHas(e, SignScript(e, "sub"), SignWas, 2, 3)
  BY <1>3, <1>4, <1>5, <1>6, <1>7, <1>8 DEF ScriptHas
<1> QED
  BY <1>1, <1>9, ScriptIs

LEMMA ElementOneOK ==
    ASSUME NEW e \in Nodes, e.is = "elem", Len(e.index) = 1
    PROVE  ScriptOK(e)
<1>1. Script(e) = ElementScript(e.index, Say(Load(Recent(0), Dst), 1, <<>>)) /\ States(e) = ElementWas(e.index)
  BY DEF Script, States, Compare, Binary
<1>2. /\ e.index[1] \in Nodes /\ e.index[1].is \in Expressions
      /\ Last(e.index) \in Nodes /\ Last(e.index).is \in Expressions
      /\ Len(e.index) # 1 => Inside(e.index) \in Layered
  BY IndexIs, IndicesIs
<1>3. IsExpr(e) /\ EndOf(e) = 0
  BY DEF IsExpr, Expressions, Logical, Compare, Binary, EndOf
<1>10. OrderOK(e, Say(Load(Recent(0), Dst), 1, <<>>), Has(<<Got>>), Wrote)
  <2> DEFINE in == Load(Recent(0), Dst)
  <2>1. /\ in.op \notin {"label", "endfunc", "param", "call"} /\ in.label = 0
        /\ in.reads = <<Recent(0)>> /\ in.write = {Dst}
    BY InsIs DEF Load
  <2> HIDE DEF in
  <2>2. /\ \A r \in DOMAIN in.reads : in.reads[r].kind \in {"const", "var"} \/ in.reads[r] = Recent(0)
        /\ \E r \in DOMAIN in.reads : in.reads[r] = Recent(0)
    BY <2>1, InsOthers
  <2>3. OrderOK(e, Say(in, 1, <<>>), Was(<<Got>>, 0, 0, "no", {}, {}),
                Was(<<>>, 0, 0, "yes", {}, {}))
    BY <1>3, <2>1, <2>2, TakesOneOrder, HeldAre, InsOthers
  <2> QED
    BY <2>3 DEF in, Has, Wrote, HasOwn, WroteOwn
<1>4. DOMAIN ElementScript(e.index, Say(Load(Recent(0), Dst), 1, <<>>)) = 1 .. 2 /\ DOMAIN ElementWas(e.index) = 1 .. 3
  BY DEF ElementScript, ElementWas
<1>5. \A p \in 1 .. 3 : StateOK(ElementWas(e.index)[p])
  BY StatesAre DEF ElementWas
<1>6. ElementWas(e.index)[1] = Has(<<>>) /\ ElementWas(e.index)[3] = Wrote
  BY DEF ElementWas
<1>7. \A p \in 1 .. 2 : OrderOK(e, ElementScript(e.index, Say(Load(Recent(0), Dst), 1, <<>>))[p], ElementWas(e.index)[p], ElementWas(e.index)[p + 1])
  <2> DEFINE OK(p) == OrderOK(e, ElementScript(e.index, Say(Load(Recent(0), Dst), 1, <<>>))[p], ElementWas(e.index)[p], ElementWas(e.index)[p + 1])
  <2>1. OK(1)
    BY <1>2, Gets DEF ElementScript, ElementWas, Has
  <2>2. OK(2)
    BY <1>10 DEF ElementScript, ElementWas
  <2> HIDE DEF OK
  <2>3. \A p \in 1 .. 2 : OK(p)
    BY <2>1, <2>2
  <2> QED
    BY <2>3 DEF OK
<1>8. LET last == ElementWas(e.index)[3]
      IN  /\ last.held = <<>> /\ last.passed = 0 /\ last.writ = "yes"
          /\ 4 .. 3 + last.labels \subseteq last.placed
  BY <1>6 DEF Wrote, Was
<1>9. ScriptHas(e, ElementScript(e.index, Say(Load(Recent(0), Dst), 1, <<>>)), ElementWas(e.index), 2, 3)
  BY <1>3, <1>4, <1>5, <1>6, <1>7, <1>8 DEF ScriptHas
<1> QED
  BY <1>1, <1>9, ScriptIs

LEMMA ElementOK ==
    ASSUME NEW e \in Nodes, e.is = "elem", Len(e.index) # 1
    PROVE  ScriptOK(e)
<1>1. Script(e) = ElementScript(e.index, Say(Load(Recent(0), Dst), 1, <<>>)) /\ States(e) = ElementWas(e.index)
  BY DEF Script, States, Compare, Binary
<1>2. /\ e.index[1] \in Nodes /\ e.index[1].is \in Expressions
      /\ Last(e.index) \in Nodes /\ Last(e.index).is \in Expressions
      /\ Len(e.index) # 1 => Inside(e.index) \in Layered
  BY IndexIs, IndicesIs
<1>3. IsExpr(e) /\ EndOf(e) = 0
  BY DEF IsExpr, Expressions, Logical, Compare, Binary, EndOf
<1>10. OrderOK(e, Say(Load(Recent(0), Dst), 1, <<>>), HasOwn(<<Own(1)>>), WroteOwn)
  <2> DEFINE in == Load(Recent(0), Dst)
  <2>1. /\ in.op \notin {"label", "endfunc", "param", "call"} /\ in.label = 0
        /\ in.reads = <<Recent(0)>> /\ in.write = {Dst}
    BY InsIs DEF Load
  <2> HIDE DEF in
  <2>2. /\ \A r \in DOMAIN in.reads : in.reads[r].kind \in {"const", "var"} \/ in.reads[r] = Recent(0)
        /\ \E r \in DOMAIN in.reads : in.reads[r] = Recent(0)
    BY <2>1, InsOthers
  <2>3. OrderOK(e, Say(in, 1, <<>>), Was(<<Own(1)>>, 1, 0, "no", {}, {}),
                Was(<<>>, 1, 0, "yes", {}, {}))
    BY <1>3, <2>1, <2>2, TakesOneOrder, HeldAre, InsOthers
  <2> QED
    BY <2>3 DEF in, Has, Wrote, HasOwn, WroteOwn
<1>4. DOMAIN ElementScript(e.index, Say(Load(Recent(0), Dst), 1, <<>>)) = 1 .. 5 /\ DOMAIN ElementWas(e.index) = 1 .. 6
  BY DEF ElementScript, ElementWas
<1>5. \A p \in 1 .. 6 : StateOK(ElementWas(e.index)[p])
  BY StatesAre DEF ElementWas
<1>6. ElementWas(e.index)[1] = Has(<<>>) /\ ElementWas(e.index)[6] = WroteOwn
  BY DEF ElementWas
<1>7. \A p \in 1 .. 5 : OrderOK(e, ElementScript(e.index, Say(Load(Recent(0), Dst), 1, <<>>))[p], ElementWas(e.index)[p], ElementWas(e.index)[p + 1])
  <2> DEFINE OK(p) == OrderOK(e, ElementScript(e.index, Say(Load(Recent(0), Dst), 1, <<>>))[p], ElementWas(e.index)[p], ElementWas(e.index)[p + 1])
  <2>1. OK(1)
    BY <1>2, Gets DEF ElementScript, ElementWas, Has
  <2>2. OK(2)
    BY NewTemps DEF ElementScript, ElementWas
  <2>3. OK(3)
    BY <1>2, Intos DEF ElementScript, ElementWas
  <2>4. OK(4)
    BY AddsLayer DEF ElementScript, ElementWas
  <2>5. OK(5)
    BY <1>10 DEF ElementScript, ElementWas
  <2> HIDE DEF OK
  <2>6. \A p \in 1 .. 5 : OK(p)
    BY <2>1, <2>2, <2>3, <2>4, <2>5
  <2> QED
    BY <2>6 DEF OK
<1>8. LET last == ElementWas(e.index)[6]
      IN  /\ last.held = <<>> /\ last.passed = 0 /\ last.writ = "yes"
          /\ 4 .. 3 + last.labels \subseteq last.placed
  BY <1>6 DEF WroteOwn, Was
<1>9. ScriptHas(e, ElementScript(e.index, Say(Load(Recent(0), Dst), 1, <<>>)), ElementWas(e.index), 5, 6)
  BY <1>3, <1>4, <1>5, <1>6, <1>7, <1>8 DEF ScriptHas
<1> QED
  BY <1>1, <1>9, ScriptIs

LEMMA InnerOneOK ==
    ASSUME NEW e \in Layered, Len(e.index) = 1
    PROVE  ScriptOK(e)
<1>0. e.is = "inner" /\ e.index \in Seq(ExprNodes) /\ e.index # <<>>
  BY DEF Layered
<1>1. Script(e) = InnerScript(e) /\ States(e) = InnerWas(e.index)
  BY <1>0 DEF Script, States, Compare, Binary
<1>2. /\ e.index[1] \in Nodes /\ e.index[1].is \in Expressions
      /\ Last(e.index) \in Nodes /\ Last(e.index).is \in Expressions
      /\ Len(e.index) # 1 => Inside(e.index) \in Layered
  BY IndexIs, <1>0
<1>3. IsExpr(e) /\ EndOf(e) = 0
  BY <1>0 DEF IsExpr, Expressions, Logical, Compare, Binary, EndOf
<1>10. OrderOK(e, Say(Operate("mul", Const(Stride(1)), Recent(0), Dst), 1, <<>>), Has(<<Got>>), Wrote)
  <2> DEFINE in == Operate("mul", Const(Stride(1)), Recent(0), Dst)
  <2>1. /\ in.op \notin {"label", "endfunc", "param", "call"} /\ in.label = 0
        /\ in.reads = <<Const(Stride(1)), Recent(0)>> /\ in.write = {Dst}
    BY InsIs DEF Operate
  <2> HIDE DEF in
  <2>2. /\ \A r \in DOMAIN in.reads : in.reads[r].kind \in {"const", "var"} \/ in.reads[r] = Recent(0)
        /\ \E r \in DOMAIN in.reads : in.reads[r] = Recent(0)
    BY <2>1, InsOthers
  <2>3. OrderOK(e, Say(in, 1, <<>>), Was(<<Got>>, 0, 0, "no", {}, {}),
                Was(<<>>, 0, 0, "yes", {}, {}))
    BY <1>3, <2>1, <2>2, TakesOneOrder, HeldAre, InsOthers
  <2> QED
    BY <2>3 DEF in, Has, Wrote, HasOwn, WroteOwn
<1>4. DOMAIN InnerScript(e) = 1 .. 2 /\ DOMAIN InnerWas(e.index) = 1 .. 3
  BY DEF InnerScript, InnerWas
<1>5. \A p \in 1 .. 3 : StateOK(InnerWas(e.index)[p])
  BY StatesAre DEF InnerWas
<1>6. InnerWas(e.index)[1] = Has(<<>>) /\ InnerWas(e.index)[3] = Wrote
  BY DEF InnerWas
<1>7. \A p \in 1 .. 2 : OrderOK(e, InnerScript(e)[p], InnerWas(e.index)[p], InnerWas(e.index)[p + 1])
  <2> DEFINE OK(p) == OrderOK(e, InnerScript(e)[p], InnerWas(e.index)[p], InnerWas(e.index)[p + 1])
  <2>1. OK(1)
    BY <1>2, Gets DEF InnerScript, InnerWas, Has
  <2>2. OK(2)
    BY <1>10 DEF InnerScript, InnerWas
  <2> HIDE DEF OK
  <2>3. \A p \in 1 .. 2 : OK(p)
    BY <2>1, <2>2
  <2> QED
    BY <2>3 DEF OK
<1>8. LET last == InnerWas(e.index)[3]
      IN  /\ last.held = <<>> /\ last.passed = 0 /\ last.writ = "yes"
          /\ 4 .. 3 + last.labels \subseteq last.placed
  BY <1>6 DEF Wrote, Was
<1>9. ScriptHas(e, InnerScript(e), InnerWas(e.index), 2, 3)
  BY <1>3, <1>4, <1>5, <1>6, <1>7, <1>8 DEF ScriptHas
<1> QED
  BY <1>1, <1>9, ScriptIs

LEMMA InnerOK ==
    ASSUME NEW e \in Layered, Len(e.index) # 1
    PROVE  ScriptOK(e)
<1>0. e.is = "inner" /\ e.index \in Seq(ExprNodes) /\ e.index # <<>>
  BY DEF Layered
<1>1. Script(e) = InnerScript(e) /\ States(e) = InnerWas(e.index)
  BY <1>0 DEF Script, States, Compare, Binary
<1>2. /\ e.index[1] \in Nodes /\ e.index[1].is \in Expressions
      /\ Last(e.index) \in Nodes /\ Last(e.index).is \in Expressions
      /\ Len(e.index) # 1 => Inside(e.index) \in Layered
  BY IndexIs, <1>0
<1>3. IsExpr(e) /\ EndOf(e) = 0
  BY <1>0 DEF IsExpr, Expressions, Logical, Compare, Binary, EndOf
<1>10. OrderOK(e, Say(Operate("add", Recent(1), Recent(0), Dst), 2, <<>>), HasOwn(<<Dst, Own(1)>>), WroteOwn)
  <2> DEFINE in == Operate("add", Recent(1), Recent(0), Dst)
  <2>1. /\ in.op \notin {"label", "endfunc", "param", "call"} /\ in.label = 0
        /\ in.reads = <<Recent(1), Recent(0)>> /\ in.write = {Dst}
    BY InsIs DEF Operate
  <2> HIDE DEF in
  <2>2. /\ \A r \in DOMAIN in.reads : in.reads[r] = Recent(0) \/ in.reads[r] = Recent(1)
        /\ \E r \in DOMAIN in.reads : in.reads[r] = Recent(0)
        /\ \E r \in DOMAIN in.reads : in.reads[r] = Recent(1)
    BY <2>1, InsOthers
  <2>3. OrderOK(e, Say(in, 2, <<>>), Was(<<Dst, Own(1)>>, 1, 0, "no", {}, {}),
                Was(<<>>, 1, 0, "yes", {}, {}))
    BY <1>3, <2>1, <2>2, TakesTwoOrder, HeldAre, InsOthers
  <2> QED
    BY <2>3 DEF in, Has, Wrote, HasOwn, WroteOwn
<1>4. DOMAIN InnerScript(e) = 1 .. 5 /\ DOMAIN InnerWas(e.index) = 1 .. 6
  BY DEF InnerScript, InnerWas
<1>5. \A p \in 1 .. 6 : StateOK(InnerWas(e.index)[p])
  BY StatesAre DEF InnerWas
<1>6. InnerWas(e.index)[1] = Has(<<>>) /\ InnerWas(e.index)[6] = WroteOwn
  BY DEF InnerWas
<1>7. \A p \in 1 .. 5 : OrderOK(e, InnerScript(e)[p], InnerWas(e.index)[p], InnerWas(e.index)[p + 1])
  <2> DEFINE OK(p) == OrderOK(e, InnerScript(e)[p], InnerWas(e.index)[p], InnerWas(e.index)[p + 1])
  <2>1. OK(1)
    BY <1>2, Gets DEF InnerScript, InnerWas, Has
  <2>2. OK(2)
    BY <1>2, <1>3, Intos DEF InnerScript, InnerWas
  <2>3. OK(3)
    BY NewTemps DEF InnerScript, InnerWas
  <2>4. OK(4)
    BY <1>3, MultipliesLayer DEF InnerScript, InnerWas, MulLayer
  <2>5. OK(5)
    BY <1>10 DEF InnerScript, InnerWas
  <2> HIDE DEF OK
  <2>6. \A p \in 1 .. 5 : OK(p)
    BY <2>1, <2>2, <2>3, <2>4, <2>5
  <2> QED
    BY <2>6 DEF OK
<1>8. LET last == InnerWas(e.index)[6]
      IN  /\ last.held = <<>> /\ last.passed = 0 /\ last.writ = "yes"
          /\ 4 .. 3 + last.labels \subseteq last.placed
  BY <1>6 DEF WroteOwn, Was
<1>9. ScriptHas(e, InnerScript(e), InnerWas(e.index), 5, 6)
  BY <1>3, <1>4, <1>5, <1>6, <1>7, <1>8 DEF ScriptHas
<1> QED
  BY <1>1, <1>9, ScriptIs

LEMMA SetVarOK ==
    ASSUME NEW e \in Nodes, e.is = "set", e.lhs.is = "id"
    PROVE  ScriptOK(e)
<1>1. Script(e) = SetScript(e) /\ States(e) = SetWas(e)
  BY DEF Script, States, Compare, Binary
<1>2. e.right \in Nodes /\ e.right.is \in Expressions /\ e.lhs \in Nodes
  <2>1. Operands(e) = {e.lhs, e.right}
    BY DEF Operands, Unary, Compare, Binary
  <2> QED
    BY <2>1, ChildOK
<1>3. ~IsExpr(e) /\ EndOf(e) = 0
  BY DEF IsExpr, Expressions, Logical, Compare, Binary, EndOf
<1>10. OrderOK(e, Say(Assign(Recent(0), Var(e.lhs.var)), 1, <<>>), Has(<<Got>>), Has(<<>>))
  <2> DEFINE in == Assign(Recent(0), Var(e.lhs.var))
  <2>1. /\ in.op \notin {"label", "endfunc", "param", "call"} /\ in.label = 0
        /\ in.reads = <<Recent(0)>> /\ in.write = {Var(e.lhs.var)}
    BY InsIs DEF Assign
  <2> HIDE DEF in
  <2>2. /\ \A r \in DOMAIN in.reads : in.reads[r].kind \in {"const", "var"} \/ in.reads[r] = Recent(0)
        /\ \E r \in DOMAIN in.reads : in.reads[r] = Recent(0)
    BY <2>1, InsOthers
  <2>3. OrderOK(e, Say(in, 1, <<>>), Was(<<Got>>, 0, 0, "no", {}, {}),
                Was(<<>>, 0, 0, "no", {}, {}))
    BY <1>3, <2>1, <2>2, TakesOneOrder, HeldAre, InsOthers
  <2> QED
    BY <2>3 DEF in, Has, Wrote, HasOwn, WroteOwn
<1>4. DOMAIN SetScript(e) = 1 .. 2 /\ DOMAIN SetWas(e) = 1 .. 3
  BY DEF SetScript, SetWas
<1>5. \A p \in 1 .. 3 : StateOK(SetWas(e)[p])
  BY StatesAre DEF SetWas
<1>6. SetWas(e)[1] = Has(<<>>) /\ SetWas(e)[3] = Has(<<>>)
  BY DEF SetWas
<1>7. \A p \in 1 .. 2 : OrderOK(e, SetScript(e)[p], SetWas(e)[p], SetWas(e)[p + 1])
  <2> DEFINE OK(p) == OrderOK(e, SetScript(e)[p], SetWas(e)[p], SetWas(e)[p + 1])
  <2>1. OK(1)
    BY <1>2, Gets DEF SetScript, SetWas, Has
  <2>2. OK(2)
    BY <1>10 DEF SetScript, SetWas
  <2> HIDE DEF OK
  <2>3. \A p \in 1 .. 2 : OK(p)
    BY <2>1, <2>2
  <2> QED
    BY <2>3 DEF OK
<1>8. LET last == SetWas(e)[3]
      IN  /\ last.held = <<>> /\ last.passed = 0 /\ last.writ = "no"
          /\ 4 .. 3 + last.labels \subseteq last.placed
  BY <1>6 DEF Has, Was
<1>9. ScriptHas(e, SetScript(e), SetWas(e), 2, 3)
  BY <1>3, <1>4, <1>5, <1>6, <1>7, <1>8 DEF ScriptHas
<1> QED
  BY <1>1, <1>9, ScriptIs

LEMMA SetOneOK ==
    ASSUME NEW e \in Nodes, e.is = "set", e.lhs.is # "id", Len(e.lhs.index) = 1
    PROVE  ScriptOK(e)
<1>1. Script(e) = SetScript(e) /\ States(e) = SetWas(e)
  BY DEF Script, States, Compare, Binary
<1>2. e.right \in Nodes /\ e.right.is \in Expressions /\ e.lhs \in Nodes
  <2>1. Operands(e) = {e.lhs, e.right}
    BY DEF Operands, Unary, Compare, Binary
  <2> QED
    BY <2>1, ChildOK
<1>14. /\ e.lhs.index[1] \in Nodes /\ e.lhs.index[1].is \in Expressions
       /\ Last(e.lhs.index) \in Nodes /\ Last(e.lhs.index).is \in Expressions
       /\ Len(e.lhs.index) # 1 => Inside(e.lhs.index) \in Layered
  <2>1. e.lhs.is = "elem"
    BY NodesAssumption
  <2> QED
    BY <1>2, <2>1, IndexIs, IndicesIs
<1>3. ~IsExpr(e) /\ EndOf(e) = 0
  BY DEF IsExpr, Expressions, Logical, Compare, Binary, EndOf
<1>10. OrderOK(e, Say(Store(Recent(1), Recent(0)), 2, <<>>), Has(<<Got, Got>>), Has(<<>>))
  <2> DEFINE in == Store(Recent(1), Recent(0))
  <2>1. /\ in.op \notin {"label", "endfunc", "param", "call"} /\ in.label = 0
        /\ in.reads = <<Recent(1), Recent(0)>> /\ in.write = {}
    BY InsIs DEF Store, None
  <2> HIDE DEF in
  <2>2. /\ \A r \in DOMAIN in.reads : in.reads[r] = Recent(0) \/ in.reads[r] = Recent(1)
        /\ \E r \in DOMAIN in.reads : in.reads[r] = Recent(0)
        /\ \E r \in DOMAIN in.reads : in.reads[r] = Recent(1)
    BY <2>1, InsOthers
  <2>3. OrderOK(e, Say(in, 2, <<>>), Was(<<Got, Got>>, 0, 0, "no", {}, {}),
                Was(<<>>, 0, 0, "no", {}, {}))
    BY <1>3, <2>1, <2>2, TakesTwoOrder, HeldAre, InsOthers
  <2> QED
    BY <2>3 DEF in, Has, Wrote, HasOwn, WroteOwn
<1>4. DOMAIN SetScript(e) = 1 .. 3 /\ DOMAIN SetWas(e) = 1 .. 4
  BY DEF SetScript, SetWas
<1>5. \A p \in 1 .. 4 : StateOK(SetWas(e)[p])
  BY StatesAre DEF SetWas
<1>6. SetWas(e)[1] = Has(<<>>) /\ SetWas(e)[4] = Has(<<>>)
  BY DEF SetWas
<1>7. \A p \in 1 .. 3 : OrderOK(e, SetScript(e)[p], SetWas(e)[p], SetWas(e)[p + 1])
  <2> DEFINE OK(p) == OrderOK(e, SetScript(e)[p], SetWas(e)[p], SetWas(e)[p + 1])
  <2>1. OK(1)
    BY <1>2, Gets DEF SetScript, SetWas, Has
  <2>2. OK(2)
    BY <1>14, Gets DEF SetScript, SetWas, Has
  <2>3. OK(3)
    BY <1>10 DEF SetScript, SetWas
  <2> HIDE DEF OK
  <2>4. \A p \in 1 .. 3 : OK(p)
    BY <2>1, <2>2, <2>3
  <2> QED
    BY <2>4 DEF OK
<1>8. LET last == SetWas(e)[4]
      IN  /\ last.held = <<>> /\ last.passed = 0 /\ last.writ = "no"
          /\ 4 .. 3 + last.labels \subseteq last.placed
  BY <1>6 DEF Has, Was
<1>9. ScriptHas(e, SetScript(e), SetWas(e), 3, 4)
  BY <1>3, <1>4, <1>5, <1>6, <1>7, <1>8 DEF ScriptHas
<1> QED
  BY <1>1, <1>9, ScriptIs

LEMMA SetElementOK ==
    ASSUME NEW e \in Nodes, e.is = "set", e.lhs.is # "id", Len(e.lhs.index) # 1
    PROVE  ScriptOK(e)
<1>1. Script(e) = SetScript(e) /\ States(e) = SetWas(e)
  BY DEF Script, States, Compare, Binary
<1>2. e.right \in Nodes /\ e.right.is \in Expressions /\ e.lhs \in Nodes
  <2>1. Operands(e) = {e.lhs, e.right}
    BY DEF Operands, Unary, Compare, Binary
  <2> QED
    BY <2>1, ChildOK
<1>14. /\ e.lhs.index[1] \in Nodes /\ e.lhs.index[1].is \in Expressions
       /\ Last(e.lhs.index) \in Nodes /\ Last(e.lhs.index).is \in Expressions
       /\ Len(e.lhs.index) # 1 => Inside(e.lhs.index) \in Layered
  <2>1. e.lhs.is = "elem"
    BY NodesAssumption
  <2> QED
    BY <1>2, <2>1, IndexIs, IndicesIs
<1>3. ~IsExpr(e) /\ EndOf(e) = 0
  BY DEF IsExpr, Expressions, Logical, Compare, Binary, EndOf
<1>10. OrderOK(e, Say(Store(Recent(1), Recent(0)), 2, <<>>), HasOwn(<<Got, Own(1)>>), HasOwn(<<>>))
  <2> DEFINE in == Store(Recent(1), Recent(0))
  <2>1. /\ in.op \notin {"label", "endfunc", "param", "call"} /\ in.label = 0
        /\ in.reads = <<Recent(1), Recent(0)>> /\ in.write = {}
    BY InsIs DEF Store, None
  <2> HIDE DEF in
  <2>2. /\ \A r \in DOMAIN in.reads : in.reads[r] = Recent(0) \/ in.reads[r] = Recent(1)
        /\ \E r \in DOMAIN in.reads : in.reads[r] = Recent(0)
        /\ \E r \in DOMAIN in.reads : in.reads[r] = Recent(1)
    BY <2>1, InsOthers
  <2>3. OrderOK(e, Say(in, 2, <<>>), Was(<<Got, Own(1)>>, 1, 0, "no", {}, {}),
                Was(<<>>, 1, 0, "no", {}, {}))
    BY <1>3, <2>1, <2>2, TakesTwoOrder, HeldAre, InsOthers
  <2> QED
    BY <2>3 DEF in, Has, Wrote, HasOwn, WroteOwn
<1>4. DOMAIN SetScript(e) = 1 .. 6 /\ DOMAIN SetWas(e) = 1 .. 7
  BY DEF SetScript, SetWas
<1>5. \A p \in 1 .. 7 : StateOK(SetWas(e)[p])
  BY StatesAre DEF SetWas
<1>6. SetWas(e)[1] = Has(<<>>) /\ SetWas(e)[7] = HasOwn(<<>>)
  BY DEF SetWas
<1>7. \A p \in 1 .. 6 : OrderOK(e, SetScript(e)[p], SetWas(e)[p], SetWas(e)[p + 1])
  <2> DEFINE OK(p) == OrderOK(e, SetScript(e)[p], SetWas(e)[p], SetWas(e)[p + 1])
  <2>1. OK(1)
    BY <1>2, Gets DEF SetScript, SetWas, Has
  <2>2. OK(2)
    BY <1>14, Gets DEF SetScript, SetWas, Has
  <2>3. OK(3)
    BY NewTemps DEF SetScript, SetWas
  <2>4. OK(4)
    BY <1>14, Intos DEF SetScript, SetWas
  <2>5. OK(5)
    BY AddsLayer DEF SetScript, SetWas
  <2>6. OK(6)
    BY <1>10 DEF SetScript, SetWas
  <2> HIDE DEF OK
  <2>7. \A p \in 1 .. 6 : OK(p)
    BY <2>1, <2>2, <2>3, <2>4, <2>5, <2>6
  <2> QED
    BY <2>7 DEF OK
<1>8. LET last == SetWas(e)[7]
      IN  /\ last.held = <<>> /\ last.passed = 0 /\ last.writ = "no"
          /\ 4 .. 3 + last.labels \subseteq last.placed
  BY <1>6 DEF HasOwn, Was
<1>9. ScriptHas(e, SetScript(e), SetWas(e), 6, 7)
  BY <1>3, <1>4, <1>5, <1>6, <1>7, <1>8 DEF ScriptHas
<1> QED
  BY <1>1, <1>9, ScriptIs

LEMMA IfOK ==
    ASSUME NEW e \in Nodes, e.is = "if"
    PROVE  ScriptOK(e)
<1>1. Script(e) = IfScript(e) /\ States(e) = IfWas
  BY DEF Script, States, Compare, Binary
<1>2. e.cond \in Nodes /\ e.cond.is \in Expressions /\ e.then \in Nodes /\ e.then.is \in Statements
  <2>1. Operands(e) = {e.cond} /\ Clauses(e) = {e.then}
    BY DEF Operands, Clauses, Unary, Compare, Binary
  <2> QED
    BY <2>1, ChildOK
<1>3. ~IsExpr(e) /\ EndOf(e) = 0
  BY DEF IsExpr, Expressions, Logical, Compare, Binary, EndOf
<1>11. \A n \in Nat : \A k \in 1 .. 3 : Here[k] \in 1 .. 3 + n
  BY DEF Here
<1>4. DOMAIN IfScript(e) = 1 .. 5 /\ DOMAIN IfWas = 1 .. 6
  BY DEF IfScript, IfWas
<1>5. \A p \in 1 .. 6 : StateOK(IfWas[p])
  BY StatesAre DEF IfWas
<1>6. IfWas[1] = Has(<<>>) /\ IfWas[6] = Was(<<>>, 0, 1, "no", {4}, {4})
  BY DEF IfWas
<1>7. \A p \in 1 .. 5 : OrderOK(e, IfScript(e)[p], IfWas[p], IfWas[p + 1])
  <2> DEFINE OK(p) == OrderOK(e, IfScript(e)[p], IfWas[p], IfWas[p + 1])
  <2>1. OK(1)
    BY <1>2, Gets DEF IfScript, IfWas, Has
  <2>2. OK(2)
    BY NewLabels DEF IfScript, IfWas, Has, Jumped
  <2>3. OK(3)
    BY <1>3, Tests, LabelSets DEF IfScript, IfWas, Jumped
  <2>4. OK(4)
    BY <1>2, <1>3, <1>11, RunsIt DEF IfScript, IfWas, Jumped
  <2>5. OK(5)
    BY <1>3, Places, LabelSets DEF IfScript, IfWas, Jumped
  <2> HIDE DEF OK
  <2>6. \A p \in 1 .. 5 : OK(p)
    BY <2>1, <2>2, <2>3, <2>4, <2>5
  <2> QED
    BY <2>6 DEF OK
<1>8. LET last == IfWas[6]
      IN  /\ last.held = <<>> /\ last.passed = 0 /\ last.writ = "no"
          /\ 4 .. 3 + last.labels \subseteq last.placed
  BY <1>6 DEF Was
<1>9. ScriptHas(e, IfScript(e), IfWas, 5, 6)
  BY <1>3, <1>4, <1>5, <1>6, <1>7, <1>8 DEF ScriptHas
<1> QED
  BY <1>1, <1>9, ScriptIs

LEMMA IfElseOK ==
    ASSUME NEW e \in Nodes, e.is = "ifelse"
    PROVE  ScriptOK(e)
<1>1. Script(e) = IfElseScript(e) /\ States(e) = IfElseWas
  BY DEF Script, States, Compare, Binary
<1>2. e.cond \in Nodes /\ e.cond.is \in Expressions /\ e.then \in Nodes /\ e.then.is \in Statements /\ e.else \in Nodes /\ e.else.is \in Statements
  <2>1. Operands(e) = {e.cond} /\ Clauses(e) = {e.then, e.else}
    BY DEF Operands, Clauses, Unary, Compare, Binary
  <2> QED
    BY <2>1, ChildOK
<1>3. ~IsExpr(e) /\ EndOf(e) = 0
  BY DEF IsExpr, Expressions, Logical, Compare, Binary, EndOf
<1>11. \A n \in Nat : \A k \in 1 .. 3 : Here[k] \in 1 .. 3 + n
  BY DEF Here
<1>15. OrderOK(e, Run(e.then, Here), Was(<<>>, 0, 2, "no", {}, {4}), Was(<<>>, 0, 2, "no", {}, {4}))
  BY <1>2, <1>3, <1>11, RunsIt
<1>12. OrderOK(e, To(5), Jumped(<<>>, 2, {4}), Jumped(<<>>, 2, {4, 5}))
  <2>1. {4} \cup {5} = {4, 5} /\ {} \subseteq 4 .. 3 + 2 /\ {4} \subseteq 4 .. 3 + 2 /\ 5 \in 4 .. 3 + 2
    OBVIOUS
  <2> QED
    BY <1>3, <2>1, Jumps DEF Jumped
<1>4. DOMAIN IfElseScript(e) = 1 .. 9 /\ DOMAIN IfElseWas = 1 .. 10
  BY DEF IfElseScript, IfElseWas
<1>5. \A p \in 1 .. 10 : StateOK(IfElseWas[p])
  BY StatesAre DEF IfElseWas
<1>6. IfElseWas[1] = Has(<<>>) /\ IfElseWas[10] = Was(<<>>, 0, 2, "no", {4, 5}, {4, 5})
  BY DEF IfElseWas
<1>7. \A p \in 1 .. 9 : OrderOK(e, IfElseScript(e)[p], IfElseWas[p], IfElseWas[p + 1])
  <2> DEFINE OK(p) == OrderOK(e, IfElseScript(e)[p], IfElseWas[p], IfElseWas[p + 1])
  <2>1. OK(1)
    BY <1>2, Gets DEF IfElseScript, IfElseWas, Has
  <2>2. OK(2) /\ OK(3)
    BY NewLabels DEF IfElseScript, IfElseWas, Has, Jumped
  <2>3. OK(4)
    BY <1>3, Tests, LabelSets DEF IfElseScript, IfElseWas, Jumped
  <2>4. OK(5)
    BY <1>15 DEF IfElseScript, IfElseWas, Jumped
  <2>5. OK(6)
    BY <1>12 DEF IfElseScript, IfElseWas
  <2>6. OK(7)
    BY <1>3, Places, LabelSets DEF IfElseScript, IfElseWas, Jumped
  <2>7. OK(8)
    BY <1>2, <1>3, <1>11, RunsIt DEF IfElseScript, IfElseWas
  <2>8. OK(9)
    BY <1>3, Places, LabelSets DEF IfElseScript, IfElseWas
  <2> HIDE DEF OK
  <2>9. \A p \in 1 .. 9 : OK(p)
    BY <2>1, <2>2, <2>3, <2>4, <2>5, <2>6, <2>7, <2>8
  <2> QED
    BY <2>9 DEF OK
<1>8. LET last == IfElseWas[10]
      IN  /\ last.held = <<>> /\ last.passed = 0 /\ last.writ = "no"
          /\ 4 .. 3 + last.labels \subseteq last.placed
  BY <1>6 DEF Was
<1>9. ScriptHas(e, IfElseScript(e), IfElseWas, 9, 10)
  BY <1>3, <1>4, <1>5, <1>6, <1>7, <1>8 DEF ScriptHas
<1> QED
  BY <1>1, <1>9, ScriptIs

LEMMA WhileOK ==
    ASSUME NEW e \in Nodes, e.is = "while"
    PROVE  ScriptOK(e)
<1>1. Script(e) = WhileScript(e) /\ States(e) = WhileWas
  BY DEF Script, States, Compare, Binary
<1>2. e.cond \in Nodes /\ e.cond.is \in Expressions /\ e.body \in Nodes /\ e.body.is \in Statements
  <2>1. Operands(e) = {e.cond} /\ Clauses(e) = {e.body}
    BY DEF Operands, Clauses, Unary, Compare, Binary
  <2> QED
    BY <2>1, ChildOK
<1>3. ~IsExpr(e) /\ EndOf(e) = 0
  BY DEF IsExpr, Expressions, Logical, Compare, Binary, EndOf
<1>11. \A k \in 1 .. 3 : <<4, 5, 3>>[k] \in 1 .. 3 + 2
  OBVIOUS
<1>14. /\ {5} \cup {4} = {4, 5} /\ {} \cup {5} = {5} /\ {} \subseteq 4 .. 3 + 2 /\ {4} \subseteq 4 .. 3 + 2
       /\ {5} \subseteq 4 .. 3 + 2 /\ 4 \in 4 .. 3 + 2 /\ 5 \in 4 .. 3 + 2
  OBVIOUS
<1>12. OrderOK(e, To(4), Was(<<>>, 0, 2, "no", {4}, {5}), Was(<<>>, 0, 2, "no", {4}, {4, 5}))
  BY <1>3, <1>14, Jumps
<1>15. OrderOK(e, Run(e.body, <<4, 5, 3>>), Was(<<>>, 0, 2, "no", {4}, {5}), Was(<<>>, 0, 2, "no", {4}, {5}))
  BY <1>2, <1>3, <1>11, RunsIt
<1>13. OrderOK(e, Say(IfZ(Recent(0), 5), 1, <<>>), Was(<<Got>>, 0, 2, "no", {4}, {}), Was(<<>>, 0, 2, "no", {4}, {5}))
  BY <1>3, <1>14, Tests
<1>4. DOMAIN WhileScript(e) = 1 .. 8 /\ DOMAIN WhileWas = 1 .. 9
  BY DEF WhileScript, WhileWas
<1>5. \A p \in 1 .. 9 : StateOK(WhileWas[p])
  BY StatesAre DEF WhileWas
<1>6. WhileWas[1] = Has(<<>>) /\ WhileWas[9] = Was(<<>>, 0, 2, "no", {4, 5}, {4, 5})
  BY DEF WhileWas
<1>7. \A p \in 1 .. 8 : OrderOK(e, WhileScript(e)[p], WhileWas[p], WhileWas[p + 1])
  <2> DEFINE OK(p) == OrderOK(e, WhileScript(e)[p], WhileWas[p], WhileWas[p + 1])
  <2>1. OK(1)
    BY NewLabels DEF WhileScript, WhileWas, Has, Jumped
  <2>2. OK(2)
    BY <1>3, Places, LabelSets DEF WhileScript, WhileWas, Jumped
  <2>3. OK(3)
    BY <1>2, Gets DEF WhileScript, WhileWas
  <2>4. OK(4)
    BY NewLabels DEF WhileScript, WhileWas
  <2>5. OK(5)
    BY <1>13 DEF WhileScript, WhileWas
  <2>6. OK(6)
    BY <1>15 DEF WhileScript, WhileWas
  <2>7. OK(7)
    BY <1>12 DEF WhileScript, WhileWas
  <2>8. OK(8)
    BY <1>3, Places, LabelSets DEF WhileScript, WhileWas
  <2> HIDE DEF OK
  <2>9. \A p \in 1 .. 8 : OK(p)
    BY <2>1, <2>2, <2>3, <2>4, <2>5, <2>6, <2>7, <2>8
  <2> QED
    BY <2>9 DEF OK
<1>8. LET last == WhileWas[9]
      IN  /\ last.held = <<>> /\ last.passed = 0 /\ last.writ = "no"
          /\ 4 .. 3 + last.labels \subseteq last.placed
  BY <1>6 DEF Was
<1>9. ScriptHas(e, WhileScript(e), WhileWas, 8, 9)
  BY <1>3, <1>4, <1>5, <1>6, <1>7, <1>8 DEF ScriptHas
<1> QED
  BY <1>1, <1>9, ScriptIs

LEMMA ReturnOK ==
    ASSUME NEW e \in Nodes, e.is = "return", e.right # Nop
    PROVE  ScriptOK(e)
<1>1. Script(e) = ReturnScript(e) /\ States(e) = ReturnWas(e)
  BY DEF Script, States, Compare, Binary
<1>2. e.right \in Nodes /\ e.right.is \in Expressions
  <2>1. Operands(e) = {e.right} \ {Nop}
    BY DEF Operands, Unary, Compare, Binary
  <2> QED
    BY <2>1, ChildOK
<1>3. ~IsExpr(e) /\ EndOf(e) = 0
  BY DEF IsExpr, Expressions, Logical, Compare, Binary, EndOf
<1>10. OrderOK(e, Say(Ret(<<Recent(0)>>), 1, <<>>), Has(<<Got>>), Has(<<>>))
  <2> DEFINE in == Ret(<<Recent(0)>>)
  <2>1. /\ in.op \notin {"label", "endfunc", "param", "call"} /\ in.label = 0
        /\ in.reads = <<Recent(0)>> /\ in.write = {}
    BY InsIs DEF Ret, None
  <2> HIDE DEF in
  <2>2. /\ \A r \in DOMAIN in.reads : in.reads[r].kind \in {"const", "var"} \/ in.reads[r] = Recent(0)
        /\ \E r \in DOMAIN in.reads : in.reads[r] = Recent(0)
    BY <2>1, InsOthers
  <2>3. OrderOK(e, Say(in, 1, <<>>), Was(<<Got>>, 0, 0, "no", {}, {}),
                Was(<<>>, 0, 0, "no", {}, {}))
    BY <1>3, <2>1, <2>2, TakesOneOrder, HeldAre, InsOthers
  <2> QED
    BY <2>3 DEF in, Has, Wrote, HasOwn, WroteOwn
<1>4. DOMAIN ReturnScript(e) = 1 .. 3 /\ DOMAIN ReturnWas(e) = 1 .. 4
  BY DEF ReturnScript, ReturnWas
<1>5. \A p \in 1 .. 4 : StateOK(ReturnWas(e)[p])
  BY StatesAre DEF ReturnWas
<1>6. ReturnWas(e)[1] = Has(<<>>) /\ ReturnWas(e)[4] = Has(<<>>)
  BY DEF ReturnWas
<1>7. \A p \in 1 .. 3 : OrderOK(e, ReturnScript(e)[p], ReturnWas(e)[p], ReturnWas(e)[p + 1])
  <2> DEFINE OK(p) == OrderOK(e, ReturnScript(e)[p], ReturnWas(e)[p], ReturnWas(e)[p + 1])
  <2>1. OK(1)
    BY <1>2, Gets DEF ReturnScript, ReturnWas, Has
  <2>2. OK(2)
    BY <1>10 DEF ReturnScript, ReturnWas
  <2>3. OK(3)
    BY <1>3, JumpsOut DEF ReturnScript, ReturnWas
  <2> HIDE DEF OK
  <2>4. \A p \in 1 .. 3 : OK(p)
    BY <2>1, <2>2, <2>3
  <2> QED
    BY <2>4 DEF OK
<1>8. LET last == ReturnWas(e)[4]
      IN  /\ last.held = <<>> /\ last.passed = 0 /\ last.writ = "no"
          /\ 4 .. 3 + last.labels \subseteq last.placed
  BY <1>6 DEF Has, Was
<1>9. ScriptHas(e, ReturnScript(e), ReturnWas(e), 3, 4)
  BY <1>3, <1>4, <1>5, <1>6, <1>7, <1>8 DEF ScriptHas
<1> QED
  BY <1>1, <1>9, ScriptIs

LEMMA ReturnNothingOK ==
    ASSUME NEW e \in Nodes, e.is = "return", e.right = Nop
    PROVE  ScriptOK(e)
<1>1. Script(e) = ReturnScript(e) /\ States(e) = ReturnWas(e)
  BY DEF Script, States, Compare, Binary
<1>3. ~IsExpr(e) /\ EndOf(e) = 0
  BY DEF IsExpr, Expressions, Logical, Compare, Binary, EndOf
<1>4. DOMAIN ReturnScript(e) = 1 .. 2 /\ DOMAIN ReturnWas(e) = 1 .. 3
  BY DEF ReturnScript, ReturnWas
<1>5. \A p \in 1 .. 3 : StateOK(ReturnWas(e)[p])
  BY StatesAre DEF ReturnWas
<1>6. ReturnWas(e)[1] = Has(<<>>) /\ ReturnWas(e)[3] = Has(<<>>)
  BY DEF ReturnWas
<1>7. \A p \in 1 .. 2 : OrderOK(e, ReturnScript(e)[p], ReturnWas(e)[p], ReturnWas(e)[p + 1])
  <2> DEFINE OK(p) == OrderOK(e, ReturnScript(e)[p], ReturnWas(e)[p], ReturnWas(e)[p + 1])
  <2>1. OK(1)
    BY ReturnsNothing DEF ReturnScript, ReturnWas
  <2>2. OK(2)
    BY <1>3, JumpsOut DEF ReturnScript, ReturnWas
  <2> HIDE DEF OK
  <2>3. \A p \in 1 .. 2 : OK(p)
    BY <2>1, <2>2
  <2> QED
    BY <2>3 DEF OK
<1>8. LET last == ReturnWas(e)[3]
      IN  /\ last.held = <<>> /\ last.passed = 0 /\ last.writ = "no"
          /\ 4 .. 3 + last.labels \subseteq last.placed
  BY <1>6 DEF Has, Was
<1>9. ScriptHas(e, ReturnScript(e), ReturnWas(e), 2, 3)
  BY <1>3, <1>4, <1>5, <1>6, <1>7, <1>8 DEF ScriptHas
<1> QED
  BY <1>1, <1>9, ScriptIs

LEMMA JumpOutOK ==
    ASSUME NEW e \in Nodes, e.is \in {"break", "continue"}
    PROVE  ScriptOK(e)
<1>1. PICK l \in 1 .. 3 : Script(e) = <<To(l)>>
  BY DEF Script, Compare, Binary, BreakScript, ContinueScript
<1>2. States(e) = <<Has(<<>>), Has(<<>>)>>
  BY DEF States, Compare, Binary
<1>3. ~IsExpr(e)
  BY DEF IsExpr, Expressions, Logical, Compare, Binary
<1>4. OrderOK(e, To(l), Has(<<>>), Has(<<>>))
  BY <1>1, <1>3, JumpsOut
<1>5. StateOK(Has(<<>>))
  BY StatesAre
<1> DEFINE s == <<To(l)>>
           w == <<Has(<<>>), Has(<<>>)>>
<1>6. DOMAIN s = 1 .. 1 /\ s[1] = To(l) /\ DOMAIN w = 1 .. 2 /\ w[1] = Has(<<>>) /\ w[2] = Has(<<>>)
  OBVIOUS
<1>7. Has(<<>>).held = <<>> /\ Has(<<>>).passed = 0 /\ Has(<<>>).writ = "no" /\ Has(<<>>).labels = 0
  BY DEF Has, Was
<1>8. s = Script(e) /\ w = States(e)
  BY <1>1, <1>2
<1> HIDE DEF s, w
<1>9. ScriptHas(e, s, w, 1, 2)
  BY <1>3, <1>4, <1>5, <1>6, <1>7 DEF ScriptHas
<1> QED
  BY <1>8, <1>9, ScriptIs

LEMMA NopOK ==
    ASSUME NEW e \in Nodes, e.is = "nop"
    PROVE  ScriptOK(e)
<1>1. Script(e) = <<>> /\ States(e) = <<Has(<<>>)>>
  BY DEF Script, States, Compare, Binary
<1>2. ~IsExpr(e)
  BY DEF IsExpr, Expressions, Logical, Compare, Binary
<1>3. StateOK(Has(<<>>))
  BY StatesAre
<1>4. Has(<<>>).held = <<>> /\ Has(<<>>).passed = 0 /\ Has(<<>>).writ = "no" /\ Has(<<>>).labels = 0
  BY DEF Has, Was
<1> DEFINE w == <<Has(<<>>)>>
<1>5. DOMAIN w = 1 .. 1 /\ w[1] = Has(<<>>) /\ DOMAIN <<>> = 1 .. 0 /\ w = States(e)
  BY <1>1
<1> HIDE DEF w
<1>6. ScriptHas(e, <<>>, w, 0, 1)
  BY <1>2, <1>3, <1>4, <1>5 DEF ScriptHas
<1> QED
  BY <1>1, <1>5, <1>6, ScriptIs

LEMMA FunctionOK ==
    ASSUME NEW e \in Function
    PROVE  ScriptOK(e)
<1>0. e.is = "function" /\ e.body \in Nodes /\ e.body.is \in Statements
  BY NodesAssumption DEF Function
<1> DEFINE S == FunctionScript(e)
<1>1. Script(e) = S /\ States(e) = FunctionWas
  BY <1>0 DEF Script, States, Compare, Binary
<1>2. ~IsExpr(e) /\ EndOf(e) = 0
  BY <1>0 DEF IsExpr, Expressions, Logical, Compare, Binary, EndOf
<1>3. DOMAIN S = 1 .. 4 /\ DOMAIN FunctionWas = 1 .. 5
  BY DEF FunctionScript, FunctionWas
<1>4. \A p \in 1 .. 5 : StateOK(FunctionWas[p])
  BY StatesAre DEF FunctionWas
<1>5. FunctionWas[1] = Has(<<>>) /\ FunctionWas[5] = Was(<<>>, 0, 1, "no", {4}, {})
  BY DEF FunctionWas
<1>6. OrderOK(e, S[1], FunctionWas[1], FunctionWas[2])
  BY NewLabels DEF FunctionScript, FunctionWas, Has, Jumped
<1>7. OrderOK(e, S[2], FunctionWas[2], FunctionWas[3])
  <2>1. \A k \in 1 .. 3 : <<1, 2, 4>>[k] \in 1 .. 3 + 1
    OBVIOUS
  <2>2. OrderOK(e, Run(e.body, <<1, 2, 4>>), Was(<<>>, 0, 1, "no", {}, {}), Was(<<>>, 0, 1, "no", {}, {}))
    BY <1>0, <1>2, <2>1, RunsIt
  <2> QED
    BY <2>2 DEF FunctionScript, FunctionWas, Jumped
<1>8. OrderOK(e, S[3], FunctionWas[3], FunctionWas[4])
  BY <1>2, Places, LabelSets DEF FunctionScript, FunctionWas, Jumped
<1>9. OrderOK(e, S[4], FunctionWas[4], FunctionWas[5])
  BY <1>0, Ends DEF FunctionScript, FunctionWas
<1>10. LET last == FunctionWas[5]
       IN  /\ last.held = <<>> /\ last.passed = 0 /\ last.writ = "no"
           /\ 4 .. 3 + last.labels \subseteq last.placed
  BY <1>5 DEF Was
<1> HIDE DEF S
<1>11. ScriptHas(e, S, FunctionWas, 4, 5)
  <2>1. \A p \in 1 .. 4 : OrderOK(e, S[p], FunctionWas[p], FunctionWas[p + 1])
    BY <1>6, <1>7, <1>8, <1>9
  <2> QED
    BY <1>2, <1>3, <1>4, <1>5, <1>10, <2>1 DEF ScriptHas
<1> QED
  BY <1>1, <1>11, ScriptIs

LEMMA BlockOK ==
    ASSUME NEW e \in Nodes, e.is = "block"
    PROVE  ScriptOK(e)
<1> DEFINE n == Len(e.children)
<1>1. Script(e) = BlockScript(e) /\ States(e) = BlockWas(n)
  BY DEF Script, States, Compare, Binary
<1>2. ~IsExpr(e)
  BY DEF IsExpr, Expressions, Logical, Compare, Binary
<1>3. n \in Nat /\ DOMAIN e.children = 1 .. n
      /\ \A p \in 1 .. n : e.children[p] \in Nodes /\ e.children[p].is \in Statements
  <2>1. Clauses(e) = Range(e.children)
    BY DEF Clauses
  <2>2. e.children \in Seq(Range(e.children))
    BY NodesAssumption DEF IsSequence
  <2>3. n \in Nat /\ DOMAIN e.children = 1 .. n /\ \A p \in 1 .. n : e.children[p] \in Range(e.children)
    BY <2>2
  <2> QED
    BY <2>1, <2>3, ChildOK
<1> DEFINE S == BlockScript(e)
           W == BlockWas(n)
<1> HIDE DEF n
<1>4. DOMAIN S = 1 .. n /\ DOMAIN W = 1 .. n + 1
  BY <1>3 DEF BlockScript, BlockWas
<1>5. \A p \in 1 .. n + 1 : W[p] = Has(<<>>)
  BY DEF BlockWas
<1>6. StateOK(Has(<<>>))
  BY StatesAre
<1>7. Has(<<>>).held = <<>> /\ Has(<<>>).passed = 0 /\ Has(<<>>).writ = "no" /\ Has(<<>>).labels = 0
  BY DEF Has, Was
<1>8. ASSUME NEW p \in 1 .. n
      PROVE  OrderOK(e, S[p], W[p], W[p + 1])
  <2>1. S[p] = Run(e.children[p], Here)
    BY <1>3 DEF BlockScript
  <2>2. W[p] = Has(<<>>) /\ W[p + 1] = Has(<<>>)
    BY <1>3, <1>5
  <2>3. \A k \in 1 .. 3 : Here[k] \in 1 .. 3 + 0
    BY DEF Here
  <2> HIDE DEF S, W
  <2>4. OrderOK(e, Run(e.children[p], Here), Was(<<>>, 0, 0, "no", {}, {}), Was(<<>>, 0, 0, "no", {}, {}))
    BY <1>2, <1>3, <2>3, RunsIt
  <2> QED
    BY <2>1, <2>2, <2>4 DEF Has
<1> HIDE DEF S, W
<1>9. ScriptHas(e, S, W, n, n + 1)
  <2>1. 1 \in 1 .. n + 1 /\ n + 1 \in 1 .. n + 1
    BY <1>3
  <2> QED
    BY <1>2, <1>3, <1>4, <1>5, <1>6, <1>7, <1>8, <2>1 DEF ScriptHas
<1> QED
  BY <1>1, <1>9, ScriptIs DEF S, W

LEMMA InitOK ==
    ASSUME NEW e \in Nodes, e.is = "init"
    PROVE  ScriptOK(e)
<1> DEFINE n == Len(e.children)
<1>1. Script(e) = InitScript(e) /\ States(e) = InitWas(n)
  BY DEF Script, States, Compare, Binary
<1>2. ~IsExpr(e)
  BY DEF IsExpr, Expressions, Logical, Compare, Binary
<1>3. n \in Nat /\ \A p \in 1 .. n : e.children[p] \in Nodes /\ e.children[p].is \in Expressions
  <2>1. Operands(e) = Range(e.children)
    BY DEF Operands, Unary, Compare, Binary
  <2>2. e.children \in Seq(Range(e.children))
    BY NodesAssumption DEF IsSequence
  <2>3. n \in Nat /\ \A p \in 1 .. n : e.children[p] \in Range(e.children)
    BY <2>2
  <2> QED
    BY <2>1, <2>3, ChildOK
<1> DEFINE S == InitScript(e)
           W == InitWas(n)
<1>4. DOMAIN S = 1 .. 2 * n /\ DOMAIN W = 1 .. 2 * n + 1
  BY <1>3 DEF InitScript, InitWas
<1>5. \A p \in 1 .. 2 * n : S[p] = IF p % 2 = 1 THEN Get(e.children[(p + 1) \div 2])
                                   ELSE Say(Store(Recent(0), Const(p \div 2 - 1)), 1, <<>>)
  BY DEF InitScript
<1>6. \A p \in 1 .. 2 * n + 1 : W[p] = IF p % 2 = 1 THEN Has(<<>>) ELSE Has(<<Got>>)
  BY DEF InitWas
<1> HIDE DEF n, S, W
<1>7. StateOK(Has(<<>>)) /\ StateOK(Has(<<Got>>))
  BY StatesAre
<1>8. Has(<<>>).held = <<>> /\ Has(<<>>).passed = 0 /\ Has(<<>>).writ = "no" /\ Has(<<>>).labels = 0
  BY DEF Has, Was
<1>9. ASSUME NEW p \in 1 .. 2 * n
      PROVE  OrderOK(e, S[p], W[p], W[p + 1])
  <2>0. p \in 1 .. 2 * n + 1 /\ p + 1 \in 1 .. 2 * n + 1
    BY <1>3
  <2>1. CASE p % 2 = 1
    <3>1. (p + 1) % 2 # 1 /\ (p + 1) \div 2 \in 1 .. n
      BY <1>3, <2>1
    <3>2. S[p] = Get(e.children[(p + 1) \div 2]) /\ W[p] = Has(<<>>) /\ W[p + 1] = Has(<<Got>>)
      BY <1>5, <1>6, <2>0, <2>1, <3>1
    <3>3. OrderOK(e, Get(e.children[(p + 1) \div 2]), Has(<<>>), Has(<<Got>>))
      BY <1>3, <3>1, Gets DEF Has
    <3> QED
      BY <3>2, <3>3
  <2>2. CASE p % 2 # 1
    <3>1. (p + 1) % 2 = 1
      BY <1>3, <2>2
    <3> DEFINE k == p \div 2 - 1
    <3>2. S[p] = Say(Store(Recent(0), Const(k)), 1, <<>>) /\ W[p] = Has(<<Got>>) /\ W[p + 1] = Has(<<>>)
      BY <1>5, <1>6, <2>0, <2>2, <3>1
    <3> HIDE DEF k
    <3> DEFINE in == Store(Recent(0), Const(k))
    <3>3. /\ in.op \notin {"label", "endfunc", "param", "call"} /\ in.label = 0
          /\ in.reads = <<Recent(0), Const(k)>> /\ in.write = {}
      BY InsIs DEF Store, None
    <3> HIDE DEF in
    <3>4. /\ \A r \in DOMAIN in.reads : in.reads[r].kind \in {"const", "var"} \/ in.reads[r] = Recent(0)
          /\ \E r \in DOMAIN in.reads : in.reads[r] = Recent(0)
      BY <3>3, InsOthers
    <3>5. OrderOK(e, Say(in, 1, <<>>), Was(<<Got>>, 0, 0, "no", {}, {}), Was(<<>>, 0, 0, "no", {}, {}))
      BY <3>3, <3>4, TakesOneOrder, HeldAre
    <3> QED
      BY <3>2, <3>5 DEF in, Has
  <2> QED
    BY <2>1, <2>2
<1>10. ScriptHas(e, S, W, 2 * n, 2 * n + 1)
  <2>1. /\ 2 * n \in Nat /\ 1 \in 1 .. 2 * n + 1 /\ 2 * n + 1 \in 1 .. 2 * n + 1
        /\ 1 % 2 = 1 /\ (2 * n + 1) % 2 = 1
    BY <1>3
  <2>2. W[1] = Has(<<>>) /\ W[2 * n + 1] = Has(<<>>)
    BY <1>6, <2>1
  <2>3. \A p \in 1 .. 2 * n + 1 : StateOK(W[p])
    BY <1>6, <1>7
  <2> QED
    BY <1>2, <1>4, <1>8, <1>9, <2>1, <2>2, <2>3 DEF ScriptHas
<1> QED
  BY <1>1, <1>10, ScriptIs DEF S, W

\* What is known when k operands are still to be passed, and j are.
LEMMA CallWasPassed ==
    ASSUME NEW n \in Nat, NEW last, NEW k \in Nat, NEW j \in Nat, k + j = n,
           NEW q, q = n + 1 + j
    PROVE  CallWas(n, last)[q] = HasPassed(Gots(k), j)
<1>1. /\ q \in 1 .. 2 * n + 2 /\ ~(q <= n) /\ q <= 2 * n + 1 /\ 2 * n + 1 - q = k
      /\ q - n - 1 = j
  OBVIOUS
<1>2. CallWas(n, last)[q] = HasPassed(Gots(2 * n + 1 - q), q - n - 1)
  BY <1>1 DEF CallWas
<1> QED
  BY <1>1, <1>2

\* A call of f with the arguments of a call node c.
LEMMA CallScriptOK ==
    ASSUME NEW e, NEW c \in Nodes, c.is = "call", NEW dst, NEW last,
           \/ dst = {Dst} /\ IsExpr(e) /\ last = Wrote
           \/ dst = None /\ ~IsExpr(e) /\ last = Has(<<>>),
           Script(e) = CallScript(c, dst), States(e) = CallWas(Len(c.args), last)
    PROVE  ScriptOK(e)
<1> DEFINE n == Len(c.args)
           S == CallScript(c, dst)
           W == CallWas(n, last)
<1>1. n \in Nat /\ \A p \in 1 .. n : c.args[p] \in Nodes /\ c.args[p].is \in Expressions
  <2>1. Operands(c) = Range(c.args)
    BY DEF Operands, Unary, Compare, Binary
  <2>2. c.args \in Seq(Range(c.args))
    BY NodesAssumption DEF IsSequence
  <2>3. n \in Nat /\ \A p \in 1 .. n : c.args[p] \in Range(c.args)
    BY <2>2
  <2> QED
    BY <2>1, <2>3, ChildOK
<1>2. DOMAIN S = 1 .. 2 * n + 1 /\ DOMAIN W = 1 .. 2 * n + 2
  BY <1>1 DEF CallScript, CallWas
<1>3. \A p \in 1 .. 2 * n + 1 :
          S[p] = IF p <= n THEN Get(c.args[n + 1 - p])
                 ELSE IF p <= 2 * n THEN Say(Param(Recent(0)), 1, <<>>)
                 ELSE Emit(CallTo(c.name, n, dst))
  BY DEF CallScript
<1>4. \A p \in 1 .. 2 * n + 2 :
          W[p] = IF p <= n THEN Has(Gots(p - 1))
                 ELSE IF p <= 2 * n + 1 THEN HasPassed(Gots(2 * n + 1 - p), p - n - 1)
                 ELSE last
  BY DEF CallWas
<1> HIDE DEF n, S, W
<1>15. ASSUME NEW k \in Nat, NEW j \in Nat, k + j = n, NEW q, q = n + 1 + j
       PROVE  W[q] = HasPassed(Gots(k), j)
  BY <1>1, <1>15, CallWasPassed DEF W
<1>5. \A k \in Nat : StateOK(Has(Gots(k)))
  <2> TAKE k \in Nat
  <2>1. Has(Gots(k)) = HasPassed(Gots(k), 0)
    BY DEF Has, HasPassed, Was
  <2> QED
    BY <2>1, PassedOK
<1>6. /\ StateOK(last) /\ last.held = <<>> /\ last.passed = 0 /\ last.labels = 0
      /\ last.writ = (IF IsExpr(e) THEN "yes" ELSE "no")
  <2>1. CASE IsExpr(e) /\ last = Wrote
    <3>1. /\ Wrote.held = <<>> /\ Wrote.passed = 0 /\ Wrote.labels = 0 /\ Wrote.writ = "yes"
          /\ Wrote.temps = 0 /\ Wrote.placed = {} /\ Wrote.jumped = {}
      BY DEF Wrote, Was
    <3>2. StateOK(Wrote)
      BY <3>1 DEF StateOK
    <3> QED
      BY <2>1, <3>1, <3>2
  <2>2. CASE ~IsExpr(e) /\ last = Has(<<>>)
    <3>1. /\ Has(<<>>).held = <<>> /\ Has(<<>>).passed = 0 /\ Has(<<>>).labels = 0
          /\ Has(<<>>).writ = "no" /\ Has(<<>>).temps = 0
          /\ Has(<<>>).placed = {} /\ Has(<<>>).jumped = {}
      BY DEF Has, Was
    <3>2. 0 \in Nat /\ Gots(0) = <<>>
      BY DEF Gots
    <3>3. StateOK(Has(<<>>))
      BY <1>5, <3>2
    <3> QED
      BY <2>2, <3>1, <3>3
  <2> QED
    BY <2>1, <2>2
<1>7. Gots(0) = <<>>
  BY DEF Gots
<1>8. ASSUME NEW p \in 1 .. n
      PROVE  OrderOK(e, S[p], W[p], W[p + 1])
  <2>1. /\ p \in 1 .. 2 * n + 1 /\ p \in 1 .. 2 * n + 2 /\ p + 1 \in 1 .. 2 * n + 2
        /\ n + 1 - p \in 1 .. n /\ p - 1 \in Nat /\ p <= n /\ p \in Nat /\ p + 1 - 1 = p
    BY <1>1
  <2>2. S[p] = Get(c.args[n + 1 - p]) /\ W[p] = Has(Gots(p - 1))
    BY <1>3, <1>4, <2>1
  <2>3. W[p + 1] = Has(Gots(p))
    <3>1. CASE p + 1 <= n
      BY <1>4, <2>1, <3>1
    <3>2. CASE ~(p + 1 <= n)
      <4>1. p + 1 <= 2 * n + 1 /\ 2 * n + 1 - (p + 1) = p /\ p + 1 - n - 1 = 0
        BY <1>1, <2>1, <3>2
      <4>2. W[p + 1] = HasPassed(Gots(p), 0)
        <5>1. p = n /\ p + 0 = n /\ p + 1 = n + 1 + 0 /\ 0 \in Nat
          BY <1>1, <2>1, <3>2
        <5> QED
          BY <1>15, <2>1, <5>1
      <4> QED
        BY <4>2 DEF Has, HasPassed, Was
    <3> QED
      BY <3>1, <3>2
  <2>4. c.args[n + 1 - p] \in Nodes /\ c.args[n + 1 - p].is \in Expressions
    BY <1>1, <2>1
  <2>5. Gots(p) = Append(Gots(p - 1), Got)
    <3>1. \A k \in Nat : Gots(k + 1) = Append(Gots(k), Got)
      BY DEF Gots
    <3>2. p - 1 + 1 = p
      BY <2>1
    <3> QED
      BY <2>1, <3>1, <3>2
  <2> DEFINE a == Has(Gots(p - 1))
             b == Has(Gots(p))
  <2>6. /\ a.held = Gots(p - 1) /\ a.temps = 0 /\ a.labels = 0 /\ a.writ = "no"
        /\ a.placed = {} /\ a.jumped = {} /\ a.passed = 0
    BY DEF Has, Was
  <2>7. /\ b.held = Gots(p) /\ b.temps = 0 /\ b.labels = 0 /\ b.writ = "no"
        /\ b.placed = {} /\ b.jumped = {} /\ b.passed = 0
    BY DEF Has, Was
  <2> HIDE DEF a, b
  <2>8. \A d : d \in Nodes /\ d.is \in Expressions => OrderOK(e, Get(d), a, b)
    BY <2>5, <2>6, <2>7 DEF OrderOK, Get, GetOK, Idle, Alike
  <2> QED
    BY <2>2, <2>3, <2>4, <2>8 DEF a, b
<1>9. ASSUME NEW p \in n + 1 .. 2 * n
      PROVE  OrderOK(e, S[p], W[p], W[p + 1])
  <2>1. /\ p \in 1 .. 2 * n + 1 /\ p \in 1 .. 2 * n + 2 /\ p + 1 \in 1 .. 2 * n + 2
        /\ ~(p <= n) /\ p <= 2 * n /\ p <= 2 * n + 1 /\ ~(p + 1 <= n) /\ p + 1 <= 2 * n + 1
    BY <1>1
  <2> DEFINE k == 2 * n - p
             j == p - n - 1
  <2>2. k \in Nat /\ j \in Nat /\ 2 * n + 1 - p = k + 1 /\ 2 * n + 1 - (p + 1) = k
        /\ p + 1 - n - 1 = j + 1
    BY <1>1
  <2>3. S[p] = Say(Param(Recent(0)), 1, <<>>)
    BY <1>3, <2>1
  <2>4. W[p] = HasPassed(Gots(k + 1), j)
    BY <1>4, <2>1, <2>2
  <2>5. W[p + 1] = HasPassed(Gots(k), j + 1)
    <3>1. k + (j + 1) = n /\ p + 1 = n + 1 + (j + 1) /\ j + 1 \in Nat
      BY <1>1
    <3> HIDE DEF k, j
    <3> QED
      BY <1>15, <2>2, <3>1
  <2> HIDE DEF k, j
  <2> QED
    BY <2>2, <2>3, <2>4, <2>5, Params
<1>10. OrderOK(e, S[2 * n + 1], W[2 * n + 1], W[2 * n + 2])
  <2>1. /\ 2 * n + 1 \in 1 .. 2 * n + 1 /\ 2 * n + 1 \in 1 .. 2 * n + 2 /\ 2 * n + 2 \in 1 .. 2 * n + 2
        /\ ~(2 * n + 1 <= n) /\ ~(2 * n + 1 <= 2 * n) /\ ~(2 * n + 2 <= n)
        /\ ~(2 * n + 2 <= 2 * n + 1) /\ 2 * n + 1 - (2 * n + 1) = 0 /\ 2 * n + 1 - n - 1 = n
    BY <1>1
  <2>2. S[2 * n + 1] = Emit(CallTo(c.name, n, dst))
    BY <1>3, <2>1
  <2>3. W[2 * n + 1] = HasPassed(Gots(0), n)
    <3>1. 0 + n = n /\ 2 * n + 1 = n + 1 + n /\ 0 \in Nat
      BY <1>1
    <3> QED
      BY <1>1, <1>15, <3>1
  <2>4. W[2 * n + 2] = last
    BY <1>4, <2>1
  <2> QED
    BY <1>1, <1>7, <2>2, <2>3, <2>4, CallsIt
<1>11. \A p \in 1 .. 2 * n + 2 : StateOK(W[p])
  <2> TAKE p \in 1 .. 2 * n + 2
  <2>1. CASE p <= n
    <3>1. p - 1 \in Nat
      BY <1>1
    <3> QED
      BY <1>4, <1>5, <2>1, <3>1
  <2>2. CASE ~(p <= n) /\ p <= 2 * n + 1
    <3>1. 2 * n + 1 - p \in Nat /\ p - n - 1 \in Nat
      BY <1>1, <2>2
    <3>2. W[p] = HasPassed(Gots(2 * n + 1 - p), p - n - 1)
      BY <1>4, <2>2
    <3> QED
      BY <3>1, <3>2, PassedOK
  <2>3. CASE ~(p <= n) /\ ~(p <= 2 * n + 1)
    BY <1>4, <1>6, <2>3
  <2> QED
    BY <2>1, <2>2, <2>3
<1>12. W[1] = Has(<<>>) /\ W[2 * n + 2] = last
  <2>1. 1 \in 1 .. 2 * n + 2 /\ 2 * n + 2 \in 1 .. 2 * n + 2 /\ 1 <= 2 * n + 1
        /\ ~(2 * n + 2 <= n) /\ ~(2 * n + 2 <= 2 * n + 1) /\ 1 - 1 = 0
    BY <1>1
  <2>2. CASE 1 <= n
    BY <1>4, <1>7, <2>1, <2>2
  <2>3. CASE ~(1 <= n)
    <3>1. 2 * n + 1 - 1 = 0 /\ 1 - n - 1 = 0
      BY <1>1, <2>3
    <3>2. W[1] = HasPassed(<<>>, 0)
      BY <1>4, <1>7, <2>1, <2>3, <3>1
    <3> QED
      BY <1>4, <2>1, <3>2 DEF Has, HasPassed, Was
  <2> QED
    BY <2>2, <2>3
<1>13. \A p \in 1 .. 2 * n + 1 : OrderOK(e, S[p], W[p], W[p + 1])
  <2> TAKE p \in 1 .. 2 * n + 1
  <2>1. p \in 1 .. n \/ p \in n + 1 .. 2 * n \/ (p = 2 * n + 1 /\ p + 1 = 2 * n + 2)
    BY <1>1
  <2> QED
    BY <1>8, <1>9, <1>10, <2>1
<1>14. ScriptHas(e, S, W, 2 * n + 1, 2 * n + 2)
  <2>1. 2 * n + 1 \in Nat /\ 2 * n + 2 = 2 * n + 1 + 1
    BY <1>1
  <2>2. 4 .. 3 + last.labels \subseteq last.placed
    BY <1>6
  <2> QED
    BY <1>2, <1>6, <1>11, <1>12, <1>13, <2>1, <2>2 DEF ScriptHas
<1> QED
  BY <1>14, ScriptIs DEF S, W, n

LEMMA CallOK ==
    ASSUME NEW e \in Nodes, e.is \in {"call", "do"}
    PROVE  ScriptOK(e)
<1>1. CASE e.is = "call"
  <2>1. Script(e) = CallScript(e, {Dst}) /\ States(e) = CallWas(Len(e.args), Wrote)
    BY <1>1 DEF Script, States, Compare, Binary
  <2>2. IsExpr(e)
    BY <1>1 DEF IsExpr, Expressions
  <2> QED
    BY <1>1, <2>1, <2>2, CallScriptOK
<1>2. CASE e.is = "do"
  <2>1. Script(e) = CallScript(e.right, None) /\ States(e) = CallWas(Len(e.right.args), Has(<<>>))
    BY <1>2 DEF Script, States, Compare, Binary
  <2>2. ~IsExpr(e)
    BY <1>2 DEF IsExpr, Expressions, Logical, Compare, Binary
  <2>3. e.right \in Nodes /\ e.right.is = "call"
    <3>1. Operands(e) = {e.right}
      BY <1>2 DEF Operands, Unary, Compare, Binary
    <3> QED
      BY <1>2, <3>1, ChildOK, NodesAssumption
  <2> QED
    BY <2>1, <2>2, <2>3, CallScriptOK
<1> QED
  BY <1>1, <1>2

\* Every call of genCode obeys the table.
LEMMA ScriptsOK == \A e \in Called : ScriptOK(e)
<1> TAKE e \in Called
<1>1. CASE e \in Layered
  BY <1>1, InnerOneOK, InnerOK
<1>2. CASE e \in Function
  BY <1>2, FunctionOK
<1>3. CASE e \in Nodes /\ e.is \notin {"num", "id"}
  <2>1. e.is \in {"and", "or", "mod", "call", "elem", "not", "pos", "neg", "set", "do", "block", "if",
                  "ifelse", "while", "break", "continue", "return", "nop", "init"}
           \cup Compare \cup Binary
    BY <1>3, NodesAssumption DEF Expressions, Statements, Logical
  <2> QED
    BY <1>3, <2>1, AndOK, OrOK, CompareOK, NotOK, ModOK, ArithmeticOK, PosOK, NegOK, ElementOneOK,
       ElementOK, SetVarOK, SetOneOK, SetElementOK, IfOK, IfElseOK, WhileOK, ReturnOK,
       ReturnNothingOK, JumpOutOK, NopOK, BlockOK, InitOK, CallOK
<1> QED
  BY <1>1, <1>2, <1>3 DEF Called

-----------------------------------------------------------------------------
(* The calls of genCode that have not returned.                             *)

Val      == [kind : {"const", "var", "temp"}, n : Int]
Temps(t) == {v \in Val : v.kind = "temp" /\ v.n \in 1 .. t}
Frames   == [node : Called, pos : Nat, dst : Val \cup {NoVar}, held : Seq(Val),
             labels : Seq(Nat), temps : Seq(Val)]

\* What the table says of a call.
Point(f) == States(f.node)[f.pos]
Next1(f) == States(f.node)[f.pos + 1]

HeldTemps(f) == {v \in Val : v.kind = "temp" /\ \E i \in DOMAIN f.held : f.held[i] = v}
Private(f)   == {f.dst} \cup {f.temps[i] : i \in DOMAIN f.temps}
Owns(f)      == {f.labels[i] : i \in 4 .. Len(f.labels)}

\* An operand that is held is either one that was got, or the call's own.
HeldOK(f, h, v, t) ==
    /\ v.kind = "temp" => v \in Temps(t)
    /\ \/ h = Got /\ v \notin Private(f)
       \/ IsOwn(f.node, Point(f), h) /\ v = Operand(f, h)

\* With the counters at t and l.
FrameOK(f, t, l) ==
    /\ f \in Frames /\ f.pos \in DOMAIN States(f.node)
    /\ Len(f.held) = Len(Point(f).held) /\ Len(f.temps) = Point(f).temps
    /\ Len(f.labels) = 3 + Point(f).labels
    /\ IF IsExpr(f.node) THEN f.dst \in Temps(t) ELSE f.dst = NoVar
    /\ \A i \in 1 .. Len(f.temps) : f.temps[i] \in Temps(t) /\ f.temps[i] # f.dst
    /\ \A i \in 1 .. Len(f.held) : HeldOK(f, Point(f).held[i], f.held[i], t)
    /\ \A i, j \in 1 .. Len(f.held) : f.held[i].kind = "temp" /\ f.held[i] = f.held[j] => i = j
    /\ \A i \in 1 .. Len(f.labels) : f.labels[i] \in 0 .. l /\ (i > 3 => f.labels[i] # 0)
    /\ \A i, j \in 4 .. Len(f.labels) : f.labels[i] = f.labels[j] => i = j

\* f after its order, which left the fields that are not listed as they were.
Follows(f, g) == g \in Frames /\ g.node = f.node /\ g.dst = f.dst /\ g.pos = f.pos + 1

\* g holds what f holds, and v.
HoldsToo(f, g, v) == HeldTemps(g) = HeldTemps(f) \cup TempsOf({v})

LEMMA OrderHolds ==
    ASSUME NEW f \in Frames, f.pos \in DOMAIN Script(f.node)
    PROVE  /\ f.pos \in DOMAIN States(f.node) /\ f.pos + 1 \in DOMAIN States(f.node)
           /\ StateOK(Point(f)) /\ StateOK(Next1(f))
           /\ OrderOK(f.node, Script(f.node)[f.pos], Point(f), Next1(f))
<1>1. f.node \in Called /\ f.pos \in Nat
  BY DEF Frames
<1>2. PICK n \in Nat : ScriptHas(f.node, Script(f.node), States(f.node), n, n + 1)
  BY <1>1, ScriptsOK DEF ScriptOK
<1>3. /\ f.pos \in 1 .. n /\ f.pos \in 1 .. n + 1 /\ f.pos + 1 \in 1 .. n + 1
      /\ DOMAIN States(f.node) = 1 .. n + 1
  BY <1>1, <1>2 DEF ScriptHas
<1> QED
  BY <1>2, <1>3 DEF ScriptHas, Point, Next1

LEMMA EndHolds ==
    ASSUME NEW f \in Frames, f.pos \in DOMAIN States(f.node), f.pos \notin DOMAIN Script(f.node)
    PROVE  /\ StateOK(Point(f)) /\ Point(f).held = <<>> /\ Point(f).passed = 0
           /\ Point(f).writ = (IF IsExpr(f.node) THEN "yes" ELSE "no")
           /\ 4 .. 3 + Point(f).labels \subseteq Point(f).placed
<1>1. f.node \in Called /\ f.pos \in Nat
  BY DEF Frames
<1>2. PICK n \in Nat : ScriptHas(f.node, Script(f.node), States(f.node), n, n + 1)
  BY <1>1, ScriptsOK DEF ScriptOK
<1>3. f.pos = n + 1 /\ f.pos \in 1 .. n + 1
  BY <1>1, <1>2 DEF ScriptHas
<1> QED
  BY <1>2, <1>3 DEF ScriptHas, Point

LEMMA StartHolds ==
    ASSUME NEW e \in Called
    PROVE  1 \in DOMAIN States(e) /\ States(e)[1] = Has(<<>>)
<1>1. PICK n \in Nat : ScriptHas(e, Script(e), States(e), n, n + 1)
  BY ScriptsOK DEF ScriptOK
<1>2. 1 \in 1 .. n + 1
  OBVIOUS
<1> QED
  BY <1>1, <1>2 DEF ScriptHas

LEMMA PointHolds ==
    ASSUME NEW f \in Frames, f.pos \in DOMAIN States(f.node)
    PROVE  StateOK(Point(f))
BY OrderHolds, EndHolds

\* The fields of a frame.
LEMMA FrameIs ==
    ASSUME NEW f \in Frames
    PROVE  /\ f.node \in Called /\ f.pos \in Nat /\ f.dst \in Val \cup {NoVar}
           /\ f.held \in Seq(Val) /\ Len(f.held) \in Nat /\ DOMAIN f.held = 1 .. Len(f.held)
           /\ f.labels \in Seq(Nat) /\ Len(f.labels) \in Nat /\ DOMAIN f.labels = 1 .. Len(f.labels)
           /\ f.temps \in Seq(Val) /\ Len(f.temps) \in Nat /\ DOMAIN f.temps = 1 .. Len(f.temps)
           /\ \A i \in 1 .. Len(f.held) : f.held[i] \in Val
           /\ \A i \in 1 .. Len(f.temps) : f.temps[i] \in Val
           /\ \A i \in 1 .. Len(f.labels) : f.labels[i] \in Nat
<1>1. /\ f.node \in Called /\ f.pos \in Nat /\ f.dst \in Val \cup {NoVar}
      /\ f.held \in Seq(Val) /\ f.labels \in Seq(Nat) /\ f.temps \in Seq(Val)
  BY DEF Frames
<1> QED
  BY <1>1

LEMMA OperandsAre ==
    ASSUME NEW f
    PROVE  /\ Operand(f, Dst) = f.dst /\ Operand(f, Own(1)) = f.temps[1]
           /\ \A k : Operand(f, Recent(k)) = f.held[Len(f.held) - k]
           /\ \A v : v.kind \in {"const", "var"} => Operand(f, v) = v
           /\ Dst # Got /\ Own(1) # Got /\ Dst # Own(1)
BY DEF Operand, Dst, Own, Recent, Got

\* What belongs to the call itself is a temporary.
LEMMA OwnIs ==
    ASSUME NEW f, NEW t, NEW l, FrameOK(f, t, l), NEW h, IsOwn(f.node, Point(f), h)
    PROVE  /\ Operand(f, h) \in Temps(t) /\ Operand(f, h) \in Private(f) /\ h # Got
           /\ \A k : IsOwn(f.node, Point(f), k) /\ Operand(f, k) = Operand(f, h) => k = h
<1>1. f \in Frames
  BY DEF FrameOK
<1>2. /\ DOMAIN f.temps = 1 .. Len(f.temps) /\ Len(f.temps) = Point(f).temps
      /\ \A i \in 1 .. Len(f.temps) : f.temps[i] \in Temps(t) /\ f.temps[i] # f.dst
      /\ IsExpr(f.node) => f.dst \in Temps(t)
  BY <1>1, FrameIs DEF FrameOK
<1>3. 1 \in 1 .. 1
  OBVIOUS
<1> QED
  BY <1>2, <1>3, OperandsAre DEF IsOwn, Private

LEMMA FrameGrows ==
    ASSUME NEW f, NEW t \in Nat, NEW l \in Nat, FrameOK(f, t, l),
           NEW u \in Nat, u >= t, NEW m \in Nat, m >= l
    PROVE  FrameOK(f, u, m)
<1>1. Temps(t) \subseteq Temps(u)
  BY DEF Temps
<1>2. \A i \in 1 .. Len(f.labels) : f.labels[i] \in 0 .. m
  BY DEF FrameOK
<1> QED
  BY <1>1, <1>2 DEF FrameOK, HeldOK

LEMMA PointFollows ==
    ASSUME NEW f \in Frames, NEW g, Follows(f, g)
    PROVE  Point(g) = Next1(f)
BY DEF Follows, Point, Next1

\* The operand v was got, or is the call's own.
LEMMA HoldsOne ==
    ASSUME NEW f, NEW t \in Nat, NEW l \in Nat, FrameOK(f, t, l), NEW g, Follows(f, g),
           f.pos \in DOMAIN Script(f.node), NEW h, NEW v \in Val,
           Next1(f).held = Append(Point(f).held, h), Alike(Point(f), Next1(f)),
           g.held = Append(f.held, v), g.temps = f.temps, g.labels = f.labels,
           HeldOK(f, h, v, t), v \notin HeldTemps(f)
    PROVE  FrameOK(g, t, l) /\ HoldsToo(f, g, v)
<1>1. f \in Frames /\ g \in Frames
  BY DEF FrameOK, Follows
<1> DEFINE a == Point(f)
           b == Point(g)
<1>2. /\ b = Next1(f) /\ f.pos + 1 \in DOMAIN States(f.node) /\ StateOK(a) /\ StateOK(b)
  BY <1>1, PointFollows, OrderHolds
<1>3. g.node = f.node /\ g.dst = f.dst /\ g.pos \in DOMAIN States(g.node)
  BY <1>2 DEF Follows
<1>4. /\ Len(g.held) = Len(f.held) + 1 /\ Len(f.held) \in Nat
      /\ \A i \in 1 .. Len(f.held) : g.held[i] = f.held[i] /\ f.held[i] \in Val
      /\ g.held[Len(f.held) + 1] = v /\ DOMAIN g.held = 1 .. Len(f.held) + 1
      /\ DOMAIN f.held = 1 .. Len(f.held)
  BY <1>1, FrameIs, AppendProperties
<1>5. /\ a.held \in Seq(Held) /\ b.held = Append(a.held, h) /\ Len(a.held) = Len(f.held)
      /\ b.temps = a.temps /\ b.labels = a.labels
  BY <1>2 DEF StateOK, FrameOK, Alike
<1>6. /\ Len(b.held) = Len(a.held) + 1 /\ b.held[Len(a.held) + 1] = h
      /\ \A i \in 1 .. Len(a.held) : b.held[i] = a.held[i]
  <2>1. \A q \in Seq(Held) : /\ Len(Append(q, h)) = Len(q) + 1 /\ Append(q, h)[Len(q) + 1] = h
                             /\ \A i \in 1 .. Len(q) : Append(q, h)[i] = q[i]
    OBVIOUS
  <2> QED
    BY <1>5, <2>1
<1>7. Private(g) = Private(f) /\ \A k : Operand(f, Dst) = Operand(g, Dst)
      /\ Operand(f, Own(1)) = Operand(g, Own(1))
  BY <1>3, OperandsAre DEF Private
<1>8. \A k, w : HeldOK(f, k, w, t) => HeldOK(g, k, w, t)
  <2> TAKE k, w
  <2>1. HeldOK(f, k, w, t) => HeldOK(g, k, w, t)
    <3>1. IsOwn(f.node, a, k) => IsOwn(g.node, b, k) /\ Operand(f, k) = Operand(g, k)
      BY <1>3, <1>5, <1>7 DEF IsOwn
    <3> QED
      BY <1>7, <3>1 DEF HeldOK
  <2> QED
    BY <2>1
<1>9. \A i \in 1 .. Len(g.held) : i \in 1 .. Len(f.held) \/ i = Len(f.held) + 1
  BY <1>4
<1>10. \A i \in 1 .. Len(g.held) : HeldOK(g, b.held[i], g.held[i], t)
  <2> TAKE i \in 1 .. Len(g.held)
  <2>1. CASE i \in 1 .. Len(f.held)
    <3>1. HeldOK(f, a.held[i], f.held[i], t)
      BY <2>1 DEF FrameOK
    <3> QED
      BY <1>4, <1>5, <1>6, <1>8, <2>1, <3>1
  <2>2. CASE i = Len(f.held) + 1
    BY <1>4, <1>5, <1>6, <1>8, <2>2
  <2> QED
    BY <1>9, <2>1, <2>2
<1>11. \A i, j \in 1 .. Len(g.held) : g.held[i].kind = "temp" /\ g.held[i] = g.held[j] => i = j
  <2>1. \A i \in 1 .. Len(f.held) : g.held[i].kind = "temp" => g.held[i] # v
    BY <1>4 DEF HeldTemps
  <2>2. \A i, j \in 1 .. Len(f.held) : g.held[i].kind = "temp" /\ g.held[i] = g.held[j] => i = j
    BY <1>4 DEF FrameOK
  <2> QED
    BY <1>4, <1>9, <2>1, <2>2
<1>12. FrameOK(g, t, l)
  <2>1. /\ Len(g.held) = Len(b.held) /\ Len(g.temps) = b.temps /\ Len(g.labels) = 3 + b.labels
    BY <1>4, <1>5, <1>6 DEF FrameOK
  <2> QED
    BY <1>1, <1>3, <1>10, <1>11, <2>1 DEF FrameOK
<1>13. HeldTemps(g) = HeldTemps(f) \cup TempsOf({v})
  BY <1>4, <1>9 DEF HeldTemps, TempsOf
<1> QED
  BY <1>12, <1>13 DEF HoldsToo

\* What is held stays; the new temporary or label, if any, is a fresh one.
LEMMA HoldsSame ==
    ASSUME NEW f, NEW t \in Nat, NEW l \in Nat, FrameOK(f, t, l), NEW g, Follows(f, g),
           f.pos \in DOMAIN Script(f.node), Next1(f).held = Point(f).held, g.held = f.held,
           NEW u \in Nat, u >= t, NEW m \in Nat, m >= l,
           \/ g.temps = f.temps /\ Next1(f).temps = Point(f).temps
           \/ /\ g.temps = Append(f.temps, Temp(u)) /\ u = t + 1
              /\ Point(f).temps = 0 /\ Next1(f).temps = 1,
           \/ g.labels = f.labels /\ Next1(f).labels = Point(f).labels
           \/ /\ g.labels = Append(f.labels, m) /\ m = l + 1
              /\ Next1(f).labels = Point(f).labels + 1
    PROVE  FrameOK(g, u, m) /\ HeldTemps(g) = HeldTemps(f)
<1>1. f \in Frames /\ g \in Frames /\ FrameOK(f, u, m)
  BY FrameGrows DEF FrameOK, Follows
<1> DEFINE a == Point(f)
           b == Point(g)
<1>2. /\ b = Next1(f) /\ f.pos + 1 \in DOMAIN States(f.node) /\ StateOK(a) /\ StateOK(b)
  BY <1>1, PointFollows, OrderHolds
<1>3. g.node = f.node /\ g.dst = f.dst /\ g.pos \in DOMAIN States(g.node)
  BY <1>2 DEF Follows
<1>4. Temp(u) \in Val /\ Temp(u).n = u /\ Temp(u).kind = "temp"
      /\ (u = t + 1 => Temp(u) \in Temps(u) /\ Temp(u) \notin Temps(t))
  <2>1. Temp(u) \in Val /\ Temp(u).n = u /\ Temp(u).kind = "temp"
    BY DEF Temp, Val
  <2>2. u = t + 1 => u \in 1 .. u /\ u \notin 1 .. t
    OBVIOUS
  <2> QED
    BY <2>1, <2>2 DEF Temps
<1>5. /\ \A i \in 1 .. Len(g.temps) : g.temps[i] \in Temps(u) /\ g.temps[i] # g.dst
      /\ Len(g.temps) = b.temps
      /\ IsOwn(f.node, a, Own(1)) => Operand(f, Own(1)) = Operand(g, Own(1))
      /\ \A w \in Private(g) : w \in Private(f) \/ (w = Temp(u) /\ w \notin Temps(t))
  <2>1. CASE g.temps = f.temps /\ b.temps = a.temps
    BY <1>1, <1>2, <1>3, <2>1, OperandsAre DEF FrameOK, Private
  <2>2. CASE g.temps = Append(f.temps, Temp(u)) /\ u = t + 1 /\ a.temps = 0 /\ b.temps = 1
    <3>1. Len(f.temps) = 0
      BY <1>1, <2>2 DEF FrameOK
    <3>2. Len(g.temps) = 1 /\ g.temps[1] = Temp(u) /\ DOMAIN g.temps = 1 .. 1
      BY <1>1, <1>4, <2>2, <3>1, FrameIs, AppendProperties
    <3>3. f.dst # Temp(u)
      BY <1>1, <1>4, <2>2 DEF FrameOK, NoVar
    <3>4. ~IsOwn(f.node, a, Own(1))
      BY <2>2, OperandsAre DEF IsOwn
    <3> QED
      BY <1>2, <1>3, <1>4, <2>2, <3>1, <3>2, <3>3, <3>4 DEF Private
  <2> QED
    BY <1>2, <2>1, <2>2
<1>6. \A k, w : HeldOK(f, k, w, t) => HeldOK(g, k, w, u)
  <2> SUFFICES ASSUME NEW k, NEW w, HeldOK(f, k, w, t)
               PROVE  HeldOK(g, k, w, u)
    OBVIOUS
  <2>1. w.kind = "temp" => w \in Temps(t) /\ w \in Temps(u)
    BY DEF HeldOK, Temps
  <2>2. CASE k = Got /\ w \notin Private(f)
    BY <1>4, <1>5, <2>1, <2>2 DEF HeldOK
  <2>3. CASE IsOwn(f.node, a, k) /\ w = Operand(f, k)
    <3>1. IsOwn(g.node, b, k)
      BY <1>2, <1>3, <2>3 DEF IsOwn
    <3>2. Operand(f, k) = Operand(g, k)
      BY <1>3, <1>5, <2>3, OperandsAre DEF IsOwn
    <3> QED
      BY <2>1, <2>3, <3>1, <3>2 DEF HeldOK
  <2> QED
    BY <2>2, <2>3 DEF HeldOK
<1>7. /\ Len(g.labels) = 3 + b.labels
      /\ \A i \in 1 .. Len(g.labels) : g.labels[i] \in 0 .. m /\ (i > 3 => g.labels[i] # 0)
      /\ \A i, j \in 4 .. Len(g.labels) : g.labels[i] = g.labels[j] => i = j
  <2>1. CASE g.labels = f.labels /\ b.labels = a.labels
    BY <1>1, <2>1 DEF FrameOK
  <2>2. CASE g.labels = Append(f.labels, m) /\ m = l + 1 /\ b.labels = a.labels + 1
    <3> DEFINE n == Len(f.labels)
    <3>1. /\ n \in Nat /\ Len(g.labels) = n + 1 /\ g.labels[n + 1] = m
          /\ \A i \in 1 .. n : g.labels[i] = f.labels[i]
      BY <1>1, <2>2, FrameIs, AppendProperties
    <3>2. /\ \A i \in 1 .. n : g.labels[i] \in 0 .. l /\ (i > 3 => g.labels[i] # 0)
          /\ \A i, j \in 4 .. n : g.labels[i] = g.labels[j] => i = j
      <4>1. /\ \A i \in 1 .. n : f.labels[i] \in 0 .. l /\ (i > 3 => f.labels[i] # 0)
            /\ \A i, j \in 4 .. n : f.labels[i] = f.labels[j] => i = j
        BY DEF FrameOK
      <4>2. \A i \in 4 .. n : i \in 1 .. n
        BY <3>1
      <4> HIDE DEF n
      <4> QED
        BY <3>1, <4>1, <4>2
    <3>3. n = 3 + a.labels /\ a.labels \in Nat
      BY <1>2 DEF FrameOK, StateOK
    <3> HIDE DEF n
    <3>4. \A i \in 1 .. n + 1 : i \in 1 .. n \/ i = n + 1
      BY <3>1
    <3>5. \A i \in 4 .. n + 1 : i \in 4 .. n \/ i = n + 1
      BY <3>1
    <3>6. \A i \in 4 .. n : g.labels[i] # m
      BY <3>1, <3>2, <2>2
    <3>7. \A i \in 1 .. n : g.labels[i] \in 0 .. m
      <4>1. \A x \in 0 .. l : x \in 0 .. m
        BY <2>2
      <4> QED
        BY <3>2, <4>1
    <3>8. m \in 0 .. m /\ m # 0
      BY <2>2
    <3>9. \A i \in 1 .. n + 1 : g.labels[i] \in 0 .. m /\ (i > 3 => g.labels[i] # 0)
      BY <3>1, <3>2, <3>4, <3>7, <3>8
    <3>10. \A i, j \in 4 .. n + 1 : g.labels[i] = g.labels[j] => i = j
      BY <3>1, <3>2, <3>5, <3>6
    <3> QED
      BY <2>2, <3>1, <3>3, <3>9, <3>10
  <2> QED
    BY <1>2, <2>1, <2>2
<1>8. IF IsExpr(g.node) THEN g.dst \in Temps(u) ELSE g.dst = NoVar
  BY <1>1, <1>3 DEF FrameOK
<1>9. /\ Len(g.held) = Len(b.held)
      /\ \A i \in 1 .. Len(g.held) : HeldOK(g, b.held[i], g.held[i], u)
      /\ \A i, j \in 1 .. Len(g.held) : g.held[i].kind = "temp" /\ g.held[i] = g.held[j] => i = j
  BY <1>2, <1>6 DEF FrameOK
<1>10. FrameOK(g, u, m)
  BY <1>1, <1>3, <1>5, <1>7, <1>8, <1>9 DEF FrameOK
<1>11. HeldTemps(g) = HeldTemps(f)
  BY DEF HeldTemps
<1> QED
  BY <1>10, <1>11

\* The operands held behind an instruction.
LEMMA HeldAfter ==
    ASSUME NEW f, NEW m \in Nat, NEW q \in Seq(Held), f.held \in Seq(Val), m <= Len(f.held),
           \A j \in 1 .. Len(q) : Operand(f, q[j]) \in Val,
           NEW h, h = SubSeq(f.held, 1, m) \o Resolved(f, q)
    PROVE  /\ Len(h) = m + Len(q)
           /\ \A i \in 1 .. m : h[i] = f.held[i]
           /\ \A j \in 1 .. Len(q) : h[m + j] = Operand(f, q[j])
           /\ \A i \in 1 .. m + Len(q) : i \in 1 .. m \/ \E j \in 1 .. Len(q) : i = m + j
<1> DEFINE s == SubSeq(f.held, 1, m)
           r == Resolved(f, q)
<1>1. Len(q) \in Nat /\ DOMAIN q = 1 .. Len(q)
  OBVIOUS
<1>2. r \in Seq(Val) /\ Len(r) = Len(q) /\ \A j \in 1 .. Len(q) : r[j] = Operand(f, q[j])
  <2>1. r = [j \in 1 .. Len(q) |-> Operand(f, q[j])]
    BY <1>1 DEF Resolved
  <2>2. \A j \in 1 .. Len(q) : Operand(f, q[j]) \in Val
    OBVIOUS
  <2>3. r \in Seq(Val)
    BY <1>1, <2>1, <2>2, IsASeq
  <2> HIDE DEF r
  <2> QED
    BY <1>1, <2>1, <2>3
<1>3. s \in Seq(Val) /\ Len(s) = m /\ \A i \in 1 .. m : s[i] = f.held[i]
  <2>1. \A i \in 1 .. m : f.held[i] \in Val
    OBVIOUS
  <2>2. /\ s \in Seq(Val) /\ Len(s) = (IF 1 <= m THEN m - 1 + 1 ELSE 0)
        /\ \A i \in 1 .. m - 1 + 1 : s[i] = f.held[1 + i - 1]
    BY <2>1, SubSeqProperties
  <2> HIDE DEF s
  <2> QED
    BY <2>2
<1> HIDE DEF r, s
<1>4. /\ Len(s \o r) = m + Len(q)
      /\ \A i \in 1 .. m + Len(q) : (s \o r)[i] = IF i <= m THEN s[i] ELSE r[i - m]
  <2> DEFINE c == s \o r
  <2>1. /\ Len(c) = Len(s) + Len(r)
        /\ \A i \in 1 .. Len(s) + Len(r) : c[i] = IF i <= Len(s) THEN s[i] ELSE r[i - Len(s)]
    <3>1. s \in Seq(Val) /\ r \in Seq(Val)
      BY <1>2, <1>3
    <3> QED
      BY <3>1, ConcatProperties, Zenon
  <2> HIDE DEF c
  <2>2. Len(c) = m + Len(q) /\ \A i \in 1 .. m + Len(q) : c[i] = IF i <= m THEN s[i] ELSE r[i - m]
    BY <1>2, <1>3, <2>1
  <2> QED
    BY <2>2 DEF c
<1>5. h = s \o r
  BY DEF s, r
<1>6. \A i \in 1 .. m : i \in 1 .. m + Len(q) /\ i <= m
  BY <1>1
<1>9. \A i \in 1 .. m : h[i] = f.held[i]
  BY <1>3, <1>4, <1>5, <1>6
<1>7. \A j \in 1 .. Len(q) : m + j \in 1 .. m + Len(q) /\ ~(m + j <= m) /\ m + j - m = j
  BY <1>1
<1>8. \A i \in 1 .. m + Len(q) : i \in 1 .. m \/ (i - m \in 1 .. Len(q) /\ i = m + (i - m))
  BY <1>1
<1>10. \A j \in 1 .. Len(q) : h[m + j] = Operand(f, q[j])
  <2> TAKE j \in 1 .. Len(q)
  <2>1. m + j \in 1 .. m + Len(q) /\ ~(m + j <= m) /\ m + j - m = j /\ r[j] = Operand(f, q[j])
    BY <1>2, <1>7
  <2>2. (s \o r)[m + j] = r[m + j - m]
    BY <1>4, <2>1
  <2> QED
    BY <1>5, <2>1, <2>2
<1>11. \A i \in 1 .. m + Len(q) : i \in 1 .. m \/ \E j \in 1 .. Len(q) : i = m + j
  BY <1>8
<1> QED
  BY <1>4, <1>5, <1>9, <1>10, <1>11

\* The variables that an instruction reads and writes.
ReadBy(f, in)  == {v \in Val : v.kind = "temp" /\ \E r \in DOMAIN in.reads : Operand(f, in.reads[r]) = v}
WriteBy(f, in) == {v \in Val : v.kind = "temp" /\ \E w \in in.write : Operand(f, w) = v}
Result(f, in)  == IF in.write = {Dst} THEN {f.dst} ELSE {}
\* What x, the instruction `in' that f appends, reads and writes.
Uses(f, g, in, x) ==
    /\ TempsOf(Range(x.reads)) = ReadBy(f, in) /\ TempsOf(x.write) = WriteBy(f, in)
    /\ ReadBy(f, in) \subseteq HeldTemps(f)
    /\ WriteBy(f, in) \cap (HeldTemps(f) \ ReadBy(f, in)) = {}
    /\ (HeldTemps(f) \ ReadBy(f, in)) \cup WriteBy(f, in) = HeldTemps(g) \cup Result(f, in)
    /\ HeldTemps(g) \subseteq HeldTemps(f) \cup Private(f)
    /\ in.write = {Dst} => WriteBy(f, in) = {f.dst}
    /\ in.write = {} => WriteBy(f, in) = {}
    /\ Point(f).writ = "yes" => f.dst \notin WriteBy(f, in)

\* An instruction takes the operands that the table says, and no others.
LEMMA OperandsStep ==
    ASSUME NEW f, NEW t \in Nat, NEW l \in Nat, FrameOK(f, t, l), NEW g, Follows(f, g),
           f.pos \in DOMAIN Script(f.node), NEW o,
           OperandsOK(f.node, o, Point(f), Next1(f)),
           g.held = SubSeq(f.held, 1, Len(f.held) - o.takes) \o Resolved(f, o.keeps),
           g.temps = f.temps, g.labels = f.labels
    PROVE  FrameOK(g, t, l) /\ Uses(f, g, o.in, Said(f, o.in))
<1> DEFINE a == Point(f)
           b == Point(g)
           in == o.in
           q == o.keeps
           n == Len(f.held)
           m == n - o.takes
           R == ReadBy(f, in)
           W == WriteBy(f, in)
<1>1. f \in Frames /\ g \in Frames
  BY DEF FrameOK, Follows
<1>2. /\ b = Next1(f) /\ f.pos + 1 \in DOMAIN States(f.node) /\ StateOK(a) /\ StateOK(b)
  BY <1>1, PointFollows, OrderHolds
<1>3. g.node = f.node /\ g.dst = f.dst /\ g.pos \in DOMAIN States(g.node)
  BY <1>2 DEF Follows
<1>4. n \in Nat /\ n = Len(a.held) /\ f.held \in Seq(Val) /\ DOMAIN f.held = 1 .. n
      /\ DOMAIN a.held = 1 .. n
  BY <1>1, <1>2, FrameIs DEF FrameOK, StateOK
<1>27. o.takes \in 0 .. n /\ m \in Nat /\ m <= n /\ m = n - o.takes
  <2>1. o.takes \in 0 .. n
    <3>1. o.takes \in 0 .. Len(a.held)
      BY DEF OperandsOK
    <3> QED
      BY <1>4, <3>1
  <2>3. m \in 0 .. n /\ m = n - o.takes
    BY <1>4, <2>1
  <2>4. m \in Nat /\ m <= n
    <3> HIDE DEF m, n
    <3> QED
      BY <1>4, <2>3
  <2> QED
    BY <2>1, <2>3, <2>4
<1>5. q \in Seq(Held) /\ Len(q) \in Nat /\ DOMAIN q = 1 .. Len(q)
  BY DEF OperandsOK
<1>28. n \in Nat /\ m \in Nat /\ m <= n
  BY <1>4, <1>27
<1>6. /\ \A r \in DOMAIN in.reads :
            \/ in.reads[r].kind \in {"const", "var"}
            \/ \E k \in 0 .. o.takes - 1 : in.reads[r] = Recent(k)
      /\ \A i \in m + 1 .. n :
            Reads(in, n - i) \/ (a.held[i] # Got /\ \E j \in DOMAIN q : q[j] = a.held[i])
      /\ \A j \in DOMAIN q :
            /\ IsOwn(f.node, a, q[j])
            /\ q[j] \in in.write \/ \E i \in m + 1 .. n : a.held[i] = q[j] /\ ~Reads(in, n - i)
            /\ \A i \in 1 .. m : a.held[i] # q[j]
            /\ \A k \in DOMAIN q : q[k] = q[j] => j = k
      /\ \A w \in in.write :
            /\ in.write = {w}
            /\ \/ w.kind = "var"
               \/ /\ IsOwn(f.node, a, w)
                  /\ \A i \in 1 .. n : a.held[i] = w => Reads(in, n - i)
                  /\ w = Own(1) => \E j \in DOMAIN q : q[j] = w
      /\ Len(b.held) = m + Len(q)
      /\ \A i \in 1 .. m : b.held[i] = a.held[i]
      /\ \A j \in 1 .. Len(q) : b.held[m + j] = q[j]
      /\ b.temps = a.temps /\ b.labels = a.labels
  BY <1>2, <1>4 DEF OperandsOK
<1>33. Dst \in in.write => a.writ # "yes"
  BY OperandsAre DEF OperandsOK, Dst
<1>34. b.temps = a.temps /\ b.labels = a.labels
  BY <1>6
<1>35. \A j \in 1 .. Len(q) : IsOwn(f.node, a, q[j])
  BY <1>5, <1>6
<1> HIDE DEF a, b, in, q, n, m, R, W
<1>7. \A i \in 1 .. n : f.held[i] \in Val /\ HeldOK(f, a.held[i], f.held[i], t)
  BY <1>4, <1>1, FrameIs DEF FrameOK, a, n
<1>8. \A h : IsOwn(f.node, a, h) =>
          /\ Operand(f, h) \in Temps(t) /\ Operand(f, h) \in Private(f) /\ h # Got
          /\ \A k : IsOwn(f.node, a, k) /\ Operand(f, k) = Operand(f, h) => k = h
  BY OwnIs DEF a
<1>9. \A v \in Temps(t) : v \in Val /\ v.kind = "temp"
  BY DEF Temps
<1>10. /\ Len(g.held) = m + Len(q)
       /\ \A i \in 1 .. m : g.held[i] = f.held[i]
       /\ \A j \in 1 .. Len(q) : g.held[m + j] = Operand(f, q[j])
       /\ \A i \in 1 .. m + Len(q) : i \in 1 .. m \/ \E j \in 1 .. Len(q) : i = m + j
  <2>1. m <= Len(f.held) /\ g.held = SubSeq(f.held, 1, m) \o Resolved(f, q) /\ f.held \in Seq(Val)
    BY <1>4, <1>27 DEF m, n, q
  <2>2. \A j \in 1 .. Len(q) : Operand(f, q[j]) \in Val
    BY <1>5, <1>6, <1>8, <1>9
  <2> QED
    <3>1. m \in Nat /\ q \in Seq(Held)
      BY <1>5, <1>27
    <3> QED
      BY <2>1, <2>2, <3>1, HeldAfter
\* What is read is what stands where the instruction takes it from.
<1>11. \A i, j \in 1 .. n : f.held[i].kind = "temp" /\ f.held[i] = f.held[j] => i = j
  BY DEF FrameOK, n
<1>12. \A i \in 1 .. n : f.held[i].kind = "temp" =>
           (f.held[i] \in R <=> i \in m + 1 .. n /\ Reads(in, n - i))
  <2> SUFFICES ASSUME NEW i \in 1 .. n, f.held[i].kind = "temp"
               PROVE  f.held[i] \in R <=> i \in m + 1 .. n /\ Reads(in, n - i)
    OBVIOUS
  <2>1. ASSUME f.held[i] \in R
        PROVE  i \in m + 1 .. n /\ Reads(in, n - i)
    <3>1. PICK r \in DOMAIN in.reads : Operand(f, in.reads[r]) = f.held[i]
      BY <2>1 DEF R, ReadBy
    <3>2. ~(in.reads[r].kind \in {"const", "var"})
      BY <3>1, OperandsAre
    <3>3. PICK k \in 0 .. o.takes - 1 : in.reads[r] = Recent(k)
      BY <1>6, <3>2
    <3>4. n - k \in m + 1 .. n /\ n - k \in 1 .. n /\ n - (n - k) = k
      <4>1. \A x \in Nat, y, z, w \in Int : y \in 0 .. x /\ w \in 0 .. y - 1
                /\ z = x - y => x - w \in z + 1 .. x /\ x - w \in 1 .. x /\ x - (x - w) = w
        OBVIOUS
      <4>2. m \in Int /\ k \in Int /\ o.takes \in Int
        BY <1>27
      <4> QED
        BY <1>27, <1>28, <4>1, <4>2
    <3>5. f.held[n - k] = f.held[i]
      BY <3>1, <3>3, OperandsAre DEF n
    <3>6. i = n - k
      BY <1>11, <3>4, <3>5
    <3> QED
      BY <3>3, <3>4, <3>6 DEF Reads
  <2>2. ASSUME i \in m + 1 .. n, Reads(in, n - i)
        PROVE  f.held[i] \in R
    <3>1. PICK r \in DOMAIN in.reads : in.reads[r] = Recent(n - i)
      BY <2>2 DEF Reads
    <3>2. n - (n - i) = i
      BY <1>4
    <3>3. Operand(f, in.reads[r]) = f.held[i]
      BY <3>1, <3>2, OperandsAre DEF n
    <3> QED
      BY <1>7, <3>3 DEF R, ReadBy
  <2> QED
    BY <2>1, <2>2
<1>13. R \subseteq HeldTemps(f)
  <2> SUFFICES ASSUME NEW v \in R
               PROVE  v \in HeldTemps(f)
    OBVIOUS
  <2>1. PICK r \in DOMAIN in.reads : Operand(f, in.reads[r]) = v /\ v \in Val /\ v.kind = "temp"
    BY DEF R, ReadBy
  <2>2. ~(in.reads[r].kind \in {"const", "var"})
    BY <2>1, OperandsAre
  <2>3. PICK k \in 0 .. o.takes - 1 : in.reads[r] = Recent(k)
    BY <1>6, <2>2
  <2>4. n - k \in 1 .. n
    <3>1. \A x \in Nat, y, w \in Int : y \in 0 .. x /\ w \in 0 .. y - 1 => x - w \in 1 .. x
      OBVIOUS
    <3> QED
      BY <1>27, <1>28, <2>3, <3>1
  <2>5. f.held[n - k] = v
    BY <2>1, <2>3, OperandsAre DEF n
  <2> QED
    BY <1>4, <2>1, <2>4, <2>5 DEF HeldTemps
\* An own operand that is held is listed as such.
<1>14. \A i \in 1 .. n : \A h : IsOwn(f.node, a, h) /\ f.held[i] = Operand(f, h) => a.held[i] = h
  <2> SUFFICES ASSUME NEW i \in 1 .. n, NEW h, IsOwn(f.node, a, h), f.held[i] = Operand(f, h)
               PROVE  a.held[i] = h
    OBVIOUS
  <2>1. Operand(f, h) \in Private(f)
    BY <1>8
  <2>2. IsOwn(f.node, a, a.held[i]) /\ f.held[i] = Operand(f, a.held[i])
    BY <1>7, <2>1 DEF HeldOK, a
  <2> QED
    BY <1>8, <2>2
<1>15. ASSUME NEW w \in in.write
       PROVE  /\ in.write = {w}
              /\ \/ w.kind = "var" /\ W = {} /\ w # Dst
                 \/ w = Dst /\ W = {f.dst} /\ IsOwn(f.node, a, w) /\ Operand(f, w) = f.dst
                 \/ /\ w = Own(1) /\ W = {Operand(f, w)} /\ IsOwn(f.node, a, w) /\ w # Dst
                    /\ \E j \in DOMAIN q : q[j] = w
  <2>1. in.write = {w}
    BY <1>6
  <2>2. W = {v \in Val : v.kind = "temp" /\ Operand(f, w) = v}
    BY <2>1 DEF W, WriteBy
  <2>3. CASE w.kind = "var"
    BY <2>1, <2>2, <2>3, OperandsAre DEF Dst
  <2>4. CASE IsOwn(f.node, a, w)
    <3>1. W = {Operand(f, w)}
      BY <1>8, <1>9, <2>2, <2>4
    <3>2. w = Dst \/ w = Own(1)
      BY <2>4 DEF IsOwn
    <3>3. CASE w = Dst
      BY <2>1, <2>4, <3>1, <3>3, OperandsAre
    <3>4. CASE w = Own(1)
      <4>1. w.kind # "var"
        BY <3>4 DEF Own
      <4>2. \E j \in DOMAIN q : q[j] = w
        BY <1>6, <3>4, <4>1
      <4> QED
        BY <2>1, <2>4, <3>1, <3>4, <4>2, OperandsAre
    <3> QED
      BY <3>2, <3>3, <3>4
  <2> QED
    BY <1>6, <2>3, <2>4
<1>16. in.write = {} => W = {}
  BY DEF W, WriteBy
<1>17. W \cap (HeldTemps(f) \ R) = {}
  <2> SUFFICES ASSUME NEW v \in W, v \in HeldTemps(f)
               PROVE  v \in R
    OBVIOUS
  <2>1. PICK i \in 1 .. n : f.held[i] = v /\ v.kind = "temp"
    BY <1>4 DEF HeldTemps
  <2>2. PICK w \in in.write : Operand(f, w) = v
    BY DEF W, WriteBy
  <2>3. IsOwn(f.node, a, w)
    BY <1>15
  <2>4. a.held[i] = w
    BY <1>14, <2>1, <2>2, <2>3
  <2>5. w.kind # "var"
    BY <2>3 DEF IsOwn, Dst, Own
  <2>6. Reads(in, n - i)
    BY <1>6, <2>4, <2>5
  <2>7. i \in m + 1 .. n
    <3>1. PICK r \in DOMAIN in.reads : in.reads[r] = Recent(n - i)
      BY <2>6 DEF Reads
    <3>2. Operand(f, in.reads[r]) = v
      <4>1. n - (n - i) = i
        BY <1>4
      <4> QED
        BY <2>1, <3>1, <4>1, OperandsAre DEF n
    <3>3. v \in R
      BY <1>7, <2>1, <3>2 DEF R, ReadBy
    <3> QED
      BY <1>12, <2>1, <3>3
  <2> QED
    BY <1>12, <2>1, <2>6, <2>7
\* What is held behind the instruction.
<1>18. \A i \in 1 .. m : i \in 1 .. n /\ i \notin m + 1 .. n
  BY <1>28
<1>19. \A v : v \in HeldTemps(g) <=>
           /\ v \in Val /\ v.kind = "temp"
           /\ (\E i \in 1 .. m : f.held[i] = v) \/ (\E j \in 1 .. Len(q) : Operand(f, q[j]) = v)
  <2>1. DOMAIN g.held = 1 .. m + Len(q)
    BY <1>1, <1>10, FrameIs
  <2>2. \A i \in 1 .. m : i \in 1 .. m + Len(q)
    BY <1>5, <1>27
  <2>3. \A j \in 1 .. Len(q) : m + j \in 1 .. m + Len(q)
    BY <1>5, <1>27
  <2>4. \A v : (\E i \in DOMAIN g.held : g.held[i] = v) <=>
            (\E i \in 1 .. m : f.held[i] = v) \/ (\E j \in 1 .. Len(q) : Operand(f, q[j]) = v)
    <3> TAKE v
    <3>1. ASSUME NEW i \in DOMAIN g.held, g.held[i] = v
          PROVE  (\E k \in 1 .. m : f.held[k] = v) \/ (\E j \in 1 .. Len(q) : Operand(f, q[j]) = v)
      <4>1. i \in 1 .. m + Len(q)
        BY <2>1
      <4>2. CASE i \in 1 .. m
        BY <1>10, <3>1, <4>2
      <4>3. ASSUME NEW j \in 1 .. Len(q), i = m + j
            PROVE  Operand(f, q[j]) = v
        BY <1>10, <3>1, <4>3
      <4> QED
        BY <1>10, <4>1, <4>2, <4>3
    <3>2. ASSUME NEW k \in 1 .. m, f.held[k] = v
          PROVE  \E i \in DOMAIN g.held : g.held[i] = v
      BY <1>10, <2>1, <2>2, <3>2
    <3>3. ASSUME NEW j \in 1 .. Len(q), Operand(f, q[j]) = v
          PROVE  \E i \in DOMAIN g.held : g.held[i] = v
      BY <1>10, <2>1, <2>3, <3>3
    <3> QED
      BY <3>1, <3>2, <3>3
  <2> QED
    BY <2>4 DEF HeldTemps
<1>20. (HeldTemps(f) \ R) \cup W = HeldTemps(g) \cup Result(f, in)
  <2>1. ASSUME NEW v \in HeldTemps(f), v \notin R
        PROVE  v \in HeldTemps(g)
    <3>1. PICK i \in 1 .. n : f.held[i] = v /\ v.kind = "temp" /\ v \in Val
      BY <1>4 DEF HeldTemps
    <3>2. CASE i \in 1 .. m
      BY <1>19, <3>1, <3>2
    <3>3. CASE i \in m + 1 .. n
      <4>1. ~Reads(in, n - i)
        BY <1>12, <2>1, <3>1, <3>3
      <4>2. PICK j \in DOMAIN q : q[j] = a.held[i] /\ a.held[i] # Got
        BY <1>6, <3>3, <4>1
      <4>3. f.held[i] = Operand(f, q[j])
        BY <1>7, <4>2 DEF HeldOK
      <4> QED
        BY <1>5, <1>19, <3>1, <4>2, <4>3
    <3> QED
      BY <1>4, <1>27, <3>2, <3>3
  <2>2. ASSUME NEW v \in W
        PROVE  v \in HeldTemps(g) \cup Result(f, in)
    <3>1. PICK w \in in.write : Operand(f, w) = v /\ v \in Val /\ v.kind = "temp"
      BY <2>2 DEF W, WriteBy
    <3>2. CASE w = Dst
      BY <1>15, <2>2, <3>1, <3>2 DEF Result
    <3>3. CASE w # Dst
      <4>1. \E j \in DOMAIN q : q[j] = w
        BY <1>15, <2>2, <3>3
      <4> QED
        BY <1>5, <1>19, <3>1, <4>1
    <3> QED
      BY <3>2, <3>3
  <2>3. ASSUME NEW v \in HeldTemps(g)
        PROVE  v \in (HeldTemps(f) \ R) \cup W
    <3>1. CASE \E i \in 1 .. m : f.held[i] = v
      <4>1. PICK i \in 1 .. m : f.held[i] = v
        BY <3>1
      <4> QED
        BY <1>4, <1>12, <1>18, <1>19, <2>3, <4>1 DEF HeldTemps
    <3>2. CASE \E j \in 1 .. Len(q) : Operand(f, q[j]) = v
      <4>1. PICK j \in 1 .. Len(q) : Operand(f, q[j]) = v
        BY <3>2
      <4>2. CASE q[j] \in in.write
        BY <1>19, <2>3, <4>1, <4>2 DEF W, WriteBy
      <4>3. CASE \E i \in m + 1 .. n : a.held[i] = q[j] /\ ~Reads(in, n - i)
        <5>1. PICK i \in m + 1 .. n : a.held[i] = q[j] /\ ~Reads(in, n - i)
          BY <4>3
        <5>2. i \in 1 .. n
          BY <1>4, <1>27, <5>1
        <5>3. a.held[i] # Got
          BY <1>5, <1>6, <1>8, <5>1
        <5>4. f.held[i] = v
          BY <1>7, <4>1, <5>1, <5>2, <5>3 DEF HeldOK
        <5> QED
          BY <1>4, <1>12, <1>19, <2>3, <5>1, <5>2, <5>4 DEF HeldTemps
      <4> QED
        BY <1>5, <1>6, <4>2, <4>3
    <3> QED
      BY <1>19, <2>3, <3>1, <3>2
  <2>4. Result(f, in) \subseteq W
    <3>1. CASE in.write = {Dst}
      BY <1>15, <3>1 DEF Result
    <3>2. CASE in.write # {Dst}
      BY <3>2 DEF Result
    <3> QED
      BY <3>1, <3>2
  <2> QED
    BY <2>1, <2>2, <2>3, <2>4
<1>21. HeldTemps(g) \subseteq HeldTemps(f) \cup Private(f)
  <2> SUFFICES ASSUME NEW v \in HeldTemps(g)
               PROVE  v \in HeldTemps(f) \cup Private(f)
    OBVIOUS
  <2>1. CASE \E i \in 1 .. m : f.held[i] = v
    <3>1. PICK i \in 1 .. m : f.held[i] = v
      BY <2>1
    <3>2. i \in DOMAIN f.held
      BY <1>4, <1>18
    <3> QED
      BY <1>19, <3>1, <3>2 DEF HeldTemps
  <2>2. CASE \E j \in 1 .. Len(q) : Operand(f, q[j]) = v
    BY <1>8, <1>35, <2>2
  <2> QED
    BY <1>19, <2>1, <2>2
<1>22. in.write = {Dst} => W = {f.dst} /\ f.dst \in Temps(t)
  BY <1>8, <1>15, OperandsAre
\* The frame.
<1>23. /\ Private(g) = Private(f)
       /\ \A k, w : HeldOK(f, k, w, t) => HeldOK(g, k, w, t)
       /\ \A k : IsOwn(f.node, a, k) => IsOwn(g.node, b, k) /\ Operand(f, k) = Operand(g, k)
  <2>1. Private(g) = Private(f)
    BY <1>3 DEF Private
  <2>2. \A k : IsOwn(f.node, a, k) => IsOwn(g.node, b, k) /\ Operand(f, k) = Operand(g, k)
    BY <1>3, <1>34, OperandsAre DEF IsOwn
  <2> QED
    BY <2>1, <2>2 DEF HeldOK, a, b
<1>24. \A i \in 1 .. Len(g.held) : HeldOK(g, b.held[i], g.held[i], t)
  <2> TAKE i \in 1 .. Len(g.held)
  <2>1. CASE i \in 1 .. m
    <3>1. HeldOK(f, a.held[i], f.held[i], t)
      BY <1>7, <1>18, <2>1
    <3> QED
      BY <1>6, <1>10, <1>23, <2>1, <3>1
  <2>2. CASE \E j \in 1 .. Len(q) : i = m + j
    <3>1. PICK j \in 1 .. Len(q) : i = m + j
      BY <2>2
    <3>2. b.held[i] = q[j] /\ g.held[i] = Operand(f, q[j]) /\ IsOwn(f.node, a, q[j])
      BY <1>5, <1>6, <1>10, <3>1
    <3>3. Operand(f, q[j]) \in Temps(t) /\ IsOwn(g.node, b, q[j]) /\ Operand(f, q[j]) = Operand(g, q[j])
      BY <1>8, <1>23, <3>2
    <3> QED
      BY <3>2, <3>3 DEF HeldOK, b
  <2> QED
    BY <1>10, <2>1, <2>2
<1>25. \A i, j \in 1 .. Len(g.held) : g.held[i].kind = "temp" /\ g.held[i] = g.held[j] => i = j
  <2>1. \A i, j \in 1 .. m : g.held[i].kind = "temp" /\ g.held[i] = g.held[j] => i = j
    BY <1>10, <1>11, <1>18
  <2>2. \A i \in 1 .. m : \A j \in 1 .. Len(q) : g.held[i] # g.held[m + j]
    <3> TAKE i \in 1 .. m
    <3> TAKE j \in 1 .. Len(q)
    <3>1. IsOwn(f.node, a, q[j]) /\ a.held[i] # q[j]
      BY <1>5, <1>6
    <3> QED
      BY <1>10, <1>14, <1>18, <3>1
  <2>3. \A i, j \in 1 .. Len(q) : g.held[m + i] = g.held[m + j] => i = j
    <3> TAKE i, j \in 1 .. Len(q)
    <3>1. IsOwn(f.node, a, q[i]) /\ IsOwn(f.node, a, q[j])
      BY <1>5, <1>6
    <3>2. q[i] = q[j] => i = j
      <4>1. i \in DOMAIN q /\ j \in DOMAIN q
        BY <1>5
      <4> QED
        BY <1>6, <4>1
    <3>3. Operand(f, q[i]) = Operand(f, q[j]) => q[i] = q[j]
      BY <1>8, <3>1
    <3>4. g.held[m + i] = Operand(f, q[i]) /\ g.held[m + j] = Operand(f, q[j])
      BY <1>10
    <3> QED
      BY <3>2, <3>3, <3>4
  <2> TAKE i, j \in 1 .. Len(g.held)
  <2>4. \A x \in 1 .. Len(g.held) : x \in 1 .. m \/ \E k \in 1 .. Len(q) : x = m + k
    BY <1>10
  <2>5. CASE i \in 1 .. m /\ j \in 1 .. m
    BY <2>1, <2>5
  <2>6. CASE i \in 1 .. m /\ j \notin 1 .. m
    <3>1. PICK k \in 1 .. Len(q) : j = m + k
      BY <2>4, <2>6
    <3> QED
      BY <2>2, <2>6, <3>1
  <2>7. CASE i \notin 1 .. m /\ j \in 1 .. m
    <3>1. PICK k \in 1 .. Len(q) : i = m + k
      BY <2>4, <2>7
    <3> QED
      BY <2>2, <2>7, <3>1
  <2>8. CASE i \notin 1 .. m /\ j \notin 1 .. m
    <3>1. PICK k \in 1 .. Len(q) : i = m + k
      BY <2>4, <2>8
    <3>2. PICK p \in 1 .. Len(q) : j = m + p
      BY <2>4, <2>8
    <3> QED
      BY <2>3, <3>1, <3>2
  <2> QED
    BY <2>5, <2>6, <2>7, <2>8
<1>26. FrameOK(g, t, l)
  <2>1. /\ Len(g.held) = Len(b.held) /\ Len(g.temps) = b.temps /\ Len(g.labels) = 3 + b.labels
    BY <1>6, <1>10 DEF FrameOK, a
  <2> QED
    BY <1>1, <1>3, <1>24, <1>25, <2>1 DEF FrameOK, b
\* The instruction itself.
<1>29. a.writ = "yes" => f.dst \notin W
  <2> SUFFICES ASSUME a.writ = "yes", f.dst \in W
               PROVE  FALSE
    OBVIOUS
  <2>1. PICK w \in in.write : Operand(f, w) = f.dst
    BY DEF W, WriteBy
  <2>2. w # Dst
    BY <1>33
  <2>3. w = Own(1) /\ IsOwn(f.node, a, w)
    BY <1>15, <2>2
  <2>4. 1 \in 1 .. Len(f.temps)
    BY <2>3, OperandsAre DEF IsOwn, FrameOK, a
  <2> QED
    BY <2>1, <2>3, <2>4, OperandsAre DEF FrameOK
<1>30. Said(f, in).reads = [r \in DOMAIN in.reads |-> Operand(f, in.reads[r])]
       /\ Said(f, in).write = {Operand(f, w) : w \in in.write}
  BY DEF Said, Resolved
<1>31. TempsOf(Range(Said(f, in).reads)) = R
  <2>1. ASSUME NEW r \in DOMAIN in.reads, Operand(f, in.reads[r]).kind = "temp"
        PROVE  Operand(f, in.reads[r]) \in Val
    <3>1. ~(in.reads[r].kind \in {"const", "var"})
      BY <2>1, OperandsAre
    <3>2. PICK k \in 0 .. o.takes - 1 : in.reads[r] = Recent(k)
      BY <1>6, <3>1
    <3>3. n - k \in 1 .. n
      <4>1. \A x \in Nat, y, z \in Int : y \in 0 .. x /\ z \in 0 .. y - 1 => x - z \in 1 .. x
        OBVIOUS
      <4> QED
        BY <1>27, <1>28, <3>2, <4>1
    <3> QED
      BY <1>7, <3>2, <3>3, OperandsAre DEF n
  <2>2. Range(Said(f, in).reads) = {Operand(f, in.reads[r]) : r \in DOMAIN in.reads}
    BY <1>30 DEF Range
  <2> QED
    BY <2>1, <2>2 DEF TempsOf, R, ReadBy
<1>32. TempsOf(Said(f, in).write) = W
  <2>1. ASSUME NEW w \in in.write, Operand(f, w).kind = "temp"
        PROVE  Operand(f, w) \in Val
    <3>1. CASE w.kind = "var"
      <4>1. Operand(f, w) = w
        BY <3>1, OperandsAre
      <4> QED
        BY <2>1, <3>1, <4>1
    <3>2. CASE IsOwn(f.node, a, w)
      BY <1>8, <1>9, <3>2
    <3> QED
      BY <1>15, <3>1, <3>2
  <2> QED
    BY <1>30, <2>1 DEF TempsOf, W, WriteBy
<1> QED
  BY <1>13, <1>16, <1>17, <1>20, <1>21, <1>22, <1>26, <1>29, <1>31, <1>32 DEF R, W, in, a, Uses

\* What is pending, below f the temporaries in `outer'.
Written(f) == IF Point(f).writ = "yes" THEN {f.dst} ELSE {}
TopOK(f, outer, w) ==
    /\ w.pending = outer \cup HeldTemps(f) \cup Written(f)
    /\ w.redo = IF Point(f).writ = "redo" THEN {f.dst} ELSE {}
    /\ w.passed = Point(f).passed

\* The i-th label of f: whether it was placed, and what was pending where it was jumped to.
LabelAt(f, outer, w, i) ==
    /\ f.labels[i] \in w.placed <=> i \in Point(f).placed
    /\ i \in Point(f).jumped => f.labels[i] \in DOMAIN w.awaited
    /\ f.labels[i] \in DOMAIN w.awaited =>
          w.awaited[f.labels[i]] = outer \cup (IF i = EndOf(f.node) THEN {f.dst} ELSE {})
LabelsAt(f, outer, w) == \A i \in 4 .. Len(f.labels) : LabelAt(f, outer, w, i)

\* f is where x is appended to the code, and becomes g.
Appends(f, g, outer, w, in, x) ==
    /\ w.kept /\ TopOK(f, outer, w) /\ LabelsAt(f, outer, w)
    /\ StateOK(Point(f)) /\ StateOK(Point(g))
    /\ g.node = f.node /\ g.dst = f.dst /\ g.labels = f.labels
    /\ Len(f.labels) = 3 + Point(f).labels
    /\ \A i, j \in 4 .. Len(f.labels) : f.labels[i] = f.labels[j] => i = j
    /\ \A i \in 4 .. Len(f.labels) : f.labels[i] # 0
    /\ outer \cap (HeldTemps(f) \cup Private(f)) = {}
    /\ IsExpr(f.node) \/ outer = {}
    /\ x.op = in.op /\ x.n = in.n /\ x.label = (IF in.label = 0 THEN 0 ELSE f.labels[in.label])
    /\ Uses(f, g, in, x)

\* What becomes of the labels that are not f's own.
OthersStay(f, w, y) ==
    /\ \A l : l \notin Owns(f) => (l \in y.placed <=> l \in w.placed)
    /\ DOMAIN w.awaited \subseteq DOMAIN y.awaited
    /\ \A l \in DOMAIN y.awaited : l \notin Owns(f) =>
          \/ l \in DOMAIN w.awaited /\ y.awaited[l] = w.awaited[l]
          \/ /\ ~IsExpr(f.node) /\ l # 0 /\ \E i \in 1 .. 3 : f.labels[i] = l
             /\ y.awaited[l] = {}

-----------------------------------------------------------------------------
(* A step of the register allocator.                                        *)

\* An instruction that neither places a label nor jumps to one.
LEMMA WalkPlain ==
    ASSUME NEW w, NEW in, NEW y, y = Walk(w, in), in.op # "label", in.label = 0, w.kept,
           TempsOf(Range(in.reads)) \subseteq w.pending,
           TempsOf(in.write) \cap (w.pending \ TempsOf(Range(in.reads))) = {},
           w.redo \subseteq TempsOf(in.write),
           w.passed > 0 => in.op \in {"param", "call"}, in.op = "call" => in.n = w.passed,
           in.op = "endfunc" => /\ w.pending \ TempsOf(Range(in.reads)) = {}
                                /\ DOMAIN w.awaited \subseteq w.placed
    PROVE  /\ y.pending = (w.pending \ TempsOf(Range(in.reads))) \cup TempsOf(in.write)
           /\ y.placed = w.placed /\ y.awaited = w.awaited
           /\ y.redo = {} /\ y.passed = (IF in.op = "param" THEN w.passed + 1 ELSE 0)
           /\ y.kept
BY DEF Walk

LEMMA WalkJump ==
    ASSUME NEW w, NEW in, NEW x, x = Walk(w, in), w.kept,
           in.op \notin {"label", "param", "call", "endfunc"}, in.label # 0,
           TempsOf(in.write) = {}, TempsOf(Range(in.reads)) \subseteq w.pending,
           w.redo = {}, w.passed = 0,
           in.label \in w.placed => w.pending \ TempsOf(Range(in.reads)) = {},
           in.label \in DOMAIN w.awaited
              => w.awaited[in.label] = w.pending \ TempsOf(Range(in.reads))
    PROVE  /\ x.pending = w.pending \ TempsOf(Range(in.reads)) /\ x.placed = w.placed
           /\ DOMAIN x.awaited = DOMAIN w.awaited \cup {in.label}
           /\ \A l \in DOMAIN w.awaited : x.awaited[l] = w.awaited[l]
           /\ x.awaited[in.label] = w.pending \ TempsOf(Range(in.reads))
           /\ x.redo = {} /\ x.passed = 0 /\ x.kept
<1> DEFINE left == w.pending \ TempsOf(Range(in.reads))
<1>1. x.pending = left /\ x.placed = w.placed /\ x.redo = {} /\ x.passed = 0
  BY DEF Walk
<1>2. x.awaited = [l \in DOMAIN w.awaited \cup {in.label} |->
                      IF l = in.label THEN left ELSE w.awaited[l]]
  BY DEF Walk
<1>3. x.kept
  <2> DEFINE R == TempsOf(Range(in.reads))
             W == TempsOf(in.write)
             rest == w.pending \ R
             jump == in.label # 0 /\ in.op # "label"
             known == in.label \in DOMAIN w.awaited
             after == IF known THEN w.awaited[in.label] ELSE {}
             fine == /\ R \subseteq w.pending
                     /\ W \cap rest = {}
                     /\ w.redo \subseteq W
                     /\ w.passed > 0 => in.op \in {"param", "call"}
                     /\ in.op = "call" => in.n = w.passed
                     /\ in.op = "label" => in.label \notin w.placed /\ after \subseteq rest
                     /\ jump /\ in.label \in w.placed => rest = {}
                     /\ jump /\ known => rest = after
                     /\ in.op = "endfunc" => rest = {} /\ DOMAIN w.awaited \subseteq w.placed
  <2>1. R \subseteq w.pending /\ W \cap rest = {} /\ w.redo \subseteq W
    OBVIOUS
  <2>2. w.passed > 0 => in.op \in {"param", "call"}
    OBVIOUS
  <2>3. /\ in.op # "call" /\ in.op # "label" /\ in.op # "endfunc"
    OBVIOUS
  <2>4. /\ jump /\ in.label \in w.placed => rest = {}
        /\ jump /\ known => rest = after
    OBVIOUS
  <2>5. fine
    BY <2>1, <2>2, <2>3, <2>4
  <2>6. x.kept = (w.kept /\ fine)
    BY DEF Walk
  <2> QED
    BY <2>5, <2>6
<1>4. \A l \in DOMAIN w.awaited : x.awaited[l] = w.awaited[l]
  BY <1>2
<1> QED
  BY <1>1, <1>2, <1>3, <1>4

LEMMA WalkLabel ==
    ASSUME NEW w, NEW in, NEW x, x = Walk(w, in), in.op = "label", w.kept,
           TempsOf(Range(in.reads)) = {}, TempsOf(in.write) = {},
           w.redo = {}, w.passed = 0, in.label \notin w.placed, NEW after,
           \/ in.label \in DOMAIN w.awaited /\ after = w.awaited[in.label]
           \/ in.label \notin DOMAIN w.awaited /\ after = {},
           after \subseteq w.pending
    PROVE  /\ x.pending = after /\ x.placed = w.placed \cup {in.label} /\ x.awaited = w.awaited
           /\ x.redo = w.pending \ after /\ x.passed = 0 /\ x.kept
<1> DEFINE known == IF in.label \in DOMAIN w.awaited THEN w.awaited[in.label] ELSE {}
<1>1. known = after
  OBVIOUS
<1>2. x.pending = known /\ x.placed = w.placed \cup {in.label} /\ x.awaited = w.awaited /\ x.passed = 0
  BY DEF Walk
<1>3. x.redo = w.pending \ known
  BY DEF Walk
<1>4. x.kept
  <2> DEFINE R == TempsOf(Range(in.reads))
             W == TempsOf(in.write)
             rest == w.pending \ R
             jump == in.label # 0 /\ in.op # "label"
             kn == in.label \in DOMAIN w.awaited
             aft == IF kn THEN w.awaited[in.label] ELSE {}
             fine == /\ R \subseteq w.pending
                     /\ W \cap rest = {}
                     /\ w.redo \subseteq W
                     /\ w.passed > 0 => in.op \in {"param", "call"}
                     /\ in.op = "call" => in.n = w.passed
                     /\ in.op = "label" => in.label \notin w.placed /\ aft \subseteq rest
                     /\ jump /\ in.label \in w.placed => rest = {}
                     /\ jump /\ kn => rest = aft
                     /\ in.op = "endfunc" => rest = {} /\ DOMAIN w.awaited \subseteq w.placed
  <2>1. R \subseteq w.pending /\ W \cap rest = {} /\ w.redo \subseteq W
    OBVIOUS
  <2>2. w.passed > 0 => in.op \in {"param", "call"}
    OBVIOUS
  <2>3. in.op # "call" /\ in.op = "label" /\ in.op # "endfunc" /\ ~jump
    OBVIOUS
  <2>4. in.label \notin w.placed /\ aft \subseteq rest
    OBVIOUS
  <2>5. fine
    BY <2>1, <2>2, <2>3, <2>4
  <2>6. x.kept = (w.kept /\ fine)
    BY DEF Walk
  <2> QED
    BY <2>5, <2>6
<1> HIDE DEF known
<1> QED
  BY <1>1, <1>2, <1>3, <1>4

LEMMA NothingHeld ==
    ASSUME NEW f, f.held = <<>>
    PROVE  HeldTemps(f) = {}
<1>1. DOMAIN f.held = {}
  OBVIOUS
<1> QED
  BY <1>1 DEF HeldTemps

\* Nothing is held, or read, once the result is written.
LEMMA LeftPending ==
    ASSUME NEW f, NEW g, NEW outer, NEW w, NEW in, NEW x, Appends(f, g, outer, w, in, x),
           f \in Frames, Len(f.held) = Len(Point(f).held)
    PROVE  /\ TempsOf(Range(x.reads)) \subseteq w.pending
           /\ w.pending \ TempsOf(Range(x.reads))
                 = outer \cup (HeldTemps(f) \ ReadBy(f, in)) \cup Written(f)
           /\ Point(f).writ # "no" => HeldTemps(f) = {}
<1>1. Point(f).writ # "no" => HeldTemps(f) = {}
  <2> SUFFICES ASSUME Point(f).writ # "no" PROVE HeldTemps(f) = {}
    OBVIOUS
  <2>1. Point(f).held = <<>>
    BY DEF Appends, StateOK
  <2>2. Len(Point(f).held) = 0
    BY <2>1
  <2>3. f.held \in Seq(Val) /\ Len(f.held) = 0
    BY <2>2, FrameIs
  <2>4. f.held = <<>>
    BY <2>3
  <2> QED
    BY <2>4, NothingHeld
<1>2. /\ TempsOf(Range(x.reads)) = ReadBy(f, in) /\ ReadBy(f, in) \subseteq HeldTemps(f)
      /\ w.pending = outer \cup HeldTemps(f) \cup Written(f)
      /\ outer \cap HeldTemps(f) = {}
  BY DEF Appends, Uses, TopOK
<1>3. Written(f) \cap ReadBy(f, in) = {}
  BY <1>1, <1>2 DEF Written
<1> QED
  BY <1>1, <1>2, <1>3

\* An instruction without a label.
LEMMA PlainStep ==
    ASSUME NEW f, NEW g, NEW outer, NEW w, NEW in, NEW x, Appends(f, g, outer, w, in, x),
           f \in Frames, Len(f.held) = Len(Point(f).held),
           PlainOK(f.node, in, Point(f), Point(g))
    PROVE  /\ Walk(w, x).kept /\ TopOK(g, outer, Walk(w, x)) /\ LabelsAt(g, outer, Walk(w, x))
           /\ OthersStay(f, w, Walk(w, x))
           /\ Walk(w, x).placed = w.placed /\ DOMAIN Walk(w, x).awaited = DOMAIN w.awaited
<1> DEFINE R == ReadBy(f, in)
           W == WriteBy(f, in)
           left == outer \cup (HeldTemps(f) \ R) \cup Written(f)
           y == Walk(w, x)
<1>1. /\ TempsOf(Range(x.reads)) = R /\ TempsOf(x.write) = W
      /\ R \subseteq w.pending /\ left = w.pending \ R
  BY LeftPending DEF Appends, Uses
<1>2. x.op = in.op /\ x.op # "label" /\ x.op # "endfunc" /\ x.label = 0 /\ w.kept /\ x.n = in.n
  BY DEF Appends, Uses, PlainOK
<1>3. W \cap left = {}
  <2>1. W \cap outer = {}
    BY DEF Appends, Uses, Result, Private
  <2>2. W \cap (HeldTemps(f) \ R) = {}
    BY DEF Appends, Uses
  <2>3. W \cap Written(f) = {}
    BY DEF Appends, Uses, Written
  <2> QED
    BY <2>1, <2>2, <2>3
<1>4. w.redo \subseteq W
  BY DEF Appends, Uses, TopOK, PlainOK
<1>5. /\ w.passed > 0 => x.op \in {"param", "call"}
      /\ x.op = "call" => x.n = w.passed
      /\ w.passed = Point(f).passed
  BY <1>2 DEF Appends, Uses, TopOK, PlainOK
<1> HIDE DEF R, W, left
<1>6. /\ y.pending = left \cup W /\ y.placed = w.placed /\ y.awaited = w.awaited
      /\ y.redo = {} /\ y.passed = (IF x.op = "param" THEN w.passed + 1 ELSE 0)
      /\ y.kept
  <2>1. /\ TempsOf(Range(x.reads)) \subseteq w.pending
        /\ TempsOf(x.write) \cap (w.pending \ TempsOf(Range(x.reads))) = {}
        /\ w.redo \subseteq TempsOf(x.write)
    BY <1>1, <1>3, <1>4
  <2>2. y.pending = (w.pending \ TempsOf(Range(x.reads))) \cup TempsOf(x.write)
        /\ y.placed = w.placed /\ y.awaited = w.awaited
        /\ y.redo = {} /\ y.passed = (IF x.op = "param" THEN w.passed + 1 ELSE 0)
        /\ y.kept
    BY <1>2, <1>5, <2>1, WalkPlain
  <2> HIDE DEF y
  <2> QED
    BY <1>1, <2>2
<1> HIDE DEF y
<1>7. y.pending = outer \cup HeldTemps(g) \cup Written(g)
  <2>1. (HeldTemps(f) \ R) \cup W = HeldTemps(g) \cup Result(f, in)
    BY DEF Appends, Uses, R, W
  <2>2. Written(g) = Written(f) \cup Result(f, in)
    <3>1. g.dst = f.dst /\ Point(g).writ = (IF in.write = {Dst} THEN "yes" ELSE Point(f).writ)
      BY DEF Appends, Uses, PlainOK
    <3> QED
      BY <3>1 DEF Written, Result
  <2> QED
    BY <1>6, <2>1, <2>2 DEF left
<1>8. TopOK(g, outer, y)
  <2>1. Point(g).writ # "redo"
    BY DEF PlainOK
  <2>2. Point(g).passed = (IF in.op = "param" THEN Point(f).passed + 1 ELSE 0)
    BY DEF PlainOK
  <2> QED
    BY <1>2, <1>5, <1>6, <1>7, <2>1, <2>2 DEF TopOK
<1>9. LabelsAt(g, outer, y)
  <2>1. Point(g).placed = Point(f).placed /\ Point(g).jumped = Point(f).jumped
    BY DEF PlainOK
  <2>2. g.labels = f.labels /\ g.node = f.node /\ g.dst = f.dst /\ LabelsAt(f, outer, w)
    BY DEF Appends, Uses
  <2> QED
    BY <1>6, <2>1, <2>2 DEF LabelsAt, LabelAt
<1>10. OthersStay(f, w, y)
  BY <1>6 DEF OthersStay
<1> QED
  BY <1>6, <1>8, <1>9, <1>10 DEF y

\* The end of the function: nothing is pending, and no label is awaited.
LEMMA EndStep ==
    ASSUME NEW f, NEW g, NEW outer, NEW w, NEW in, NEW x, Appends(f, g, outer, w, in, x),
           f \in Frames, Len(f.held) = Len(Point(f).held),
           EndOK(f.node, in, Point(f), Point(g)), HeldTemps(f) = {}, HeldTemps(g) = {},
           ~IsExpr(f.node), \A l \in DOMAIN w.awaited : l \in w.placed \/ l \in Owns(f)
    PROVE  /\ Walk(w, x).kept /\ TopOK(g, outer, Walk(w, x)) /\ LabelsAt(g, outer, Walk(w, x))
           /\ OthersStay(f, w, Walk(w, x))
           /\ Walk(w, x).placed = w.placed /\ DOMAIN Walk(w, x).awaited = DOMAIN w.awaited
<1> DEFINE y == Walk(w, x)
           none == {}
<1>1. /\ outer = {} /\ w.pending = {} /\ w.redo = {} /\ w.passed = 0 /\ w.kept
      /\ Point(f).writ = "no" /\ Point(g).writ = "no" /\ Point(g).passed = 0
  BY DEF Appends, Uses, TopOK, EndOK, Idle, Written
<1>2. TempsOf(Range(x.reads)) = none /\ TempsOf(x.write) = none
  BY DEF Appends, Uses, EndOK
<1>3. x.op = "endfunc" /\ x.label = 0
  BY DEF Appends, Uses, EndOK
<1>4. DOMAIN w.awaited \subseteq w.placed
  <2> SUFFICES ASSUME NEW l \in DOMAIN w.awaited, l \in Owns(f)
               PROVE  l \in w.placed
    OBVIOUS
  <2>1. PICK i \in 4 .. Len(f.labels) : l = f.labels[i]
    BY DEF Owns
  <2>2. i \in Point(f).placed
    BY <2>1 DEF EndOK, Appends
  <2> QED
    BY <2>1, <2>2 DEF Appends, LabelsAt, LabelAt
<1>5. /\ TempsOf(Range(x.reads)) \subseteq w.pending
      /\ TempsOf(x.write) \cap (w.pending \ TempsOf(Range(x.reads))) = {}
      /\ w.redo \subseteq TempsOf(x.write) /\ ~(w.passed > 0)
      /\ w.pending \ TempsOf(Range(x.reads)) = {}
  BY <1>1, <1>2
<1> HIDE DEF none
<1>6. /\ y.pending = none \cup none /\ y.placed = w.placed /\ y.awaited = w.awaited
      /\ y.redo = {} /\ y.passed = 0 /\ y.kept
  <2>1. x.op # "label" /\ x.op # "call" /\ x.op # "param"
    BY <1>3
  <2>2. y.pending = (w.pending \ TempsOf(Range(x.reads))) \cup TempsOf(x.write)
        /\ y.placed = w.placed /\ y.awaited = w.awaited
        /\ y.redo = {} /\ y.passed = (IF x.op = "param" THEN w.passed + 1 ELSE 0)
        /\ y.kept
    <3>1. /\ w.kept /\ x.op # "label" /\ x.label = 0
          /\ w.passed > 0 => x.op \in {"param", "call"}
          /\ x.op = "call" => x.n = w.passed
          /\ x.op = "endfunc" => /\ w.pending \ TempsOf(Range(x.reads)) = {}
                                 /\ DOMAIN w.awaited \subseteq w.placed
      BY <1>1, <1>3, <1>4, <1>5, <2>1
    <3>2. /\ TempsOf(Range(x.reads)) \subseteq w.pending
          /\ TempsOf(x.write) \cap (w.pending \ TempsOf(Range(x.reads))) = {}
          /\ w.redo \subseteq TempsOf(x.write)
      BY <1>5
    <3> QED
      BY <3>1, <3>2, WalkPlain
  <2> HIDE DEF y
  <2> QED
    BY <1>2, <1>5, <2>1, <2>2 DEF none
<1> HIDE DEF y
<1>7. TopOK(g, outer, y)
  BY <1>1, <1>6 DEF TopOK, Written, none
<1>8. LabelsAt(g, outer, y)
  <2>1. Point(g).placed = Point(f).placed /\ Point(g).jumped = Point(f).jumped
    BY DEF EndOK, Alike
  <2>2. g.labels = f.labels /\ g.node = f.node /\ g.dst = f.dst /\ LabelsAt(f, outer, w)
    BY DEF Appends, Uses
  <2> QED
    BY <1>6, <2>1, <2>2 DEF LabelsAt, LabelAt
<1>9. OthersStay(f, w, y)
  BY <1>6 DEF OthersStay
<1> QED
  BY <1>6, <1>7, <1>8, <1>9 DEF y

LEMMA NoEnd ==
    ASSUME NEW e, ~IsExpr(e)
    PROVE  EndOf(e) = 0
BY DEF EndOf, IsExpr, Expressions, Logical, Compare, Binary

\* A jump: what is pending at its label is what was pending when it was jumped to before.
LEMMA JumpStep ==
    ASSUME NEW f, NEW g, NEW outer, NEW w, NEW in, NEW x, Appends(f, g, outer, w, in, x),
           f \in Frames, Len(f.held) = Len(Point(f).held),
           JumpOK(f.node, in, Point(f), Point(g)), HeldTemps(g) = {},
           \A i \in 1 .. 3 : ~IsExpr(f.node) /\ f.labels[i] # 0 /\ f.labels[i] \in DOMAIN w.awaited
                                => w.awaited[f.labels[i]] = {}
    PROVE  /\ Walk(w, x).kept /\ TopOK(g, outer, Walk(w, x)) /\ LabelsAt(g, outer, Walk(w, x))
           /\ OthersStay(f, w, Walk(w, x))
           /\ Walk(w, x).placed = w.placed
           /\ \/ DOMAIN Walk(w, x).awaited = DOMAIN w.awaited
              \/ \E i \in 1 .. Len(f.labels) : /\ f.labels[i] # 0 /\ (i > 3 \/ ~IsExpr(f.node))
                      /\ DOMAIN Walk(w, x).awaited = DOMAIN w.awaited \cup {f.labels[i]}
<1> DEFINE y == Walk(w, x)
           left == outer \cup Written(f)
           n == Len(f.labels)
<1>1. /\ x.op \notin {"label", "param", "call", "endfunc"} /\ w.kept
      /\ TempsOf(x.write) = {} /\ w.redo = {} /\ w.passed = 0
      /\ Point(f).writ # "redo" /\ Point(g).writ = Point(f).writ /\ Point(g).passed = 0
      /\ Point(g).placed = Point(f).placed /\ g.labels = f.labels /\ g.node = f.node /\ g.dst = f.dst
  BY DEF Appends, Uses, TopOK, JumpOK
<1>2. TempsOf(Range(x.reads)) \subseteq w.pending /\ left = w.pending \ TempsOf(Range(x.reads))
  <2>1. HeldTemps(f) \ ReadBy(f, in) = {}
    BY DEF Appends, Uses, JumpOK, Result
  <2> QED
    BY <2>1, LeftPending
<1>3. LabelsAt(f, outer, w) /\ \A i, j \in 4 .. n : f.labels[i] = f.labels[j] => i = j
  BY DEF Appends, Uses
<1>4. TopOK(g, outer, [pending |-> left, redo |-> {}, passed |-> 0])
  BY <1>1 DEF TopOK, Written
<1>5. \A v : v.pending = left /\ v.redo = {} /\ v.passed = 0 => TopOK(g, outer, v)
  BY <1>1 DEF TopOK, Written
<1>6. CASE in.label \in 1 .. 3 /\ ~IsExpr(f.node) /\ Point(g).jumped = Point(f).jumped
           /\ Point(f).writ = "no"
  <2>1. left = {} /\ outer = {} /\ EndOf(f.node) = 0
    BY <1>6, NoEnd DEF Appends, Uses, Written
  <2>2. x.label = f.labels[in.label] /\ in.label \in 1 .. n
    <3>1. Point(f).labels \in Nat /\ n = 3 + Point(f).labels
      BY DEF Appends, StateOK
    <3>2. in.label \in 1 .. n /\ in.label # 0
      BY <1>6, <3>1
    <3> QED
      BY <3>2 DEF Appends, Uses
  <2> HIDE DEF n, left
  <2>3. CASE x.label = 0
    <3>1. /\ TempsOf(Range(x.reads)) \subseteq w.pending
          /\ TempsOf(x.write) \cap (w.pending \ TempsOf(Range(x.reads))) = {}
          /\ w.redo \subseteq TempsOf(x.write)
      BY <1>1, <1>2
    <3>2. y.pending = (w.pending \ TempsOf(Range(x.reads))) \cup TempsOf(x.write)
          /\ y.placed = w.placed /\ y.awaited = w.awaited
          /\ y.redo = {} /\ y.passed = (IF x.op = "param" THEN w.passed + 1 ELSE 0)
          /\ y.kept
      <4>1. /\ w.kept /\ x.op # "label" /\ x.label = 0
            /\ w.passed > 0 => x.op \in {"param", "call"}
            /\ x.op = "call" => x.n = w.passed
            /\ x.op = "endfunc" => /\ w.pending \ TempsOf(Range(x.reads)) = {}
                                   /\ DOMAIN w.awaited \subseteq w.placed
        BY <1>1, <2>3
      <4> QED
        BY <3>1, <4>1, WalkPlain
    <3> HIDE DEF y
    <3>3. y.pending = left /\ y.passed = 0
      BY <1>1, <1>2, <3>2
    <3>4. LabelsAt(g, outer, y)
      BY <1>1, <1>3, <1>6, <3>2 DEF LabelsAt, LabelAt
    <3>5. OthersStay(f, w, y)
      BY <3>2 DEF OthersStay
    <3> QED
      BY <1>5, <3>2, <3>3, <3>4, <3>5 DEF y
  <2>4. CASE x.label # 0
    <3>1. x.label \in DOMAIN w.awaited => w.awaited[x.label] = left
      BY <1>6, <2>1, <2>2, <2>4
    <3>2. /\ y.pending = left /\ y.placed = w.placed
          /\ DOMAIN y.awaited = DOMAIN w.awaited \cup {x.label}
          /\ \A l \in DOMAIN w.awaited : y.awaited[l] = w.awaited[l]
          /\ y.awaited[x.label] = left
          /\ y.redo = {} /\ y.passed = 0 /\ y.kept
      <4>1. /\ w.kept /\ x.op \notin {"label", "param", "call", "endfunc"} /\ x.label # 0
            /\ TempsOf(x.write) = {} /\ TempsOf(Range(x.reads)) \subseteq w.pending
            /\ w.redo = {} /\ w.passed = 0
            /\ x.label \in w.placed => w.pending \ TempsOf(Range(x.reads)) = {}
            /\ x.label \in DOMAIN w.awaited
                  => w.awaited[x.label] = w.pending \ TempsOf(Range(x.reads))
        BY <1>1, <1>2, <2>1, <2>4, <3>1
      <4>2. /\ y.pending = w.pending \ TempsOf(Range(x.reads)) /\ y.placed = w.placed
            /\ DOMAIN y.awaited = DOMAIN w.awaited \cup {x.label}
            /\ \A l \in DOMAIN w.awaited : y.awaited[l] = w.awaited[l]
            /\ y.awaited[x.label] = w.pending \ TempsOf(Range(x.reads))
            /\ y.redo = {} /\ y.passed = 0 /\ y.kept
        BY <4>1, WalkJump
      <4> HIDE DEF y
      <4> QED
        BY <1>2, <4>2
    <3> HIDE DEF y
    <3>3. LabelsAt(g, outer, y)
      <4> SUFFICES ASSUME NEW i \in 4 .. n
                   PROVE  LabelAt(g, outer, y, i)
        BY <1>1 DEF LabelsAt, n
      <4>1. LabelAt(f, outer, w, i) /\ i # 0
        BY <1>3 DEF LabelsAt, n
      <4>2. f.labels[i] \in DOMAIN y.awaited => y.awaited[f.labels[i]] = {}
        BY <2>1, <3>2, <4>1 DEF LabelAt
      <4> QED
        BY <1>1, <1>6, <2>1, <3>2, <4>1, <4>2 DEF LabelAt
    <3>4. OthersStay(f, w, y)
      BY <1>6, <2>1, <2>2, <2>4, <3>2 DEF OthersStay
    <3> QED
      BY <1>5, <1>6, <2>2, <2>4, <3>2, <3>3, <3>4 DEF y, n
  <2> QED
    BY <2>3, <2>4
<1>7. CASE /\ in.label \in 4 .. 3 + Point(f).labels
           /\ Point(g).jumped = Point(f).jumped \cup {in.label}
           /\ in.label \in Point(f).placed => ~IsExpr(f.node)
           /\ Point(f).writ = (IF in.label = EndOf(f.node) THEN "yes" ELSE "no")
  <2>1. /\ in.label \in 4 .. n /\ in.label \in 1 .. n /\ in.label > 3 /\ in.label # 0
        /\ x.label = f.labels[in.label] /\ x.label # 0
    <3>1. Point(f).labels \in Nat /\ n = 3 + Point(f).labels
      BY DEF Appends, StateOK
    <3>2. in.label \in 4 .. n /\ in.label \in 1 .. n /\ in.label > 3 /\ in.label # 0
      BY <1>7, <3>1
    <3> QED
      BY <3>2 DEF Appends, Uses
  <2>2. left = outer \cup (IF in.label = EndOf(f.node) THEN {f.dst} ELSE {})
    BY <1>7 DEF Written
  <2> HIDE DEF n, left
  <2>3. LabelAt(f, outer, w, in.label)
    BY <1>3, <2>1 DEF LabelsAt, n
  <2>4. x.label \in w.placed => left = {}
    <3> SUFFICES ASSUME x.label \in w.placed PROVE left = {}
      OBVIOUS
    <3>1. ~IsExpr(f.node)
      BY <1>7, <2>1, <2>3 DEF LabelAt
    <3>2. outer = {} /\ EndOf(f.node) = 0
      BY <3>1, NoEnd DEF Appends, Uses
    <3> QED
      BY <2>1, <2>2, <3>2
  <2>5. x.label \in DOMAIN w.awaited => w.awaited[x.label] = left
    BY <2>1, <2>2, <2>3 DEF LabelAt
  <2>6. /\ y.pending = left /\ y.placed = w.placed
        /\ DOMAIN y.awaited = DOMAIN w.awaited \cup {x.label}
        /\ \A l \in DOMAIN w.awaited : y.awaited[l] = w.awaited[l]
        /\ y.awaited[x.label] = left
        /\ y.redo = {} /\ y.passed = 0 /\ y.kept
    <3>1. /\ w.kept /\ x.op \notin {"label", "param", "call", "endfunc"} /\ x.label # 0
          /\ TempsOf(x.write) = {} /\ TempsOf(Range(x.reads)) \subseteq w.pending
          /\ w.redo = {} /\ w.passed = 0
          /\ x.label \in w.placed => w.pending \ TempsOf(Range(x.reads)) = {}
          /\ x.label \in DOMAIN w.awaited
                => w.awaited[x.label] = w.pending \ TempsOf(Range(x.reads))
      BY <1>1, <1>2, <2>1, <2>4, <2>5
    <3>2. /\ y.pending = w.pending \ TempsOf(Range(x.reads)) /\ y.placed = w.placed
          /\ DOMAIN y.awaited = DOMAIN w.awaited \cup {x.label}
          /\ \A l \in DOMAIN w.awaited : y.awaited[l] = w.awaited[l]
          /\ y.awaited[x.label] = w.pending \ TempsOf(Range(x.reads))
          /\ y.redo = {} /\ y.passed = 0 /\ y.kept
      BY <3>1, WalkJump
    <3> HIDE DEF y
    <3> QED
      BY <1>2, <3>2
  <2> HIDE DEF y
  <2>7. LabelsAt(g, outer, y)
    <3> SUFFICES ASSUME NEW i \in 4 .. n
                 PROVE  LabelAt(g, outer, y, i)
      BY <1>1 DEF LabelsAt, n
    <3>1. LabelAt(f, outer, w, i)
      BY <1>3 DEF LabelsAt, n
    <3>2. CASE i = in.label
      BY <1>1, <1>7, <2>1, <2>2, <2>6, <3>1, <3>2 DEF LabelAt
    <3>3. CASE i # in.label
      <4>1. f.labels[i] # x.label
        BY <1>3, <2>1, <3>3 DEF n
      <4>2. i \in Point(g).jumped => i \in Point(f).jumped
        BY <1>7, <3>3
      <4>3. f.labels[i] \in DOMAIN y.awaited
               => f.labels[i] \in DOMAIN w.awaited /\ y.awaited[f.labels[i]] = w.awaited[f.labels[i]]
        BY <2>6, <4>1
      <4> QED
        BY <1>1, <2>6, <3>1, <4>2, <4>3 DEF LabelAt
    <3> QED
      BY <3>2, <3>3
  <2>8. OthersStay(f, w, y)
    <3>1. x.label \in Owns(f)
      BY <2>1 DEF Owns, n
    <3> QED
      BY <2>6, <3>1 DEF OthersStay
  <2> QED
    BY <1>5, <2>1, <2>6, <2>7, <2>8 DEF y, n
<1> QED
  BY <1>6, <1>7 DEF JumpOK

\* A label: those who jumped to it have the same temporaries pending as who falls into it.
LEMMA PlaceStep ==
    ASSUME NEW f, NEW g, NEW outer, NEW w, NEW in, NEW x, Appends(f, g, outer, w, in, x),
           PlaceOK(f.node, in, Point(f), Point(g)), HeldTemps(f) = {}, HeldTemps(g) = {}
    PROVE  /\ Walk(w, x).kept /\ TopOK(g, outer, Walk(w, x)) /\ LabelsAt(g, outer, Walk(w, x))
           /\ OthersStay(f, w, Walk(w, x))
           /\ DOMAIN Walk(w, x).awaited = DOMAIN w.awaited
           /\ \E i \in 4 .. Len(f.labels) : Walk(w, x).placed = w.placed \cup {f.labels[i]}
<1> DEFINE y == Walk(w, x)
           n == Len(f.labels)
           i == in.label
<1>1. /\ x.op = "label" /\ w.kept /\ TempsOf(x.write) = {} /\ TempsOf(Range(x.reads)) = {}
      /\ w.passed = 0 /\ Point(g).passed = 0 /\ Point(g).jumped = Point(f).jumped
      /\ Point(g).placed = Point(f).placed \cup {i}
      /\ g.labels = f.labels /\ g.node = f.node /\ g.dst = f.dst
      /\ w.pending = outer \cup Written(f)
  BY DEF Appends, Uses, TopOK, PlaceOK
<1>2. i \in 4 .. n /\ i # 0 /\ i \notin Point(f).placed /\ x.label = f.labels[i]
  <2>1. i \in 4 .. 3 + Point(f).labels /\ i \notin Point(f).placed
    BY DEF PlaceOK
  <2>2. Point(f).labels \in Nat /\ n = 3 + Point(f).labels
    BY DEF Appends, StateOK
  <2>3. i \in 4 .. n /\ i # 0
    BY <2>1, <2>2
  <2> QED
    BY <2>1, <2>3 DEF Appends, Uses
<1>3. LabelsAt(f, outer, w) /\ \A j, k \in 4 .. n : f.labels[j] = f.labels[k] => j = k
  BY DEF Appends, Uses
<1>4. LabelAt(f, outer, w, i)
  BY <1>2, <1>3 DEF LabelsAt
<1>5. x.label \notin w.placed
  BY <1>2, <1>4 DEF LabelAt
<1>6. Point(f).writ # "redo" /\ w.redo = {}
  BY DEF Appends, Uses, TopOK, PlaceOK
\* What is pending where the label was jumped to.
<1>7. \E after : /\ \/ x.label \in DOMAIN w.awaited /\ after = w.awaited[x.label]
                    \/ x.label \notin DOMAIN w.awaited /\ after = {}
                 /\ after = outer \cup Written(g)
  <2>1. CASE x.label \in DOMAIN w.awaited
    <3>1. w.awaited[x.label] = outer \cup (IF i = EndOf(f.node) THEN {f.dst} ELSE {})
      BY <1>2, <1>4, <2>1 DEF LabelAt
    <3>2. Written(g) = IF i = EndOf(f.node) THEN {f.dst} ELSE {}
      BY <1>1 DEF Written, PlaceOK
    <3> QED
      BY <2>1, <3>1, <3>2
  <2>2. CASE x.label \notin DOMAIN w.awaited
    <3>1. ~IsExpr(f.node)
      BY <1>2, <1>4, <2>2 DEF LabelAt, PlaceOK
    <3>2. outer = {} /\ EndOf(f.node) = 0
      BY <3>1, NoEnd DEF Appends, Uses
    <3>3. Point(g).writ = "no"
      BY <1>2, <3>1, <3>2 DEF PlaceOK
    <3> QED
      BY <2>2, <3>2, <3>3 DEF Written
  <2> QED
    BY <2>1, <2>2
<1>8. PICK after : /\ \/ x.label \in DOMAIN w.awaited /\ after = w.awaited[x.label]
                      \/ x.label \notin DOMAIN w.awaited /\ after = {}
                   /\ after = outer \cup Written(g)
  BY <1>7
<1>9. Written(g) \subseteq Written(f)
  BY <1>1 DEF Written, PlaceOK
<1>10. after \subseteq w.pending
  BY <1>1, <1>8, <1>9
<1>11. /\ y.pending = after /\ y.placed = w.placed \cup {x.label} /\ y.awaited = w.awaited
       /\ y.redo = w.pending \ after /\ y.passed = 0 /\ y.kept
  <2>1. /\ x.op = "label" /\ w.kept /\ TempsOf(x.write) = {} /\ TempsOf(Range(x.reads)) = {}
        /\ w.redo = {} /\ w.passed = 0 /\ x.label \notin w.placed
        /\ after \subseteq w.pending
    BY <1>1, <1>5, <1>6, <1>10
  <2>2. \/ x.label \in DOMAIN w.awaited /\ after = w.awaited[x.label]
        \/ x.label \notin DOMAIN w.awaited /\ after = {}
    BY <1>8
  <2> QED
    BY <2>1, <2>2, WalkLabel
<1> HIDE DEF y
<1>12. y.redo = IF Point(g).writ = "redo" THEN {f.dst} ELSE {}
  <2>1. CASE Point(g).writ = "redo"
    <3>1. Point(f).writ = "yes" /\ Written(f) = {f.dst} /\ Written(g) = {}
      BY <2>1 DEF PlaceOK, Written
    <3>2. f.dst \notin outer
      BY DEF Appends, Uses, Private
    <3> QED
      BY <1>1, <1>8, <1>11, <2>1, <3>1, <3>2
  <2>2. CASE Point(g).writ # "redo"
    <3>1. Written(f) = Written(g)
      BY <1>1, <2>2 DEF PlaceOK, Written
    <3> QED
      BY <1>1, <1>8, <1>11, <2>2, <3>1
  <2> QED
    BY <2>1, <2>2
<1>13. TopOK(g, outer, y)
  BY <1>1, <1>8, <1>11, <1>12 DEF TopOK
<1>14. LabelsAt(g, outer, y)
  <2> SUFFICES ASSUME NEW k \in 4 .. n
               PROVE  LabelAt(g, outer, y, k)
    BY <1>1 DEF LabelsAt
  <2>1. LabelAt(f, outer, w, k)
    BY <1>3 DEF LabelsAt
  <2>2. f.labels[k] \in y.placed <=> k \in Point(g).placed
    <3>1. f.labels[k] = x.label <=> k = i
      BY <1>2, <1>3
    <3> QED
      BY <1>1, <1>11, <2>1, <3>1 DEF LabelAt
  <2> QED
    BY <1>1, <1>11, <2>1, <2>2 DEF LabelAt
<1>15. OthersStay(f, w, y)
  <2>1. x.label \in Owns(f)
    BY <1>2 DEF Owns
  <2> QED
    BY <1>11, <2>1 DEF OthersStay
<1> QED
  BY <1>2, <1>11, <1>13, <1>14, <1>15 DEF y

-----------------------------------------------------------------------------
(* The stack of calls, and the register allocator behind the code so far.   *)

\* What is held below the k-th call.
Outer(s, k) == {v \in Val : \E j \in 1 .. k - 1 : v \in HeldTemps(s[j])}

\* f is below g: they hold different temporaries and have different labels, and a
\* statement is translated when nothing is held.
Below(f, g) ==
    /\ HeldTemps(f) \cap (HeldTemps(g) \cup Private(g)) = {}
    /\ IsExpr(g.node) \/ (HeldTemps(f) = {} /\ ~IsExpr(f.node))
    /\ Owns(f) \cap Owns(g) = {}

\* f waits for g to return.
Waits(f, g) ==
    LET o == Script(f.node)[f.pos]
    IN  /\ f.pos \in DOMAIN Script(f.node)
        /\ \/ o.do = "get" /\ IsExpr(g.node) /\ g.dst \notin HeldTemps(f) \cup Private(f)
           \/ o.do = "into" /\ IsExpr(g.node) /\ g.dst = Operand(f, o.dst)
           \/ o.do = "run" /\ ~IsExpr(g.node)

\* The labels that a statement was given belong to a statement around it.
LabelsGiven(s, k) ==
    IsExpr(s[k].node) \/ \A i \in 1 .. 3 : \/ s[k].labels[i] = 0
                                           \/ \E j \in 1 .. k - 1 : s[k].labels[i] \in Owns(s[j])

\* A call that has just been made, and may have been, by f on top of the stack.
NewCall(g, t, l) ==
    /\ FrameOK(g, t, l) /\ Point(g) = Has(<<>>) /\ Len(g.labels) = 3
    /\ HeldTemps(g) = {} /\ Owns(g) = {} /\ Private(g) = {g.dst}
MayEnter(s, f, g) ==
    /\ g.node.is # "function" /\ Waits(f, g)
    /\ \A j \in 1 .. Len(s) : g.dst \notin HeldTemps(s[j])
    /\ \/ IsExpr(g.node)
       \/ /\ ~IsExpr(f.node) /\ HeldTemps(f) = {}
          /\ \A i \in 1 .. 3 : g.labels[i] = 0 \/ \E j \in 1 .. Len(s) : g.labels[i] \in Owns(s[j])

Pushes(s, q, g) ==
    /\ q \in Seq(Frames) /\ Len(q) = Len(s) + 1 /\ q[Len(q)] = g
    /\ \A j \in 1 .. Len(s) : q[j] = s[j]

StackOK(s, t, l) ==
    /\ s \in Seq(Frames)
    /\ \A k \in 1 .. Len(s) : FrameOK(s[k], t, l) /\ (s[k].node.is = "function" <=> k = 1)
    /\ \A j, k \in 1 .. Len(s) : j < k => Below(s[j], s[k])
    /\ \A k \in 1 .. Len(s) : k + 1 \in 1 .. Len(s) => Waits(s[k], s[k + 1])
    /\ \A k \in 1 .. Len(s) : LabelsGiven(s, k)

WalkOK(s, w, l) ==
    /\ w.kept /\ w.placed \subseteq 1 .. l /\ DOMAIN w.awaited \subseteq 1 .. l
    /\ \A m \in DOMAIN w.awaited : m \in w.placed \/ \E k \in 1 .. Len(s) : m \in Owns(s[k])
    /\ \A k \in 1 .. Len(s) : LabelsAt(s[k], Outer(s, k), w)
    /\ s # <<>> => TopOK(s[Len(s)], Outer(s, Len(s)), w)

\* What g, in the place of the n-th call, has to leave as it was.
Stands(s, n, g) ==
    /\ g.node = s[n].node /\ g.dst = s[n].dst /\ \A i \in 1 .. 3 : g.labels[i] = s[n].labels[i]
    /\ \A j \in 1 .. n - 1 : /\ HeldTemps(s[j]) \cap (HeldTemps(g) \cup Private(g)) = {}
                             /\ Owns(s[j]) \cap Owns(g) = {}

LEMMA OuterIs ==
    ASSUME NEW s, NEW k \in Nat \ {0}
    PROVE  /\ Outer(s, k + 1) = Outer(s, k) \cup HeldTemps(s[k])
           /\ \A j \in 1 .. k - 1 : HeldTemps(s[j]) \subseteq Outer(s, k)
<1>1. \A j \in 1 .. k + 1 - 1 : j \in 1 .. k - 1 \/ j = k
  OBVIOUS
<1>2. k \in 1 .. k + 1 - 1 /\ \A j \in 1 .. k - 1 : j \in 1 .. k + 1 - 1
  OBVIOUS
<1>3. \A f : HeldTemps(f) \subseteq Val
  BY DEF HeldTemps
<1> QED
  BY <1>1, <1>2, <1>3 DEF Outer

LEMMA OuterSame ==
    ASSUME NEW s, NEW q, NEW k \in Nat, \A j \in 1 .. k - 1 : q[j] = s[j]
    PROVE  Outer(q, k) = Outer(s, k)
BY DEF Outer

\* The call at place n of s becomes g, and those above it have returned.
LEMMA StackBecomes ==
    ASSUME NEW s, NEW t \in Nat, NEW l \in Nat, StackOK(s, t, l),
           NEW u \in Nat, u >= t, NEW m \in Nat, m >= l,
           NEW n \in 1 .. Len(s), NEW g, FrameOK(g, u, m),
           NEW q \in Seq(Frames), Len(q) = n, \A j \in 1 .. n - 1 : q[j] = s[j], q[n] = g,
           Stands(s, n, g)
    PROVE  StackOK(q, u, m)
<1> SUFFICES ASSUME g.node = s[n].node, g.dst = s[n].dst,
                    \A i \in 1 .. 3 : g.labels[i] = s[n].labels[i],
                    \A j \in 1 .. n - 1 :
                        /\ HeldTemps(s[j]) \cap (HeldTemps(g) \cup Private(g)) = {}
                        /\ Owns(s[j]) \cap Owns(g) = {}
             PROVE  StackOK(q, u, m)
  BY DEF Stands
<1>1. /\ n \in Nat /\ Len(s) \in Nat
      /\ \A k \in 1 .. n : k \in 1 .. n - 1 \/ k = n
      /\ \A k \in 1 .. n : k \in 1 .. Len(s)
      /\ \A k \in 1 .. n - 1 : k \in 1 .. Len(s) /\ k \in 1 .. n
      /\ \A k \in 1 .. n : \A j \in 1 .. k - 1 : j \in 1 .. n - 1
      /\ \A j \in 1 .. n - 1 : j < n
  BY DEF StackOK
<1>2. \A k \in 1 .. n : FrameOK(q[k], u, m) /\ (q[k].node.is = "function" <=> k = 1)
  <2> TAKE k \in 1 .. n
  <2>1. CASE k \in 1 .. n - 1
    <3>1. FrameOK(s[k], t, l) /\ q[k] = s[k] /\ (s[k].node.is = "function" <=> k = 1)
      BY <1>1, <2>1 DEF StackOK
    <3> QED
      BY <3>1, FrameGrows
  <2>2. CASE k = n
    BY <1>1, <2>2 DEF StackOK
  <2> QED
    BY <1>1, <2>1, <2>2
<1>3. \A j, k \in 1 .. n : j < k => Below(q[j], q[k])
  <2> TAKE j, k \in 1 .. n
  <2> HAVE j < k
  <2>1. j \in 1 .. n - 1 /\ j \in 1 .. Len(s) /\ k \in 1 .. Len(s) /\ q[j] = s[j]
    BY <1>1
  <2>2. Below(s[j], s[k])
    BY <2>1 DEF StackOK
  <2>3. CASE k \in 1 .. n - 1
    BY <2>1, <2>2, <2>3
  <2>4. CASE k = n
    <3>1. /\ HeldTemps(s[j]) \cap (HeldTemps(g) \cup Private(g)) = {} /\ Owns(s[j]) \cap Owns(g) = {}
      BY <2>1
    <3> QED
      BY <2>1, <2>2, <2>4, <3>1 DEF Below
  <2> QED
    BY <1>1, <2>3, <2>4
<1>4. \A k \in 1 .. n : k + 1 \in 1 .. n => Waits(q[k], q[k + 1])
  <2> TAKE k \in 1 .. n
  <2> HAVE k + 1 \in 1 .. n
  <2>1. k \in 1 .. n - 1 /\ k \in 1 .. Len(s) /\ k + 1 \in 1 .. Len(s) /\ q[k] = s[k]
    BY <1>1
  <2>2. Waits(s[k], s[k + 1])
    BY <2>1 DEF StackOK
  <2>3. q[k + 1].node = s[k + 1].node /\ q[k + 1].dst = s[k + 1].dst
    BY <1>1
  <2> QED
    BY <2>1, <2>2, <2>3 DEF Waits
<1>5. \A k \in 1 .. n : LabelsGiven(q, k)
  <2> TAKE k \in 1 .. n
  <2>1. LabelsGiven(s, k)
    BY <1>1 DEF StackOK
  <2>2. q[k].node = s[k].node /\ \A i \in 1 .. 3 : q[k].labels[i] = s[k].labels[i]
    BY <1>1
  <2>3. \A j \in 1 .. k - 1 : q[j] = s[j]
    BY <1>1
  <2> QED
    BY <2>1, <2>2, <2>3 DEF LabelsGiven
<1> QED
  BY <1>2, <1>3, <1>4, <1>5 DEF StackOK

\* A call is made.
LEMMA StackEnters ==
    ASSUME NEW s, NEW t \in Nat, NEW l \in Nat, StackOK(s, t, l), s # <<>>,
           NEW u \in Nat, u >= t, NEW g, NewCall(g, u, l), MayEnter(s, s[Len(s)], g),
           NEW q, q = Append(s, g)
    PROVE  StackOK(q, u, l) /\ Pushes(s, q, g)
<1> DEFINE f == s[Len(s)]
<1>0. /\ FrameOK(g, u, l) /\ HeldTemps(g) = {} /\ Owns(g) = {}
      /\ g.node.is # "function" /\ Waits(f, g)
      /\ \A j \in 1 .. Len(s) : HeldTemps(s[j]) \cap Private(g) = {}
      /\ IsExpr(g.node) \/ (~IsExpr(f.node) /\ HeldTemps(f) = {})
      /\ IsExpr(g.node) \/ \A i \in 1 .. 3 : \/ g.labels[i] = 0
                                             \/ \E j \in 1 .. Len(s) : g.labels[i] \in Owns(s[j])
  BY DEF NewCall, MayEnter
<1>9. f = s[Len(s)]
  OBVIOUS
<1> HIDE DEF f
<1> DEFINE n == Len(s)
<1>1. /\ q \in Seq(Frames) /\ Len(q) = n + 1 /\ q[n + 1] = g /\ n \in Nat /\ n > 0
      /\ \A j \in 1 .. n : q[j] = s[j]
  BY <1>0 DEF StackOK, FrameOK
<1> HIDE DEF n
<1>2. /\ \A k \in 1 .. n + 1 : k \in 1 .. n \/ k = n + 1
      /\ \A k \in 1 .. n + 1 : \A j \in 1 .. k - 1 : j \in 1 .. n
      /\ n \in 1 .. n
  BY <1>1
<1>3. \A k \in 1 .. n + 1 : FrameOK(q[k], u, l) /\ (q[k].node.is = "function" <=> k = 1)
  <2> TAKE k \in 1 .. n + 1
  <2>1. CASE k \in 1 .. n
    <3>1. FrameOK(s[k], t, l) /\ q[k] = s[k] /\ (s[k].node.is = "function" <=> k = 1)
      BY <1>1, <2>1 DEF StackOK, n
    <3> QED
      BY <3>1, FrameGrows
  <2>2. CASE k = n + 1
    BY <1>0, <1>1, <2>2
  <2> QED
    BY <1>2, <2>1, <2>2
<1>4. \A j \in 1 .. n : Below(s[j], g)
  <2> TAKE j \in 1 .. n
  <2>1. IsExpr(g.node) \/ (HeldTemps(s[j]) = {} /\ ~IsExpr(s[j].node))
    <3>1. CASE j = n
      BY <1>0, <1>9, <3>1 DEF n
    <3>2. CASE j # n
      <4>1. Below(s[j], s[n])
        BY <1>1, <1>2, <3>2 DEF StackOK, n
      <4> QED
        BY <1>0, <1>9, <4>1 DEF Below, n
    <3> QED
      BY <3>1, <3>2
  <2> QED
    BY <1>0, <1>9, <2>1 DEF Below, n
<1>5. \A j, k \in 1 .. n + 1 : j < k => Below(q[j], q[k])
  <2> TAKE j, k \in 1 .. n + 1
  <2> HAVE j < k
  <2>1. j \in 1 .. n
    BY <1>1
  <2>2. CASE k \in 1 .. n
    BY <1>1, <2>1, <2>2 DEF StackOK, n
  <2>3. CASE k = n + 1
    BY <1>1, <1>4, <2>1, <2>3
  <2> QED
    BY <1>2, <2>2, <2>3
<1>6. \A k \in 1 .. n + 1 : k + 1 \in 1 .. n + 1 => Waits(q[k], q[k + 1])
  <2> TAKE k \in 1 .. n + 1
  <2> HAVE k + 1 \in 1 .. n + 1
  <2>1. k \in 1 .. n /\ q[k] = s[k]
    BY <1>1
  <2>2. CASE k + 1 \in 1 .. n
    BY <1>1, <2>1, <2>2 DEF StackOK, n
  <2>3. CASE k = n
    BY <1>0, <1>1, <1>9, <2>1, <2>3 DEF n
  <2>4. k + 1 \in 1 .. n \/ k = n
    BY <1>1
  <2> QED
    BY <2>2, <2>3, <2>4
<1>7. \A k \in 1 .. n + 1 : LabelsGiven(q, k)
  <2> TAKE k \in 1 .. n + 1
  <2>1. \A j \in 1 .. k - 1 : q[j] = s[j] /\ j \in 1 .. n
    BY <1>1, <1>2
  <2>2. CASE k \in 1 .. n
    <3>1. LabelsGiven(s, k) /\ q[k] = s[k]
      BY <1>1, <2>2 DEF StackOK, n
    <3> QED
      BY <2>1, <3>1 DEF LabelsGiven
  <2>3. CASE k = n + 1
    <3>1. q[k] = g /\ \A j \in 1 .. n : j \in 1 .. k - 1
      BY <1>1, <2>3
    <3> QED
      BY <1>0, <1>1, <3>1 DEF LabelsGiven, n
  <2> QED
    BY <1>2, <2>2, <2>3
<1>8. StackOK(q, u, l)
  BY <1>1, <1>3, <1>5, <1>6, <1>7 DEF StackOK
<1> QED
  BY <1>1, <1>8 DEF n, Pushes

\* The code is what it was, or had the instruction x appended by f.
LEMMA WalkBecomes ==
    ASSUME NEW s, NEW t \in Nat, NEW l \in Nat, StackOK(s, t, l), NEW w, WalkOK(s, w, l),
           NEW m \in Nat, m >= l, NEW n \in 1 .. Len(s), NEW f, f = s[n],
           NEW g, NEW q \in Seq(Frames), Len(q) = n, \A j \in 1 .. n - 1 : q[j] = s[j], q[n] = g,
           NEW y, y.kept, y.placed \subseteq 1 .. m, DOMAIN y.awaited \subseteq 1 .. m,
           \A k \in 1 .. n - 1 : LabelsAt(s[k], Outer(s, k), y),
           LabelsAt(g, Outer(s, n), y), TopOK(g, Outer(s, n), y),
           Owns(f) \subseteq Owns(g), w.placed \subseteq y.placed,
           \A k \in 1 .. Len(s) : k > n => Owns(s[k]) \subseteq y.placed,
           \A d \in DOMAIN y.awaited : d \in DOMAIN w.awaited \/ d \in Owns(g)
                                          \/ \E j \in 1 .. n - 1 : d \in Owns(s[j])
    PROVE  WalkOK(q, y, m)
<1>1. /\ n \in Nat /\ Len(s) \in Nat /\ n > 0
      /\ \A k \in 1 .. n : k \in 1 .. n - 1 \/ k = n
      /\ \A k \in 1 .. n : \A j \in 1 .. k - 1 : j \in 1 .. n - 1
      /\ \A k \in 1 .. n - 1 : k \in 1 .. n
      /\ \A k \in 1 .. Len(s) : k \in 1 .. n - 1 \/ k = n \/ k > n
  BY DEF StackOK
<1>2. \A k \in 1 .. n : Outer(q, k) = Outer(s, k)
  <2> TAKE k \in 1 .. n
  <2>1. k \in Nat /\ \A j \in 1 .. k - 1 : q[j] = s[j]
    BY <1>1
  <2> QED
    BY <2>1, OuterSame
<1>3. \A k \in 1 .. n : LabelsAt(q[k], Outer(q, k), y)
  BY <1>1, <1>2
<1>4. TopOK(q[Len(q)], Outer(q, Len(q)), y)
  <2>1. n \in 1 .. n
    BY <1>1
  <2> QED
    BY <1>2, <2>1
<1>5. \A d \in DOMAIN y.awaited : d \in y.placed \/ \E k \in 1 .. n : d \in Owns(q[k])
  <2> TAKE d \in DOMAIN y.awaited
  <2>1. CASE d \in Owns(g)
    BY <1>1, <2>1
  <2>2. CASE \E j \in 1 .. n - 1 : d \in Owns(s[j])
    BY <1>1, <2>2
  <2>3. CASE d \in DOMAIN w.awaited
    <3>1. d \in w.placed \/ \E k \in 1 .. Len(s) : d \in Owns(s[k])
      BY <2>3 DEF WalkOK
    <3>2. CASE d \in w.placed
      BY <3>2
    <3>3. ASSUME NEW k \in 1 .. Len(s), d \in Owns(s[k])
          PROVE  d \in y.placed \/ \E j \in 1 .. n : d \in Owns(q[j])
      <4>1. CASE k \in 1 .. n - 1
        BY <1>1, <3>3, <4>1
      <4>2. CASE k = n
        BY <1>1, <3>3, <4>2
      <4>3. CASE k > n
        BY <3>3, <4>3
      <4> QED
        BY <1>1, <4>1, <4>2, <4>3
    <3> QED
      BY <3>1, <3>2, <3>3
  <2> QED
    BY <2>1, <2>2, <2>3
<1> QED
  BY <1>3, <1>4, <1>5 DEF WalkOK

\* A call is made: it has no labels of its own yet.
LEMMA WalkEnters ==
    ASSUME NEW s, NEW t \in Nat, NEW l \in Nat, StackOK(s, t, l), NEW w, WalkOK(s, w, l), s # <<>>,
           Idle(Point(s[Len(s)])), NEW u, NEW g, NewCall(g, u, l), NEW q, Pushes(s, q, g)
    PROVE  WalkOK(q, w, l)
<1> DEFINE f == s[Len(s)]
<1>0. /\ Point(f).writ = "no" /\ Point(f).passed = 0
      /\ Point(g) = Has(<<>>) /\ HeldTemps(g) = {} /\ Len(g.labels) = 3
  BY DEF Idle, NewCall
<1>9. /\ q \in Seq(Frames) /\ Len(q) = Len(s) + 1 /\ q[Len(q)] = g
      /\ \A j \in 1 .. Len(s) : q[j] = s[j] /\ f = s[Len(s)]
  BY DEF Pushes
<1> HIDE DEF f
<1> DEFINE n == Len(s)
<1>1. n \in Nat \ {0} /\ n > 0 /\ Len(q) = n + 1 /\ q[n + 1] = g /\ n \in 1 .. n
  BY <1>9 DEF StackOK
<1> HIDE DEF n
<1>2. /\ \A k \in 1 .. n + 1 : k \in 1 .. n \/ k = n + 1
      /\ \A k \in 1 .. n + 1 : k \in Nat /\ \A j \in 1 .. k - 1 : j \in 1 .. n
      /\ \A k \in 1 .. n : k \in 1 .. n + 1
      /\ n + 1 \in 1 .. n + 1
  BY <1>1
<1>3. \A k \in 1 .. n + 1 : Outer(q, k) = Outer(s, k)
  <2> TAKE k \in 1 .. n + 1
  <2>1. k \in Nat /\ \A j \in 1 .. k - 1 : q[j] = s[j]
    BY <1>2, <1>9 DEF n
  <2> QED
    BY <2>1, OuterSame
<1>4. LabelsAt(g, Outer(s, n + 1), w)
  BY <1>0 DEF LabelsAt
<1>5. \A k \in 1 .. n + 1 : LabelsAt(q[k], Outer(q, k), w)
  <2> TAKE k \in 1 .. n + 1
  <2>1. CASE k \in 1 .. n
    BY <1>2, <1>3, <1>9, <2>1 DEF WalkOK, n
  <2>2. CASE k = n + 1
    BY <1>1, <1>2, <1>3, <1>4, <2>2
  <2> QED
    BY <1>2, <2>1, <2>2
<1>6. TopOK(g, Outer(s, n + 1), w)
  <2>1. TopOK(f, Outer(s, n), w)
    BY <1>9 DEF WalkOK, n
  <2>2. Outer(s, n + 1) = Outer(s, n) \cup HeldTemps(f)
    BY <1>1, <1>9, OuterIs DEF n
  <2>3. Has(<<>>).writ = "no" /\ Has(<<>>).passed = 0
    BY DEF Has, Was
  <2> QED
    BY <1>0, <2>1, <2>2, <2>3 DEF TopOK, Written
<1>7. \A d \in DOMAIN w.awaited : d \in w.placed \/ \E k \in 1 .. n + 1 : d \in Owns(q[k])
  BY <1>2, <1>9 DEF WalkOK, n
<1>8. w.kept /\ w.placed \subseteq 1 .. l /\ DOMAIN w.awaited \subseteq 1 .. l
  BY DEF WalkOK
<1> QED
  BY <1>1, <1>2, <1>3, <1>5, <1>6, <1>7, <1>8 DEF WalkOK

-----------------------------------------------------------------------------
(* The steps of the generator.                                              *)

\* The call on top of the stack.
LEMMA TopIs ==
    ASSUME NEW s, NEW t \in Nat, NEW l \in Nat, StackOK(s, t, l), s # <<>>, NEW f, f = s[Len(s)]
    PROVE  /\ Len(s) \in Nat /\ Len(s) > 0 /\ Len(s) \in 1 .. Len(s)
           /\ s \in Seq(Frames) /\ f \in Frames /\ FrameOK(f, t, l)
           /\ f.pos \in DOMAIN States(f.node)
<1>1. s \in Seq(Frames) /\ Len(s) \in Nat /\ Len(s) > 0 /\ Len(s) \in 1 .. Len(s)
  BY DEF StackOK
<1>2. FrameOK(f, t, l)
  BY <1>1 DEF StackOK
<1> QED
  BY <1>1, <1>2 DEF FrameOK

\* The call at place n goes on without an instruction: those above it have returned.
LEMMA GoesOn ==
    ASSUME NEW s, NEW t \in Nat, NEW l \in Nat, StackOK(s, t, l), NEW w, WalkOK(s, w, l),
           NEW u \in Nat, u >= t, NEW m \in Nat, m >= l, NEW n \in 1 .. Len(s),
           NEW f, f = s[n], NEW g, Follows(f, g), FrameOK(g, u, m),
           NEW q \in Seq(Frames), Len(q) = n, \A j \in 1 .. n - 1 : q[j] = s[j], q[n] = g,
           \A i \in 1 .. 3 : g.labels[i] = f.labels[i],
           Owns(f) \subseteq Owns(g), Owns(g) \subseteq Owns(f) \cup {l + 1},
           LabelsAt(g, Outer(s, n), w), TopOK(g, Outer(s, n), w),
           \A j \in 1 .. n - 1 : HeldTemps(s[j]) \cap (HeldTemps(g) \cup Private(g)) = {},
           \A k \in 1 .. Len(s) : k > n => Owns(s[k]) \subseteq w.placed
    PROVE  StackOK(q, u, m) /\ WalkOK(q, w, m)
<1>1. /\ Len(s) \in Nat /\ n \in Nat
      /\ \A j \in 1 .. n - 1 : j \in 1 .. Len(s) /\ j < n
      /\ g.node = f.node /\ g.dst = f.dst
  BY DEF StackOK, Follows
<1>2. ASSUME NEW j \in 1 .. n - 1
      PROVE  Owns(s[j]) \cap Owns(g) = {}
  <2>1. FrameOK(s[j], t, l) /\ Below(s[j], f)
    BY <1>1 DEF StackOK
  <2>2. Owns(s[j]) \subseteq 0 .. l
    <3>1. \A i \in 4 .. Len(s[j].labels) : i \in 1 .. Len(s[j].labels)
      OBVIOUS
    <3> QED
      BY <2>1, <3>1 DEF FrameOK, Owns
  <2>3. l + 1 \notin 0 .. l
    OBVIOUS
  <2> QED
    BY <2>1, <2>2, <2>3 DEF Below
<1>3. StackOK(q, u, m)
  <2>1. Stands(s, n, g)
    BY <1>1, <1>2 DEF Stands
  <2> QED
    BY <2>1, StackBecomes
<1>4. /\ w.kept /\ w.placed \subseteq 1 .. m /\ DOMAIN w.awaited \subseteq 1 .. m
      /\ \A k \in 1 .. n - 1 : LabelsAt(s[k], Outer(s, k), w)
  <2>1. 1 .. l \subseteq 1 .. m
    OBVIOUS
  <2> QED
    BY <1>1, <2>1 DEF WalkOK
<1>5. \A d \in DOMAIN w.awaited : d \in DOMAIN w.awaited \/ d \in Owns(g)
                                     \/ \E j \in 1 .. n - 1 : d \in Owns(s[j])
  OBVIOUS
<1>6. WalkOK(q, w, m)
  BY <1>4, <1>5, WalkBecomes
<1> QED
  BY <1>3, <1>6

\* No label of the call was made, placed or jumped to.
LEMMA LabelsSame ==
    ASSUME NEW f, NEW g, NEW outer, NEW w, LabelsAt(f, outer, w), Follows(f, g),
           g.labels = f.labels, Point(g).placed = Point(f).placed, Point(g).jumped = Point(f).jumped
    PROVE  LabelsAt(g, outer, w) /\ Owns(g) = Owns(f)
BY DEF LabelsAt, LabelAt, Follows, Owns

LEMMA TopSame ==
    ASSUME NEW f, NEW g, NEW outer, NEW w, TopOK(f, outer, w), Idle(Point(f)), Idle(Point(g)),
           HeldTemps(g) = HeldTemps(f)
    PROVE  TopOK(g, outer, w)
BY DEF TopOK, Idle, Written

\* [stack EXCEPT ![Len(stack)] = g].
LEMMA BecomeIs ==
    ASSUME NEW s \in Seq(Frames), s # <<>>, NEW g \in Frames, NEW q, q = [s EXCEPT ![Len(s)] = g]
    PROVE  /\ q \in Seq(Frames) /\ Len(q) = Len(s) /\ q[Len(s)] = g
           /\ \A j \in 1 .. Len(s) - 1 : q[j] = s[j]
<1> DEFINE n == Len(s)
           r == [s EXCEPT ![n] = g]
<1>1. n \in Nat /\ n \in 1 .. n
  OBVIOUS
<1>2. /\ r \in Seq(Frames) /\ Len(r) = n
      /\ \A j \in 1 .. n : r[j] = IF j = n THEN g ELSE s[j]
  BY <1>1, ExceptSeq
<1>3. q = r
  OBVIOUS
<1> HIDE DEF r, n
<1>4. q[n] = g /\ \A j \in 1 .. n - 1 : q[j] = s[j]
  <2>1. \A j \in 1 .. n - 1 : j \in 1 .. n /\ j # n
    BY <1>1
  <2> QED
    BY <1>1, <1>2, <1>3, <2>1
<1> QED
  BY <1>2, <1>3, <1>4 DEF n

\* A call goes on with what it holds, its labels or its temporaries changed.
Holding(f, h)  == [Step(f) EXCEPT !.held = h]
Labelled(f, h) == [Step(f) EXCEPT !.labels = h]
Making(f, h)   == [Step(f) EXCEPT !.temps = h]
LEMMA HoldsNow ==
    ASSUME NEW f \in Frames, NEW h \in Seq(Val)
    PROVE  /\ Follows(f, Holding(f, h))
           /\ Holding(f, h).held = h /\ Holding(f, h).labels = f.labels /\ Holding(f, h).temps = f.temps
<1> DEFINE g == Holding(f, h)
<1>7. g = [Step(f) EXCEPT !.held = h]
  BY DEF Holding
<1> HIDE DEF g
<1>1. /\ f.node \in Called /\ f.pos \in Nat /\ f.dst \in Val \cup {NoVar} /\ f.held \in Seq(Val)
      /\ f.labels \in Seq(Nat) /\ f.temps \in Seq(Val)
  BY FrameIs
<1>2. f = [node |-> f.node, pos |-> f.pos, dst |-> f.dst, held |-> f.held,
           labels |-> f.labels, temps |-> f.temps]
  BY DEF Frames
<1>3. Step(f) = [node |-> f.node, pos |-> f.pos + 1, dst |-> f.dst, held |-> f.held,
                 labels |-> f.labels, temps |-> f.temps]
  BY <1>2 DEF Step
<1>4. g = [node |-> f.node, pos |-> f.pos + 1, dst |-> f.dst, held |-> h,
           labels |-> f.labels, temps |-> f.temps]
  BY <1>3, <1>7
<1>5. f.pos + 1 \in Nat
  BY <1>1
<1>6. g \in Frames
  <2>1. \A a \in Called, b \in Nat, c \in Val \cup {NoVar}, d \in Seq(Val), e \in Seq(Nat),
           i \in Seq(Val) :
           [node |-> a, pos |-> b, dst |-> c, held |-> d, labels |-> e, temps |-> i] \in Frames
    BY DEF Frames
  <2>2. [node |-> f.node, pos |-> f.pos + 1, dst |-> f.dst,
             held |-> h, labels |-> f.labels, temps |-> f.temps] \in Frames
    BY <1>1, <1>5, <2>1
  <2> QED
    BY <1>4, <2>2
<1> QED
  BY <1>4, <1>6 DEF Follows, g

LEMMA LabelsNow ==
    ASSUME NEW f \in Frames, NEW h \in Seq(Nat)
    PROVE  /\ Follows(f, Labelled(f, h))
           /\ Labelled(f, h).held = f.held /\ Labelled(f, h).labels = h /\ Labelled(f, h).temps = f.temps
<1> DEFINE g == Labelled(f, h)
<1>7. g = [Step(f) EXCEPT !.labels = h]
  BY DEF Labelled
<1> HIDE DEF g
<1>1. /\ f.node \in Called /\ f.pos \in Nat /\ f.dst \in Val \cup {NoVar} /\ f.held \in Seq(Val)
      /\ f.labels \in Seq(Nat) /\ f.temps \in Seq(Val)
  BY FrameIs
<1>2. f = [node |-> f.node, pos |-> f.pos, dst |-> f.dst, held |-> f.held,
           labels |-> f.labels, temps |-> f.temps]
  BY DEF Frames
<1>3. Step(f) = [node |-> f.node, pos |-> f.pos + 1, dst |-> f.dst, held |-> f.held,
                 labels |-> f.labels, temps |-> f.temps]
  BY <1>2 DEF Step
<1>4. g = [node |-> f.node, pos |-> f.pos + 1, dst |-> f.dst, held |-> f.held,
           labels |-> h, temps |-> f.temps]
  BY <1>3, <1>7
<1>5. f.pos + 1 \in Nat
  BY <1>1
<1>6. g \in Frames
  <2>1. \A a \in Called, b \in Nat, c \in Val \cup {NoVar}, d \in Seq(Val), e \in Seq(Nat),
           i \in Seq(Val) :
           [node |-> a, pos |-> b, dst |-> c, held |-> d, labels |-> e, temps |-> i] \in Frames
    BY DEF Frames
  <2>2. [node |-> f.node, pos |-> f.pos + 1, dst |-> f.dst,
             held |-> f.held, labels |-> h, temps |-> f.temps] \in Frames
    BY <1>1, <1>5, <2>1
  <2> QED
    BY <1>4, <2>2
<1> QED
  BY <1>4, <1>6 DEF Follows, g

LEMMA TempsNow ==
    ASSUME NEW f \in Frames, NEW h \in Seq(Val)
    PROVE  /\ Follows(f, Making(f, h))
           /\ Making(f, h).held = f.held /\ Making(f, h).labels = f.labels /\ Making(f, h).temps = h
<1> DEFINE g == Making(f, h)
<1>7. g = [Step(f) EXCEPT !.temps = h]
  BY DEF Making
<1> HIDE DEF g
<1>1. /\ f.node \in Called /\ f.pos \in Nat /\ f.dst \in Val \cup {NoVar} /\ f.held \in Seq(Val)
      /\ f.labels \in Seq(Nat) /\ f.temps \in Seq(Val)
  BY FrameIs
<1>2. f = [node |-> f.node, pos |-> f.pos, dst |-> f.dst, held |-> f.held,
           labels |-> f.labels, temps |-> f.temps]
  BY DEF Frames
<1>3. Step(f) = [node |-> f.node, pos |-> f.pos + 1, dst |-> f.dst, held |-> f.held,
                 labels |-> f.labels, temps |-> f.temps]
  BY <1>2 DEF Step
<1>4. g = [node |-> f.node, pos |-> f.pos + 1, dst |-> f.dst, held |-> f.held,
           labels |-> f.labels, temps |-> h]
  BY <1>3, <1>7
<1>5. f.pos + 1 \in Nat
  BY <1>1
<1>6. g \in Frames
  <2>1. \A a \in Called, b \in Nat, c \in Val \cup {NoVar}, d \in Seq(Val), e \in Seq(Nat),
           i \in Seq(Val) :
           [node |-> a, pos |-> b, dst |-> c, held |-> d, labels |-> e, temps |-> i] \in Frames
    BY DEF Frames
  <2>2. [node |-> f.node, pos |-> f.pos + 1, dst |-> f.dst,
             held |-> f.held, labels |-> f.labels, temps |-> h] \in Frames
    BY <1>1, <1>5, <2>1
  <2> QED
    BY <1>4, <2>2
<1> QED
  BY <1>4, <1>6 DEF Follows, g

\* The state of the generator.
GenOK(s, t, l, w) == t \in Nat /\ l \in Nat /\ StackOK(s, t, l) /\ WalkOK(s, w, l)

\* What is held below has been made before.
LEMMA HeldBelow ==
    ASSUME NEW s, NEW t \in Nat, NEW l \in Nat, StackOK(s, t, l), NEW j \in 1 .. Len(s)
    PROVE  /\ Temp(t + 1) \notin HeldTemps(s[j]) /\ Temp(t + 1) \notin Private(s[j])
           /\ HeldTemps(s[j]) \subseteq Temps(t)
<1>1. FrameOK(s[j], t, l) /\ s[j] \in Frames
  BY DEF StackOK, FrameOK
<1>2. /\ DOMAIN s[j].held = 1 .. Len(s[j].held) /\ DOMAIN s[j].temps = 1 .. Len(s[j].temps)
      /\ s[j].dst \in Temps(t) \cup {NoVar}
      /\ \A i \in 1 .. Len(s[j].temps) : s[j].temps[i] \in Temps(t)
      /\ \A i \in 1 .. Len(s[j].held) : s[j].held[i].kind = "temp" => s[j].held[i] \in Temps(t)
  BY <1>1, FrameIs DEF FrameOK, HeldOK
<1>3. Temp(t + 1) \notin Temps(t) \cup {NoVar}
  BY DEF Temps, Temp, NoVar
<1>4. HeldTemps(s[j]) \subseteq Temps(t) /\ Private(s[j]) \subseteq Temps(t) \cup {NoVar}
  BY <1>2 DEF HeldTemps, Private
<1> QED
  BY <1>3, <1>4

\* f becomes g without an instruction; the counters go from t and l to u and m.
GoesTo(f, g, t, l, u, m, outer, w) ==
    /\ Follows(f, g) /\ FrameOK(g, u, m) /\ HeldTemps(g) = HeldTemps(f)
    /\ Private(g) \subseteq Private(f) \cup {Temp(t + 1)}
    /\ \A i \in 1 .. 3 : g.labels[i] = f.labels[i]
    /\ Owns(f) \subseteq Owns(g) /\ Owns(g) \subseteq Owns(f) \cup {l + 1}
    /\ Idle(Point(f)) /\ Idle(Point(g)) /\ LabelsAt(g, outer, w)

\* The call on top goes on without an instruction.
LEMMA TopGoesOn ==
    ASSUME NEW s, NEW t, NEW l, NEW w, GenOK(s, t, l, w), s # <<>>, NEW f, f = s[Len(s)],
           NEW u \in Nat, u >= t, NEW m \in Nat, m >= l, NEW g,
           GoesTo(f, g, t, l, u, m, Outer(s, Len(s)), w),
           NEW q, q = [s EXCEPT ![Len(s)] = g]
    PROVE  GenOK(q, u, m, w)
<1>1. t \in Nat /\ l \in Nat /\ StackOK(s, t, l) /\ WalkOK(s, w, l)
  BY DEF GenOK
<1>8. /\ Follows(f, g) /\ FrameOK(g, u, m) /\ HeldTemps(g) = HeldTemps(f)
      /\ Private(g) \subseteq Private(f) \cup {Temp(t + 1)}
      /\ \A i \in 1 .. 3 : g.labels[i] = f.labels[i]
      /\ Owns(f) \subseteq Owns(g) /\ Owns(g) \subseteq Owns(f) \cup {l + 1}
      /\ Idle(Point(f)) /\ Idle(Point(g)) /\ LabelsAt(g, Outer(s, Len(s)), w)
  BY DEF GoesTo
<1>2. Len(s) \in Nat /\ Len(s) > 0 /\ Len(s) \in 1 .. Len(s) /\ s \in Seq(Frames)
  BY <1>1, TopIs
<1>3. /\ q \in Seq(Frames) /\ Len(q) = Len(s) /\ q[Len(s)] = g
      /\ \A j \in 1 .. Len(s) - 1 : q[j] = s[j]
  <2>1. g \in Frames
    BY <1>8 DEF Follows
  <2> QED
    BY <1>2, <2>1, BecomeIs
<1>4. TopOK(g, Outer(s, Len(s)), w)
  <2>1. TopOK(f, Outer(s, Len(s)), w)
    BY <1>1 DEF WalkOK
  <2> QED
    BY <1>8, <2>1, TopSame
<1>5. ASSUME NEW j \in 1 .. Len(s) - 1
      PROVE  HeldTemps(s[j]) \cap (HeldTemps(g) \cup Private(g)) = {}
  <2>1. j \in 1 .. Len(s) /\ j < Len(s)
    BY <1>2
  <2>2. Below(s[j], f) /\ Temp(t + 1) \notin HeldTemps(s[j])
    BY <1>1, <1>2, <2>1, HeldBelow DEF StackOK
  <2> QED
    BY <1>8, <2>2 DEF Below
<1>6. \A k \in 1 .. Len(s) : k > Len(s) => Owns(s[k]) \subseteq w.placed
  BY <1>2
<1>7. StackOK(q, u, m) /\ WalkOK(q, w, m)
  BY <1>1, <1>2, <1>3, <1>4, <1>5, <1>6, <1>8, GoesOn
<1> QED
  BY <1>7 DEF GenOK

\* The call on top, its order, and what the table says of them.
LEMMA OrderIs ==
    ASSUME NEW s, NEW t, NEW l, NEW w, GenOK(s, t, l, w), s # <<>>, NEW f, f = s[Len(s)],
           f.pos \in DOMAIN Script(f.node)
    PROVE  /\ t \in Nat /\ l \in Nat /\ StackOK(s, t, l) /\ WalkOK(s, w, l)
           /\ Len(s) \in Nat /\ Len(s) > 0 /\ Len(s) \in 1 .. Len(s) /\ s \in Seq(Frames)
           /\ f \in Frames /\ FrameOK(f, t, l)
           /\ OrderOK(f.node, Script(f.node)[f.pos], Point(f), Next1(f))
           /\ StateOK(Point(f)) /\ StateOK(Next1(f))
           /\ LabelsAt(f, Outer(s, Len(s)), w) /\ TopOK(f, Outer(s, Len(s)), w)
<1>1. t \in Nat /\ l \in Nat /\ StackOK(s, t, l) /\ WalkOK(s, w, l)
  BY DEF GenOK
<1>2. /\ Len(s) \in Nat /\ Len(s) > 0 /\ Len(s) \in 1 .. Len(s) /\ s \in Seq(Frames)
      /\ f \in Frames /\ FrameOK(f, t, l)
  BY <1>1, TopIs
<1>3. LabelsAt(f, Outer(s, Len(s)), w) /\ TopOK(f, Outer(s, Len(s)), w)
  BY <1>1, <1>2 DEF WalkOK
<1> QED
  BY <1>1, <1>2, <1>3, OrderHolds

\* GetAtom: a name or a number is held.
LEMMA AtomFrame ==
    ASSUME NEW t \in Nat, NEW l \in Nat, NEW f, FrameOK(f, t, l), f.pos \in DOMAIN Script(f.node),
           NEW o, GetOK(o, Point(f), Next1(f)), o.node.is \in {"num", "id"},
           NEW outer, NEW w, LabelsAt(f, outer, w),
           NEW g, Follows(f, g), g.held = Append(f.held, Atom(o.node)),
           g.labels = f.labels, g.temps = f.temps
    PROVE  GoesTo(f, g, t, l, t, l, outer, w)
<1> DEFINE v == Atom(o.node)
<1>1. f \in Frames
  BY DEF FrameOK
<1>3. v \in Val /\ v.kind \in {"const", "var"}
  <2>1. o.node \in Nodes
    BY DEF GetOK
  <2>2. (o.node.is = "num" => o.node.val \in Int) /\ (o.node.is = "id" => o.node.var \in 1 .. NumVars)
    BY <2>1, NodesAssumption
  <2>3. 1 .. NumVars \subseteq Int
    OBVIOUS
  <2> QED
    BY <2>2, <2>3 DEF Atom, Const, Var, Val
<1>4. g.held = Append(f.held, v)
  OBVIOUS
<1> HIDE DEF v
<1>5. f.held \in Seq(Val) /\ DOMAIN f.temps = 1 .. Len(f.temps)
  BY <1>1, FrameIs
<1>6. HeldOK(f, Got, v, t) /\ v \notin HeldTemps(f)
  <2>1. f.dst \in Temps(t) \cup {NoVar} /\ \A i \in 1 .. Len(f.temps) : f.temps[i] \in Temps(t)
    BY DEF FrameOK
  <2>2. v \notin Temps(t) \cup {NoVar}
    BY <1>3 DEF Temps, NoVar
  <2>3. v \notin Private(f)
    BY <1>5, <2>1, <2>2 DEF Private
  <2> QED
    BY <1>3, <2>3 DEF HeldOK, HeldTemps
<1>7. FrameOK(g, t, l) /\ HoldsToo(f, g, v)
  <2>1. Next1(f).held = Append(Point(f).held, Got) /\ Alike(Point(f), Next1(f))
    BY DEF GetOK
  <2> QED
    BY <1>3, <1>4, <1>6, <2>1, HoldsOne
<1>8. HeldTemps(g) = HeldTemps(f)
  BY <1>3, <1>7 DEF TempsOf, HoldsToo
<1>9. Point(g) = Next1(f)
  BY <1>1, PointFollows
<1>10. Idle(Point(f)) /\ Idle(Point(g)) /\ Alike(Point(f), Point(g))
  BY <1>9 DEF GetOK
<1>11. LabelsAt(g, outer, w) /\ Owns(g) = Owns(f)
  <2>1. Point(g).placed = Point(f).placed /\ Point(g).jumped = Point(f).jumped
    BY <1>10 DEF Alike
  <2> QED
    BY <2>1, LabelsSame
<1>12. Private(g) = Private(f)
  BY DEF Private, Follows
<1> QED
  BY <1>7, <1>8, <1>10, <1>11, <1>12 DEF GoesTo

LEMMA AtomStep ==
    ASSUME NEW s, NEW t, NEW l, NEW w, GenOK(s, t, l, w), s # <<>>, NEW f, f = s[Len(s)],
           f.pos \in DOMAIN Script(f.node), Script(f.node)[f.pos].do = "get",
           Script(f.node)[f.pos].node.is \in {"num", "id"}, NEW g, Follows(f, g),
           g.held = Append(f.held, Atom(Script(f.node)[f.pos].node)),
           g.labels = f.labels, g.temps = f.temps,
           NEW q, q = [s EXCEPT ![Len(s)] = g]
    PROVE  GenOK(q, t, l, w)
<1> DEFINE o == Script(f.node)[f.pos]
<1>1. /\ t \in Nat /\ l \in Nat /\ FrameOK(f, t, l) /\ LabelsAt(f, Outer(s, Len(s)), w)
      /\ OrderOK(f.node, o, Point(f), Next1(f))
  BY OrderIs
<1>2. GetOK(o, Point(f), Next1(f))
  BY <1>1 DEF OrderOK
<1> HIDE DEF o
<1>3. GoesTo(f, g, t, l, t, l, Outer(s, Len(s)), w)
  <2>1. o.node.is \in {"num", "id"} /\ g.held = Append(f.held, Atom(o.node))
    BY DEF o
  <2> QED
    BY <1>1, <1>2, <2>1, AtomFrame
<1>4. t >= t /\ l >= l
  BY <1>1
<1> QED
  BY <1>1, <1>3, <1>4, TopGoesOn

\* GenLabel: a new label is neither placed nor jumped to.
LEMMA LabelFrame ==
    ASSUME NEW t \in Nat, NEW l \in Nat, NEW f, FrameOK(f, t, l), f.pos \in DOMAIN Script(f.node),
           LabelOK(Point(f), Next1(f)), NEW outer, NEW w, LabelsAt(f, outer, w),
           w.placed \subseteq 1 .. l, DOMAIN w.awaited \subseteq 1 .. l,
           NEW g, Follows(f, g), g.held = f.held, g.labels = Append(f.labels, l + 1),
           g.temps = f.temps
    PROVE  GoesTo(f, g, t, l, t, l + 1, outer, w)
<1> DEFINE n == Len(f.labels)
<1>1. f \in Frames /\ f.pos \in DOMAIN States(f.node)
  BY DEF FrameOK
<1>2. StateOK(Point(f))
  BY <1>1, OrderHolds
<1>3. f.labels \in Seq(Nat) /\ l + 1 \in Nat /\ n \in Nat
  BY <1>1, FrameIs
<1>5. t >= t /\ l + 1 >= l
  OBVIOUS
<1>6. FrameOK(g, t, l + 1) /\ HeldTemps(g) = HeldTemps(f)
  <2>1. /\ Next1(f).held = Point(f).held /\ Next1(f).temps = Point(f).temps
        /\ Next1(f).labels = Point(f).labels + 1
    BY DEF LabelOK
  <2> QED
    BY <1>3, <1>5, <2>1, HoldsSame
<1>7. Point(g) = Next1(f)
  BY <1>1, PointFollows
<1>8. /\ Idle(Point(f)) /\ Idle(Point(g))
      /\ Point(g).placed = Point(f).placed /\ Point(g).jumped = Point(f).jumped
  BY <1>7 DEF LabelOK
<1>9. /\ Len(g.labels) = n + 1 /\ g.labels[n + 1] = l + 1
      /\ \A i \in 1 .. n : g.labels[i] = f.labels[i]
  BY <1>3
<1>10. n = 3 + Point(f).labels /\ Point(f).labels \in Nat /\ n >= 3
  BY <1>2 DEF FrameOK, StateOK
<1> HIDE DEF n
<1>11. /\ \A i \in 4 .. n + 1 : i \in 4 .. n \/ i = n + 1
       /\ \A i \in 4 .. n : i \in 4 .. n + 1 /\ i \in 1 .. n
       /\ \A i \in 1 .. 3 : i \in 1 .. n
       /\ n + 1 \in 4 .. n + 1 /\ n + 1 \notin 4 .. n
  BY <1>3, <1>10
<1>12. Owns(f) \subseteq Owns(g) /\ Owns(g) \subseteq Owns(f) \cup {l + 1}
  BY <1>9, <1>11 DEF Owns, n
<1>13. LabelsAt(g, outer, w)
  <2>1. ASSUME NEW i \in 4 .. n
        PROVE  LabelAt(g, outer, w, i)
    <3>1. LabelAt(f, outer, w, i) /\ g.labels[i] = f.labels[i] /\ g.node = f.node /\ g.dst = f.dst
      BY <1>9, <1>11 DEF LabelsAt, n, Follows
    <3> QED
      BY <1>8, <3>1 DEF LabelAt
  <2>2. LabelAt(g, outer, w, n + 1)
    <3>1. l + 1 \notin 1 .. l
      OBVIOUS
    <3>2. l + 1 \notin w.placed /\ l + 1 \notin DOMAIN w.awaited
      BY <3>1
    <3>3. n + 1 \notin Point(f).placed /\ n + 1 \notin Point(f).jumped
      BY <1>2, <1>10, <1>11 DEF StateOK
    <3> QED
      BY <1>8, <1>9, <3>2, <3>3 DEF LabelAt
  <2> QED
    BY <1>9, <1>11, <2>1, <2>2 DEF LabelsAt
<1>14. Private(g) \subseteq Private(f) /\ \A i \in 1 .. 3 : g.labels[i] = f.labels[i]
  BY <1>9, <1>11 DEF Private, Follows
<1> QED
  BY <1>6, <1>8, <1>12, <1>13, <1>14 DEF GoesTo

LEMMA LabelStep ==
    ASSUME NEW s, NEW t, NEW l, NEW w, GenOK(s, t, l, w), s # <<>>, NEW f, f = s[Len(s)],
           f.pos \in DOMAIN Script(f.node), Script(f.node)[f.pos].do = "label",
           NEW g, Follows(f, g), g.held = f.held, g.labels = Append(f.labels, l + 1),
           g.temps = f.temps, NEW q, q = [s EXCEPT ![Len(s)] = g]
    PROVE  GenOK(q, t, l + 1, w)
<1>1. /\ t \in Nat /\ l \in Nat /\ FrameOK(f, t, l) /\ LabelsAt(f, Outer(s, Len(s)), w)
      /\ WalkOK(s, w, l) /\ OrderOK(f.node, Script(f.node)[f.pos], Point(f), Next1(f))
  BY OrderIs
<1>2. LabelOK(Point(f), Next1(f))
  BY <1>1 DEF OrderOK
<1>3. w.placed \subseteq 1 .. l /\ DOMAIN w.awaited \subseteq 1 .. l
  BY <1>1 DEF WalkOK
<1>4. GoesTo(f, g, t, l, t, l + 1, Outer(s, Len(s)), w)
  BY <1>1, <1>2, <1>3, LabelFrame
<1>5. t >= t /\ l + 1 \in Nat /\ l + 1 >= l
  BY <1>1
<1> QED
  BY <1>1, <1>4, <1>5, TopGoesOn

\* GenTemp: a new temporary is held nowhere.
LEMMA TempFrame ==
    ASSUME NEW t \in Nat, NEW l \in Nat, NEW f, FrameOK(f, t, l), f.pos \in DOMAIN Script(f.node),
           TempOK(Point(f), Next1(f)), NEW outer, NEW w, LabelsAt(f, outer, w),
           NEW g, Follows(f, g), g.held = f.held, g.labels = f.labels,
           g.temps = Append(f.temps, Temp(t + 1))
    PROVE  GoesTo(f, g, t, l, t + 1, l, outer, w)
<1>1. f \in Frames /\ t + 1 \in Nat /\ l >= l /\ t + 1 >= t
  BY DEF FrameOK
<1>2. /\ f.temps \in Seq(Val) /\ Temp(t + 1) \in Val
      /\ DOMAIN f.temps = 1 .. Len(f.temps) /\ Len(f.temps) \in Nat
  <2>1. Temp(t + 1) \in Val
    BY DEF Temp, Val
  <2> QED
    BY <1>1, <2>1, FrameIs
<1>6. FrameOK(g, t + 1, l) /\ HeldTemps(g) = HeldTemps(f)
  <2>1. /\ Next1(f).held = Point(f).held /\ Next1(f).labels = Point(f).labels
        /\ Point(f).temps = 0 /\ Next1(f).temps = 1
    BY DEF TempOK
  <2> QED
    BY <1>1, <2>1, HoldsSame
<1>7. Point(g) = Next1(f)
  BY <1>1, PointFollows
<1>8. /\ Idle(Point(f)) /\ Idle(Point(g))
      /\ Point(g).placed = Point(f).placed /\ Point(g).jumped = Point(f).jumped
  BY <1>7 DEF TempOK
<1>9. LabelsAt(g, outer, w) /\ Owns(g) = Owns(f)
  BY <1>8, LabelsSame
<1>10. Private(g) \subseteq Private(f) \cup {Temp(t + 1)}
  <2> DEFINE p == Append(f.temps, Temp(t + 1))
  <2>1. /\ DOMAIN p = 1 .. Len(f.temps) + 1 /\ p[Len(f.temps) + 1] = Temp(t + 1)
        /\ \A i \in 1 .. Len(f.temps) : p[i] = f.temps[i]
    BY <1>2
  <2>2. g.temps = p /\ g.dst = f.dst
    BY DEF Follows
  <2> HIDE DEF p
  <2>3. \A i \in 1 .. Len(f.temps) + 1 : i \in 1 .. Len(f.temps) \/ i = Len(f.temps) + 1
    BY <1>2
  <2> QED
    BY <1>2, <2>1, <2>2, <2>3 DEF Private
<1> QED
  BY <1>6, <1>8, <1>9, <1>10 DEF GoesTo

LEMMA TempStep ==
    ASSUME NEW s, NEW t, NEW l, NEW w, GenOK(s, t, l, w), s # <<>>, NEW f, f = s[Len(s)],
           f.pos \in DOMAIN Script(f.node), Script(f.node)[f.pos].do = "temp",
           NEW g, Follows(f, g), g.held = f.held, g.labels = f.labels,
           g.temps = Append(f.temps, Temp(t + 1)), NEW q, q = [s EXCEPT ![Len(s)] = g]
    PROVE  GenOK(q, t + 1, l, w)
<1>1. /\ t \in Nat /\ l \in Nat /\ FrameOK(f, t, l) /\ LabelsAt(f, Outer(s, Len(s)), w)
      /\ OrderOK(f.node, Script(f.node)[f.pos], Point(f), Next1(f))
  BY OrderIs
<1>2. TempOK(Point(f), Next1(f))
  BY <1>1 DEF OrderOK
<1>3. GoesTo(f, g, t, l, t + 1, l, Outer(s, Len(s)), w)
  BY <1>1, <1>2, TempFrame
<1>4. t + 1 \in Nat /\ t + 1 >= t /\ l >= l
  BY <1>1
<1> QED
  BY <1>1, <1>3, <1>4, TopGoesOn

\* f waited for h, which has returned.
ReturnsTo(f, h, g, t, l) ==
    /\ Follows(f, g) /\ FrameOK(g, t, l) /\ Idle(Point(f)) /\ Idle(Point(g))
    /\ Alike(Point(f), Point(g))
    /\ HeldTemps(g) = HeldTemps(f) \cup (IF IsExpr(h.node) THEN {h.dst} ELSE {})

\* What the call below holds when the one on top has returned.
LEMMA ReturnFrame ==
    ASSUME NEW t \in Nat, NEW l \in Nat, NEW f, FrameOK(f, t, l), NEW h, FrameOK(h, t, l),
           Below(f, h), Waits(f, h), NEW g, Follows(f, g), g.labels = f.labels, g.temps = f.temps,
           \/ h.dst = NoVar /\ g.held = f.held
           \/ h.dst # NoVar /\ g.held = Append(f.held, h.dst)
    PROVE  ReturnsTo(f, h, g, t, l)
<1> DEFINE o == Script(f.node)[f.pos]
           v == h.dst
<1>1. f \in Frames /\ f.pos \in DOMAIN Script(f.node) /\ l >= l /\ t >= t
  BY DEF FrameOK, Waits
<1>2. OrderOK(f.node, o, Point(f), Next1(f)) /\ Point(g) = Next1(f)
  BY <1>1, OrderHolds, PointFollows
<1>3. /\ IsExpr(h.node) => v \in Temps(t) /\ v \in Val /\ v.kind = "temp" /\ v # NoVar
      /\ ~IsExpr(h.node) => v = NoVar
  BY DEF FrameOK, Temps, NoVar
<1>4. v \notin HeldTemps(f)
  BY DEF Below, Private
<1> HIDE DEF o, v
<1>5. ASSUME IsExpr(h.node), NEW x, HeldOK(f, x, v, t), Idle(Point(f)), Idle(Next1(f)),
             Alike(Point(f), Next1(f)), Next1(f).held = Append(Point(f).held, x)
      PROVE  ReturnsTo(f, h, g, t, l)
  <2>1. v \in Val /\ v.kind = "temp" /\ g.held = Append(f.held, v)
    BY <1>3, <1>5 DEF v
  <2>2. FrameOK(g, t, l) /\ HoldsToo(f, g, v)
    BY <1>1, <1>4, <1>5, <2>1, HoldsOne
  <2>3. HeldTemps(g) = HeldTemps(f) \cup (IF IsExpr(h.node) THEN {h.dst} ELSE {})
    BY <1>5, <2>1, <2>2 DEF HoldsToo, TempsOf, v
  <2> QED
    BY <1>2, <1>5, <2>2, <2>3 DEF ReturnsTo
<1>6. CASE o.do = "get" /\ IsExpr(h.node) /\ v \notin HeldTemps(f) \cup Private(f)
  <2>1. GetOK(o, Point(f), Next1(f))
    BY <1>2, <1>6 DEF OrderOK
  <2>2. HeldOK(f, Got, v, t)
    BY <1>3, <1>6 DEF HeldOK
  <2> QED
    BY <1>5, <1>6, <2>1, <2>2 DEF GetOK
<1>7. CASE o.do = "into" /\ IsExpr(h.node) /\ v = Operand(f, o.dst)
  <2>1. IntoOK(f.node, o, Point(f), Next1(f))
    BY <1>2, <1>7 DEF OrderOK
  <2>2. HeldOK(f, o.dst, v, t)
    BY <1>3, <1>7, <2>1 DEF HeldOK, IntoOK
  <2> QED
    BY <1>5, <1>7, <2>1, <2>2 DEF IntoOK
<1>8. CASE o.do = "run" /\ ~IsExpr(h.node)
  <2>1. RunOK(f.node, o, Point(f), Next1(f))
    BY <1>2, <1>8 DEF OrderOK
  <2>2. g.held = f.held
    BY <1>3, <1>8 DEF v
  <2>3. Next1(f).held = Point(f).held /\ Idle(Point(f)) /\ Idle(Next1(f)) /\ Alike(Point(f), Next1(f))
    BY <2>1 DEF RunOK
  <2>4. Next1(f).temps = Point(f).temps /\ Next1(f).labels = Point(f).labels
    BY <2>3 DEF Alike
  <2>5. FrameOK(g, t, l) /\ HeldTemps(g) = HeldTemps(f)
    BY <1>1, <2>2, <2>3, <2>4, HoldsSame
  <2> QED
    BY <1>2, <1>8, <2>3, <2>5 DEF ReturnsTo
<1> QED
  BY <1>6, <1>7, <1>8 DEF Waits, o, v

\* Append(SubSeq(stack, 1, Len(stack) - 2), g).
LEMMA PopIs ==
    ASSUME NEW s \in Seq(Frames), NEW n \in Nat, n > 0, n + 1 = Len(s), NEW g \in Frames,
           NEW q, q = Append(SubSeq(s, 1, n - 1), g)
    PROVE  /\ q \in Seq(Frames) /\ Len(q) = n /\ q[n] = g
           /\ \A j \in 1 .. n - 1 : q[j] = s[j]
<1> DEFINE r == SubSeq(s, 1, n - 1)
<1>1. \A j \in 1 .. n - 1 : s[j] \in Frames
  OBVIOUS
<1>2. n - 1 \in Nat
  OBVIOUS
<1>3. r \in Seq(Frames) /\ Len(r) = n - 1 /\ \A j \in 1 .. n - 1 : r[j] = s[j]
  <2>1. /\ r \in Seq(Frames) /\ Len(r) = (IF 1 <= n - 1 THEN n - 1 - 1 + 1 ELSE 0)
        /\ \A i \in 1 .. n - 1 - 1 + 1 : r[i] = s[1 + i - 1]
    BY <1>1, <1>2, SubSeqProperties
  <2> HIDE DEF r
  <2>2. n - 1 - 1 + 1 = n - 1 /\ \A i \in 1 .. n - 1 : 1 + i - 1 = i
    OBVIOUS
  <2> QED
    BY <1>2, <2>1, <2>2
<1>4. q = Append(r, g)
  OBVIOUS
<1> HIDE DEF r
<1> QED
  BY <1>3, <1>4

\* What the call on top has left when it returns.
LEMMA ReturnedIs ==
    ASSUME NEW h, NEW t \in Nat, NEW l \in Nat, FrameOK(h, t, l), h.pos \notin DOMAIN Script(h.node),
           NEW outer, NEW w, LabelsAt(h, outer, w), TopOK(h, outer, w)
    PROVE  /\ Owns(h) \subseteq w.placed /\ w.redo = {} /\ w.passed = 0
           /\ w.pending = outer \cup (IF IsExpr(h.node) THEN {h.dst} ELSE {})
<1>1. h \in Frames /\ h.pos \in DOMAIN States(h.node)
  BY DEF FrameOK
<1>2. /\ StateOK(Point(h)) /\ Point(h).held = <<>> /\ Point(h).passed = 0
      /\ Point(h).writ = (IF IsExpr(h.node) THEN "yes" ELSE "no")
      /\ 4 .. 3 + Point(h).labels \subseteq Point(h).placed
  BY <1>1, EndHolds
<1>3. HeldTemps(h) = {}
  <2>1. h.held \in Seq(Val) /\ Len(h.held) = 0
    BY <1>1, <1>2, FrameIs DEF FrameOK
  <2> QED
    BY <2>1, NothingHeld
<1>4. \A i \in 4 .. Len(h.labels) : h.labels[i] \in w.placed
  <2>1. Len(h.labels) = 3 + Point(h).labels
    BY DEF FrameOK
  <2> QED
    BY <1>2, <2>1 DEF LabelsAt, LabelAt
<1>5. Owns(h) \subseteq w.placed
  BY <1>4 DEF Owns
<1>6. Point(h).writ # "redo" /\ (Point(h).writ = "yes" <=> IsExpr(h.node))
  BY <1>2
<1> QED
  BY <1>2, <1>3, <1>5, <1>6 DEF TopOK, Written

\* A call returns to the one that made it: its temporary is pending and now held there.
LEMMA ReturnStep ==
    ASSUME NEW s, NEW t, NEW l, NEW w, GenOK(s, t, l, w), NEW n \in Nat, n > 0, n + 1 = Len(s),
           NEW h, h = s[n + 1], h.pos \notin DOMAIN Script(h.node), NEW f, f = s[n],
           NEW g, Follows(f, g), g.labels = f.labels, g.temps = f.temps,
           \/ h.dst = NoVar /\ g.held = f.held
           \/ h.dst # NoVar /\ g.held = Append(f.held, h.dst),
           NEW q, q = Append(SubSeq(s, 1, n - 1), g)
    PROVE  GenOK(q, t, l, w)
<1>1. t \in Nat /\ l \in Nat /\ StackOK(s, t, l) /\ WalkOK(s, w, l) /\ s # <<>> /\ s \in Seq(Frames)
  BY DEF GenOK, StackOK
<1>2. /\ n \in 1 .. Len(s) /\ n + 1 \in 1 .. Len(s) /\ n < n + 1
      /\ \A k \in 1 .. Len(s) : k > n => k = n + 1
      /\ \A j \in 1 .. n - 1 : j \in 1 .. Len(s) /\ j < n /\ j < n + 1
  OBVIOUS
<1>3. FrameOK(f, t, l) /\ FrameOK(h, t, l) /\ Below(f, h) /\ Waits(f, h)
  BY <1>1, <1>2 DEF StackOK
<1>4. LabelsAt(f, Outer(s, n), w) /\ LabelsAt(h, Outer(s, n + 1), w) /\ TopOK(h, Outer(s, n + 1), w)
  BY <1>1, <1>2 DEF WalkOK
<1>5. ReturnsTo(f, h, g, t, l)
  BY <1>1, <1>3, ReturnFrame
<1>6. /\ Follows(f, g) /\ FrameOK(g, t, l) /\ Idle(Point(f)) /\ Idle(Point(g))
      /\ Alike(Point(f), Point(g))
      /\ HeldTemps(g) = HeldTemps(f) \cup (IF IsExpr(h.node) THEN {h.dst} ELSE {})
  BY <1>5 DEF ReturnsTo
<1>7. /\ Owns(h) \subseteq w.placed /\ w.redo = {} /\ w.passed = 0
      /\ w.pending = Outer(s, n + 1) \cup (IF IsExpr(h.node) THEN {h.dst} ELSE {})
  BY <1>1, <1>3, <1>4, ReturnedIs
<1>8. TopOK(g, Outer(s, n), w)
  <2>1. Outer(s, n + 1) = Outer(s, n) \cup HeldTemps(f)
    BY OuterIs
  <2>2. Written(g) = {} /\ Point(g).writ = "no" /\ Point(g).passed = 0
    BY <1>6 DEF Written, Idle
  <2> QED
    BY <1>6, <1>7, <2>1, <2>2 DEF TopOK
<1>9. LabelsAt(g, Outer(s, n), w) /\ Owns(g) = Owns(f)
  <2>1. Point(g).placed = Point(f).placed /\ Point(g).jumped = Point(f).jumped
    BY <1>6 DEF Alike
  <2> QED
    BY <1>4, <2>1, LabelsSame
<1>10. ASSUME NEW j \in 1 .. n - 1
       PROVE  HeldTemps(s[j]) \cap (HeldTemps(g) \cup Private(g)) = {}
  <2>1. Below(s[j], f) /\ Below(s[j], h)
    BY <1>1, <1>2 DEF StackOK
  <2>2. Private(g) = Private(f) /\ h.dst \in Private(h)
    BY DEF Private, Follows
  <2> QED
    BY <1>6, <2>1, <2>2 DEF Below
<1>11. /\ q \in Seq(Frames) /\ Len(q) = n /\ q[n] = g
       /\ \A j \in 1 .. n - 1 : q[j] = s[j]
  <2>1. g \in Frames
    BY DEF Follows
  <2> QED
    BY <1>1, <2>1, PopIs
<1>12. /\ t >= t /\ l >= l /\ Owns(f) \subseteq Owns(g) /\ Owns(g) \subseteq Owns(f) \cup {l + 1}
       /\ \A i \in 1 .. 3 : g.labels[i] = f.labels[i]
       /\ \A k \in 1 .. Len(s) : k > n => Owns(s[k]) \subseteq w.placed
  BY <1>1, <1>2, <1>7, <1>9
<1>13. StackOK(q, t, l) /\ WalkOK(q, w, l)
  BY <1>1, <1>2, <1>6, <1>8, <1>9, <1>10, <1>11, <1>12, GoesOn
<1> QED
  BY <1>1, <1>13 DEF GenOK

\* The function itself returns.
LEMMA LastReturnStep ==
    ASSUME NEW s, NEW t, NEW l, NEW w, GenOK(s, t, l, w), Len(s) = 1, s # <<>>,
           NEW h, h = s[1], h.pos \notin DOMAIN Script(h.node)
    PROVE  GenOK(<<>>, t, l, w)
<1>1. t \in Nat /\ l \in Nat /\ StackOK(s, t, l) /\ WalkOK(s, w, l)
  BY DEF GenOK
<1>2. 1 \in 1 .. Len(s) /\ \A k \in 1 .. Len(s) : k = 1
  OBVIOUS
<1>3. FrameOK(h, t, l) /\ LabelsAt(h, Outer(s, 1), w) /\ TopOK(h, Outer(s, 1), w)
  BY <1>1, <1>2 DEF StackOK, WalkOK
<1>4. Owns(h) \subseteq w.placed
  BY <1>1, <1>3, ReturnedIs
<1>5. StackOK(<<>>, t, l)
  BY DEF StackOK
<1>6. WalkOK(<<>>, w, l)
  <2>1. \A d \in DOMAIN w.awaited : d \in w.placed
    BY <1>1, <1>2, <1>4 DEF WalkOK
  <2>2. w.kept /\ w.placed \subseteq 1 .. l /\ DOMAIN w.awaited \subseteq 1 .. l
    BY <1>1 DEF WalkOK
  <2> QED
    BY <2>1, <2>2 DEF WalkOK
<1> QED
  BY <1>1, <1>5, <1>6 DEF GenOK

\* Only an expression is given a variable for its result.
DstOK(e, d, t) == IF IsExpr(e) THEN d \in Temps(t) ELSE d = NoVar
\* The labels of a statement around.
AreLabels(b, l) == b \in Seq(Nat) /\ Len(b) = 3 /\ \A i \in 1 .. 3 : b[i] \in 0 .. l

\* A call that has just been made.
LEMMA NewFrame ==
    ASSUME NEW t \in Nat, NEW l \in Nat, NEW e \in Called, NEW d,
           DstOK(e, d, t), NEW b, AreLabels(b, l)
    PROVE  /\ NewCall(Frame(e, d, b), t, l) /\ Frame(e, d, b).node = e
           /\ Frame(e, d, b).dst = d /\ Frame(e, d, b).labels = b
<1> DEFINE g == Frame(e, d, b)
<1>0. b \in Seq(Nat) /\ Len(b) = 3 /\ \A i \in 1 .. 3 : b[i] \in 0 .. l
  BY DEF AreLabels
<1>1. /\ g.node = e /\ g.dst = d /\ g.labels = b /\ g.pos = 1 /\ g.held = <<>> /\ g.temps = <<>>
  BY DEF Frame
<1>4. g \in Frames
  <2>1. d \in Val \cup {NoVar} /\ <<>> \in Seq(Val) /\ 1 \in Nat
    BY DEF Temps, DstOK
  <2>2. \A a \in Called, k \in Nat, c \in Val \cup {NoVar}, p \in Seq(Val), m \in Seq(Nat),
           i \in Seq(Val) :
           [node |-> a, pos |-> k, dst |-> c, held |-> p, labels |-> m, temps |-> i] \in Frames
    BY DEF Frames
  <2>3. [node |-> e, pos |-> 1, dst |-> d, held |-> <<>>, labels |-> b, temps |-> <<>>] \in Frames
    BY <1>0, <2>1, <2>2
  <2> QED
    BY <2>3 DEF Frame
<1> HIDE DEF g
<1>2. 1 \in DOMAIN States(e) /\ Point(g) = Has(<<>>)
  BY <1>1, StartHolds DEF Point
<1>3. Has(<<>>).held = <<>> /\ Has(<<>>).temps = 0 /\ Has(<<>>).labels = 0
  BY DEF Has, Was
<1>5. Len(g.held) = 0 /\ Len(g.temps) = 0 /\ Len(g.labels) = 3 /\ Len(<<>>) = 0
  BY <1>0, <1>1
<1>8. \A i \in 1 .. 0 : FALSE
  OBVIOUS
<1>9. \A i \in 4 .. 3 : FALSE
  OBVIOUS
<1>6. FrameOK(g, t, l)
  <2>1. /\ g.pos \in DOMAIN States(g.node)
        /\ Len(g.held) = Len(Point(g).held) /\ Len(g.temps) = Point(g).temps
        /\ Len(g.labels) = 3 + Point(g).labels
    BY <1>1, <1>2, <1>3, <1>5
  <2>2. IF IsExpr(g.node) THEN g.dst \in Temps(t) ELSE g.dst = NoVar
    BY <1>1 DEF DstOK
  <2>3. \A i \in 1 .. Len(g.labels) : g.labels[i] \in 0 .. l /\ (i > 3 => g.labels[i] # 0)
    <3>1. \A i \in 1 .. 3 : ~(i > 3)
      OBVIOUS
    <3>2. \A i \in 1 .. 3 : g.labels[i] \in 0 .. l /\ (i > 3 => g.labels[i] # 0)
      BY <1>0, <1>1, <3>1
    <3> QED
      BY <1>5, <3>2
  <2> QED
    BY <1>4, <1>5, <1>8, <1>9, <2>1, <2>2, <2>3 DEF FrameOK
<1>7. HeldTemps(g) = {} /\ Owns(g) = {} /\ Private(g) = {g.dst}
  <2>1. DOMAIN g.held = {} /\ DOMAIN g.temps = {}
    BY <1>1
  <2>2. 4 .. Len(g.labels) = {}
    BY <1>5
  <2> QED
    BY <2>1, <2>2 DEF HeldTemps, Owns, Private
<1> QED
  BY <1>1, <1>2, <1>5, <1>6, <1>7 DEF NewCall, g

LEMMA NewStatement ==
    ASSUME NEW t \in Nat, NEW l \in Nat, NEW e \in Called, ~IsExpr(e), NEW b, AreLabels(b, l)
    PROVE  NewCall(Frame(e, NoVar, b), t, l)
<1>1. DstOK(e, NoVar, t)
  BY DEF DstOK
<1> QED
  BY <1>1, NewFrame

LEMMA NoLabelsIs ==
    ASSUME NEW l \in Nat
    PROVE  AreLabels(NoLabels, l)
<1>1. \A i \in 1 .. 3 : NoLabels[i] = 0
  BY DEF NoLabels
<1> QED
  BY <1>1 DEF NoLabels, AreLabels

LEMMA ThreeAre ==
    ASSUME NEW b \in [1 .. 3 -> Nat]
    PROVE  b \in Seq(Nat) /\ Len(b) = 3
<1>1. b = [k \in 1 .. 3 |-> b[k]] /\ \A k \in 1 .. 3 : b[k] \in Nat
  OBVIOUS
<1>2. [k \in 1 .. 3 |-> b[k]] \in Seq(Nat)
  BY <1>1, IsASeq
<1>3. b \in Seq(Nat) /\ DOMAIN b = 1 .. 3
  BY <1>1, <1>2
<1> QED
  BY <1>3

\* A call is made while f obeys an order.
LEMMA EnterStep ==
    ASSUME NEW s, NEW t, NEW l, NEW w, GenOK(s, t, l, w), s # <<>>,
           Idle(Point(s[Len(s)])), NEW u \in Nat, u >= t, NEW g, NewCall(g, u, l),
           MayEnter(s, s[Len(s)], g), NEW q, q = Append(s, g)
    PROVE  GenOK(q, u, l, w)
<1>1. t \in Nat /\ l \in Nat /\ StackOK(s, t, l) /\ WalkOK(s, w, l)
  BY DEF GenOK
<1>3. StackOK(q, u, l) /\ Pushes(s, q, g)
  BY <1>1, StackEnters
<1>5. WalkOK(q, w, l)
  BY <1>1, <1>3, WalkEnters
<1> QED
  BY <1>1, <1>3, <1>5 DEF GenOK

\* GetVar: the result goes into a new temporary.
LEMMA VarStep ==
    ASSUME NEW s, NEW t, NEW l, NEW w, GenOK(s, t, l, w), s # <<>>, NEW f, f = s[Len(s)],
           f.pos \in DOMAIN Script(f.node), NEW e, e = Script(f.node)[f.pos].node,
           Script(f.node)[f.pos].do = "get", e.is \notin {"num", "id"},
           NEW q, q = Append(s, Frame(e, Temp(t + 1), NoLabels))
    PROVE  GenOK(q, t + 1, l, w)
<1> DEFINE g == Frame(e, Temp(t + 1), NoLabels)
           o == Script(f.node)[f.pos]
<1>1. /\ t \in Nat /\ l \in Nat /\ StackOK(s, t, l) /\ Len(s) \in 1 .. Len(s)
      /\ OrderOK(f.node, o, Point(f), Next1(f))
  BY OrderIs
<1>2. GetOK(o, Point(f), Next1(f))
  BY <1>1 DEF OrderOK
<1>3. e \in Called /\ IsExpr(e) /\ e.is # "function"
  BY <1>2 DEF GetOK, Called, IsExpr, Expressions, Logical, Compare, Binary
<1>4. t + 1 \in Nat /\ t + 1 >= t /\ Temp(t + 1) \in Temps(t + 1)
  BY <1>1 DEF Temp, Temps, Val
<1>5. AreLabels(NoLabels, l)
  BY <1>1, NoLabelsIs
<1>6. NewCall(g, t + 1, l) /\ g.node = e /\ g.dst = Temp(t + 1)
  <2>1. DstOK(e, Temp(t + 1), t + 1)
    BY <1>3, <1>4 DEF DstOK
  <2> QED
    BY <1>1, <1>3, <1>4, <1>5, <2>1, NewFrame
<1>7. \A j \in 1 .. Len(s) : /\ Temp(t + 1) \notin HeldTemps(s[j])
                             /\ Temp(t + 1) \notin Private(s[j])
  BY <1>1, HeldBelow
<1> HIDE DEF g
<1>8. Waits(f, g)
  BY <1>1, <1>3, <1>6, <1>7 DEF Waits
<1>9. Idle(Point(f))
  BY <1>2 DEF GetOK
<1>10. q = Append(s, g)
  BY DEF g
<1>11. MayEnter(s, f, g)
  BY <1>3, <1>6, <1>7, <1>8 DEF MayEnter
<1> QED
  BY <1>4, <1>6, <1>9, <1>10, <1>11, EnterStep

\* An own operand that is not listed as held is not held.
LEMMA OwnNotHeld ==
    ASSUME NEW f, NEW t, NEW l, FrameOK(f, t, l), f \in Frames, StateOK(Point(f)),
           NEW h, IsOwn(f.node, Point(f), h),
           \A i \in DOMAIN Point(f).held : Point(f).held[i] # h
    PROVE  Operand(f, h) \notin HeldTemps(f)
<1>1. /\ DOMAIN f.held = 1 .. Len(f.held) /\ Len(f.held) = Len(Point(f).held)
      /\ DOMAIN Point(f).held = 1 .. Len(f.held)
  BY FrameIs DEF FrameOK, StateOK
<1>2. Operand(f, h) \in Private(f)
  BY OwnIs
<1>3. ASSUME NEW i \in DOMAIN f.held, f.held[i] = Operand(f, h)
      PROVE  FALSE
  <2>1. HeldOK(f, Point(f).held[i], f.held[i], t)
    BY <1>1 DEF FrameOK
  <2>2. IsOwn(f.node, Point(f), Point(f).held[i]) /\ Operand(f, Point(f).held[i]) = Operand(f, h)
    BY <1>2, <1>3, <2>1 DEF HeldOK
  <2>3. Point(f).held[i] = h
    BY <2>2, OwnIs
  <2> QED
    BY <1>1, <2>3
<1> QED
  BY <1>3 DEF HeldTemps

\* GenInto: the result goes where the call says.
LEMMA IntoStep ==
    ASSUME NEW s, NEW t, NEW l, NEW w, GenOK(s, t, l, w), s # <<>>, NEW f, f = s[Len(s)],
           f.pos \in DOMAIN Script(f.node), NEW e, e = Script(f.node)[f.pos].node,
           Script(f.node)[f.pos].do = "into", NEW d, d = Operand(f, Script(f.node)[f.pos].dst),
           NEW q, q = Append(s, Frame(e, d, NoLabels))
    PROVE  GenOK(q, t, l, w)
<1> DEFINE g == Frame(e, d, NoLabels)
           o == Script(f.node)[f.pos]
<1>1. /\ t \in Nat /\ l \in Nat /\ StackOK(s, t, l) /\ Len(s) \in 1 .. Len(s) /\ Len(s) \in Nat
      /\ OrderOK(f.node, o, Point(f), Next1(f)) /\ f \in Frames /\ FrameOK(f, t, l)
      /\ StateOK(Point(f))
  BY OrderIs
<1>2. IntoOK(f.node, o, Point(f), Next1(f))
  BY <1>1 DEF OrderOK
<1>3. e \in Called /\ IsExpr(e) /\ e.is # "function"
  <2>1. e \in Layered
    BY <1>2 DEF IntoOK
  <2>2. \A x \in Layered : x.is = "inner"
    BY DEF Layered
  <2> QED
    BY <2>1, <2>2 DEF Called, IsExpr
<1>4. /\ IsOwn(f.node, Point(f), o.dst) /\ d = Operand(f, o.dst)
      /\ \A i \in DOMAIN Point(f).held : Point(f).held[i] # o.dst
  BY <1>2 DEF IntoOK
<1> HIDE DEF o
<1>11. d \in Temps(t) /\ d \in Private(f) /\ d \notin HeldTemps(f)
  BY <1>1, <1>4, OwnIs, OwnNotHeld
<1>5. AreLabels(NoLabels, l)
  BY <1>1, NoLabelsIs
<1>6. NewCall(g, t, l) /\ g.node = e /\ g.dst = d
  <2>1. DstOK(e, d, t)
    BY <1>3, <1>11 DEF DstOK
  <2> QED
    BY <1>1, <1>3, <1>5, <2>1, NewFrame
<1>7. \A j \in 1 .. Len(s) : d \notin HeldTemps(s[j])
  <2> TAKE j \in 1 .. Len(s)
  <2>1. CASE j = Len(s)
    BY <1>11, <2>1
  <2>2. CASE j # Len(s)
    <3>1. j < Len(s)
      BY <1>1, <2>2
    <3>2. Below(s[j], f)
      BY <1>1, <3>1 DEF StackOK
    <3> QED
      BY <1>11, <3>2 DEF Below
  <2> QED
    BY <2>1, <2>2
<1> HIDE DEF g
<1>8. Waits(f, g)
  BY <1>1, <1>3, <1>4, <1>6 DEF Waits, o
<1>9. Idle(Point(f)) /\ t >= t
  BY <1>1, <1>2 DEF IntoOK
<1>10. q = Append(s, g)
  BY DEF g
<1>12. MayEnter(s, f, g)
  BY <1>3, <1>6, <1>7, <1>8 DEF MayEnter
<1> QED
  BY <1>1, <1>6, <1>9, <1>10, <1>12, EnterStep

\* GenStatement: the labels are those of the statement or of one around it.
LEMMA StatementStep ==
    ASSUME NEW s, NEW t, NEW l, NEW w, GenOK(s, t, l, w), s # <<>>, NEW f, f = s[Len(s)],
           f.pos \in DOMAIN Script(f.node), NEW e, e = Script(f.node)[f.pos].node,
           Script(f.node)[f.pos].do = "run", NEW b,
           b = [k \in 1 .. 3 |-> f.labels[Script(f.node)[f.pos].at[k]]],
           NEW q, q = Append(s, Frame(e, NoVar, b))
    PROVE  GenOK(q, t, l, w)
<1> DEFINE g == Frame(e, NoVar, b)
           o == Script(f.node)[f.pos]
           n == Len(s)
<1>1. /\ t \in Nat /\ l \in Nat /\ StackOK(s, t, l) /\ n \in 1 .. n /\ n \in Nat
      /\ OrderOK(f.node, o, Point(f), Next1(f)) /\ f \in Frames /\ FrameOK(f, t, l)
      /\ StateOK(Point(f))
  BY OrderIs
<1>2. RunOK(f.node, o, Point(f), Next1(f))
  BY <1>1 DEF OrderOK
<1>3. e \in Called /\ ~IsExpr(e) /\ e.is # "function"
  BY <1>2 DEF RunOK, Called, IsExpr, Statements, Expressions, Logical, Compare, Binary
<1> HIDE DEF o
<1>4. \A k \in 1 .. 3 : o.at[k] \in 1 .. Len(f.labels)
  BY <1>1, <1>2 DEF RunOK, FrameOK
<1>12. /\ Len(f.labels) \in Nat
       /\ \A i \in 1 .. Len(f.labels) : f.labels[i] \in 0 .. l /\ f.labels[i] \in Nat
  BY <1>1, FrameIs DEF FrameOK
<1>5. /\ \A k \in 1 .. 3 : b[k] = f.labels[o.at[k]] /\ b[k] \in 0 .. l /\ b[k] \in Nat
      /\ AreLabels(b, l)
  <2>1. \A k \in 1 .. 3 : b[k] = f.labels[o.at[k]] /\ b[k] \in 0 .. l /\ b[k] \in Nat
    BY <1>4, <1>12 DEF o
  <2>2. b \in [1 .. 3 -> Nat]
    BY <1>4, <1>12 DEF o
  <2>3. b \in Seq(Nat) /\ Len(b) = 3
    BY <2>2, ThreeAre
  <2> QED
    BY <2>1, <2>3 DEF AreLabels
<1>6. NewCall(g, t, l) /\ g.node = e /\ g.dst = NoVar /\ g.labels = b
  <2>1. t \in Nat /\ l \in Nat /\ e \in Called /\ ~IsExpr(e) /\ AreLabels(b, l)
    BY <1>1, <1>3, <1>5
  <2>2. NewCall(Frame(e, NoVar, b), t, l)
    BY <2>1, NewStatement
  <2>3. Frame(e, NoVar, b).node = e /\ Frame(e, NoVar, b).dst = NoVar
    BY <2>1 DEF Frame
  <2>4. Frame(e, NoVar, b).labels = b
    BY <2>1 DEF Frame
  <2> QED
    BY <2>2, <2>3, <2>4
<1>7. \A j \in 1 .. n : NoVar \notin HeldTemps(s[j])
  BY DEF HeldTemps, NoVar
<1>8. ~IsExpr(f.node) /\ HeldTemps(f) = {} /\ Idle(Point(f)) /\ t >= t
  <2>1. f.held = <<>>
    <3>1. Point(f).held = <<>>
      BY <1>2 DEF RunOK
    <3>2. Len(f.held) = 0 /\ f.held \in Seq(Val)
      BY <1>1, <3>1, FrameIs DEF FrameOK
    <3> QED
      BY <3>2
  <2>2. HeldTemps(f) = {}
    BY <2>1, NothingHeld
  <2>3. ~IsExpr(f.node) /\ Idle(Point(f))
    BY <1>2 DEF RunOK
  <2> QED
    BY <1>1, <2>2, <2>3
<1>13. \A i \in 1 .. 3 : b[i] = 0 \/ \E j \in 1 .. n : b[i] \in Owns(s[j])
  <2> TAKE i \in 1 .. 3
  <2>1. CASE o.at[i] \in 1 .. 3
    <3>1. LabelsGiven(s, n)
      BY <1>1 DEF StackOK
    <3>2. b[i] = 0 \/ \E j \in 1 .. n - 1 : b[i] \in Owns(s[j])
      BY <1>5, <1>8, <2>1, <3>1 DEF LabelsGiven
    <3>3. \A j \in 1 .. n - 1 : j \in 1 .. n
      BY <1>1
    <3> QED
      BY <3>2, <3>3
  <2>2. CASE o.at[i] \in 4 .. Len(f.labels)
    BY <1>1, <1>5, <2>2 DEF Owns
  <2>3. o.at[i] \in 1 .. 3 \/ o.at[i] \in 4 .. Len(f.labels)
    <3>1. \A x \in Nat : \A y \in 1 .. x : y \in 1 .. 3 \/ y \in 4 .. x
      OBVIOUS
    <3> QED
      BY <1>4, <1>12, <3>1
  <2> QED
    BY <2>1, <2>2, <2>3
<1> HIDE DEF g
<1>9. Waits(f, g)
  BY <1>1, <1>3, <1>6 DEF Waits, o
<1>10. q = Append(s, g)
  BY DEF g
<1>11. \A j \in 1 .. n : g.dst \notin HeldTemps(s[j])
  BY <1>6, <1>7
<1>14. \A i \in 1 .. 3 : g.labels[i] = 0 \/ \E j \in 1 .. n : g.labels[i] \in Owns(s[j])
  BY <1>6, <1>13
<1>15. MayEnter(s, f, g)
  BY <1>3, <1>6, <1>8, <1>9, <1>11, <1>14 DEF MayEnter
<1> QED
  BY <1>1, <1>6, <1>8, <1>10, <1>15, EnterStep

-----------------------------------------------------------------------------
(* An instruction is appended.                                              *)

\* What is held below f is apart from what f holds and makes.
Apart(f, outer) ==
    /\ outer \cap (HeldTemps(f) \cup Private(f)) = {}
    /\ IsExpr(f.node) \/ outer = {}

\* A label that a statement was given is jumped to with nothing pending.
GivenLabels(f, w) ==
    \A i \in 1 .. 3 : ~IsExpr(f.node) /\ f.labels[i] # 0 /\ f.labels[i] \in DOMAIN w.awaited
                         => w.awaited[f.labels[i]] = {}

\* Behind the last instruction of the function no label is still awaited.
NoneAwaited(f, w) ==
    f.node.is = "function" => \A d \in DOMAIN w.awaited : d \in w.placed \/ d \in Owns(f)

SayOK(e, in, a, b) ==
    PlainOK(e, in, a, b) \/ JumpOK(e, in, a, b) \/ PlaceOK(e, in, a, b) \/ EndOK(e, in, a, b)

\* The register allocator has gone from w to y, while f has become g.
Given(f, d) == ~IsExpr(f.node) /\ d # 0 /\ \E i \in 1 .. 3 : f.labels[i] = d
Walked(f, g, outer, w, y) ==
    /\ y.kept /\ TopOK(g, outer, y) /\ LabelsAt(g, outer, y) /\ OthersStay(f, w, y)
    /\ w.placed \subseteq y.placed /\ y.placed \subseteq w.placed \cup Owns(f)
    /\ \A d \in DOMAIN y.awaited : d \in DOMAIN w.awaited \/ d \in Owns(f) \/ Given(f, d)

\* g instead of the call on top.
Replaced(s, q, g) ==
    /\ q \in Seq(Frames) /\ Len(q) = Len(s) /\ q[Len(s)] = g
    /\ \A j \in 1 .. Len(s) - 1 : q[j] = s[j]

LEMMA HeldNone ==
    ASSUME NEW f \in Frames, Len(f.held) = Len(Point(f).held), Point(f).held = <<>>
    PROVE  HeldTemps(f) = {}
<1>1. Len(f.held) = 0 /\ f.held \in Seq(Val)
  BY FrameIs
<1>2. f.held = <<>>
  BY <1>1
<1> QED
  BY <1>2, NothingHeld

\* Generate: the call on top, ...
LEMMA SayFrame ==
    ASSUME NEW t \in Nat, NEW l \in Nat, NEW f, FrameOK(f, t, l), f.pos \in DOMAIN Script(f.node),
           NEW o, OperandsOK(f.node, o, Point(f), Next1(f)),
           NEW outer, Apart(f, outer), NEW w, w.kept, TopOK(f, outer, w), LabelsAt(f, outer, w),
           NEW g, Follows(f, g),
           g.held = SubSeq(f.held, 1, Len(f.held) - o.takes) \o Resolved(f, o.keeps),
           g.temps = f.temps, g.labels = f.labels
    PROVE  FrameOK(g, t, l) /\ Appends(f, g, outer, w, o.in, Said(f, o.in))
<1> DEFINE in == o.in
           x == Said(f, o.in)
<1>1. FrameOK(g, t, l) /\ Uses(f, g, in, x)
  BY OperandsStep
<1>2. x.op = in.op /\ x.n = in.n /\ x.label = (IF in.label = 0 THEN 0 ELSE f.labels[in.label])
  BY DEF Said
<1>3. f \in Frames /\ f.pos \in DOMAIN States(f.node) /\ Point(g) = Next1(f)
  BY PointFollows DEF FrameOK
<1>4. StateOK(Point(f)) /\ StateOK(Point(g))
  BY <1>3, OrderHolds
<1>5. /\ Len(f.labels) = 3 + Point(f).labels
      /\ \A i, j \in 4 .. Len(f.labels) : f.labels[i] = f.labels[j] => i = j
      /\ \A i \in 4 .. Len(f.labels) : f.labels[i] # 0
  <2>1. Len(f.labels) \in Nat
    BY <1>3, FrameIs
  <2>2. \A i \in 4 .. Len(f.labels) : i \in 1 .. Len(f.labels) /\ i > 3
    BY <2>1
  <2> QED
    BY <2>2 DEF FrameOK
<1>6. g.node = f.node /\ g.dst = f.dst
  BY DEF Follows
<1>7. outer \cap (HeldTemps(f) \cup Private(f)) = {} /\ (IsExpr(f.node) \/ outer = {})
  BY DEF Apart
<1> HIDE DEF in, x
<1>8. Appends(f, g, outer, w, in, x)
  BY <1>1, <1>2, <1>4, <1>5, <1>6, <1>7 DEF Appends
<1> QED
  BY <1>1, <1>8 DEF in, x

\* ... the register allocator, ...
LEMMA SayWalk ==
    ASSUME NEW f, NEW g, NEW outer, NEW w, NEW in, NEW x, Appends(f, g, outer, w, in, x),
           NEW t, NEW l, FrameOK(f, t, l), FrameOK(g, t, l), GivenLabels(f, w), NoneAwaited(f, w),
           SayOK(f.node, in, Point(f), Point(g))
    PROVE  Walked(f, g, outer, w, Walk(w, x))
<1> DEFINE y == Walk(w, x)
<1>1. /\ f \in Frames /\ Len(f.held) = Len(Point(f).held)
      /\ g \in Frames /\ Len(g.held) = Len(Point(g).held)
  BY DEF FrameOK
<1>2. CASE PlainOK(f.node, in, Point(f), Point(g))
  <2>1. /\ y.kept /\ TopOK(g, outer, y) /\ LabelsAt(g, outer, y)
        /\ OthersStay(f, w, y)
        /\ y.placed = w.placed /\ DOMAIN y.awaited = DOMAIN w.awaited
    BY <1>1, <1>2, PlainStep
  <2> HIDE DEF y
  <2>2. Walked(f, g, outer, w, y)
    BY <2>1 DEF Walked
  <2> QED
    BY <2>2 DEF y
<1>3. CASE JumpOK(f.node, in, Point(f), Point(g))
  <2>1. HeldTemps(g) = {}
    <3>1. Point(g).held = <<>>
      BY <1>3 DEF JumpOK
    <3> QED
      BY <1>1, <3>1, HeldNone
  <2>2. /\ y.kept /\ TopOK(g, outer, y) /\ LabelsAt(g, outer, y)
        /\ OthersStay(f, w, y)
        /\ y.placed = w.placed
        /\ \/ DOMAIN y.awaited = DOMAIN w.awaited
           \/ \E i \in 1 .. Len(f.labels) : /\ f.labels[i] # 0 /\ (i > 3 \/ ~IsExpr(f.node))
                   /\ DOMAIN y.awaited = DOMAIN w.awaited \cup {f.labels[i]}
    <3>1. \A i \in 1 .. 3 : ~IsExpr(f.node) /\ f.labels[i] # 0 /\ f.labels[i] \in DOMAIN w.awaited
                               => w.awaited[f.labels[i]] = {}
      BY DEF GivenLabels
    <3> QED
      BY <1>1, <1>3, <2>1, <3>1, JumpStep
  <2> HIDE DEF y
  <2>3. ASSUME NEW i \in 1 .. Len(f.labels), f.labels[i] # 0, i > 3 \/ ~IsExpr(f.node),
               DOMAIN y.awaited = DOMAIN w.awaited \cup {f.labels[i]}
        PROVE  f.labels[i] \in Owns(f) \/ Given(f, f.labels[i])
    <3>1. Len(f.labels) \in Nat
      BY <1>1, FrameIs
    <3>2. i \in 4 .. Len(f.labels) \/ i \in 1 .. 3
      BY <3>1
    <3>3. i \in 1 .. 3 => ~(i > 3)
      BY <3>1
    <3> QED
      BY <2>3, <3>2, <3>3 DEF Owns, Given
  <2>4. Walked(f, g, outer, w, y)
    BY <2>2, <2>3 DEF Walked
  <2> QED
    BY <2>4 DEF y
<1>4. CASE PlaceOK(f.node, in, Point(f), Point(g))
  <2>1. HeldTemps(f) = {} /\ HeldTemps(g) = {}
    <3>1. Point(f).held = <<>> /\ Point(g).held = <<>>
      BY <1>4 DEF PlaceOK
    <3> QED
      BY <1>1, <3>1, HeldNone
  <2>2. /\ y.kept /\ TopOK(g, outer, y) /\ LabelsAt(g, outer, y)
        /\ OthersStay(f, w, y)
        /\ DOMAIN y.awaited = DOMAIN w.awaited
        /\ \E i \in 4 .. Len(f.labels) : y.placed = w.placed \cup {f.labels[i]}
    BY <1>4, <2>1, PlaceStep
  <2> HIDE DEF y
  <2>3. \A i \in 4 .. Len(f.labels) : f.labels[i] \in Owns(f)
    BY DEF Owns
  <2>4. Walked(f, g, outer, w, y)
    BY <2>2, <2>3 DEF Walked
  <2> QED
    BY <2>4 DEF y
<1>5. CASE EndOK(f.node, in, Point(f), Point(g))
  <2>1. HeldTemps(f) = {} /\ HeldTemps(g) = {}
    <3>1. Point(f).held = <<>> /\ Point(g).held = <<>>
      BY <1>5 DEF EndOK
    <3> QED
      BY <1>1, <3>1, HeldNone
  <2>2. f.node.is = "function"
    BY <1>5 DEF EndOK
  <2>3. ~IsExpr(f.node) /\ \A d \in DOMAIN w.awaited : d \in w.placed \/ d \in Owns(f)
    BY <2>2 DEF NoneAwaited, IsExpr, Expressions, Logical, Compare, Binary
  <2>4. /\ y.kept /\ TopOK(g, outer, y) /\ LabelsAt(g, outer, y)
        /\ OthersStay(f, w, y)
        /\ y.placed = w.placed /\ DOMAIN y.awaited = DOMAIN w.awaited
    BY <1>1, <1>5, <2>1, <2>3, EndStep
  <2> HIDE DEF y
  <2>5. Walked(f, g, outer, w, y)
    BY <2>4 DEF Walked
  <2> QED
    BY <2>5 DEF y
<1> QED
  BY <1>2, <1>3, <1>4, <1>5 DEF SayOK

\* ... and the calls below, whose labels stay as they were.
LEMMA LowerStays ==
    ASSUME NEW h, NEW f, NEW outer, NEW w, NEW y, LabelsAt(h, outer, w), OthersStay(f, w, y),
           Below(h, f), IsExpr(f.node) \/ outer = {}
    PROVE  LabelsAt(h, outer, y)
<1> SUFFICES ASSUME NEW i \in 4 .. Len(h.labels)
             PROVE  LabelAt(h, outer, y, i)
  BY DEF LabelsAt
<1> DEFINE d == h.labels[i]
<1>1. LabelAt(h, outer, w, i)
  BY DEF LabelsAt
<1>2. d \notin Owns(f)
  BY DEF Below, Owns
<1>3. /\ d \in y.placed <=> d \in w.placed
      /\ DOMAIN w.awaited \subseteq DOMAIN y.awaited
      /\ d \in DOMAIN y.awaited => \/ d \in DOMAIN w.awaited /\ y.awaited[d] = w.awaited[d]
                                   \/ ~IsExpr(f.node) /\ y.awaited[d] = {}
  BY <1>2 DEF OthersStay
<1> HIDE DEF d
<1>4. CASE d \in DOMAIN y.awaited /\ ~IsExpr(f.node) /\ y.awaited[d] = {}
  <2>1. outer = {} /\ ~IsExpr(h.node)
    BY <1>4 DEF Below
  <2>2. i # EndOf(h.node)
    <3>1. EndOf(h.node) = 0 /\ i # 0
      BY <2>1, NoEnd
    <3> QED
      BY <3>1
  <2> QED
    BY <1>1, <1>3, <1>4, <2>1, <2>2 DEF LabelAt, d
<1>5. CASE d \in DOMAIN w.awaited /\ y.awaited[d] = w.awaited[d]
  BY <1>1, <1>3, <1>5 DEF LabelAt, d
<1>6. CASE d \notin DOMAIN y.awaited
  BY <1>1, <1>3, <1>6 DEF LabelAt, d
<1> QED
  BY <1>3, <1>4, <1>5, <1>6

\* What the stack says of the call on top.
LEMMA TopApart ==
    ASSUME NEW s, NEW t \in Nat, NEW l \in Nat, StackOK(s, t, l), NEW w, WalkOK(s, w, l), s # <<>>,
           NEW f, f = s[Len(s)]
    PROVE  /\ Apart(f, Outer(s, Len(s))) /\ GivenLabels(f, w) /\ NoneAwaited(f, w)
           /\ \A k \in 1 .. Len(s) - 1 : Below(s[k], f) /\ (IsExpr(f.node) \/ Outer(s, k) = {})
<1> DEFINE n == Len(s)
<1>1. n \in Nat /\ n \in 1 .. n /\ \A k \in 1 .. n - 1 : k \in 1 .. n /\ k < n
  BY TopIs
<1>2. \A k \in 1 .. n - 1 : Below(s[k], f)
  BY <1>1 DEF StackOK
<1>3. Apart(f, Outer(s, n))
  BY <1>2 DEF Apart, Outer, Below
<1>4. ASSUME NEW k \in 1 .. n - 1, ~IsExpr(f.node)
      PROVE  Outer(s, k) = {} /\ ~IsExpr(s[k].node)
  <2>1. \A j \in 1 .. k - 1 : j \in 1 .. n - 1
    BY <1>1
  <2>2. \A j \in 1 .. k - 1 : HeldTemps(s[j]) = {}
    BY <1>2, <1>4, <2>1 DEF Below
  <2>3. ~IsExpr(s[k].node)
    BY <1>2, <1>4 DEF Below
  <2> QED
    BY <2>2, <2>3 DEF Outer
<1>5. GivenLabels(f, w)
  <2> SUFFICES ASSUME NEW i \in 1 .. 3, ~IsExpr(f.node), f.labels[i] # 0,
                      f.labels[i] \in DOMAIN w.awaited
               PROVE  w.awaited[f.labels[i]] = {}
    BY DEF GivenLabels
  <2>1. LabelsGiven(s, n)
    BY <1>1 DEF StackOK
  <2>2. PICK j \in 1 .. n - 1 : f.labels[i] \in Owns(s[j])
    BY <2>1 DEF LabelsGiven
  <2>3. PICK k \in 4 .. Len(s[j].labels) : f.labels[i] = s[j].labels[k]
    BY <2>2 DEF Owns
  <2>4. LabelAt(s[j], Outer(s, j), w, k)
    <3>1. LabelsAt(s[j], Outer(s, j), w)
      BY <1>1 DEF WalkOK
    <3> QED
      BY <3>1 DEF LabelsAt
  <2>5. Outer(s, j) = {} /\ EndOf(s[j].node) = 0 /\ k # 0
    BY <1>4, NoEnd
  <2>6. w.awaited[s[j].labels[k]]
           = Outer(s, j) \cup (IF k = EndOf(s[j].node) THEN {s[j].dst} ELSE {})
    BY <2>3, <2>4 DEF LabelAt
  <2> QED
    BY <2>3, <2>5, <2>6
<1>6. NoneAwaited(f, w)
  <2> SUFFICES ASSUME f.node.is = "function", NEW d \in DOMAIN w.awaited
               PROVE  d \in w.placed \/ d \in Owns(f)
    BY DEF NoneAwaited
  <2>1. n = 1
    BY <1>1 DEF StackOK
  <2>2. d \in w.placed \/ \E k \in 1 .. n : d \in Owns(s[k])
    BY DEF WalkOK
  <2>3. \A k \in 1 .. n : k = n
    BY <2>1
  <2> QED
    BY <2>2, <2>3
<1> QED
  BY <1>2, <1>3, <1>4, <1>5, <1>6

\* The call on top has become g, which stands where f stood.
LEMMA StackSays ==
    ASSUME NEW s, NEW t \in Nat, NEW l \in Nat, StackOK(s, t, l), NEW n \in 1 .. Len(s),
           NEW f, f = s[n], NEW g, FrameOK(g, t, l), g.node = f.node, g.dst = f.dst,
           g.labels = f.labels,
           NEW q \in Seq(Frames), Len(q) = n, \A j \in 1 .. n - 1 : q[j] = s[j], q[n] = g,
           \A j \in 1 .. n - 1 : /\ HeldTemps(s[j]) \cap (HeldTemps(g) \cup Private(g)) = {}
                                 /\ Owns(s[j]) \cap Owns(g) = {}
    PROVE  StackOK(q, t, l)
<1>1. t >= t /\ l >= l /\ Stands(s, n, g)
  BY DEF Stands
<1> QED
  BY <1>1, StackBecomes

\* The stack and the walk after an instruction of the call on top.
LEMMA SayStack ==
    ASSUME NEW s, NEW t \in Nat, NEW l \in Nat, StackOK(s, t, l), NEW w, WalkOK(s, w, l), s # <<>>,
           NEW f, f = s[Len(s)], NEW g, Follows(f, g), FrameOK(g, t, l),
           g.temps = f.temps, g.labels = f.labels, HeldTemps(g) \subseteq HeldTemps(f) \cup Private(f),
           NEW y, Walked(f, g, Outer(s, Len(s)), w, y),
           NEW q, Replaced(s, q, g)
    PROVE  StackOK(q, t, l) /\ WalkOK(q, y, l)
<1> DEFINE n == Len(s)
<1>1. /\ n \in Nat /\ n \in 1 .. n /\ f \in Frames /\ FrameOK(f, t, l)
      /\ \A k \in 1 .. n - 1 : k \in 1 .. n /\ k < n
  BY TopIs
<1>3. /\ q \in Seq(Frames) /\ Len(q) = n /\ q[n] = g /\ f = s[n] /\ n \in 1 .. Len(s)
      /\ \A j \in 1 .. n - 1 : q[j] = s[j]
  BY <1>1 DEF Replaced
<1>2. g \in Frames /\ g.node = f.node /\ g.dst = f.dst
  BY DEF Follows
<1>4. \A k \in 1 .. n - 1 : Below(s[k], f) /\ (IsExpr(f.node) \/ Outer(s, k) = {})
  BY TopApart
<1>5. Owns(g) = Owns(f) /\ Private(g) = Private(f)
  BY <1>2 DEF Owns, Private
<1>6. /\ y.kept /\ TopOK(g, Outer(s, n), y) /\ LabelsAt(g, Outer(s, n), y) /\ OthersStay(f, w, y)
      /\ w.placed \subseteq y.placed /\ y.placed \subseteq w.placed \cup Owns(f)
      /\ \A d \in DOMAIN y.awaited : d \in DOMAIN w.awaited \/ d \in Owns(f) \/ Given(f, d)
  BY DEF Walked
<1>13. LabelsGiven(s, n) /\ \A k \in 1 .. Len(s) : ~(k > n)
  BY <1>1 DEF StackOK
<1>14. \A k \in 1 .. n - 1 : LabelsAt(s[k], Outer(s, k), w)
  BY <1>1 DEF WalkOK
<1> HIDE DEF n
<1>7. StackOK(q, t, l)
  <2>1. \A j \in 1 .. n - 1 : /\ HeldTemps(s[j]) \cap (HeldTemps(g) \cup Private(g)) = {}
                              /\ Owns(s[j]) \cap Owns(g) = {}
    BY <1>4, <1>5 DEF Below
  <2> QED
    BY <1>2, <1>3, <2>1, StackSays
\* The labels.
<1>8. ASSUME NEW d, d \in Owns(f) \/ Given(f, d)
      PROVE  d \in 1 .. l
  <2>1. Len(f.labels) \in Nat /\ Len(f.labels) >= 3
    <3>1. StateOK(Point(f))
      BY <1>1, FrameIs, OrderHolds, EndHolds DEF FrameOK
    <3> QED
      <4>1. Point(f).labels \in Nat
        BY <3>1 DEF StateOK
      <4>2. Len(f.labels) = 3 + Point(f).labels
        BY <1>1 DEF FrameOK
      <4> QED
        BY <4>1, <4>2
  <2>2. \A i \in 4 .. Len(f.labels) : i \in 1 .. Len(f.labels) /\ i > 3
    BY <2>1
  <2>3. \A i \in 1 .. 3 : i \in 1 .. Len(f.labels)
    BY <2>1
  <2>4. \A i \in 1 .. Len(f.labels) : f.labels[i] \in 0 .. l /\ (i > 3 => f.labels[i] # 0)
    BY <1>1 DEF FrameOK
  <2>5. d \in 0 .. l /\ d # 0
    BY <1>8, <2>2, <2>3, <2>4 DEF Owns, Given
  <2> QED
    BY <2>5
<1>9. y.placed \subseteq 1 .. l /\ DOMAIN y.awaited \subseteq 1 .. l
  <2>1. w.placed \subseteq 1 .. l /\ DOMAIN w.awaited \subseteq 1 .. l
    BY DEF WalkOK
  <2> QED
    BY <1>6, <1>8, <2>1
<1>10. ASSUME NEW k \in 1 .. n - 1
       PROVE  LabelsAt(s[k], Outer(s, k), y)
  <2>1. LabelsAt(s[k], Outer(s, k), w)
    BY <1>14
  <2>2. Below(s[k], f) /\ (IsExpr(f.node) \/ Outer(s, k) = {})
    BY <1>4
  <2> QED
    BY <1>6, <2>1, <2>2, LowerStays
<1>11. \A d \in DOMAIN y.awaited : d \in DOMAIN w.awaited \/ d \in Owns(g)
                                      \/ \E j \in 1 .. n - 1 : d \in Owns(s[j])
  <2> SUFFICES ASSUME NEW d \in DOMAIN y.awaited, Given(f, d)
               PROVE  \E j \in 1 .. n - 1 : d \in Owns(s[j])
    BY <1>5, <1>6
  <2> QED
    BY <1>3, <1>13 DEF LabelsGiven, Given
<1>12. WalkOK(q, y, l)
  <2>1. \A k \in 1 .. Len(s) : k > n => Owns(s[k]) \subseteq y.placed
    BY <1>13
  <2>2. l >= l
    BY <1>1
  <2>3. Owns(f) \subseteq Owns(g)
    BY <1>5
  <2> QED
    BY <1>3, <1>6, <1>9, <1>10, <1>11, <2>1, <2>2, <2>3, WalkBecomes
<1> QED
  BY <1>7, <1>12

\* The same, for the stack that Become leaves.
LEMMA SayEnds ==
    ASSUME NEW s, NEW t \in Nat, NEW l \in Nat, StackOK(s, t, l), NEW w, WalkOK(s, w, l), s # <<>>,
           NEW f, f = s[Len(s)], NEW g, Follows(f, g), FrameOK(g, t, l),
           g.temps = f.temps, g.labels = f.labels, HeldTemps(g) \subseteq HeldTemps(f) \cup Private(f),
           NEW y, Walked(f, g, Outer(s, Len(s)), w, y), NEW q, q = [s EXCEPT ![Len(s)] = g]
    PROVE  StackOK(q, t, l) /\ WalkOK(q, y, l)
<1>1. /\ Len(s) \in 1 .. Len(s) /\ s \in Seq(Frames)
  BY TopIs
<1>2. g \in Frames
  BY DEF Follows
<1>3. Replaced(s, q, g)
  BY <1>1, <1>2, BecomeIs DEF Replaced
<1> QED
  BY <1>1, <1>3, SayStack

\* A step of Generate: the rules are kept and the state of the generator remains.
LEMMA SayStep ==
    ASSUME NEW s, NEW t, NEW l, NEW w, GenOK(s, t, l, w), s # <<>>, NEW f, f = s[Len(s)],
           f.pos \in DOMAIN Script(f.node), Script(f.node)[f.pos].do = "say",
           NEW g, Follows(f, g),
           g.held = SubSeq(f.held, 1, Len(f.held) - Script(f.node)[f.pos].takes)
                       \o Resolved(f, Script(f.node)[f.pos].keeps),
           g.temps = f.temps, g.labels = f.labels, NEW q, q = [s EXCEPT ![Len(s)] = g]
    PROVE  GenOK(q, t, l, Walk(w, Said(f, Script(f.node)[f.pos].in)))
<1> DEFINE o == Script(f.node)[f.pos]
           outer == Outer(s, Len(s))
<1>1. /\ t \in Nat /\ l \in Nat /\ StackOK(s, t, l) /\ WalkOK(s, w, l)
      /\ f \in Frames /\ FrameOK(f, t, l) /\ OrderOK(f.node, o, Point(f), Next1(f))
      /\ LabelsAt(f, outer, w) /\ TopOK(f, outer, w)
  BY OrderIs
<1>2. OperandsOK(f.node, o, Point(f), Next1(f)) /\ SayOK(f.node, o.in, Point(f), Next1(f))
  BY <1>1 DEF OrderOK, SayOK
<1>3. g.held = SubSeq(f.held, 1, Len(f.held) - o.takes) \o Resolved(f, o.keeps)
  OBVIOUS
<1> HIDE DEF o, outer
<1>4. Apart(f, outer) /\ GivenLabels(f, w) /\ NoneAwaited(f, w) /\ w.kept
  BY <1>1, TopApart DEF outer, WalkOK
<1>5. FrameOK(g, t, l) /\ Appends(f, g, outer, w, o.in, Said(f, o.in))
  BY <1>1, <1>2, <1>3, <1>4, SayFrame
<1>6. Point(g) = Next1(f)
  BY <1>1, PointFollows
<1> DEFINE x == Said(f, o.in)
           y == Walk(w, x)
<1>7. Walked(f, g, outer, w, y)
  <2>1. SayOK(f.node, o.in, Point(f), Point(g))
    BY <1>2, <1>6
  <2> QED
    BY <1>1, <1>4, <1>5, <2>1, SayWalk
<1>8. HeldTemps(g) \subseteq HeldTemps(f) \cup Private(f)
  BY <1>5 DEF Appends, Uses
<1> HIDE DEF y
<1>9. StackOK(q, t, l) /\ WalkOK(q, y, l)
  <2>1. Walked(f, g, Outer(s, Len(s)), w, y)
    BY <1>7 DEF outer
  <2> QED
    BY <1>1, <1>5, <1>8, <2>1, SayEnds
<1>10. GenOK(q, t, l, y)
  BY <1>1, <1>9 DEF GenOK
<1> QED
  BY <1>10 DEF y, x, o

-----------------------------------------------------------------------------
(* The generator's state, in every reachable state of the machine.          *)

IInv == GenOK(stack, TempID, labelId, walk)

\* The operands that are left behind an instruction are a sequence of variables.
LEMMA KeptIs ==
    ASSUME NEW f, NEW t, NEW l, FrameOK(f, t, l), NEW o,
           OperandsOK(f.node, o, Point(f), Next1(f))
    PROVE  SubSeq(f.held, 1, Len(f.held) - o.takes) \o Resolved(f, o.keeps) \in Seq(Val)
<1> DEFINE m == Len(f.held) - o.takes
           q == o.keeps
           r == SubSeq(f.held, 1, m)
           p == Resolved(f, q)
<1>1. /\ f.held \in Seq(Val) /\ Len(f.held) \in Nat /\ DOMAIN f.held = 1 .. Len(f.held)
      /\ \A i \in 1 .. Len(f.held) : f.held[i] \in Val
  BY FrameIs DEF FrameOK
<1>2. o.takes \in 0 .. Len(f.held)
  <2>1. Len(f.held) = Len(Point(f).held)
    BY DEF FrameOK
  <2> QED
    BY <2>1 DEF OperandsOK
<1>3. q \in Seq(Held) /\ \A j \in DOMAIN q : IsOwn(f.node, Point(f), q[j])
  BY DEF OperandsOK
<1>4. m \in Nat /\ m <= Len(f.held)
  <2>1. \A x \in Nat : \A y \in 0 .. x : x - y \in Nat /\ x - y <= x
    OBVIOUS
  <2> QED
    BY <1>1, <1>2, <2>1
<1>5. r \in Seq(Val)
  <2>1. \A i \in 1 .. m : f.held[i] \in Val
    BY <1>1, <1>4
  <2> QED
    BY <1>4, <2>1, SubSeqProperties
<1>6. p \in Seq(Val)
  <2>1. Len(q) \in Nat /\ DOMAIN q = 1 .. Len(q)
    BY <1>3
  <2>2. \A j \in 1 .. Len(q) : Operand(f, q[j]) \in Val
    BY <1>3, <2>1, OwnIs DEF Temps
  <2>3. p = [j \in 1 .. Len(q) |-> Operand(f, q[j])]
    BY <2>1 DEF Resolved
  <2> HIDE DEF p, q
  <2> QED
    BY <2>1, <2>2, <2>3, IsASeq
<1> HIDE DEF r, p
<1>7. r \o p \in Seq(Val)
  BY <1>5, <1>6, ConcatProperties, Zenon
<1> QED
  BY <1>7 DEF r, p, m, q

\* At first the function is about to be translated.
LEMMA FirstOK ==
    ASSUME NEW b \in Bodies, NEW g, g = Frame([is |-> "function", body |-> b], NoVar, NoLabels),
           NEW w, w = [pending |-> {}, placed |-> {}, awaited |-> <<>>, redo |-> {}, passed |-> 0,
                       kept |-> TRUE]
    PROVE  GenOK(<<g>>, 0, 0, w)
<1> DEFINE e == [is |-> "function", body |-> b]
           s == <<g>>
<1>1. e \in Called /\ ~IsExpr(e) /\ e.is = "function"
  BY DEF Called, Function, IsExpr, Expressions, Logical, Compare, Binary
<1>2. NewCall(g, 0, 0)
  <2>1. AreLabels(NoLabels, 0)
    BY NoLabelsIs
  <2> HIDE DEF e
  <2>2. NewCall(Frame(e, NoVar, NoLabels), 0, 0)
    BY <1>1, <2>1, NewStatement
  <2> QED
    BY <2>2 DEF e
<1>3. g.node.is = "function" /\ ~IsExpr(g.node) /\ \A i \in 1 .. 3 : g.labels[i] = 0
  BY <1>1 DEF Frame, NoLabels
<1>4. /\ FrameOK(g, 0, 0) /\ Point(g) = Has(<<>>) /\ Len(g.labels) = 3
      /\ HeldTemps(g) = {} /\ g \in Frames
  BY <1>2 DEF NewCall, FrameOK
<1>5. /\ s \in Seq(Frames) /\ Len(s) = 1 /\ s[1] = g /\ s # <<>>
  BY <1>4
<1>11. w.pending = {} /\ w.placed = {} /\ w.awaited = <<>> /\ w.redo = {} /\ w.passed = 0 /\ w.kept
  OBVIOUS
<1> HIDE DEF e, s
<1>6. \A k \in 1 .. Len(s) : k = 1 /\ s[k] = g
  BY <1>5
<1>7. Outer(s, 1) = {}
  BY DEF Outer
<1>8. StackOK(s, 0, 0)
  <2>1. \A k \in 1 .. Len(s) : LabelsGiven(s, k)
    BY <1>3, <1>6 DEF LabelsGiven
  <2>2. \A j, k \in 1 .. Len(s) : ~(j < k)
    BY <1>6
  <2>3. \A k \in 1 .. Len(s) : k + 1 \notin 1 .. Len(s)
    BY <1>6
  <2> QED
    BY <1>3, <1>4, <1>5, <1>6, <2>1, <2>2, <2>3 DEF StackOK
<1>9. LabelsAt(g, Outer(s, 1), w) /\ TopOK(g, Outer(s, 1), w)
  <2>1. \A i \in 4 .. Len(g.labels) : FALSE
    <3>1. Len(g.labels) = 3
      BY <1>4
    <3>2. \A i \in 4 .. 3 : FALSE
      OBVIOUS
    <3> QED
      BY <3>1, <3>2
  <2>2. Point(g).writ = "no" /\ Point(g).passed = 0
    BY <1>4 DEF Has, Was
  <2> QED
    BY <1>4, <1>7, <1>11, <2>1, <2>2 DEF LabelsAt, TopOK, Written
<1>10. WalkOK(s, w, 0)
  <2>1. DOMAIN w.awaited = {}
    BY <1>11
  <2> QED
    BY <1>5, <1>6, <1>9, <1>11, <2>1 DEF WalkOK
<1> QED
  BY <1>8, <1>10 DEF GenOK, s

\* The call on top, which has an order to obey.
LEMMA DueIs ==
    ASSUME IInv, NEW kind, Due(kind)
    PROVE  /\ GenOK(stack, TempID, labelId, walk) /\ stack # <<>> /\ stack \in Seq(Frames)
           /\ TempID \in Nat /\ labelId \in Nat
           /\ Current = stack[Len(stack)] /\ Current \in Frames
           /\ FrameOK(Current, TempID, labelId)
           /\ Current.pos \in DOMAIN Script(Current.node)
           /\ Order = Script(Current.node)[Current.pos] /\ Order.do = kind
           /\ OrderOK(Current.node, Order, Point(Current), Next1(Current))
<1>1. /\ GenOK(stack, TempID, labelId, walk) /\ stack # <<>>
      /\ Current = stack[Len(stack)] /\ Current.pos \in DOMAIN Script(Current.node)
      /\ Order = Script(Current.node)[Current.pos] /\ Order.do = kind
  BY DEF IInv, Due, Obeys, Order, Current, Last
<1> HIDE DEF IInv, Due
<1> QED
  BY <1>1, OrderIs

LEMMA StepIs ==
    ASSUME NEW f \in Frames
    PROVE  Step(f).held = f.held /\ Step(f).labels = f.labels /\ Step(f).temps = f.temps
BY DEF Step, Frames

\* The actions, one by one.
LEMMA GetAtomKeeps ==
    ASSUME IInv, GetAtom
    PROVE  IInv'
<1> DEFINE f == Current
           v == Atom(Order.node)
           h == Append(f.held, v)
           g == Holding(f, h)
<1>1. Due("get") /\ Order.node.is \in {"num", "id"} /\ UNCHANGED <<TempID, labelId, walk>>
  BY DEF GetAtom
<1>2. /\ GenOK(stack, TempID, labelId, walk) /\ stack # <<>> /\ f \in Frames
      /\ f = stack[Len(stack)] /\ f.pos \in DOMAIN Script(f.node)
      /\ Order = Script(f.node)[f.pos] /\ Order.do = "get"
      /\ OrderOK(f.node, Order, Point(f), Next1(f))
  BY <1>1, DueIs
<1>3. stack' = [stack EXCEPT ![Len(stack)] = g]
  BY <1>2, StepIs DEF GetAtom, Become, Holding
<1>4. v \in Val
  <2>1. Order.node \in Nodes
    BY <1>2 DEF GetOK, OrderOK
  <2>2. /\ Order.node.is = "num" => Order.node.val \in Int
        /\ Order.node.is = "id" => Order.node.var \in 1 .. NumVars
    BY <2>1, NodesAssumption
  <2>3. 1 .. NumVars \subseteq Int
    OBVIOUS
  <2> QED
    BY <1>1, <2>2, <2>3 DEF Atom, Const, Var, Val
<1>5. h \in Seq(Val)
  BY <1>2, <1>4, FrameIs
<1> HIDE DEF f, h
<1>6. Follows(f, g) /\ g.held = h /\ g.labels = f.labels /\ g.temps = f.temps
  BY <1>2, <1>5, HoldsNow
<1>7. GenOK(stack', TempID, labelId, walk)
  BY <1>1, <1>2, <1>3, <1>6, AtomStep DEF h
<1> QED
  BY <1>1, <1>7 DEF IInv

LEMMA GenLabelKeeps ==
    ASSUME IInv, GenLabel
    PROVE  IInv'
<1> DEFINE f == Current
           h == Append(f.labels, labelId + 1)
           g == Labelled(f, h)
<1>1. Due("label") /\ UNCHANGED <<TempID, walk>> /\ labelId' = labelId + 1
  BY DEF GenLabel
<1>2. /\ GenOK(stack, TempID, labelId, walk) /\ stack # <<>> /\ f \in Frames
      /\ f = stack[Len(stack)] /\ f.pos \in DOMAIN Script(f.node)
      /\ Script(f.node)[f.pos].do = "label" /\ labelId \in Nat
  BY <1>1, DueIs
<1>3. stack' = [stack EXCEPT ![Len(stack)] = g]
  BY <1>2, StepIs DEF GenLabel, Become, Labelled
<1>5. h \in Seq(Nat)
  BY <1>2, FrameIs
<1> HIDE DEF f, h
<1>6. Follows(f, g) /\ g.held = f.held /\ g.labels = h /\ g.temps = f.temps
  BY <1>2, <1>5, LabelsNow
<1>7. GenOK(stack', TempID, labelId + 1, walk)
  BY <1>2, <1>3, <1>6, LabelStep DEF h
<1> QED
  BY <1>1, <1>7 DEF IInv

LEMMA GenTempKeeps ==
    ASSUME IInv, GenTemp
    PROVE  IInv'
<1> DEFINE f == Current
           h == Append(f.temps, Temp(TempID + 1))
           g == Making(f, h)
<1>1. Due("temp") /\ UNCHANGED <<labelId, walk>> /\ TempID' = TempID + 1
  BY DEF GenTemp, NextTemp
<1>2. /\ GenOK(stack, TempID, labelId, walk) /\ stack # <<>> /\ f \in Frames
      /\ f = stack[Len(stack)] /\ f.pos \in DOMAIN Script(f.node)
      /\ Script(f.node)[f.pos].do = "temp" /\ TempID \in Nat
  BY <1>1, DueIs
<1>3. stack' = [stack EXCEPT ![Len(stack)] = g]
  BY <1>2, StepIs DEF GenTemp, Become, Making, NextTemp
<1>5. h \in Seq(Val)
  <2>1. Temp(TempID + 1) \in Val
    BY <1>2 DEF Temp, Val
  <2> QED
    BY <1>2, <2>1, FrameIs
<1> HIDE DEF f, h
<1>6. Follows(f, g) /\ g.held = f.held /\ g.labels = f.labels /\ g.temps = h
  BY <1>2, <1>5, TempsNow
<1>7. GenOK(stack', TempID + 1, labelId, walk)
  BY <1>2, <1>3, <1>6, TempStep DEF h
<1> QED
  BY <1>1, <1>7 DEF IInv

LEMMA GetVarKeeps ==
    ASSUME IInv, GetVar
    PROVE  IInv'
<1> DEFINE f == Current
           e == Order.node
           q == Append(stack, Frame(e, Temp(TempID + 1), NoLabels))
<1>1. /\ Due("get") /\ e.is \notin {"num", "id"} /\ UNCHANGED <<labelId, walk>>
      /\ TempID' = TempID + 1 /\ stack' = q
  BY DEF GetVar, NextTemp, Enter
<1>2. /\ GenOK(stack, TempID, labelId, walk) /\ stack # <<>>
      /\ f = stack[Len(stack)] /\ f.pos \in DOMAIN Script(f.node)
      /\ e = Script(f.node)[f.pos].node /\ Script(f.node)[f.pos].do = "get"
  BY <1>1, DueIs
<1> HIDE DEF f, e
<1>3. GenOK(q, TempID + 1, labelId, walk)
  BY <1>1, <1>2, VarStep
<1> QED
  BY <1>1, <1>3 DEF IInv

LEMMA GenIntoKeeps ==
    ASSUME IInv, GenInto
    PROVE  IInv'
<1> DEFINE f == Current
           e == Order.node
           d == Operand(f, Order.dst)
           q == Append(stack, Frame(e, d, NoLabels))
<1>1. Due("into") /\ UNCHANGED <<TempID, labelId, walk>> /\ stack' = q
  BY DEF GenInto, Enter
<1>2. /\ GenOK(stack, TempID, labelId, walk) /\ stack # <<>>
      /\ f = stack[Len(stack)] /\ f.pos \in DOMAIN Script(f.node)
      /\ e = Script(f.node)[f.pos].node /\ Script(f.node)[f.pos].do = "into"
      /\ d = Operand(f, Script(f.node)[f.pos].dst)
  BY <1>1, DueIs
<1> HIDE DEF f, e, d
<1>3. GenOK(q, TempID, labelId, walk)
  BY <1>2, IntoStep
<1> QED
  BY <1>1, <1>3 DEF IInv

LEMMA GenStatementKeeps ==
    ASSUME IInv, GenStatement
    PROVE  IInv'
<1> DEFINE f == Current
           e == Order.node
           b == [k \in 1 .. 3 |-> f.labels[Order.at[k]]]
           q == Append(stack, Frame(e, NoVar, b))
<1>1. Due("run") /\ UNCHANGED <<TempID, labelId, walk>> /\ stack' = q
  BY DEF GenStatement, Enter
<1>2. /\ GenOK(stack, TempID, labelId, walk) /\ stack # <<>>
      /\ f = stack[Len(stack)] /\ f.pos \in DOMAIN Script(f.node)
      /\ e = Script(f.node)[f.pos].node /\ Script(f.node)[f.pos].do = "run"
      /\ b = [k \in 1 .. 3 |-> f.labels[Script(f.node)[f.pos].at[k]]]
  BY <1>1, DueIs
<1> HIDE DEF f, e, b
<1>3. GenOK(q, TempID, labelId, walk)
  BY <1>2, StatementStep
<1> QED
  BY <1>1, <1>3 DEF IInv

LEMMA GenerateKeeps ==
    ASSUME IInv, Generate
    PROVE  IInv'
<1> DEFINE f == Current
           o == Order
           h == SubSeq(f.held, 1, Len(f.held) - o.takes) \o Resolved(f, o.keeps)
           g == Holding(f, h)
           y == Walk(walk, Said(f, o.in))
<1>1. Due("say") /\ UNCHANGED <<TempID, labelId>> /\ walk' = y
  BY DEF Generate
<1>2. /\ GenOK(stack, TempID, labelId, walk) /\ stack # <<>> /\ f \in Frames
      /\ FrameOK(f, TempID, labelId)
      /\ f = stack[Len(stack)] /\ f.pos \in DOMAIN Script(f.node)
      /\ o = Script(f.node)[f.pos] /\ o.do = "say"
      /\ OrderOK(f.node, o, Point(f), Next1(f))
  BY <1>1, DueIs
<1>3. stack' = [stack EXCEPT ![Len(stack)] = g]
  BY <1>2, StepIs DEF Generate, Become, Holding
<1>4. h \in Seq(Val)
  <2>1. OperandsOK(f.node, o, Point(f), Next1(f))
    BY <1>2 DEF OrderOK
  <2> HIDE DEF f, o
  <2> QED
    BY <1>2, <2>1, KeptIs
<1> HIDE DEF f, h
<1>5. Follows(f, g) /\ g.held = h /\ g.labels = f.labels /\ g.temps = f.temps
  BY <1>2, <1>4, HoldsNow
<1>6. h = SubSeq(f.held, 1, Len(f.held) - Script(f.node)[f.pos].takes)
             \o Resolved(f, Script(f.node)[f.pos].keeps)
  BY <1>2 DEF h
<1>7. /\ Script(f.node)[f.pos].do = "say" /\ y = Walk(walk, Said(f, Script(f.node)[f.pos].in))
  BY <1>2
<1> HIDE DEF o, g, y
<1>8. GenOK(stack', TempID, labelId, y)
  BY <1>2, <1>3, <1>5, <1>6, <1>7, SayStep
<1> QED
  BY <1>1, <1>8 DEF IInv

\* genCode of the call on top returns.
LEMMA GenReturnKeeps ==
    ASSUME IInv, GenReturn
    PROVE  IInv'
<1> DEFINE n == Len(stack) - 1
           h == stack[n + 1]
           f == stack[n]
           d == IF h.dst = NoVar THEN f.held ELSE Append(f.held, h.dst)
           g == Holding(f, d)
<1>1. /\ stack # <<>> /\ GenOK(stack, TempID, labelId, walk) /\ UNCHANGED <<TempID, labelId, walk>>
      /\ TempID \in Nat /\ labelId \in Nat
      /\ StackOK(stack, TempID, labelId) /\ stack \in Seq(Frames)
  BY DEF GenReturn, IInv, GenOK, StackOK
<1>2. /\ Len(stack) \in Nat /\ n \in Nat /\ n + 1 = Len(stack) /\ Len(stack) - 2 = n - 1
      /\ n + 1 \in 1 .. Len(stack)
  BY <1>1
<1>3. h.pos \notin DOMAIN Script(h.node) /\ Current = h
  BY <1>2 DEF GenReturn, Obeys, Current, Last
<1>4. CASE Len(stack) = 1
  <2>1. stack' = <<>> /\ h = stack[1]
    BY <1>2, <1>4 DEF GenReturn
  <2> HIDE DEF h
  <2>2. GenOK(<<>>, TempID, labelId, walk)
    BY <1>1, <1>3, <1>4, <2>1, LastReturnStep
  <2> QED
    BY <1>1, <2>1, <2>2 DEF IInv
<1>5. CASE Len(stack) # 1
  <2>1. n > 0 /\ n \in 1 .. Len(stack)
    BY <1>2, <1>5
  <2>2. f \in Frames /\ h \in Frames /\ FrameOK(h, TempID, labelId)
    BY <1>1, <1>2, <2>1 DEF StackOK
  <2>3. stack' = Append(SubSeq(stack, 1, n - 1), g)
    BY <1>2, <1>3, <1>5 DEF GenReturn, Holding
  <2>4. d \in Seq(Val)
    <3>1. h.dst \in Val \cup {NoVar} /\ f.held \in Seq(Val)
      BY <2>2, FrameIs
    <3> QED
      BY <3>1
  <2>5. \/ h.dst = NoVar /\ d = f.held
        \/ h.dst # NoVar /\ d = Append(f.held, h.dst)
    OBVIOUS
  <2>6. h = stack[n + 1] /\ f = stack[n]
    OBVIOUS
  <2> HIDE DEF n, h, f, d
  <2>7. Follows(f, g) /\ g.held = d /\ g.labels = f.labels /\ g.temps = f.temps
    BY <2>2, <2>4, HoldsNow
  <2> HIDE DEF g
  <2>8. GenOK(stack', TempID, labelId, walk)
    BY <1>1, <1>2, <1>3, <2>1, <2>3, <2>5, <2>6, <2>7, ReturnStep
  <2> QED
    BY <1>1, <2>8 DEF IInv
<1> QED
  BY <1>4, <1>5

-----------------------------------------------------------------------------

\* The invariant holds when the translation begins.
LEMMA InitHolds == Init => IInv
<1> SUFFICES ASSUME Init PROVE IInv
  OBVIOUS
<1>1. body \in Bodies
  BY DEF Init
<1>2. stack = <<Frame([is |-> "function", body |-> body], NoVar, NoLabels)>>
  BY DEF Init
<1>3. walk = [pending |-> {}, placed |-> {}, awaited |-> <<>>, redo |-> {}, passed |-> 0,
              kept |-> TRUE]
  BY DEF Init
<1>4. TempID = 0 /\ labelId = 0
  BY DEF Init
<1>5. GenOK(<<Frame([is |-> "function", body |-> body], NoVar, NoLabels)>>, 0, 0, walk)
  BY <1>1, <1>3, FirstOK
<1> QED
  BY <1>2, <1>4, <1>5 DEF IInv

\* The code is run when it is complete; nothing of the generator changes then.
LEMMA MachineKeeps ==
    ASSUME IInv, \/ Compute \/ StoreElement \/ Branch \/ PassParam \/ CallLibrary \/ Call
                 \/ ReturnValue \/ UNCHANGED vars
    PROVE  IInv'
<1>1. UNCHANGED genVars
  BY DEF Compute, StoreElement, Branch, PassParam, CallLibrary, Call, ReturnValue, Fixed, vars
<1> QED
  BY <1>1 DEF genVars, IInv

\* Every step of generator and machine preserves the invariant.
LEMMA NextKeeps == IInv /\ [Next]_vars => IInv'
BY GetAtomKeeps, GetVarKeeps, GenIntoKeeps, GenStatementKeeps, GenLabelKeeps, GenTempKeeps,
   GenerateKeeps, GenReturnKeeps, MachineKeeps DEF Next

\* In every reachable state the calls of genCode hold what the table says, with
\* temporaries and labels of their own, and the allocator's walk through the code so far
\* has exactly their temporaries pending.
THEOREM GeneratorInvariant == Spec => []IInv
BY InitHolds, NextKeeps, PTL DEF Spec

\* Whatever function is translated, however its expressions, loops and branches nest: each
\* temporary is read once, after its only pending write; the paths that meet at a label
\* agree on what is pending; nothing is pending where a loop jumps back; parameters stand
\* right before their call; and every label jumped to is placed once.
THEOREM CodeFits == Spec => []FitsAllocator
<1>1. IInv => FitsAllocator
  BY DEF IInv, GenOK, WalkOK, FitsAllocator
<1> QED
  BY <1>1, GeneratorInvariant, PTL
=============================================================================
