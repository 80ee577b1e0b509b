----------------------------- MODULE TacMeaning -----------------------------
(***************************************************************************)
(* What a function body means, and that the TAC of Tac does the same: the  *)
(* calls, with their arguments, the variables and the array they leave,    *)
(* and the value returned.                                                 *)
(*                                                                         *)
(* A call may return anything, so conditions go both ways.  C leaves the   *)
(* order of operands open; the meaning of the tree takes the order of the  *)
(* generator: arguments and indices from the right, the operands of % from *)
(* the right, other operands from the left, an assigned value before the   *)
(* indices it is assigned at.                                              *)
(***************************************************************************)
EXTENDS Tac

(* The meaning of a tree, when the calls so far have returned s.todo.  A    *)
(* state s runs until it calls with todo empty: then it has stopped.        *)

Offset(index) == FoldLeftDomain(LAMBDA o, k : o + index[k] * Stride(k), 0, index)

Runs(s) == s.status = "run"
Is(s, v) == IF Runs(s) THEN [s EXCEPT !.val = v] ELSE s

RECURSIVE Eval(_, _), EvalAll(_, _), Exec(_, _)

\* The values of es, evaluated from the right.
EvalAll(s, es) ==
    IF es = <<>> THEN [state |-> s, vals |-> <<>>]
    ELSE LET last == Eval(s, Last(es))
             rest == EvalAll(last, Front(es))
         IN  [state |-> rest.state, vals |-> Append(rest.vals, last.val)]

EvalCall(s, e) ==
    LET a == EvalAll(s, e.args)
    IN  IF ~Runs(a.state) THEN a.state
        ELSE IF a.state.todo = <<>>
        THEN [a.state EXCEPT !.status = "stopped", !.event = <<e.name, a.vals>>]
        ELSE [a.state EXCEPT !.val = Head(a.state.todo), !.todo = Tail(@)]

Eval(s, e) ==
    IF ~Runs(s) THEN s
    ELSE CASE e.is = "num"  -> Is(s, e.val)
           [] e.is = "id"   -> Is(s, s.vars[e.var])
           [] e.is = "call" -> EvalCall(s, e)
           [] e.is = "elem" -> LET i == EvalAll(s, e.index)
                               IN  Is(i.state, i.state.mem[Offset(i.vals)])
           [] e.is = "and"  -> LET l == Eval(s, e.left)  r == Eval(l, e.right)
                               IN  IF Runs(l) /\ l.val = 0 THEN l ELSE Is(r, Truth(r.val # 0))
           [] e.is = "or"   -> LET l == Eval(s, e.left)  r == Eval(l, e.right)
                               IN  IF Runs(l) /\ l.val # 0 THEN Is(l, 1)
                                   ELSE Is(r, Truth(r.val # 0))
           [] e.is = "mod"  -> LET a == EvalAll(s, <<e.left, e.right>>)
                               IN  Is(a.state, Apply("mod", a.vals[1], a.vals[2]))
           [] e.is \in Binary \cup Compare ->
                               LET l == Eval(s, e.left)  r == Eval(l, e.right)
                               IN  Is(r, Apply(e.is, l.val, r.val))
           [] e.is = "not"  -> LET r == Eval(s, e.right) IN Is(r, Truth(r.val = 0))
           [] e.is = "neg"  -> LET r == Eval(s, e.right) IN Is(r, Value(0 - r.val))
           [] e.is = "pos"  -> Eval(s, e.right)

ExecSet(s, lhs, e) ==
    LET r == Eval(s, e)
        i == EvalAll(r, lhs.index)
    IN  IF lhs.is = "id" THEN IF Runs(r) THEN [r EXCEPT !.vars[lhs.var] = r.val] ELSE r
        ELSE IF Runs(i.state) THEN [i.state EXCEPT !.mem[Offset(i.vals)] = r.val] ELSE i.state

ExecInit(s, es) ==
    FoldLeftDomain(LAMBDA h, k : LET v == Eval(h, es[k])
                                 IN  IF Runs(v) THEN [v EXCEPT !.mem[k - 1] = v.val] ELSE v,
                   s, es)

ExecWhile(s, w) ==
    LET c     == Eval(s, w.cond)
        after == Exec(c, w.body)
    IN  IF ~Runs(c) \/ c.val = 0 THEN c
        ELSE CASE after.status = "break" -> [after EXCEPT !.status = "run"]
               [] after.status \in {"run", "continue"} -> Exec([after EXCEPT !.status = "run"], w)
               [] OTHER -> after

Exec(s, t) ==
    LET c == Eval(s, t.cond)
        v == Eval(s, t.right)
    IN  IF ~Runs(s) THEN s
        ELSE CASE t.is = "set"      -> ExecSet(s, t.lhs, t.right)
               [] t.is = "init"     -> ExecInit(s, t.children)
               [] t.is = "do"       -> v
               [] t.is = "block"    -> FoldLeft(Exec, s, t.children)
               [] t.is = "if"       -> IF Runs(c) /\ c.val # 0 THEN Exec(c, t.then) ELSE c
               [] t.is = "ifelse"   -> IF ~Runs(c) THEN c
                                       ELSE Exec(c, IF c.val # 0 THEN t.then ELSE t.else)
               [] t.is = "while"    -> ExecWhile(s, t)
               [] t.is = "break"    -> [s EXCEPT !.status = "break"]
               [] t.is = "continue" -> [s EXCEPT !.status = "continue"]
               [] t.is = "return"   -> IF t.right = Nop THEN [s EXCEPT !.status = "return"]
                                       ELSE IF Runs(v) THEN [v EXCEPT !.status = "return",
                                                                      !.returned = {v.val}]
                                       ELSE v
               [] t.is = "nop"      -> s

\* The function after its first Len(todo) calls have returned todo.
Meaning(t, todo) ==
    Exec([vars |-> FirstVars, mem |-> FirstArray, todo |-> todo, status |-> "run",
          event |-> <<>>, val |-> 0, returned |-> {}], t)

-----------------------------------------------------------------------------
(* Properties *)

\* Whenever the TAC is about to call, so is the source, which has seen the same
\* results: the same function, with the same arguments.  No call is lost,
\* added, reordered or moved across a branch by the code of && || ! the
\* comparisons, %, nested calls, if, while, break and continue.
CallsAgree ==
    Calls => LET s == Meaning(body, results)
             IN  s.status = "stopped" /\ s.event = <<code[pc].name, params>>

\* Where the TAC ends the source has ended too, with the same variables, the
\* same array and the same value returned.
EndAgrees ==
    Op = "endfunc" =>
        LET s == Meaning(body, results)
        IN  s.status \in {"run", "return"} /\ s.todo = <<>>
            /\ s.vars = store /\ s.mem = mem /\ s.returned = returned
=============================================================================
