---------------------------- MODULE Parser_proofs ----------------------------
(***************************************************************************)
(* For every file: the cursor stays in the text, calls are nested as the   *)
(* code nests them, binary operators are grouped by their levels           *)
(* (OperatorsGroup), and no step goes back but to a word that was left on  *)
(* the recovery stack.                                                     *)
(*                                                                         *)
(* The invariant says of each call what it may have parsed (FrameOK), of   *)
(* each call and its callee that the callee was given the end tokens and   *)
(* the level of the operator before it (LinkOK), and of the innermost call *)
(* what the token at the cursor tells about the operator parsed last       *)
(* (TopOK).                                                                *)
(***************************************************************************)
EXTENDS Parser, WellFoundedInduction, SequenceTheorems, TLAPS

-----------------------------------------------------------------------------
(* Tokens *)

Ends == {";", ",", ")", "]"}
\* Where the cursor may stand: on no comment but the first token, or behind the text.
CursorOK(i) == i \in 1 .. Len(file.tokens) + 1 /\ (i > 1 => Kind(i) # "comment")

LEMMA Least ==
    ASSUME NEW S, S \subseteq Nat, S # {}
    PROVE  Min(S) \in S /\ \A n \in S : Min(S) <= n
<1> DEFINE less == OpToRel(<, Nat)
<1>1. \A m, n \in Nat : m < n => <<m, n>> \in less
  BY Zenon DEF OpToRel
<1>2. IsWellFoundedOn(less, Nat)
  BY NatLessThanWellFounded
<1> HIDE DEF less
<1>3. PICK m \in S : \A n \in S : ~(<<n, m>> \in less)
  BY <1>2, WFMin
<1>4. ASSUME NEW n \in S PROVE m <= n
  <2>1. m \in Nat /\ n \in Nat /\ ~(<<n, m>> \in less)
    BY <1>3, <1>4
  <2>2. ~(n < m)
    BY <1>1, <2>1
  <2> QED
    BY <2>1, <2>2
<1> QED
  BY <1>3, <1>4 DEF Min

LEMMA FilesAre ==
    ASSUME file \in Files
    PROVE  /\ Len(file.tokens) \in Nat \ {0} /\ DOMAIN file.tokens = 1 .. Len(file.tokens)
           /\ \A i \in 1 .. Len(file.tokens) : Kind(i) = "eof" <=> i = Len(file.tokens)
<1> DEFINE tokens == file.tokens
<1>1. /\ tokens \in Seq(Range(tokens)) /\ tokens # <<>>
      /\ \A i \in 1 .. Len(tokens) : tokens[i][1] = "eof" <=> i = Len(tokens)
  BY ParserAssumption
<1> HIDE DEF tokens
<1>2. Len(tokens) \in Nat \ {0} /\ DOMAIN tokens = 1 .. Len(tokens)
  BY <1>1
<1>3. \A i \in 1 .. Len(tokens) : Kind(i) = tokens[i][1]
  BY <1>2 DEF Kind, Inside, tokens
<1> QED
  BY <1>1, <1>2, <1>3 DEF tokens

\* The next token is behind this one, and no comment.
LEMMA AfterIs ==
    ASSUME file \in Files, NEW i, Inside(i)
    PROVE  After(i) \in i + 1 .. Len(file.tokens) + 1 /\ CursorOK(After(i))
<1> DEFINE n == Len(file.tokens)
           S == {j \in i + 1 .. n : Kind(j) # "comment"} \cup {n + 1}
<1>1. n \in Nat \ {0} /\ i \in 1 .. n /\ DOMAIN file.tokens = 1 .. n
  BY FilesAre DEF Inside
<1>2. S \subseteq Nat /\ S # {} /\ S \subseteq i + 1 .. n + 1
  BY <1>1
<1>3. After(i) = Min(S)
  BY DEF After
<1>4. \A j \in S : j \in 1 .. n + 1 /\ Kind(j) # "comment"
  <2>1. ~Inside(n + 1)
    BY <1>1 DEF Inside
  <2>2. Kind(n + 1) = "none"
    BY <2>1 DEF Kind
  <2> QED
    BY <1>1, <2>2
<1>5. Min(S) \in S
  BY <1>2, Least
<1> HIDE DEF S
<1>6. After(i) \in i + 1 .. n + 1 /\ After(i) \in 1 .. n + 1 /\ Kind(After(i)) # "comment"
  BY <1>2, <1>3, <1>4, <1>5
<1> QED
  BY <1>6 DEF CursorOK

\* Only the token that marks the end has none behind it.
LEMMA AfterInside ==
    ASSUME file \in Files, NEW i, Inside(i), Kind(i) # "eof"
    PROVE  Inside(After(i))
<1> DEFINE n == Len(file.tokens)
           S == {j \in i + 1 .. n : Kind(j) # "comment"} \cup {n + 1}
<1>1. /\ n \in Nat \ {0} /\ i \in 1 .. n /\ i # n /\ DOMAIN file.tokens = 1 .. n
      /\ Kind(n) = "eof"
  BY FilesAre DEF Inside
<1>2. S \subseteq Nat /\ n \in S /\ S \subseteq i + 1 .. n + 1
  BY <1>1
<1>3. After(i) = Min(S)
  BY DEF After
<1> HIDE DEF S
<1>4. Min(S) \in S /\ Min(S) <= n
  BY <1>2, Least
<1>5. Min(S) \in i + 1 .. n + 1
  BY <1>2, <1>4
<1> HIDE DEF n
<1>6. After(i) \in 1 .. n
  BY <1>1, <1>3, <1>4, <1>5
<1> QED
  BY <1>1, <1>6 DEF Inside

LEMMA KindInside ==
    ASSUME NEW i, Kind(i) # "none"
    PROVE  Inside(i)
  BY DEF Kind

LEMMA PastIs ==
    ASSUME file \in Files, NEW i, Inside(i), CursorOK(i), NEW kind
    PROVE  Past(i, kind) \in i .. Len(file.tokens) + 1 /\ CursorOK(Past(i, kind))
<1>1. i \in 1 .. Len(file.tokens) /\ Len(file.tokens) \in Nat
  BY FilesAre DEF Inside
<1>2. After(i) \in i + 1 .. Len(file.tokens) + 1 /\ CursorOK(After(i))
  BY AfterIs
<1>3. Past(i, kind) \in {i, After(i)}
  BY DEF Past
<1> QED
  BY <1>1, <1>2, <1>3

LEMMA ReachedIs ==
    ASSUME file \in Files, NEW i, Inside(i), NEW ends, ends \subseteq Ends,
           NEW j \in Reached(i, ends)
    PROVE  j \in i .. Len(file.tokens) /\ CursorOK(j) /\ Kind(j) \in ends
<1>1. i \in 1 .. Len(file.tokens) /\ Len(file.tokens) \in Nat
  BY FilesAre DEF Inside
<1>2. j \in i .. Len(file.tokens) /\ Kind(j) \in ends
  BY DEF Reached
<1>3. Kind(j) # "comment"
  BY <1>2 DEF Ends
<1> QED
  BY <1>1, <1>2, <1>3 DEF CursorOK

-----------------------------------------------------------------------------
(* The stack *)

IsSeq(s) == s \in Seq(Range(s))

LEMMA ElementsAre ==
    ASSUME NEW s, IsSeq(s)
    PROVE  Len(s) \in Nat /\ DOMAIN s = 1 .. Len(s) /\ (s = <<>> <=> Len(s) = 0)
           /\ \A k \in 1 .. Len(s) : s[k] \in Range(s)
  BY DEF IsSeq

\* A sequence is one over the set of its elements.
LEMMA SeqIs ==
    ASSUME NEW S, NEW s \in Seq(S)
    PROVE  IsSeq(s)
<1>1. Len(s) \in Nat /\ DOMAIN s = 1 .. Len(s) /\ s = [k \in 1 .. Len(s) |-> s[k]]
  OBVIOUS
<1>2. \A k \in 1 .. Len(s) : s[k] \in Range(s)
  BY <1>1, Zenon DEF Range
<1>3. s \in [1 .. Len(s) -> Range(s)]
  BY <1>1, <1>2, Zenon
<1>4. s \in Seq(Range(s))
  BY <1>1, <1>3
<1> QED
  BY <1>4 DEF IsSeq

LEMMA FrontIs ==
    ASSUME NEW s, IsSeq(s), s # <<>>
    PROVE  /\ IsSeq(Front(s)) /\ Len(Front(s)) = Len(s) - 1 /\ Len(s) \in Nat \ {0}
           /\ Last(s) = s[Len(s)]
           /\ \A k \in 1 .. Len(s) - 1 : Front(s)[k] = s[k]
<1> DEFINE n == Len(s)
<1>1. n \in Nat \ {0} /\ \A k \in 1 .. n : s[k] \in Range(s)
  BY ElementsAre
<1>2. /\ Front(s) \in Seq(Range(s))
      /\ Len(Front(s)) = IF 1 <= n - 1 THEN n - 1 - 1 + 1 ELSE 0
      /\ \A k \in 1 .. n - 1 - 1 + 1 : Front(s)[k] = s[1 + k - 1]
  <2>1. \A k \in 1 .. n - 1 : s[k] \in Range(s)
    BY <1>1
  <2>2. n - 1 \in Int /\ 1 \in Int
    BY <1>1
  <2> QED
    BY <2>1, <2>2, SubSeqProperties DEF Front
<1> HIDE DEF n
<1>3. Len(Front(s)) = n - 1
  <2>1. n = 1 => Len(Front(s)) = n - 1
    BY <1>1, <1>2
  <2>2. n # 1 => Len(Front(s)) = n - 1
    BY <1>1, <1>2
  <2> QED
    BY <2>1, <2>2
<1>4. ASSUME NEW k \in 1 .. n - 1 PROVE Front(s)[k] = s[k]
  <2>1. k \in 1 .. n - 1 - 1 + 1 /\ 1 + k - 1 = k
    BY <1>1
  <2> QED
    BY <1>2, <2>1
<1>5. IsSeq(Front(s))
  BY <1>2, SeqIs
<1> QED
  BY <1>1, <1>3, <1>4, <1>5 DEF n, Last

LEMMA AppendIs ==
    ASSUME NEW s, IsSeq(s), NEW f
    PROVE  /\ IsSeq(Append(s, f)) /\ Len(Append(s, f)) = Len(s) + 1 /\ Append(s, f) # <<>>
           /\ Len(s) \in Nat
           /\ \A k \in 1 .. Len(s) : Append(s, f)[k] = s[k]
           /\ Append(s, f)[Len(s) + 1] = f /\ Last(Append(s, f)) = f
<1> DEFINE S == Range(s) \cup {f}
<1>1. s \in Seq(S) /\ f \in S
  <2>1. s \in Seq(Range(s)) /\ Range(s) \subseteq S
    BY DEF IsSeq
  <2> QED
    BY <2>1, SeqMonotonic
<1> HIDE DEF S
<1>2. /\ Append(s, f) \in Seq(S) /\ Append(s, f) # <<>> /\ Len(Append(s, f)) = Len(s) + 1
      /\ \A k \in 1 .. Len(s) : Append(s, f)[k] = s[k]
      /\ Append(s, f)[Len(s) + 1] = f
  BY <1>1, AppendProperties
<1>3. IsSeq(Append(s, f))
  BY <1>2, SeqIs
<1> QED
  BY <1>1, <1>2, <1>3 DEF Last

-----------------------------------------------------------------------------
(* Calls *)

Bottoms       == {"item", "parameters", "function"}
InDefinition  == {"definition", "size", "initial"}

\* An operand of an operator of level limit.
Fits(tree, limit) == tree.is = "binary" => tree.op = "=" \/ Level(tree.op) < limit
\* A token of this kind ends such an operand.
StopsAt(kind, ends, limit) == kind \in ends \/ Stops(Level(kind), limit)

\* What one call may have parsed.
FrameOK(f) ==
    /\ f.at \in InExpression =>
           /\ f.ends \subseteq Ends /\ f.limit \in 2 .. 15
           /\ Groups(f.left) /\ Fits(f.left, f.limit)
    /\ f.at = "right" =>
           /\ ~Stops(Level(f.op), f.limit)
           /\ f.left.is = "binary" => Level(f.left.op) <= Level(f.op) /\ f.left.op # "="
    /\ f.at = "elements" => f.left.is # "binary"
    /\ f.at = "condition" => f.of \in {"if", "while"}

\* A call and its callee.
LinkOK(f, g) ==
    /\ g.at \in Callees(f.at)
    /\ f.at = "right" => g.ends = f.ends /\ g.limit = Level(f.op)

\* The innermost call: v is what its callee has returned, kind the token at the cursor.
TopOK(f, v, kind) ==
    /\ f.at = "loop" /\ f.left.is = "binary" => StopsAt(kind, f.ends, Level(f.left.op))
    /\ f.at = "operator" => f.left.is # "binary"
    /\ f.at = "right" /\ v # NotYet =>
           Fits(v, Level(f.op)) /\ StopsAt(kind, f.ends, Level(f.op))

\* Between the parentheses of a function, behind the left one, no statement is parsed.
BottomOK(s, i) ==
    s[1].at = "parameters" =>
        /\ s[1].paren \in Nat \ {0} /\ s[1].paren < i
        /\ \A k \in 2 .. Len(s) : s[k].at \in InDefinition \cup InExpression

CallsOK(s, v, i, kind) ==
    /\ IsSeq(s)
    /\ s = <<>> => v = NotYet
    /\ \A k \in 1 .. Len(s) : FrameOK(s[k])
    /\ \A k \in 1 .. Len(s) - 1 : LinkOK(s[k], s[k + 1])
    /\ s # <<>> => s[1].at \in Bottoms /\ TopOK(Last(s), v, kind) /\ BottomOK(s, i)

\* Saved positions are names.
RecoverOK(saved) ==
    IsSeq(saved) /\ \A k \in 1 .. Len(saved) : Inside(saved[k]) /\ Kind(saved[k]) = "identifier"

IInv ==
    /\ file \in Files
    /\ CursorOK(current)
    /\ RecoverOK(recover)
    /\ reported \subseteq 1 .. Len(file.tokens)
    /\ CallsOK(stack, value, current, Kind(current))

\* f is the call top at another place.
SameCall(f, top) ==
    /\ \/ f.at = top.at
       \/ f.at \in InExpression /\ top.at \in InExpression
       \/ f.at \in InDefinition /\ top.at \in InDefinition
       \/ f.at \in InStatement /\ top.at \in InStatement \ {"block", "declaration"}
    /\ top.at \in InExpression => f.ends = top.ends /\ f.limit = top.limit
    /\ top.at = "parameters" => f.paren = top.paren

LEMMA SameCallees ==
    ASSUME NEW f, NEW top, SameCall(f, top), NEW g, LinkOK(g, top)
    PROVE  LinkOK(g, f)
<1>1. f.at \in Callees(g.at)
  <2>1. top.at \in Callees(g.at)
    BY DEF LinkOK
  <2> QED
    BY <2>1 DEF SameCall, Callees, InExpression, InDefinition, InStatement, OnExpression
<1>2. g.at = "right" => top.at \in InExpression
  BY DEF LinkOK, Callees, OnExpression, InExpression
<1> QED
  BY <1>1, <1>2 DEF SameCall, LinkOK

LEMMA BottomsCall ==
    ASSUME NEW f, NEW g, LinkOK(f, g)
    PROVE  g.at \notin Bottoms
  BY DEF LinkOK, Callees, Bottoms, InExpression, InStatement, OnExpression

\* A call at the bottom of the stack stays there.
LEMMA SameBottom ==
    ASSUME NEW f, NEW top, SameCall(f, top), top.at \in Bottoms
    PROVE  f.at = top.at
  BY DEF SameCall, Bottoms, InExpression, InDefinition, InStatement

LEMMA SwapKeeps ==
    ASSUME NEW s, NEW v, NEW i \in Nat, NEW kind, CallsOK(s, v, i, kind), s # <<>>,
           NEW f, FrameOK(f), SameCall(f, Last(s)),
           NEW j \in Nat, j >= i, NEW next, TopOK(f, NotYet, next)
    PROVE  CallsOK(Append(Front(s), f), NotYet, j, next)
<1> DEFINE r == Front(s)
           t == Append(r, f)
           n == Len(s)
<1>1. /\ IsSeq(s) /\ \A k \in 1 .. n : FrameOK(s[k])
      /\ \A k \in 1 .. n - 1 : LinkOK(s[k], s[k + 1])
      /\ s[1].at \in Bottoms /\ BottomOK(s, i)
  BY DEF CallsOK
<1>2. /\ IsSeq(r) /\ Len(r) = n - 1 /\ n \in Nat \ {0} /\ Last(s) = s[n]
      /\ \A k \in 1 .. n - 1 : r[k] = s[k]
  BY <1>1, FrontIs
<1> HIDE DEF r, n
<1>3. /\ IsSeq(t) /\ Len(t) = Len(r) + 1 /\ t # <<>> /\ \A k \in 1 .. Len(r) : t[k] = r[k]
      /\ t[Len(r) + 1] = f /\ Last(t) = f
  BY <1>2, AppendIs
<1> HIDE DEF t
<1>4. Len(t) = n /\ t[n] = f /\ \A k \in 1 .. n - 1 : t[k] = s[k]
  BY <1>2, <1>3
<1>5. ASSUME NEW k \in 1 .. n PROVE FrameOK(t[k])
  <2>1. k = n \/ k \in 1 .. n - 1
    BY <1>2
  <2> QED
    BY <1>1, <1>4, <2>1
<1>6. ASSUME NEW k \in 1 .. n - 1 PROVE LinkOK(t[k], t[k + 1])
  <2>1. CASE k = n - 1
    <3>1. LinkOK(s[k], Last(s)) /\ t[k] = s[k] /\ t[k + 1] = f
      BY <1>1, <1>2, <1>4, <2>1
    <3>2. LinkOK(s[k], f)
      BY <3>1, SameCallees
    <3> QED
      BY <3>1, <3>2
  <2>2. CASE k # n - 1
    <3>1. k \in 1 .. n - 1 /\ k + 1 \in 1 .. n - 1
      BY <1>2, <2>2
    <3> QED
      BY <1>1, <1>4, <3>1
  <2> QED
    BY <2>1, <2>2
<1>7. t[1].at = s[1].at /\ (s[1].at = "parameters" => t[1].paren = s[1].paren)
  <2>1. CASE n = 1
    <3>1. Last(s) = s[1] /\ t[1] = f
      BY <1>2, <1>4, <2>1
    <3> QED
      BY <1>1, <3>1, SameBottom DEF SameCall
  <2>2. CASE n # 1
    BY <1>2, <1>4, <2>2
  <2> QED
    BY <2>1, <2>2
<1>8. BottomOK(t, j)
  <2> SUFFICES ASSUME t[1].at = "parameters"
               PROVE  /\ t[1].paren \in Nat \ {0} /\ t[1].paren < j
                      /\ \A k \in 2 .. Len(t) : t[k].at \in InDefinition \cup InExpression
    BY DEF BottomOK
  <2>1. /\ t[1].paren \in Nat \ {0} /\ t[1].paren < i
        /\ \A k \in 2 .. n : s[k].at \in InDefinition \cup InExpression
    BY <1>1, <1>7 DEF BottomOK, n
  <2>2. ASSUME NEW k \in 2 .. n PROVE t[k].at \in InDefinition \cup InExpression
    <3>1. CASE k = n
      <4>1. t[k] = f /\ Last(s).at \in InDefinition \cup InExpression
        BY <1>2, <1>4, <2>1, <3>1
      <4> QED
        BY <4>1 DEF SameCall, InDefinition, InExpression, InStatement
    <3>2. CASE k # n
      <4>1. k \in 1 .. n - 1 /\ k \in 2 .. n
        BY <1>2, <3>2
      <4> QED
        BY <1>4, <2>1, <4>1
    <3> QED
      BY <3>1, <3>2
  <2> QED
    BY <1>4, <2>1, <2>2
<1>9. CallsOK(t, NotYet, j, next)
  BY <1>1, <1>3, <1>4, <1>5, <1>6, <1>7, <1>8 DEF CallsOK
<1> QED
  BY <1>9 DEF t, r

LEMMA PushKeeps ==
    ASSUME NEW s, NEW i \in Nat, NEW kind, CallsOK(s, NotYet, i, kind), s # <<>>,
           NEW g, FrameOK(g), LinkOK(Last(s), g), TopOK(g, NotYet, kind)
    PROVE  CallsOK(Append(s, g), NotYet, i, kind)
<1> DEFINE t == Append(s, g)
           n == Len(s)
<1>1. /\ IsSeq(s) /\ \A k \in 1 .. n : FrameOK(s[k])
      /\ \A k \in 1 .. n - 1 : LinkOK(s[k], s[k + 1])
      /\ s[1].at \in Bottoms /\ BottomOK(s, i)
  BY DEF CallsOK
<1>2. n \in Nat \ {0} /\ Last(s) = s[n]
  BY <1>1, FrontIs
<1>3. /\ IsSeq(t) /\ Len(t) = n + 1 /\ t # <<>> /\ \A k \in 1 .. n : t[k] = s[k]
      /\ t[n + 1] = g /\ Last(t) = g
  BY <1>1, AppendIs
<1> HIDE DEF t, n
<1>4. ASSUME NEW k \in 1 .. Len(t) PROVE FrameOK(t[k])
  <2>1. k = n + 1 \/ k \in 1 .. n
    BY <1>2, <1>3
  <2> QED
    BY <1>1, <1>3, <2>1
<1>5. ASSUME NEW k \in 1 .. Len(t) - 1 PROVE LinkOK(t[k], t[k + 1])
  <2>1. CASE k = n
    BY <1>2, <1>3, <2>1
  <2>2. CASE k # n
    <3>1. k \in 1 .. n - 1 /\ k + 1 \in 1 .. n /\ k \in 1 .. n
      BY <1>2, <1>3, <2>2
    <3> QED
      BY <1>1, <1>3, <3>1
  <2> QED
    BY <2>1, <2>2
<1>6. t[1] = s[1]
  BY <1>2, <1>3
<1>7. BottomOK(t, i)
  <2> SUFFICES ASSUME t[1].at = "parameters"
               PROVE  /\ t[1].paren \in Nat \ {0} /\ t[1].paren < i
                      /\ \A k \in 2 .. Len(t) : t[k].at \in InDefinition \cup InExpression
    BY DEF BottomOK
  <2>1. /\ t[1].paren \in Nat \ {0} /\ t[1].paren < i
        /\ \A k \in 2 .. n : s[k].at \in InDefinition \cup InExpression
    BY <1>1, <1>6 DEF BottomOK, n
  <2>2. Last(s).at \in InDefinition \cup InExpression \cup {"parameters"}
    <3>1. n = 1 \/ n \in 2 .. n
      BY <1>2
    <3>2. s[1].at = "parameters"
      BY <1>6
    <3> QED
      BY <1>2, <2>1, <3>1, <3>2
  <2>3. g.at \in InDefinition \cup InExpression
    BY <2>2 DEF LinkOK, Callees, InDefinition, InExpression, OnExpression
  <2>4. ASSUME NEW k \in 2 .. Len(t) PROVE t[k].at \in InDefinition \cup InExpression
    <3>1. k = n + 1 \/ (k \in 2 .. n /\ k \in 1 .. n)
      BY <1>2, <1>3
    <3> QED
      BY <1>3, <2>1, <2>3, <3>1
  <2> QED
    BY <2>1, <2>4
<1>8. CallsOK(t, NotYet, i, kind)
  BY <1>1, <1>3, <1>4, <1>5, <1>6, <1>7 DEF CallsOK
<1> QED
  BY <1>8 DEF t

LEMMA PopKeeps ==
    ASSUME NEW s, NEW v, NEW i \in Nat, NEW kind, CallsOK(s, v, i, kind), s # <<>>,
           Last(s).at \notin Bottoms, NEW w, NEW j \in Nat, j >= i, NEW next,
           Last(s).at \in InExpression =>
               Fits(w, Last(s).limit) /\ StopsAt(next, Last(s).ends, Last(s).limit)
    PROVE  CallsOK(Front(s), w, j, next)
<1> DEFINE r == Front(s)
           n == Len(s)
<1>1. /\ IsSeq(s) /\ \A k \in 1 .. n : FrameOK(s[k])
      /\ \A k \in 1 .. n - 1 : LinkOK(s[k], s[k + 1])
      /\ s[1].at \in Bottoms /\ BottomOK(s, i)
  BY DEF CallsOK
<1>2. /\ IsSeq(r) /\ Len(r) = n - 1 /\ n \in Nat \ {0} /\ Last(s) = s[n]
      /\ \A k \in 1 .. n - 1 : r[k] = s[k]
  BY <1>1, FrontIs
<1> HIDE DEF n
<1>3. n # 1
  BY <1>1, <1>2
<1>4. r # <<>> /\ Last(r) = s[n - 1] /\ r[1] = s[1]
  <2>1. r # <<>>
    BY <1>2, <1>3, ElementsAre
  <2>2. Last(r) = r[n - 1]
    BY <1>2, <2>1, FrontIs
  <2> QED
    BY <1>2, <1>3, <2>1, <2>2
<1> HIDE DEF r
<1>5. \A k \in 1 .. Len(r) : FrameOK(r[k])
  BY <1>1, <1>2
<1>6. ASSUME NEW k \in 1 .. Len(r) - 1 PROVE LinkOK(r[k], r[k + 1])
  <2>1. k \in 1 .. n - 1 /\ k + 1 \in 1 .. n - 1
    BY <1>2
  <2> QED
    BY <1>1, <1>2, <2>1
<1>7. TopOK(Last(r), w, next)
  <2>1. LinkOK(Last(r), Last(s))
    <3>1. n - 1 \in 1 .. n - 1 /\ n - 1 + 1 = n
      BY <1>2, <1>3
    <3> QED
      BY <1>1, <1>2, <1>4, <3>1
  <2>2. Last(r).at \notin {"loop", "operator"}
    BY <2>1 DEF LinkOK, Callees, OnExpression
  <2>3. ASSUME Last(r).at = "right"
        PROVE  Fits(w, Level(Last(r).op)) /\ StopsAt(next, Last(r).ends, Level(Last(r).op))
    <3>1. /\ Last(s).at \in InExpression /\ Last(s).ends = Last(r).ends
          /\ Last(s).limit = Level(Last(r).op)
      BY <2>1, <2>3 DEF LinkOK, Callees, OnExpression
    <3> QED
      BY <3>1
  <2> QED
    BY <2>2, <2>3 DEF TopOK
<1>8. BottomOK(r, j)
  <2>1. \A k \in 2 .. n - 1 : k \in 1 .. n - 1 /\ k \in 2 .. n
    BY <1>2
  <2> QED
    BY <1>1, <1>2, <1>4, <2>1 DEF BottomOK, n
<1>9. CallsOK(r, w, j, next)
  BY <1>1, <1>2, <1>4, <1>5, <1>6, <1>7, <1>8 DEF CallsOK
<1> QED
  BY <1>9 DEF r

-----------------------------------------------------------------------------
(* Steps *)

LEMMA StateKeeps ==
    ASSUME IInv, file' = file, NEW i, CursorOK(i), current' = i,
           CallsOK(stack', value', i, Kind(i)), RecoverOK(recover'),
           reported' \subseteq 1 .. Len(file.tokens)
    PROVE  IInv'
<1>1. Kind(current)' = Kind(i)
  BY DEF Kind, Inside
<1>2. CursorOK(current)'
  BY <1>1 DEF CursorOK
<1>3. RecoverOK(recover)'
  BY DEF RecoverOK, Inside, Kind
<1>4. CallsOK(stack, value, current, Kind(current))'
  BY <1>1
<1> QED
  BY <1>2, <1>3, <1>4 DEF IInv

\* What a step keeps if it reports nothing and leaves the recovery stack alone.
LEMMA RestKeeps ==
    ASSUME IInv, UNCHANGED <<file, recover, reported>>, NEW i, CursorOK(i), current' = i,
           CallsOK(stack', value', i, Kind(i))
    PROVE  IInv'
<1>1. RecoverOK(recover') /\ reported' \subseteq 1 .. Len(file.tokens)
  BY DEF IInv
<1> QED
  BY <1>1, StateKeeps

LEMMA CursorIs ==
    ASSUME NEW i, CursorOK(i), file \in Files
    PROVE  i \in Nat /\ i > 0
  BY FilesAre DEF CursorOK

LEMMA BecomeKeeps ==
    ASSUME IInv, stack # <<>>, NEW i, CursorOK(i), i >= current, NEW f, FrameOK(f),
           SameCall(f, Top), TopOK(f, NotYet, Kind(i)), Become(i, f)
    PROVE  IInv' /\ current' >= current
<1>1. CallsOK(stack, value, current, Kind(current)) /\ i \in Nat /\ current \in Nat
  BY CursorIs DEF IInv
<1>2. CallsOK(Append(Front(stack), f), NotYet, i, Kind(i))
  BY <1>1, SwapKeeps DEF Top
<1> QED
  BY <1>2, RestKeeps DEF Become

LEMMA CallKeeps ==
    ASSUME IInv, stack # <<>>, NEW i, CursorOK(i), i >= current, NEW f, FrameOK(f),
           SameCall(f, Top), TopOK(f, NotYet, Kind(i)),
           NEW g, FrameOK(g), LinkOK(f, g), TopOK(g, NotYet, Kind(i)), Call(i, f, g)
    PROVE  IInv' /\ current' >= current
<1> DEFINE s == Append(Front(stack), f)
<1>1. CallsOK(stack, value, current, Kind(current)) /\ i \in Nat /\ current \in Nat
  BY CursorIs DEF IInv
<1>2. CallsOK(s, NotYet, i, Kind(i))
  BY <1>1, SwapKeeps DEF Top
<1>3. Last(s) = f /\ s # <<>>
  <2>1. IsSeq(stack)
    BY <1>1 DEF CallsOK
  <2> QED
    BY <2>1, FrontIs, AppendIs
<1> HIDE DEF s
<1>4. CallsOK(Append(s, g), NotYet, i, Kind(i))
  BY <1>1, <1>2, <1>3, PushKeeps
<1> QED
  BY <1>4, RestKeeps DEF Call, s

LEMMA ReturnKeeps ==
    ASSUME IInv, stack # <<>>, NEW i, CursorOK(i), i >= current, Top.at \notin Bottoms, NEW tree,
           Top.at \in InExpression => Fits(tree, Top.limit) /\ StopsAt(Kind(i), Top.ends, Top.limit),
           Return(i, tree)
    PROVE  IInv' /\ current' >= current
<1>1. CallsOK(stack, value, current, Kind(current)) /\ i \in Nat /\ current \in Nat
  BY CursorIs DEF IInv
<1>2. CallsOK(Front(stack), tree, i, Kind(i))
  BY <1>1, PopKeeps DEF Top
<1> QED
  BY <1>2, RestKeeps DEF Return

\* What the invariant says of the innermost call.
LEMMA TopIs ==
    ASSUME IInv, stack # <<>>
    PROVE  FrameOK(Top) /\ TopOK(Top, value, Kind(current))
<1>1. CallsOK(stack, value, current, Kind(current))
  BY DEF IInv
<1>2. IsSeq(stack) /\ \A k \in 1 .. Len(stack) : FrameOK(stack[k])
  BY <1>1 DEF CallsOK
<1>3. Top = stack[Len(stack)] /\ Len(stack) \in 1 .. Len(stack)
  BY <1>2, FrontIs DEF Top
<1> QED
  BY <1>1, <1>2, <1>3 DEF CallsOK, Top

\* Where the cursor may go: on, twice on, past a token, and to a token of an end.
LEMMA CursorGoes ==
    ASSUME IInv, Inside(current)
    PROVE  /\ CursorOK(current) /\ current \in Nat /\ current >= current
           /\ CursorOK(After(current)) /\ After(current) >= current
           /\ \A kind : CursorOK(Past(current, kind)) /\ Past(current, kind) >= current
           /\ Kind(current) # "eof" =>
                  CursorOK(After(After(current))) /\ After(After(current)) >= current
<1>1. file \in Files /\ CursorOK(current) /\ current \in Nat
  BY CursorIs DEF IInv
<1>2. CursorOK(After(current)) /\ After(current) \in Nat /\ After(current) >= current
  BY <1>1, AfterIs, CursorIs
<1>3. ASSUME NEW kind PROVE CursorOK(Past(current, kind)) /\ Past(current, kind) >= current
  BY <1>1, PastIs, CursorIs
<1>4. ASSUME Kind(current) # "eof"
      PROVE  CursorOK(After(After(current))) /\ After(After(current)) >= current
  <2>1. Inside(After(current))
    BY <1>1, <1>4, AfterInside
  <2>2. CursorOK(After(After(current))) /\ After(After(current)) \in Nat
        /\ After(After(current)) >= After(current)
    BY <1>1, <1>2, <2>1, AfterIs, CursorIs
  <2> QED
    BY <1>1, <1>2, <2>2
<1> QED
  BY <1>1, <1>2, <1>3, <1>4

-----------------------------------------------------------------------------
(* Expressions *)

LEMMA LevelIs ==
    ASSUME NEW kind
    PROVE  Level(kind) \in 3 .. 15 /\ (Level(kind) = 14 <=> kind = "=")
  BY DEF Level, Initial, Assignment

\* A call of parseExpression that begins.
LEMMA ExpressionIs ==
    ASSUME NEW ends, ends \subseteq Ends, NEW limit \in 2 .. 15
    PROVE  /\ FrameOK(Expression(ends, limit))
           /\ \A kind : TopOK(Expression(ends, limit), NotYet, kind)
<1> DEFINE g == Expression(ends, limit)
<1>1. g.at = "operand" /\ g.ends = ends /\ g.limit = limit /\ g.left.is = "null"
  BY DEF Expression, Null
<1> HIDE DEF g
<1>2. FrameOK(g) /\ \A kind : TopOK(g, NotYet, kind)
  BY <1>1 DEF FrameOK, TopOK, Groups, Fits
<1> QED
  BY <1>2 DEF g

LEMMA LinkIs ==
    ASSUME NEW f, f.at \in OnExpression \ {"right"}, NEW ends, NEW limit
    PROVE  LinkOK(f, Expression(ends, limit))
<1>1. Expression(ends, limit).at = "operand"
  BY DEF Expression
<1>2. Callees(f.at) = InExpression
  BY DEF Callees, OnExpression
<1> QED
  BY <1>1, <1>2 DEF LinkOK, InExpression

\* A call of parseExpression at another place that has parsed no binary operator last, or
\* whose operand is indexed.
LEMMA PlaceIs ==
    ASSUME IInv, stack # <<>>, Top.at \in InExpression,
           NEW place \in InExpression \ {"right"}, NEW left, NEW op,
           left.is # "binary" \/ (place = "index" /\ left = Top.left)
    PROVE  /\ FrameOK(At(place, left, op)) /\ SameCall(At(place, left, op), Top)
           /\ \A kind : TopOK(At(place, left, op), NotYet, kind)
           /\ At(place, left, op).at = place
<1> DEFINE f == At(place, left, op)
<1>1. FrameOK(Top)
  BY TopIs
<1>2. f.at = place /\ f.ends = Top.ends /\ f.limit = Top.limit /\ f.left = left
  BY DEF At
<1> HIDE DEF f
<1>3. FrameOK(f)
  BY <1>1, <1>2 DEF FrameOK, Groups, Fits, InExpression
<1>4. SameCall(f, Top) /\ \A kind : TopOK(f, NotYet, kind)
  BY <1>2 DEF SameCall, TopOK, InExpression
<1> QED
  BY <1>2, <1>3, <1>4 DEF f

\* The two shapes of step: a call of parseExpression goes on, or parses an inner
\* expression whose result it takes for no binary operator of its own.
LEMMA GoesOn ==
    ASSUME IInv, stack # <<>>, Top.at \in InExpression, NEW i, CursorOK(i), i >= current,
           NEW place \in {"loop", "operator"}, NEW left, left.is # "binary",
           Become(i, At(place, left, "none"))
    PROVE  IInv' /\ current' >= current
<1> DEFINE f == At(place, left, "none")
<1>1. FrameOK(f) /\ SameCall(f, Top) /\ TopOK(f, NotYet, Kind(i))
  BY PlaceIs DEF InExpression
<1> HIDE DEF f
<1>2. Become(i, f)
  BY DEF f
<1> QED
  BY <1>1, <1>2, BecomeKeeps

LEMMA GoesIn ==
    ASSUME IInv, stack # <<>>, Top.at \in InExpression, NEW i, CursorOK(i), i >= current,
           NEW place \in (InExpression \cap OnExpression) \ {"right"},
           NEW left, left.is # "binary" \/ (place = "index" /\ left = Top.left),
           NEW op, NEW ends, ends \subseteq Ends, NEW limit \in 2 .. 15,
           Call(i, At(place, left, op), Expression(ends, limit))
    PROVE  IInv' /\ current' >= current
<1> DEFINE f == At(place, left, op)
           g == Expression(ends, limit)
<1>1. FrameOK(f) /\ SameCall(f, Top) /\ TopOK(f, NotYet, Kind(i)) /\ f.at = place
  BY PlaceIs
<1>2. FrameOK(g) /\ TopOK(g, NotYet, Kind(i))
  BY ExpressionIs
<1>3. LinkOK(f, g)
  BY <1>1, LinkIs
<1> HIDE DEF f, g
<1>4. Call(i, f, g)
  BY DEF f, g
<1> QED
  BY <1>1, <1>2, <1>3, <1>4, CallKeeps

\* The same call about ends and limit of the innermost one.
LEMMA EndsAre ==
    ASSUME IInv, stack # <<>>, Top.at \in InExpression
    PROVE  /\ Top.ends \subseteq Ends /\ Top.limit \in 2 .. 15
           /\ Top.ends \cup {"]"} \subseteq Ends /\ Top.ends \cup {")"} \subseteq Ends
           /\ Groups(Top.left) /\ Fits(Top.left, Top.limit)
  BY TopIs DEF FrameOK, Ends

\* A token of the ends of the call is not before the cursor.
LEMMA SkipGoes ==
    ASSUME IInv, Inside(current), NEW ends, ends \subseteq Ends, NEW i \in Reached(current, ends)
    PROVE  CursorOK(i) /\ i >= current
<1>1. file \in Files /\ current \in Nat
  BY CursorGoes DEF IInv
<1>2. i \in current .. Len(file.tokens) /\ CursorOK(i)
  BY <1>1, ReachedIs
<1>3. Len(file.tokens) \in Nat
  BY <1>1, FilesAre
<1> QED
  BY <1>1, <1>2, <1>3

LEMMA OperandKeeps ==
    ASSUME IInv,
           \/ UnaryOperator \/ OpenParenthesis \/ OpenElements \/ Primary \/ NoOperand
    PROVE  IInv' /\ current' >= current
<1>1. Inside(current) /\ stack # <<>> /\ Top.at = "operand"
  BY DEF UnaryOperator, OpenParenthesis, OpenElements, Primary, NoOperand, Running
<1>2. Top.at \in InExpression
  BY <1>1 DEF InExpression
<1>3. Top.ends \subseteq Ends /\ Top.limit \in 2 .. 15
  BY <1>1, <1>2, EndsAre
<1>4. Null.is = "null" /\ ArrayNode(<<>>).is = "array"
  BY DEF Null, ArrayNode
<1>5. ASSUME UnaryOperator PROVE IInv' /\ current' >= current
  <2>1. Call(After(current), At("unary", Null, Kind(current)), Expression(Top.ends, UnaryLevel))
    BY <1>5 DEF UnaryOperator
  <2>2. "unary" \in (InExpression \cap OnExpression) \ {"right"} /\ UnaryLevel \in 2 .. 15
    BY DEF InExpression, OnExpression, UnaryLevel
  <2>3. CursorOK(After(current)) /\ After(current) >= current
    BY <1>1, CursorGoes
  <2> QED
    BY <1>1, <1>2, <1>3, <1>4, <2>1, <2>2, <2>3, GoesIn
<1>6. ASSUME OpenParenthesis PROVE IInv' /\ current' >= current
  <2>1. Call(After(current), At("parenthesis", Null, "none"), Expression(Top.ends, Initial))
    BY <1>6 DEF OpenParenthesis
  <2>2. "parenthesis" \in (InExpression \cap OnExpression) \ {"right"} /\ Initial \in 2 .. 15
    BY DEF InExpression, OnExpression, Initial
  <2>3. CursorOK(After(current)) /\ After(current) >= current
    BY <1>1, CursorGoes
  <2> QED
    BY <1>1, <1>2, <1>3, <1>4, <2>1, <2>2, <2>3, GoesIn
<1>7. ASSUME OpenElements PROVE IInv' /\ current' >= current
  <2>1. Kind(current) # "eof"
    BY <1>7 DEF OpenElements
  <2>2. /\ CursorOK(After(current)) /\ After(current) >= current
        /\ CursorOK(After(After(current))) /\ After(After(current)) >= current
    BY <1>1, <2>1, CursorGoes
  <2>3. CASE Become(After(After(current)), Parsed(ArrayNode(<<>>)))
    BY <1>1, <1>2, <1>4, <2>2, <2>3, GoesOn DEF Parsed
  <2>4. CASE Call(After(current), At("elements", ArrayNode(<<>>), "none"),
                  Expression(Top.ends, Top.limit))
    <3>1. "elements" \in (InExpression \cap OnExpression) \ {"right"}
      BY DEF InExpression, OnExpression
    <3> QED
      BY <1>1, <1>2, <1>3, <1>4, <2>2, <2>4, <3>1, GoesIn
  <2> QED
    BY <1>7, <2>3, <2>4 DEF OpenElements
<1>8. ASSUME Primary PROVE IInv' /\ current' >= current
  <2> DEFINE tree == IF Kind(current) = "identifier" THEN [is |-> "id", name |-> Text(current)]
                     ELSE [is |-> "literal", text |-> Text(current)]
  <2>1. Become(After(current), At("loop", tree, "none"))
    BY <1>8 DEF Primary, Parsed
  <2>2. tree.is # "binary"
    OBVIOUS
  <2>3. CursorOK(After(current)) /\ After(current) >= current
    BY <1>1, CursorGoes
  <2> HIDE DEF tree
  <2> QED
    BY <1>1, <1>2, <2>1, <2>2, <2>3, GoesOn
<1>9. ASSUME NoOperand PROVE IInv' /\ current' >= current
  <2>1. PICK i \in IF Level(Kind(current)) = Initial THEN Reached(current, Top.ends) ELSE {current} :
            Become(i, Parsed(Null))
    BY <1>9 DEF NoOperand
  <2>2. CursorOK(i) /\ i >= current
    <3>1. CASE i = current
      BY <1>1, <3>1, CursorGoes
    <3>2. CASE i \in Reached(current, Top.ends)
      BY <1>1, <1>3, <3>2, SkipGoes
    <3> QED
      BY <2>1, <3>1, <3>2
  <2> QED
    BY <1>1, <1>2, <1>4, <2>1, <2>2, GoesOn DEF Parsed
<1> QED
  BY <1>5, <1>6, <1>7, <1>8, <1>9

LEMMA ResultKeeps ==
    ASSUME IInv, UnaryOperand \/ CloseParenthesis \/ Element
    PROVE  IInv' /\ current' >= current
<1>1. Inside(current) /\ stack # <<>> /\ Top.at \in {"unary", "parenthesis", "elements"}
  BY DEF UnaryOperand, CloseParenthesis, Element, Returned
<1>2. Top.at \in InExpression
  BY <1>1 DEF InExpression
<1>3. Top.ends \subseteq Ends /\ Top.limit \in 2 .. 15
  BY <1>1, <1>2, EndsAre
<1>4. /\ CursorOK(current) /\ current >= current
      /\ \A kind : CursorOK(Past(current, kind)) /\ Past(current, kind) >= current
  BY <1>1, CursorGoes
<1>5. ASSUME UnaryOperand PROVE IInv' /\ current' >= current
  <2> DEFINE tree == [is |-> "unary", op |-> Top.op, right |-> value]
  <2>1. Become(current, At("loop", tree, "none")) /\ tree.is # "binary"
    BY <1>5 DEF UnaryOperand, Parsed
  <2> HIDE DEF tree
  <2> QED
    BY <1>1, <1>2, <1>4, <2>1, GoesOn
<1>6. ASSUME CloseParenthesis PROVE IInv' /\ current' >= current
  <2> DEFINE tree == [is |-> "paren", inner |-> value]
  <2>1. Become(Past(current, ")"), At("loop", tree, "none")) /\ tree.is # "binary"
    BY <1>6 DEF CloseParenthesis, Parsed
  <2> HIDE DEF tree
  <2> QED
    BY <1>1, <1>2, <1>4, <2>1, GoesOn
<1>7. ASSUME Element PROVE IInv' /\ current' >= current
  <2> DEFINE array == IF value = Null THEN Top.left ELSE ArrayNode(Append(Top.left.elems, value))
  <2>1. \/ Become(Past(current, "}"), At("loop", array, "none"))
        \/ Call(Past(current, ","), At("elements", array, "none"), Expression(Top.ends, Top.limit))
    BY <1>7 DEF Element, Parsed
  <2>2. array.is # "binary"
    <3>1. Top.at = "elements"
      BY <1>7 DEF Element, Returned
    <3>2. Top.left.is # "binary"
      BY <1>1, <3>1, TopIs DEF FrameOK
    <3> QED
      BY <3>2 DEF ArrayNode
  <2>3. "elements" \in (InExpression \cap OnExpression) \ {"right"}
    BY DEF InExpression, OnExpression
  <2> HIDE DEF array
  <2>4. CASE Become(Past(current, "}"), At("loop", array, "none"))
    BY <1>1, <1>2, <1>4, <2>2, <2>4, GoesOn
  <2>5. CASE Call(Past(current, ","), At("elements", array, "none"), Expression(Top.ends, Top.limit))
    BY <1>1, <1>2, <1>3, <1>4, <2>2, <2>3, <2>5, GoesIn
  <2> QED
    BY <2>1, <2>4, <2>5
<1> QED
  BY <1>5, <1>6, <1>7

LEMMA IndexKeeps ==
    ASSUME IInv, OpenIndex \/ Index
    PROVE  IInv' /\ current' >= current
<1>1. Inside(current) /\ stack # <<>> /\ Top.at \in {"loop", "index"}
  BY DEF OpenIndex, Index, More, Running, Returned
<1>2. Top.at \in InExpression
  BY <1>1 DEF InExpression
<1>3. Top.ends \subseteq Ends /\ Top.ends \cup {"]"} \subseteq Ends
  BY <1>1, <1>2, EndsAre
<1>4. Initial \in 2 .. 15 /\ "index" \in (InExpression \cap OnExpression) \ {"right"}
  BY DEF Initial, InExpression, OnExpression
<1>5. CursorOK(After(current)) /\ After(current) >= current
  BY <1>1, CursorGoes
<1>6. ASSUME OpenIndex PROVE IInv' /\ current' >= current
  <2>1. Call(After(current), At("index", Top.left, "none"),
             Expression(Top.ends \cup {"]"}, Initial))
    BY <1>6 DEF OpenIndex
  <2> QED
    BY <1>1, <1>2, <1>3, <1>4, <1>5, <2>1, GoesIn
<1>7. ASSUME Index PROVE IInv' /\ current' >= current
  <2> DEFINE node == IndexNode(Top.left, value)
  <2>1. node.is # "binary"
    BY DEF IndexNode
  <2>2. \/ /\ Kind(current) = "]"
           /\ \/ Call(After(After(current)), At("index", node, "none"),
                      Expression(Top.ends \cup {"]"}, Initial))
              \/ Become(After(current), At("operator", node, "none"))
        \/ \E i \in Reached(current, Top.ends) : Become(i, At("operator", node, "none"))
    BY <1>7 DEF Index
  <2> HIDE DEF node
  <2>3. CASE Kind(current) = "]" /\ Call(After(After(current)), At("index", node, "none"),
                      Expression(Top.ends \cup {"]"}, Initial))
    <3>1. CursorOK(After(After(current))) /\ After(After(current)) >= current
      BY <1>1, <2>3, CursorGoes
    <3> QED
      BY <1>1, <1>2, <1>3, <1>4, <2>1, <2>3, <3>1, GoesIn
  <2>4. CASE Become(After(current), At("operator", node, "none"))
    BY <1>1, <1>2, <1>5, <2>1, <2>4, GoesOn
  <2>5. CASE \E i \in Reached(current, Top.ends) : Become(i, At("operator", node, "none"))
    BY <1>1, <1>2, <1>3, <2>1, <2>5, SkipGoes, GoesOn
  <2> QED
    BY <2>2, <2>3, <2>4, <2>5
<1> QED
  BY <1>6, <1>7

LEMMA NextArgumentKeeps ==
    ASSUME IInv, Inside(current), stack # <<>>, Top.at \in InExpression, Kind(current) # "eof",
           NEW call, call.is = "call", NextArgument(call)
    PROVE  IInv' /\ current' >= current
<1>1. /\ CursorOK(After(current)) /\ After(current) >= current
      /\ CursorOK(After(After(current))) /\ After(After(current)) >= current
  BY CursorGoes
<1>2. Top.ends \cup {")"} \subseteq Ends
  BY EndsAre
<1>3. Initial \in 2 .. 15 /\ "arguments" \in (InExpression \cap OnExpression) \ {"right"}
  BY DEF Initial, InExpression, OnExpression
<1>4. Timed(call).is # "binary" /\ call.is # "binary"
  BY DEF Timed, CallNode
<1>5. CASE Become(After(After(current)), At("operator", Timed(call), "none"))
  BY <1>1, <1>4, <1>5, GoesOn
<1>6. CASE Call(After(current), At("arguments", call, "none"),
                Expression(Top.ends \cup {")"}, Initial))
  BY <1>1, <1>2, <1>3, <1>4, <1>6, GoesIn
<1> QED
  BY <1>5, <1>6 DEF NextArgument

LEMMA ArgumentsKeep ==
    ASSUME IInv, OpenArguments \/ Argument
    PROVE  IInv' /\ current' >= current
<1>1. Inside(current) /\ stack # <<>> /\ Top.at \in {"loop", "arguments"}
  BY DEF OpenArguments, Argument, More, Running, Returned
<1>2. Top.at \in InExpression
  BY <1>1 DEF InExpression
<1>3. Top.ends \subseteq Ends
  BY <1>1, <1>2, EndsAre
<1>4. CursorOK(After(current)) /\ After(current) >= current
  BY <1>1, CursorGoes
<1>5. ASSUME OpenArguments PROVE IInv' /\ current' >= current
  <2> DEFINE call == CallNode(Top.left.name, <<>>)
  <2>1. Kind(current) # "eof" /\ NextArgument(call) /\ call.is = "call"
    BY <1>5 DEF OpenArguments, Callable, CallNode
  <2> HIDE DEF call
  <2> QED
    BY <1>1, <1>2, <2>1, NextArgumentKeeps
<1>6. ASSUME Argument PROVE IInv' /\ current' >= current
  <2> DEFINE call == CallNode(Top.left.name, Append(Top.left.args, value))
  <2>1. call.is = "call" /\ Timed(call).is # "binary"
    BY DEF Timed, CallNode
  <2>2. \/ Kind(current) = "," /\ NextArgument(call)
        \/ Become(After(current), At("operator", Timed(call), "none"))
        \/ \E i \in Reached(current, Top.ends) : Become(i, At("operator", Timed(call), "none"))
    BY <1>6 DEF Argument
  <2> HIDE DEF call
  <2>3. CASE Kind(current) = "," /\ NextArgument(call)
    BY <1>1, <1>2, <2>1, <2>3, NextArgumentKeeps
  <2>4. CASE Become(After(current), At("operator", Timed(call), "none"))
    BY <1>1, <1>2, <1>4, <2>1, <2>4, GoesOn
  <2>5. CASE \E i \in Reached(current, Top.ends) : Become(i, At("operator", Timed(call), "none"))
    BY <1>1, <1>2, <1>3, <2>1, <2>5, SkipGoes, GoesOn
  <2> QED
    BY <2>2, <2>3, <2>4, <2>5
<1> QED
  BY <1>5, <1>6

\* A call ends at a token that stops it, with a tree that its caller expects.
LEMMA ExpressionEnds ==
    ASSUME IInv, EndOfExpression \/ NoOperator
    PROVE  IInv' /\ current' >= current
<1>1. Inside(current) /\ stack # <<>> /\ Top.at \in {"loop", "operator"}
  BY DEF EndOfExpression, NoOperator, AtOperator, More, Running
<1>2. Top.at \in InExpression /\ Top.at \notin Bottoms
  BY <1>1 DEF InExpression, Bottoms
<1>3. Fits(Top.left, Top.limit)
  BY <1>1, <1>2, EndsAre
<1>4. Return(current, Top.left) /\ StopsAt(Kind(current), Top.ends, Top.limit)
  BY DEF EndOfExpression, NoOperator, StopsAt
<1>5. CursorOK(current) /\ current >= current
  BY <1>1, CursorGoes
<1> QED
  BY <1>1, <1>2, <1>3, <1>4, <1>5, ReturnKeeps

\* The token before an operator that is parsed next has stopped the operand before.
LEMMA OperatorKeeps ==
    ASSUME IInv, Operator
    PROVE  IInv' /\ current' >= current
<1> DEFINE kind == Kind(current)
           f == At("right", Top.left, kind)
           g == Expression(Top.ends, Level(kind))
<1>1. /\ Inside(current) /\ stack # <<>> /\ ~Stops(Level(kind), Top.limit)
      /\ Call(After(current), f, g)
      /\ Top.at = "operator" \/ (Top.at = "loop" /\ kind \notin Top.ends)
  BY DEF Operator, AtOperator, More, Running
<1>2. Top.at \in InExpression
  BY <1>1 DEF InExpression
<1>3. /\ Top.ends \subseteq Ends /\ Top.limit \in 2 .. 15
      /\ Groups(Top.left) /\ Fits(Top.left, Top.limit)
  BY <1>1, <1>2, EndsAre
<1>4. Level(kind) \in 3 .. 15 /\ Level(kind) # 15
  BY <1>1, LevelIs DEF Stops, Initial
<1>5. ASSUME Top.left.is = "binary"
      PROVE  Level(Top.left.op) <= Level(kind) /\ Top.left.op # "="
  <2>1. TopOK(Top, value, kind)
    BY <1>1, TopIs
  <2>2. Stops(Level(kind), Level(Top.left.op))
    BY <1>1, <1>5, <2>1 DEF TopOK, StopsAt
  <2>3. Level(kind) >= Level(Top.left.op) /\ Level(kind) # 14
    BY <1>4, <2>2 DEF Stops, Initial, Assignment
  <2>4. Level(Top.left.op) \in 3 .. 15 /\ (Level(Top.left.op) = 14 <=> Top.left.op = "=")
    BY LevelIs
  <2> QED
    BY <1>4, <2>3, <2>4
<1>6. /\ f.at = "right" /\ f.ends = Top.ends /\ f.limit = Top.limit /\ f.left = Top.left
      /\ f.op = kind
  BY DEF At
<1>7. g.at = "operand" /\ g.ends = Top.ends /\ g.limit = Level(kind)
  BY DEF Expression
<1>8. FrameOK(g) /\ TopOK(g, NotYet, Kind(After(current)))
  BY <1>3, <1>4, ExpressionIs
<1> HIDE DEF kind, f, g
<1>9. FrameOK(f)
  BY <1>1, <1>3, <1>5, <1>6 DEF FrameOK
<1>10. SameCall(f, Top) /\ TopOK(f, NotYet, Kind(After(current)))
  BY <1>2, <1>6 DEF SameCall, TopOK, InExpression
<1>11. LinkOK(f, g)
  BY <1>6, <1>7 DEF LinkOK, Callees, OnExpression, InExpression
<1>12. CursorOK(After(current)) /\ After(current) >= current
  BY <1>1, CursorGoes
<1> QED
  BY <1>1, <1>8, <1>9, <1>10, <1>11, <1>12, CallKeeps

\* The right operand fits below its operator, and what follows stops it.
LEMMA RightOperandKeeps ==
    ASSUME IInv, RightOperand
    PROVE  IInv' /\ current' >= current
<1> DEFINE tree == BinaryNode(Top.op, Top.left, value)
           f == At("loop", tree, "none")
<1>1. Inside(current) /\ stack # <<>> /\ Top.at = "right" /\ value # NotYet /\ Become(current, f)
  BY DEF RightOperand, Returned, Parsed
<1>2. FrameOK(Top) /\ TopOK(Top, value, Kind(current))
  BY <1>1, TopIs
<1>3. Fits(value, Level(Top.op)) /\ StopsAt(Kind(current), Top.ends, Level(Top.op))
  BY <1>1, <1>2 DEF TopOK
<1>4. /\ ~Stops(Level(Top.op), Top.limit) /\ Top.ends \subseteq Ends /\ Top.limit \in 2 .. 15
      /\ Top.left.is = "binary" => Level(Top.left.op) <= Level(Top.op) /\ Top.left.op # "="
  BY <1>1, <1>2 DEF FrameOK, InExpression
<1>5. tree.is = "binary" /\ tree.op = Top.op /\ tree.left = Top.left /\ tree.right = value
  BY DEF BinaryNode
<1>6. f.at = "loop" /\ f.ends = Top.ends /\ f.limit = Top.limit /\ f.left = tree
  BY DEF At
<1> HIDE DEF tree, f
<1>7. Groups(tree)
  BY <1>3, <1>4, <1>5 DEF Groups, Fits
<1>8. Fits(tree, Top.limit)
  <2>1. Level(Top.op) \in 3 .. 15 /\ (Level(Top.op) = 14 <=> Top.op = "=")
    BY LevelIs
  <2>2. Level(Top.op) < Top.limit \/ Level(Top.op) = 14
    BY <1>4, <2>1 DEF Stops, Assignment
  <2> QED
    BY <1>5, <2>1, <2>2 DEF Fits
<1>9. FrameOK(f)
  BY <1>4, <1>6, <1>7, <1>8 DEF FrameOK
<1>10. SameCall(f, Top) /\ TopOK(f, NotYet, Kind(current))
  BY <1>1, <1>3, <1>5, <1>6 DEF SameCall, TopOK, InExpression
<1>11. CursorOK(current) /\ current >= current
  BY <1>1, CursorGoes
<1> QED
  BY <1>1, <1>9, <1>10, <1>11, BecomeKeeps

-----------------------------------------------------------------------------
(* Calls of the other parse functions *)

\* No call of parseExpression: nothing is said of what it has parsed.
LEMMA PlainIs ==
    ASSUME NEW f, f.at \notin InExpression \cup {"condition"}
    PROVE  FrameOK(f) /\ \A v, kind : TopOK(f, v, kind)
  BY DEF FrameOK, TopOK, InExpression

LEMMA BecomesPlain ==
    ASSUME IInv, stack # <<>>, Top.at \notin InExpression, NEW i, CursorOK(i), i >= current,
           NEW f, f.at \notin InExpression \cup {"condition"}, SameCall(f, Top), Become(i, f)
    PROVE  IInv' /\ current' >= current
  BY PlainIs, BecomeKeeps

LEMMA CallsPlain ==
    ASSUME IInv, stack # <<>>, Top.at \notin InExpression, NEW i, CursorOK(i), i >= current,
           NEW f, f.at \notin InExpression \cup {"condition"}, SameCall(f, Top),
           NEW g, g.at \notin InExpression \cup {"condition"}, g.at \in Callees(f.at), Call(i, f, g)
    PROVE  IInv' /\ current' >= current
<1>1. FrameOK(f) /\ TopOK(f, NotYet, Kind(i)) /\ FrameOK(g) /\ TopOK(g, NotYet, Kind(i))
  BY PlainIs
<1>2. LinkOK(f, g)
  BY DEF LinkOK, InExpression
<1> QED
  BY <1>1, <1>2, CallKeeps

LEMMA CallsExpression ==
    ASSUME IInv, stack # <<>>, Top.at \notin InExpression, NEW i, CursorOK(i), i >= current,
           NEW f, f.at \in OnExpression \ InExpression, SameCall(f, Top),
           f.at = "condition" => f.of \in {"if", "while"},
           NEW ends, ends \subseteq Ends, Call(i, f, Expression(ends, Initial))
    PROVE  IInv' /\ current' >= current
<1>1. FrameOK(f) /\ TopOK(f, NotYet, Kind(i))
  BY DEF FrameOK, TopOK, InExpression
<1>2. Initial \in 2 .. 15
  BY DEF Initial
<1>3. FrameOK(Expression(ends, Initial)) /\ TopOK(Expression(ends, Initial), NotYet, Kind(i))
  BY <1>2, ExpressionIs
<1>4. LinkOK(f, Expression(ends, Initial))
  BY LinkIs DEF InExpression
<1> QED
  BY <1>1, <1>3, <1>4, CallKeeps

LEMMA ReturnsPlain ==
    ASSUME IInv, stack # <<>>, Top.at \notin InExpression \cup Bottoms,
           NEW i, CursorOK(i), i >= current, NEW tree, Return(i, tree)
    PROVE  IInv' /\ current' >= current
  BY ReturnKeeps

-----------------------------------------------------------------------------
(* Variable definitions and declarations *)

LEMMA DefinitionKeeps ==
    ASSUME IInv, OpenSize \/ CloseSize \/ OpenInitial \/ InitialValue \/ EndDefinition
    PROVE  IInv' /\ current' >= current
<1>1. Inside(current) /\ stack # <<>> /\ Top.at \in InDefinition
  BY DEF OpenSize, CloseSize, OpenInitial, InitialValue, EndDefinition, Running, Returned,
         InDefinition
<1>2. Top.at \notin InExpression \cup Bottoms
  BY <1>1 DEF InDefinition, InExpression, Bottoms
<1>3. CursorOK(current) /\ current >= current /\ CursorOK(After(current)) /\ After(current) >= current
  BY <1>1, CursorGoes
<1>4. \A def : /\ Definition(def).at \notin InExpression \cup {"condition"}
               /\ SameCall(Definition(def), Top)
  BY <1>1, <1>2 DEF Definition, SameCall, InDefinition, InExpression
<1>5. ASSUME OpenSize PROVE IInv' /\ current' >= current
  <2>1. CursorOK(After(After(current))) /\ After(After(current)) >= current
    BY <1>1, <1>5, CursorGoes DEF OpenSize
  <2>2. CASE Become(After(After(current)), WithSize(Null))
    BY <1>1, <1>2, <1>4, <2>1, <2>2, BecomesPlain DEF WithSize
  <2>3. CASE Call(After(current), [at |-> "size", def |-> Top.def], Expression({"]", ";"}, Initial))
    <3> DEFINE f == [at |-> "size", def |-> Top.def]
    <3>1. f.at \in OnExpression \ InExpression /\ f.at # "condition" /\ {"]", ";"} \subseteq Ends
      BY DEF OnExpression, InExpression, Ends
    <3>2. SameCall(f, Top)
      BY <1>1, <1>2 DEF SameCall, InDefinition
    <3> HIDE DEF f
    <3>3. Call(After(current), f, Expression({"]", ";"}, Initial))
      BY <2>3 DEF f
    <3> QED
      BY <1>1, <1>2, <1>3, <3>1, <3>2, <3>3, CallsExpression
  <2> QED
    BY <1>5, <2>2, <2>3 DEF OpenSize
<1>6. ASSUME CloseSize PROVE IInv' /\ current' >= current
  BY <1>1, <1>2, <1>3, <1>4, <1>6, BecomesPlain DEF CloseSize, WithSize
<1>7. ASSUME OpenInitial PROVE IInv' /\ current' >= current
  <2> DEFINE f == [at |-> "initial", def |-> Top.def]
  <2>1. f.at \in OnExpression \ InExpression /\ f.at # "condition" /\ {";", ","} \subseteq Ends
    BY DEF OnExpression, InExpression, Ends
  <2>2. SameCall(f, Top)
    BY <1>1, <1>2 DEF SameCall, InDefinition
  <2>3. Call(After(current), f, Expression({";", ","}, Initial))
    BY <1>7 DEF OpenInitial
  <2> HIDE DEF f
  <2> QED
    BY <1>1, <1>2, <1>3, <2>1, <2>2, <2>3, CallsExpression
<1>8. ASSUME InitialValue PROVE IInv' /\ current' >= current
  BY <1>1, <1>2, <1>3, <1>4, <1>8, BecomesPlain DEF InitialValue
<1>9. ASSUME EndDefinition PROVE IInv' /\ current' >= current
  BY <1>1, <1>2, <1>3, <1>9, ReturnsPlain DEF EndDefinition
<1> QED
  BY <1>5, <1>6, <1>7, <1>8, <1>9

LEMMA DefinedIs ==
    ASSUME NEW i
    PROVE  Defined(i).at = "definition"
  BY DEF Defined, Definition

LEMMA DeclarationKeeps ==
    ASSUME IInv, NextDefinition \/ DefinitionRead \/ EndDeclaration
    PROVE  IInv' /\ current' >= current
<1>1. Inside(current) /\ stack # <<>> /\ Top.at = "declaration"
  BY DEF NextDefinition, DefinitionRead, EndDeclaration, Running, Returned
<1>2. Top.at \notin InExpression \cup Bottoms \cup {"condition"}
  BY <1>1 DEF InExpression, Bottoms
<1>3. /\ CursorOK(After(current)) /\ After(current) >= current
      /\ \A kind : CursorOK(Past(current, kind)) /\ Past(current, kind) >= current
  BY <1>1, CursorGoes
<1>4. ASSUME NextDefinition PROVE IInv' /\ current' >= current
  <2>1. Call(After(current), Top, Defined(current))
    BY <1>4 DEF NextDefinition
  <2>2. SameCall(Top, Top)
    BY DEF SameCall
  <2>3. /\ Defined(current).at \notin InExpression \cup {"condition"}
        /\ Defined(current).at \in Callees(Top.at)
    BY <1>1, DefinedIs DEF InExpression, Callees, OnExpression
  <2> QED
    BY <1>1, <1>2, <1>3, <2>1, <2>2, <2>3, CallsPlain
<1>5. ASSUME DefinitionRead PROVE IInv' /\ current' >= current
  <2> DEFINE f == DeclarationOf(Top.const, Top.type, Append(Top.defs, value))
  <2>1. f.at = "declaration" /\ Become(Past(current, ","), f)
    BY <1>5 DEF DefinitionRead, DeclarationOf
  <2> HIDE DEF f
  <2>2. SameCall(f, Top) /\ f.at \notin InExpression \cup {"condition"}
    BY <1>1, <1>2, <2>1 DEF SameCall
  <2> QED
    BY <1>1, <1>2, <1>3, <2>1, <2>2, BecomesPlain
<1>6. ASSUME EndDeclaration PROVE IInv' /\ current' >= current
  <2>1. PICK tree : Return(Past(current, ";"), tree)
    BY <1>6 DEF EndDeclaration
  <2> QED
    BY <1>1, <1>2, <1>3, <2>1, ReturnsPlain
<1> QED
  BY <1>4, <1>5, <1>6

-----------------------------------------------------------------------------
(* Statements *)

\* A statement that starts is one of the calls of InStatement and no call of an expression.
LEMMA StatementAt ==
    ASSUME IInv, Inside(current), stack # <<>>, Top.at \in InStatement
    PROVE  /\ Top.at \notin InExpression \cup Bottoms
           /\ CursorOK(current) /\ current >= current
           /\ CursorOK(After(current)) /\ After(current) >= current
           /\ \A kind : CursorOK(Past(current, kind)) /\ Past(current, kind) >= current
           /\ Kind(current) # "eof" =>
                  /\ CursorOK(After(After(current))) /\ After(After(current)) >= current
                  /\ CursorOK(Past(After(current), ";")) /\ Past(After(current), ";") >= current
<1>1. Top.at \notin InExpression \cup Bottoms
  BY DEF InStatement, InExpression, Bottoms
<1>2. ASSUME Kind(current) # "eof"
      PROVE  CursorOK(Past(After(current), ";")) /\ Past(After(current), ";") >= current
  <2>1. CursorOK(After(current)) /\ After(current) >= current
    BY CursorGoes
  <2>2. CursorOK(After(After(current))) /\ After(After(current)) >= current
    BY <1>2, CursorGoes
  <2>3. Past(After(current), ";") \in {After(current), After(After(current))}
    BY DEF Past
  <2> QED
    BY <2>1, <2>2, <2>3
<1> QED
  BY <1>1, <1>2, CursorGoes

\* Statements without an inner one.
LEMMA SimpleKeeps ==
    ASSUME IInv, ReturnStatement \/ ReturnValue \/ Jump \/ Nop \/ ExpressionStatement
                 \/ EndExpression \/ NoStatement
    PROVE  IInv' /\ current' >= current
<1>1. Inside(current) /\ stack # <<>> /\ Top.at \in {"statement", "return", "expression"}
  BY DEF ReturnStatement, ReturnValue, Jump, Nop, ExpressionStatement, EndExpression,
         NoStatement, Running, Returned
<1>2. Top.at \in InStatement
  BY <1>1 DEF InStatement
<1>3. /\ Top.at \notin InExpression \cup Bottoms
      /\ CursorOK(current) /\ current >= current
      /\ CursorOK(After(current)) /\ After(current) >= current
      /\ \A kind : CursorOK(Past(current, kind)) /\ Past(current, kind) >= current
  BY <1>1, <1>2, StatementAt
<1>4. Kind(current) # "eof" =>
          /\ CursorOK(After(After(current))) /\ After(After(current)) >= current
          /\ CursorOK(Past(After(current), ";")) /\ Past(After(current), ";") >= current
  BY <1>1, <1>2, StatementAt
<1>5. ASSUME NEW f, f.at \in {"return", "expression"}
      PROVE  f.at \in OnExpression \ InExpression /\ f.at # "condition" /\ SameCall(f, Top)
  BY <1>1, <1>3, <1>5 DEF OnExpression, InExpression, SameCall, InStatement
<1>6. ASSUME ReturnStatement PROVE IInv' /\ current' >= current
  <2>1. CASE Call(After(current), [at |-> "return"], Expression({}, Initial))
    <3> DEFINE f == [at |-> "return"]
    <3>1. f.at \in OnExpression \ InExpression /\ f.at # "condition" /\ SameCall(f, Top)
      BY <1>5
    <3>2. Call(After(current), f, Expression({}, Initial)) /\ {} \subseteq Ends
      BY <2>1
    <3> HIDE DEF f
    <3> QED
      BY <1>1, <1>3, <3>1, <3>2, CallsExpression
  <2>2. CASE Return(After(After(current)), [is |-> "return", value |-> Null])
    <3>1. Kind(current) # "eof"
      BY <1>6 DEF ReturnStatement
    <3> QED
      BY <1>1, <1>3, <1>4, <2>2, <3>1, ReturnsPlain
  <2> QED
    BY <1>6, <2>1, <2>2 DEF ReturnStatement
<1>7. ASSUME ReturnValue PROVE IInv' /\ current' >= current
  BY <1>1, <1>3, <1>7, ReturnsPlain DEF ReturnValue
<1>8. ASSUME Jump PROVE IInv' /\ current' >= current
  <2>1. Kind(current) # "eof" /\ Return(Past(After(current), ";"), [is |-> Kind(current)])
    BY <1>8 DEF Jump
  <2> QED
    BY <1>1, <1>3, <1>4, <2>1, ReturnsPlain
<1>9. ASSUME Nop PROVE IInv' /\ current' >= current
  BY <1>1, <1>3, <1>9, ReturnsPlain DEF Nop
<1>10. ASSUME ExpressionStatement PROVE IInv' /\ current' >= current
  <2> DEFINE f == [at |-> "expression"]
  <2>1. f.at \in OnExpression \ InExpression /\ f.at # "condition" /\ SameCall(f, Top)
    BY <1>5
  <2>2. Call(current, f, Expression({";"}, Initial)) /\ {";"} \subseteq Ends
    BY <1>10 DEF ExpressionStatement, Ends
  <2> HIDE DEF f
  <2> QED
    BY <1>1, <1>3, <2>1, <2>2, CallsExpression
<1>11. ASSUME EndExpression PROVE IInv' /\ current' >= current
  BY <1>1, <1>3, <1>11, ReturnsPlain DEF EndExpression
<1>12. ASSUME NoStatement PROVE IInv' /\ current' >= current
  BY <1>1, <1>3, <1>12, ReturnsPlain DEF NoStatement
<1> QED
  BY <1>6, <1>7, <1>8, <1>9, <1>10, <1>11, <1>12

LEMMA BlockKeeps ==
    ASSUME IInv, OpenBlock \/ NextStatement \/ AddToBlock \/ CloseBlock
    PROVE  IInv' /\ current' >= current
<1>1. Inside(current) /\ stack # <<>> /\ Top.at \in {"statement", "block"}
  BY DEF OpenBlock, NextStatement, AddToBlock, CloseBlock, Running, Returned
<1>2. Top.at \in InStatement
  BY <1>1 DEF InStatement
<1>3. /\ Top.at \notin InExpression \cup Bottoms
      /\ CursorOK(current) /\ current >= current
      /\ CursorOK(After(current)) /\ After(current) >= current
  BY <1>1, <1>2, StatementAt
<1>4. ASSUME NEW f, f.at = "block"
      PROVE  f.at \notin InExpression \cup {"condition"} /\ SameCall(f, Top)
  BY <1>1, <1>3, <1>4 DEF InExpression, SameCall, InStatement
<1>5. ASSUME OpenBlock PROVE IInv' /\ current' >= current
  <2>1. Become(After(current), BlockAt(<<>>)) /\ BlockAt(<<>>).at = "block"
    BY <1>5 DEF OpenBlock, BlockAt
  <2> QED
    BY <1>1, <1>3, <1>4, <2>1, BecomesPlain
<1>6. ASSUME NextStatement PROVE IInv' /\ current' >= current
  <2>1. Call(current, Top, Statement) /\ Top.at = "block"
    BY <1>6 DEF NextStatement, Running
  <2>2. Statement.at \notin InExpression \cup {"condition"} /\ Statement.at \in Callees(Top.at)
    BY <2>1 DEF Statement, InExpression, Callees, OnExpression, InStatement
  <2> QED
    BY <1>1, <1>3, <1>4, <2>1, <2>2, CallsPlain
<1>7. ASSUME AddToBlock PROVE IInv' /\ current' >= current
  <2> DEFINE f == IF Dropped(value) THEN Top ELSE BlockAt(Append(Top.children, value))
  <2>1. Become(current, f) /\ f.at = "block"
    BY <1>7 DEF AddToBlock, Returned, BlockAt
  <2> HIDE DEF f
  <2> QED
    BY <1>1, <1>3, <1>4, <2>1, BecomesPlain
<1>8. ASSUME CloseBlock PROVE IInv' /\ current' >= current
  BY <1>1, <1>3, <1>8, ReturnsPlain DEF CloseBlock
<1> QED
  BY <1>5, <1>6, <1>7, <1>8

\* The clauses of if and the body of while.
LEMMA ClauseKeeps ==
    ASSUME IInv, OpenCondition \/ Condition \/ ElseFollows \/ Complete
    PROVE  IInv' /\ current' >= current
<1>1. /\ Inside(current) /\ stack # <<>>
      /\ Top.at \in {"statement", "condition", "if", "else", "while"}
  BY DEF OpenCondition, Condition, ElseFollows, Complete, Running, Returned
<1>2. Top.at \in InStatement
  BY <1>1 DEF InStatement
<1>3. /\ Top.at \notin InExpression \cup Bottoms
      /\ CursorOK(current) /\ current >= current
      /\ CursorOK(After(current)) /\ After(current) >= current
  BY <1>1, <1>2, StatementAt
<1>4. ASSUME NEW f, f.at \in {"if", "else", "while"}
      PROVE  /\ f.at \notin InExpression \cup {"condition"} /\ SameCall(f, Top)
             /\ Statement.at \in Callees(f.at) /\ Statement.at \notin InExpression \cup {"condition"}
  BY <1>1, <1>3, <1>4
     DEF InExpression, SameCall, InStatement, Statement, Callees, OnExpression
<1>5. ASSUME OpenCondition PROVE IInv' /\ current' >= current
  <2> DEFINE f == [at |-> "condition", of |-> Kind(current)]
  <2>1. /\ Call(After(After(current)), f, Expression({")"}, Initial)) /\ {")"} \subseteq Ends
        /\ Kind(current) # "eof"
    BY <1>5 DEF OpenCondition, Ends
  <2>2. f.at \in OnExpression \ InExpression /\ f.of \in {"if", "while"}
    BY <1>5 DEF OpenCondition, OnExpression, InExpression
  <2>3. SameCall(f, Top)
    BY <1>1, <1>3 DEF SameCall, InStatement
  <2>4. CursorOK(After(After(current))) /\ After(After(current)) >= current
    BY <1>1, <1>2, <2>1, StatementAt
  <2> HIDE DEF f
  <2> QED
    BY <1>1, <1>3, <2>1, <2>2, <2>3, <2>4, CallsExpression
<1>6. ASSUME Condition PROVE IInv' /\ current' >= current
  <2> DEFINE f == [at |-> Top.of, cond |-> value]
  <2>1. Call(After(current), f, Statement) /\ Top.at = "condition"
    BY <1>6 DEF Condition, Returned
  <2>2. Top.of \in {"if", "while"}
    BY <1>1, <2>1, TopIs DEF FrameOK
  <2>3. f.at \in {"if", "else", "while"}
    BY <2>2
  <2> HIDE DEF f
  <2> QED
    BY <1>1, <1>3, <1>4, <2>1, <2>3, CallsPlain
<1>7. ASSUME ElseFollows PROVE IInv' /\ current' >= current
  <2> DEFINE f == [at |-> "else", cond |-> Top.cond, then |-> value]
  <2>1. Call(After(current), f, Statement) /\ f.at \in {"if", "else", "while"}
    BY <1>7 DEF ElseFollows
  <2> HIDE DEF f
  <2> QED
    BY <1>1, <1>3, <1>4, <2>1, CallsPlain
<1>8. ASSUME Complete PROVE IInv' /\ current' >= current
  <2>1. PICK tree : Return(current, tree)
    BY <1>8 DEF Complete
  <2> QED
    BY <1>1, <1>3, <2>1, ReturnsPlain
<1> QED
  BY <1>5, <1>6, <1>7, <1>8

-----------------------------------------------------------------------------
(* Functions and the items of the file *)

LEMMA NoCall ==
    ASSUME NEW i, NEW kind
    PROVE  CallsOK(<<>>, NotYet, i, kind)
  BY DEF CallsOK, IsSeq

LEMMA OneCall ==
    ASSUME NEW f, f.at \in Bottoms, NEW i \in Nat,
           f.at = "parameters" => f.paren \in Nat \ {0} /\ f.paren < i, NEW v, NEW kind
    PROVE  CallsOK(<<f>>, v, i, kind)
<1> DEFINE s == <<f>>
<1>1. s \in Seq({f}) /\ Len(s) = 1 /\ s[1] = f /\ s # <<>>
  OBVIOUS
<1>2. IsSeq(s)
  BY <1>1, SeqIs
<1>3. Last(s) = f
  BY <1>1 DEF Last
<1> HIDE DEF s
<1>4. f.at \notin InExpression \cup {"condition"}
  BY DEF Bottoms, InExpression
<1>5. FrameOK(f) /\ TopOK(f, v, kind)
  BY <1>4, PlainIs
<1>6. BottomOK(s, i)
  BY <1>1 DEF BottomOK
<1>7. CallsOK(s, v, i, kind)
  BY <1>1, <1>2, <1>3, <1>5, <1>6 DEF CallsOK
<1> QED
  BY <1>7 DEF s

LEMMA BodyCall ==
    ASSUME NEW f, f.at = "function", NEW g, g.at = "block", NEW i \in Nat, NEW kind
    PROVE  CallsOK(<<f, g>>, NotYet, i, kind)
<1> DEFINE s == <<f, g>>
<1>1. s \in Seq({f, g}) /\ Len(s) = 2 /\ s[1] = f /\ s[2] = g /\ s # <<>>
  OBVIOUS
<1>2. IsSeq(s)
  BY <1>1, SeqIs
<1>3. Last(s) = g
  BY <1>1 DEF Last
<1> HIDE DEF s
<1>4. /\ f.at \notin InExpression \cup {"condition"} /\ g.at \notin InExpression \cup {"condition"}
      /\ f.at \in Bottoms
  BY DEF Bottoms, InExpression
<1>5. FrameOK(f) /\ FrameOK(g) /\ TopOK(g, NotYet, kind)
  BY <1>4, PlainIs
<1>6. LinkOK(f, g)
  BY DEF LinkOK, Callees, OnExpression
<1>7. BottomOK(s, i)
  BY <1>1 DEF BottomOK
<1>8. \A k \in 1 .. Len(s) : FrameOK(s[k])
  <2>1. \A k \in 1 .. 2 : k = 1 \/ k = 2
    OBVIOUS
  <2> QED
    BY <1>1, <1>5, <2>1
<1>9. \A k \in 1 .. Len(s) - 1 : LinkOK(s[k], s[k + 1])
  <2>1. \A k \in 1 .. 2 - 1 : k = 1 /\ k + 1 = 2
    OBVIOUS
  <2> QED
    BY <1>1, <1>6, <2>1
<1>10. CallsOK(s, NotYet, i, kind)
  BY <1>1, <1>2, <1>3, <1>4, <1>5, <1>7, <1>8, <1>9 DEF CallsOK
<1> QED
  BY <1>10 DEF s

\* A function's call is the first one: no other call is below it.
LEMMA FunctionIsFirst ==
    ASSUME IInv, stack # <<>>, Top.at \in Bottoms
    PROVE  Top = stack[1]
<1> DEFINE n == Len(stack)
<1>1. IsSeq(stack) /\ \A k \in 1 .. n - 1 : LinkOK(stack[k], stack[k + 1])
  BY DEF IInv, CallsOK
<1>2. n \in Nat \ {0} /\ Top = stack[n]
  BY <1>1, FrontIs DEF Top
<1> HIDE DEF n
<1>3. CASE n = 1
  BY <1>2, <1>3
<1>4. CASE n # 1
  <2>1. n - 1 \in 1 .. n - 1 /\ n - 1 + 1 = n
    BY <1>2, <1>4
  <2>2. LinkOK(stack[n - 1], Top)
    BY <1>1, <1>2, <2>1
  <2> QED
    BY <2>2, BottomsCall
<1> QED
  BY <1>3, <1>4

LEMMA ParameterKeeps ==
    ASSUME IInv, Parameter \/ ParameterRead
    PROVE  IInv' /\ current' >= current
<1>1. Inside(current) /\ stack # <<>> /\ Top.at = "parameters"
  BY DEF Parameter, ParameterRead, Running, Returned
<1>2. Top.at \notin InExpression
  BY <1>1 DEF InExpression
<1>3. \A kind : CursorOK(Past(current, kind)) /\ Past(current, kind) >= current
  BY <1>1, CursorGoes
<1>4. ASSUME NEW params, NEW of
      PROVE  /\ Parameters(params, of).at = "parameters" /\ SameCall(Parameters(params, of), Top)
             /\ Parameters(params, of).at \notin InExpression \cup {"condition"}
  <2> DEFINE f == Parameters(params, of)
  <2>1. f.at = "parameters"
    BY DEF Parameters, Heading
  <2> HIDE DEF f
  <2>2. f.paren = Top.paren
    BY DEF f, Parameters, Heading
  <2>3. SameCall(f, Top) /\ f.at \notin InExpression \cup {"condition"}
    BY <1>1, <1>2, <2>1, <2>2 DEF SameCall, InExpression
  <2> QED
    BY <2>1, <2>3 DEF f
<1>5. ASSUME Parameter PROVE IInv' /\ current' >= current
  <2>1. /\ Kind(current) # "eof"
        /\ Call(After(After(current)), Parameters(Top.params, Text(current)), Defined(After(current)))
    BY <1>5 DEF Parameter
  <2>2. CursorOK(After(After(current))) /\ After(After(current)) >= current
    BY <1>1, <2>1, CursorGoes
  <2>3. /\ Defined(After(current)).at \notin InExpression \cup {"condition"}
        /\ Defined(After(current)).at \in Callees("parameters")
    BY DefinedIs DEF InExpression, Callees, OnExpression
  <2> DEFINE f == Parameters(Top.params, Text(current))
  <2>4. f.at = "parameters" /\ SameCall(f, Top) /\ f.at \notin InExpression \cup {"condition"}
    BY <1>4
  <2> HIDE DEF f
  <2>5. Call(After(After(current)), f, Defined(After(current)))
    BY <2>1 DEF f
  <2> QED
    BY <1>1, <1>2, <2>2, <2>3, <2>4, <2>5, CallsPlain
<1>6. ASSUME ParameterRead PROVE IInv' /\ current' >= current
  <2> DEFINE f == Parameters(Append(Top.params, [type |-> Top.of, def |-> value]), "")
  <2>1. SameCall(f, Top) /\ f.at \notin InExpression \cup {"condition"}
    BY <1>4
  <2>2. Become(Past(current, ","), f)
    BY <1>6 DEF ParameterRead
  <2> HIDE DEF f
  <2> QED
    BY <1>1, <1>2, <1>3, <2>1, <2>2, BecomesPlain
<1> QED
  BY <1>5, <1>6

\* A missing semicolon behind the parameters is reported at a token of the file.
LEMMA EndParametersKeeps ==
    ASSUME IInv, EndParameters
    PROVE  IInv' /\ current' >= current
<1> DEFINE n       == Len(file.tokens)
           next    == Past(current, ")")
           missing == IF Kind(next) = "eof" THEN next - 1 ELSE next
           body    == <<[Parameters(Top.params, "") EXCEPT !.at = "function"], BlockAt(<<>>)>>
<1>1. Inside(current) /\ stack # <<>> /\ value = NotYet /\ Top.at = "parameters"
  BY DEF EndParameters, Running
<1>2. /\ Inside(next) /\ UNCHANGED <<file, recover, value>>
      /\ \/ /\ Kind(next) = "{" /\ stack' = body /\ current' = After(next)
            /\ reported' = reported \cup Wrong
         \/ /\ stack' = <<>> /\ current' = next
            /\ reported' = reported \cup Wrong \cup (IF Kind(next) = ";" THEN {} ELSE {missing})
  BY DEF EndParameters
<1>3. file \in Files /\ reported \subseteq 1 .. n /\ RecoverOK(recover)
  BY DEF IInv
<1>4. n \in Nat \ {0} /\ current \in 1 .. n /\ next \in 1 .. n
  BY <1>1, <1>2, <1>3, FilesAre DEF Inside
<1>5. CursorOK(next) /\ next >= current
  BY <1>1, CursorGoes
<1>6. Top.paren \in 1 .. n /\ current > 1
  <2>1. stack[1].at = "parameters" /\ Top = stack[1]
    BY <1>1, FunctionIsFirst DEF Bottoms
  <2>2. Top.paren \in Nat \ {0} /\ Top.paren < current
    BY <1>1, <2>1 DEF IInv, CallsOK, BottomOK
  <2> HIDE DEF n
  <2> QED
    BY <1>4, <2>2
<1>7. CursorOK(After(next)) /\ After(next) \in next + 1 .. n + 1
  BY <1>2, <1>3, AfterIs
<1>8. Wrong \subseteq 1 .. n /\ missing \in 1 .. n
  BY <1>4, <1>5, <1>6 DEF Wrong
<1> HIDE DEF missing, next, n
<1>9. reported' \subseteq 1 .. n
  BY <1>2, <1>3, <1>8
<1>10. CASE stack' = body /\ current' = After(next)
  <2>1. After(next) \in Nat
    BY <1>3, <1>7, CursorIs
  <2>2. CallsOK(body, NotYet, After(next), Kind(After(next)))
    BY <2>1, BodyCall DEF Parameters, Heading, BlockAt
  <2> HIDE DEF body
  <2>3. CallsOK(stack', value', After(next), Kind(After(next)))
    BY <1>1, <1>2, <1>10, <2>2
  <2>4. IInv'
    BY <1>2, <1>3, <1>7, <1>9, <1>10, <2>3, StateKeeps DEF n
  <2> QED
    BY <1>4, <1>5, <1>7, <1>10, <2>1, <2>4
<1>11. CASE stack' = <<>> /\ current' = next
  <2>1. CallsOK(stack', value', next, Kind(next))
    BY <1>1, <1>2, <1>11, NoCall
  <2>2. IInv'
    BY <1>2, <1>3, <1>5, <1>9, <1>11, <2>1, StateKeeps DEF n
  <2> QED
    BY <1>5, <1>11, <2>2
<1> QED
  BY <1>2, <1>10, <1>11

\* What is complete is added to the file.
LEMMA CompleteKeeps ==
    ASSUME IInv, EndFunction \/ EndItem
    PROVE  IInv' /\ current' >= current
<1>1. stack' = <<>> /\ value' = NotYet /\ UNCHANGED <<file, current, recover, reported>>
  BY DEF EndFunction, EndItem
<1>2. CallsOK(stack', value', current, Kind(current))
  BY <1>1, NoCall
<1>3. CursorOK(current) /\ current \in Nat
  BY CursorIs DEF IInv
<1>4. IInv'
  BY <1>1, <1>2, <1>3, RestKeeps
<1> QED
  BY <1>1, <1>3, <1>4

\* A declaration may be parsed by these calls, wherever it starts.
Declares(callers) ==
    \A j \in Nat : \A kind :
        /\ CallsOK(callers, Null, j, kind)
        /\ \A f : f.at = "declaration" => CallsOK(Append(callers, f), NotYet, j, kind)

LEMMA ItemDeclares == Declares(<<Item>>)
<1> SUFFICES ASSUME NEW j \in Nat, NEW kind
             PROVE  /\ CallsOK(<<Item>>, Null, j, kind)
                    /\ \A f : f.at = "declaration" => CallsOK(Append(<<Item>>, f), NotYet, j, kind)
  BY DEF Declares
<1> DEFINE s == <<Item>>
<1>1. Item.at = "item" /\ Item.at \in Bottoms
  BY DEF Item, Bottoms
<1>2. CallsOK(s, Null, j, kind) /\ CallsOK(s, NotYet, j, kind)
  BY <1>1, OneCall
<1>3. s # <<>> /\ Last(s) = Item
  BY DEF Last
<1> HIDE DEF s
<1>4. ASSUME NEW f, f.at = "declaration" PROVE CallsOK(Append(s, f), NotYet, j, kind)
  <2>1. f.at \notin InExpression \cup {"condition"}
    BY <1>4 DEF InExpression
  <2>2. FrameOK(f) /\ TopOK(f, NotYet, kind)
    BY <2>1, PlainIs
  <2>3. LinkOK(Last(s), f)
    BY <1>1, <1>3, <1>4 DEF LinkOK, Callees, OnExpression
  <2> QED
    BY <1>2, <1>3, <2>2, <2>3, PushKeeps
<1> QED
  BY <1>2, <1>4 DEF s

\* The callers of a statement are in a body, not between the parentheses of a function.
LEMMA StatementDeclares ==
    ASSUME IInv, stack # <<>>, Top.at = "statement"
    PROVE  Declares(Front(stack))
<1> SUFFICES ASSUME NEW j \in Nat, NEW kind
             PROVE  /\ CallsOK(Front(stack), Null, j, kind)
                    /\ \A f : f.at = "declaration" => CallsOK(Append(Front(stack), f), NotYet, j, kind)
  BY DEF Declares
<1>1. CallsOK(stack, value, current, Kind(current))
  BY DEF IInv
<1>2. Len(stack) \in Nat \ {0} /\ Top = stack[Len(stack)]
  BY <1>1, FrontIs DEF CallsOK, Top
<1>3. stack[1].at # "parameters"
  <2> SUFFICES ASSUME stack[1].at = "parameters" PROVE FALSE
    OBVIOUS
  <2>1. \A k \in 2 .. Len(stack) : stack[k].at \in InDefinition \cup InExpression
    BY <1>1 DEF CallsOK, BottomOK
  <2>2. Len(stack) = 1 \/ Len(stack) \in 2 .. Len(stack)
    BY <1>2
  <2>3. Top.at \in InDefinition \cup InExpression \cup {"parameters"}
    BY <1>2, <2>1, <2>2
  <2> QED
    BY <2>3 DEF InDefinition, InExpression
<1>4. Top.at \notin InExpression \cup Bottoms
  BY DEF InExpression, Bottoms
<1>5. CallsOK(stack, value, 0, Kind(current))
  BY <1>1, <1>3 DEF CallsOK, BottomOK
<1>6. CallsOK(Front(stack), Null, j, kind)
  BY <1>4, <1>5, PopKeeps DEF Top
<1>7. ASSUME NEW f, f.at = "declaration" PROVE CallsOK(Append(Front(stack), f), NotYet, j, kind)
  <2>1. FrameOK(f) /\ TopOK(f, NotYet, kind)
    BY <1>7, PlainIs DEF InExpression
  <2>2. SameCall(f, Top)
    BY <1>4, <1>7 DEF SameCall, InStatement
  <2> QED
    BY <1>5, <2>1, <2>2, SwapKeeps DEF Top
<1> QED
  BY <1>6, <1>7

\* Where a declaration or a function starts: at the saved position, if there is one.
LEMMA TargetIs ==
    ASSUME file \in Files, NEW saved, RecoverOK(saved), NEW i, Inside(i), CursorOK(i)
    PROVE  /\ Inside(Target(saved, i)) /\ CursorOK(Target(saved, i)) /\ RecoverOK(Popped(saved))
           /\ saved = <<>> => Target(saved, i) = i /\ Popped(saved) = <<>>
<1>1. CASE saved = <<>>
  BY <1>1 DEF Target, Popped
<1>2. CASE saved # <<>>
  <2>1. /\ IsSeq(Front(saved)) /\ Len(Front(saved)) = Len(saved) - 1 /\ Len(saved) \in Nat \ {0}
        /\ Last(saved) = saved[Len(saved)]
        /\ \A k \in 1 .. Len(saved) - 1 : Front(saved)[k] = saved[k]
    BY <1>2, FrontIs DEF RecoverOK
  <2> DEFINE last == Last(saved)
  <2>2. Inside(last) /\ Kind(last) = "identifier"
    BY <2>1 DEF RecoverOK
  <2>3. Target(saved, i) = last /\ Popped(saved) = Front(saved)
    BY <1>2 DEF Target, Popped
  <2> HIDE DEF last
  <2>4. CursorOK(last)
    <3>1. last \in 1 .. Len(file.tokens) /\ Len(file.tokens) \in Nat
      BY <2>2, FilesAre DEF Inside
    <3> QED
      BY <2>2, <3>1 DEF CursorOK
  <2>5. RecoverOK(Front(saved))
    BY <2>1 DEF RecoverOK
  <2> QED
    BY <1>2, <2>2, <2>3, <2>4, <2>5
<1> QED
  BY <1>1, <1>2

\* What is pushed is what is taken back.
LEMMA PushedIs ==
    ASSUME IInv, Inside(current), Kind(current) = "identifier"
    PROVE  /\ RecoverOK(Pushed) /\ Pushed # <<>> /\ \A i : Target(Pushed, i) = current
           /\ recover = <<>> => Popped(Pushed) = <<>>
<1>1. IsSeq(recover) /\ \A k \in 1 .. Len(recover) : Inside(recover[k]) /\ Kind(recover[k]) = "identifier"
  BY DEF IInv, RecoverOK
<1> DEFINE p == Pushed
<1>2. /\ IsSeq(p) /\ Len(p) = Len(recover) + 1 /\ p # <<>> /\ Len(recover) \in Nat
      /\ \A k \in 1 .. Len(recover) : p[k] = recover[k]
      /\ p[Len(recover) + 1] = current /\ Last(p) = current
  BY <1>1, AppendIs DEF Pushed
<1> HIDE DEF p
<1>3. ASSUME NEW k \in 1 .. Len(p) PROVE Inside(p[k]) /\ Kind(p[k]) = "identifier"
  <2>1. k = Len(recover) + 1 \/ k \in 1 .. Len(recover)
    BY <1>2
  <2> QED
    BY <1>1, <1>2, <2>1
<1>4. RecoverOK(p)
  BY <1>2, <1>3 DEF RecoverOK
<1>5. ASSUME NEW i PROVE Target(p, i) = current
  BY <1>2 DEF Target
<1>6. ASSUME recover = <<>> PROVE Popped(p) = <<>>
  <2>1. Len(recover) = 0
    BY <1>6
  <2>2. Popped(p) = Front(p) /\ IsSeq(Front(p)) /\ Len(Front(p)) = Len(p) - 1
    BY <1>2, FrontIs DEF Popped
  <2>3. Len(Front(p)) = 0
    BY <1>2, <2>1, <2>2
  <2> QED
    BY <2>2, <2>3, ElementsAre
<1> QED
  BY <1>2, <1>4, <1>5, <1>6 DEF p

LEMMA DeclareKeeps ==
    ASSUME IInv, NEW saved, RecoverOK(saved), NEW i, Inside(i), CursorOK(i),
           NEW callers, Declares(callers), Declare(saved, i, callers)
    PROVE  /\ IInv' /\ current' >= Target(saved, i)
           /\ recover' = Popped(saved)
<1> DEFINE start == Target(saved, i)
           type  == Past(start, "const")
           f     == DeclarationOf(type # start, Text(type), <<>>)
<1>1. /\ \/ /\ Kind(type) = "identifier" /\ stack' = Append(callers, f) /\ value' = NotYet
            /\ current' = After(type)
         \/ stack' = callers /\ value' = Null /\ current' = type
      /\ recover' = Popped(saved) /\ UNCHANGED <<file, reported>>
  BY DEF Declare
<1>2. file \in Files /\ reported \subseteq 1 .. Len(file.tokens)
  BY DEF IInv
<1>3. Inside(start) /\ CursorOK(start) /\ RecoverOK(Popped(saved))
  BY <1>2, TargetIs
<1>4. f.at = "declaration"
  BY DEF DeclarationOf
<1> HIDE DEF start, f
<1>5. CursorOK(type) /\ type \in start .. Len(file.tokens) + 1 /\ start \in Nat /\ type \in Nat
  BY <1>2, <1>3, PastIs, CursorIs
<1> HIDE DEF type
<1>6. CASE /\ Kind(type) = "identifier" /\ stack' = Append(callers, f) /\ value' = NotYet
           /\ current' = After(type)
  <2>1. Inside(type)
    BY <1>6, KindInside
  <2>2. CursorOK(After(type)) /\ After(type) \in type + 1 .. Len(file.tokens) + 1
    BY <1>2, <2>1, AfterIs
  <2>3. After(type) \in Nat
    BY <1>2, <2>2, CursorIs
  <2>4. CallsOK(stack', value', After(type), Kind(After(type)))
    BY <1>4, <1>6, <2>3 DEF Declares
  <2>5. RecoverOK(recover') /\ reported' \subseteq 1 .. Len(file.tokens) /\ file' = file
    BY <1>1, <1>2, <1>3
  <2>6. IInv'
    BY <1>6, <2>2, <2>4, <2>5, StateKeeps
  <2> QED
    BY <1>1, <1>5, <1>6, <2>2, <2>3, <2>6 DEF start
<1>7. CASE stack' = callers /\ value' = Null /\ current' = type
  <2>1. CallsOK(stack', value', type, Kind(type))
    BY <1>5, <1>7 DEF Declares
  <2>2. RecoverOK(recover') /\ reported' \subseteq 1 .. Len(file.tokens) /\ file' = file
    BY <1>1, <1>2, <1>3
  <2>3. IInv'
    BY <1>5, <1>7, <2>1, <2>2, StateKeeps
  <2> QED
    BY <1>1, <1>5, <1>7, <2>3 DEF start
<1> QED
  BY <1>1, <1>6, <1>7

\* Declarations: of a block, of the file, and of the file after its type was pushed.
LEMMA LocalKeeps ==
    ASSUME IInv, LocalDeclaration
    PROVE  IInv' /\ (recover # <<>> \/ current' >= current) /\ recover' = Popped(recover)
<1>1. Inside(current) /\ stack # <<>> /\ Top.at = "statement" /\ Declare(recover, current, Front(stack))
  BY DEF LocalDeclaration, Running
<1>2. file \in Files /\ CursorOK(current) /\ RecoverOK(recover)
  BY DEF IInv
<1>3. Declares(Front(stack))
  BY <1>1, StatementDeclares
<1>4. IInv' /\ current' >= Target(recover, current) /\ recover' = Popped(recover)
  BY <1>1, <1>2, <1>3, DeclareKeeps
<1> QED
  BY <1>4 DEF Target

LEMMA ConstKeeps ==
    ASSUME IInv, ConstItem
    PROVE  IInv' /\ (recover # <<>> \/ current' >= current) /\ recover' = Popped(recover)
<1>1. Declare(recover, current, <<Item>>) /\ Kind(current) = "const"
  BY DEF ConstItem
<1>2. file \in Files /\ CursorOK(current) /\ RecoverOK(recover) /\ Inside(current)
  BY <1>1, KindInside DEF IInv
<1>3. IInv' /\ current' >= Target(recover, current) /\ recover' = Popped(recover)
  BY <1>1, <1>2, ItemDeclares, DeclareKeeps
<1> QED
  BY <1>3 DEF Target

LEMMA VariableKeeps ==
    ASSUME IInv, VariableItem
    PROVE  IInv' /\ current' >= current /\ recover' = Popped(Pushed)
<1>1. /\ Kind(current) = "identifier" /\ Declare(Pushed, After(current), <<Item>>)
  BY DEF VariableItem, AtName
<1>2. file \in Files /\ Inside(current) /\ Inside(After(current)) /\ CursorOK(After(current))
  BY <1>1, KindInside, AfterInside, AfterIs DEF IInv
<1>3. RecoverOK(Pushed) /\ Target(Pushed, After(current)) = current
  BY <1>1, <1>2, PushedIs
<1>4. /\ IInv' /\ current' >= Target(Pushed, After(current))
      /\ recover' = Popped(Pushed)
  BY <1>1, <1>2, <1>3, ItemDeclares, DeclareKeeps
<1> QED
  BY <1>3, <1>4

LEMMA FunctionKeeps ==
    ASSUME IInv, FunctionItem
    PROVE  IInv' /\ current' >= current /\ recover' = Popped(Pushed)
<1> DEFINE i == Target(Pushed, After(current))
           f == Heading("parameters", Text(i), Text(After(i)), After(After(i)), <<>>, "")
           j == After(After(After(i)))
<1>1. /\ Kind(current) = "identifier" /\ stack = <<>>
      /\ Kind(i) = "identifier" /\ Kind(After(i)) = "identifier" /\ Kind(After(After(i))) = "("
      /\ current' = j /\ stack' = <<f>> /\ recover' = Popped(Pushed)
      /\ UNCHANGED <<file, value, reported>>
  BY DEF FunctionItem, AtName, AtItem
<1>2. f.at = "parameters" /\ f.at \in Bottoms /\ f.paren = After(After(i))
  BY DEF Heading, Bottoms
<1>3. /\ file \in Files /\ Inside(current) /\ reported \subseteq 1 .. Len(file.tokens)
      /\ value = NotYet /\ current \in Nat /\ Len(file.tokens) \in Nat
  BY <1>1, KindInside, CursorIs, FilesAre DEF IInv, CallsOK
<1>4. i = current /\ RecoverOK(Pushed)
  BY <1>1, <1>3, PushedIs
<1> HIDE DEF f, i
<1>5. Inside(i) /\ Inside(After(i)) /\ Inside(After(After(i)))
  BY <1>1, KindInside
<1>6. /\ After(i) \in i + 1 .. Len(file.tokens) + 1
      /\ After(After(i)) \in After(i) + 1 .. Len(file.tokens) + 1
      /\ j \in After(After(i)) + 1 .. Len(file.tokens) + 1 /\ CursorOK(j)
  BY <1>3, <1>5, AfterIs
<1>7. RecoverOK(Popped(Pushed))
  <2>1. CursorOK(current)
    BY DEF IInv
  <2> QED
    BY <1>3, <1>4, <2>1, TargetIs
<1> HIDE DEF j
<1>8. j \in Nat /\ f.paren \in Nat \ {0} /\ f.paren < j /\ j >= current
  BY <1>2, <1>3, <1>4, <1>6
<1>9. CallsOK(stack', value', j, Kind(j))
  BY <1>1, <1>2, <1>3, <1>8, OneCall
<1>10. IInv'
  BY <1>1, <1>3, <1>6, <1>7, <1>9, StateKeeps
<1> QED
  BY <1>1, <1>8, <1>10

LEMMA WordKeeps ==
    ASSUME IInv, WordItem
    PROVE  IInv' /\ current' >= current
<1>1. /\ Kind(current) = "identifier" /\ current' = After(current) /\ recover' = Pushed
      /\ stack = <<>> /\ UNCHANGED <<file, stack, value, reported>>
  BY DEF WordItem, AtName, AtItem
<1>2. Inside(current) /\ value = NotYet /\ reported \subseteq 1 .. Len(file.tokens)
  BY <1>1, KindInside DEF IInv, CallsOK
<1>3. CursorOK(After(current)) /\ After(current) >= current
  BY <1>2, CursorGoes
<1>4. RecoverOK(Pushed)
  BY <1>1, <1>2, PushedIs
<1>5. CallsOK(stack', value', After(current), Kind(After(current)))
  BY <1>1, <1>2, NoCall
<1>6. IInv'
  BY <1>1, <1>2, <1>3, <1>4, <1>5, StateKeeps
<1> QED
  BY <1>1, <1>3, <1>6

\* The search after an unexpected token ends at the latest at the end of the file.
LEMMA ResyncIs ==
    ASSUME file \in Files, NEW i, Inside(i)
    PROVE  CursorOK(Resync(i)) /\ Resync(i) >= i /\ Inside(Resync(i))
<1> DEFINE n == Len(file.tokens)
           S == {j \in i .. n : ItemStarts(j)}
<1>1. n \in Nat \ {0} /\ i \in 1 .. n /\ DOMAIN file.tokens = 1 .. n /\ Kind(n) = "eof"
  BY FilesAre DEF Inside
<1>2. S \subseteq Nat /\ n \in S /\ S \subseteq i .. n
  <2>1. ItemStarts(n) /\ n \in i .. n
    BY <1>1 DEF ItemStarts
  <2> QED
    BY <1>1, <2>1
<1>3. \A j \in S : Kind(j) # "comment"
  BY DEF ItemStarts
<1>4. Resync(i) = Min(S)
  BY DEF Resync
<1> HIDE DEF S
<1>5. Min(S) \in S
  BY <1>2, Least
<1> DEFINE r == Resync(i)
<1>6. r \in i .. n /\ Kind(r) # "comment"
  BY <1>2, <1>3, <1>4, <1>5
<1> HIDE DEF r
<1>7. r \in 1 .. n + 1 /\ r \in 1 .. n /\ r >= i
  BY <1>1, <1>6
<1>8. CursorOK(r) /\ r >= i /\ Inside(r)
  BY <1>1, <1>6, <1>7 DEF CursorOK, Inside
<1> QED
  BY <1>8 DEF r

LEMMA UnexpectedKeeps ==
    ASSUME IInv, UnexpectedItem
    PROVE  IInv' /\ current' >= current
<1> DEFINE i == After(current)
           j == Resync(i)
<1>1. /\ current' = j /\ reported' = reported \cup {current}
      /\ stack = <<>> /\ current < Len(file.tokens) /\ UNCHANGED <<file, recover, stack, value>>
  BY DEF UnexpectedItem, AtItem
<1>2. /\ file \in Files /\ CursorOK(current) /\ RecoverOK(recover) /\ value = NotYet
      /\ reported \subseteq 1 .. Len(file.tokens)
  BY <1>1 DEF IInv, CallsOK
<1>3. /\ Len(file.tokens) \in Nat /\ current \in 1 .. Len(file.tokens) /\ Inside(current)
      /\ Kind(current) # "eof"
  <2>1. Len(file.tokens) \in Nat /\ current \in 1 .. Len(file.tokens) + 1
    BY <1>2, FilesAre DEF CursorOK
  <2>2. current \in 1 .. Len(file.tokens) /\ current # Len(file.tokens)
    BY <1>1, <2>1
  <2> QED
    BY <1>2, <2>1, <2>2, FilesAre DEF Inside
<1>4. Inside(i) /\ i \in current + 1 .. Len(file.tokens) + 1
  BY <1>2, <1>3, AfterInside, AfterIs
<1>5. CursorOK(j) /\ j >= i
  BY <1>2, <1>4, ResyncIs
<1>6. j \in Nat
  BY <1>2, <1>5, CursorIs
<1> HIDE DEF i, j
<1>7. CallsOK(stack', value', j, Kind(j))
  <2>1. stack' = <<>> /\ value' = NotYet
    BY <1>1, <1>2
  <2> QED
    BY <2>1, NoCall
<1>8. reported' \subseteq 1 .. Len(file.tokens)
  BY <1>1, <1>2, <1>3
<1>9. IInv'
  <2>1. RecoverOK(recover') /\ file' = file
    BY <1>1, <1>2
  <2> QED
    BY <1>1, <1>5, <1>7, <1>8, <2>1, StateKeeps
<1> QED
  BY <1>1, <1>3, <1>4, <1>5, <1>6, <1>9

-----------------------------------------------------------------------------
(* The invariant *)

LEMMA Initially == Init => IInv
<1> SUFFICES ASSUME Init PROVE IInv
  OBVIOUS
<1>1. /\ file \in Files /\ current = 1 /\ recover = <<>> /\ stack = <<>> /\ value = NotYet
      /\ reported = {}
  BY DEF Init
<1>2. Len(file.tokens) \in Nat \ {0}
  BY <1>1, FilesAre
<1>3. CursorOK(current)
  BY <1>1, <1>2 DEF CursorOK
<1>4. RecoverOK(recover)
  BY <1>1 DEF RecoverOK, IsSeq
<1>5. CallsOK(stack, value, current, Kind(current))
  BY <1>1, NoCall
<1> QED
  BY <1>1, <1>3, <1>4, <1>5 DEF IInv

\* A declaration takes back the word on top of the recovery stack, if there is one.
LEMMA Keeps ==
    ASSUME IInv, Next
    PROVE  IInv' /\ (recover # <<>> \/ current' >= current)
<1>1. ASSUME Items PROVE IInv' /\ (recover # <<>> \/ current' >= current)
  BY <1>1, ConstKeeps, VariableKeeps, FunctionKeeps, WordKeeps, UnexpectedKeeps, CompleteKeeps
     DEF Items
<1>2. ASSUME Functions PROVE IInv' /\ current' >= current
  BY <1>2, ParameterKeeps, EndParametersKeeps, CompleteKeeps DEF Functions
<1>3. ASSUME Statements PROVE IInv' /\ (recover # <<>> \/ current' >= current)
  BY <1>3, SimpleKeeps, BlockKeeps, ClauseKeeps, LocalKeeps DEF Statements
<1>4. ASSUME Declarations PROVE IInv' /\ current' >= current
  BY <1>4, DeclarationKeeps, DefinitionKeeps DEF Declarations
<1>5. ASSUME Expressions PROVE IInv' /\ current' >= current
  BY <1>5, OperandKeeps, ResultKeeps, IndexKeeps, ArgumentsKeep, ExpressionEnds, OperatorKeeps,
     RightOperandKeeps DEF Expressions
<1> QED
  BY <1>1, <1>2, <1>3, <1>4, <1>5 DEF Next

LEMMA Stutters ==
    ASSUME IInv, UNCHANGED vars
    PROVE  IInv' /\ current' >= current
<1>1. UNCHANGED <<file, current, recover, stack, value, reported>>
  BY DEF vars
<1>2. CursorOK(current) /\ current \in Nat
  BY CursorIs DEF IInv
<1>3. CallsOK(stack', value', current, Kind(current))
  BY <1>1 DEF IInv
<1>4. IInv'
  BY <1>1, <1>2, <1>3, RestKeeps
<1> QED
  BY <1>1, <1>2, <1>4

\* The cursor stays in the text, calls are nested as the code nests them, and each has
\* parsed what its caller expects.
THEOREM Invariant == Spec => []IInv
<1>1. IInv /\ [Next]_vars => IInv'
  BY Keeps, Stutters
<1> QED
  BY Initially, <1>1, PTL DEF Spec

LEMMA InvariantTypes == IInv => TypeOK
<1> SUFFICES ASSUME IInv PROVE TypeOK
  OBVIOUS
<1>1. /\ current \in 1 .. Len(file.tokens) + 1
      /\ current > 1 => Kind(current) # "comment"
      /\ reported \subseteq 1 .. Len(file.tokens)
  BY DEF IInv, CursorOK
<1>2. \A k \in DOMAIN recover : Inside(recover[k]) /\ Kind(recover[k]) = "identifier"
  BY ElementsAre DEF IInv, RecoverOK
<1>3. /\ stack # <<>> => stack[1].at \in {"item", "parameters", "function"}
      /\ stack = <<>> => value = NotYet
      /\ \A k \in 1 .. Len(stack) - 1 : stack[k + 1].at \in Callees(stack[k].at)
  BY DEF IInv, CallsOK, LinkOK, Bottoms
<1> QED
  BY <1>1, <1>2, <1>3 DEF TypeOK

\* The cursor is at most one token behind the text and on no comment, what is saved are
\* words, calls are nested as the code nests them, and diagnostics are at tokens.
THEOREM TypesCorrect == Spec => []TypeOK
  BY Invariant, InvariantTypes, PTL

\* Every tree that parseExpression builds, finished or not, is grouped by the levels of its
\* operators, in every file: a call that parses the right operand stops at the first token
\* that does not bind tighter, and the same token decides where the caller goes on.
THEOREM AlwaysGrouped == Spec => []OperatorsGroup
<1>1. IInv => OperatorsGroup
  <2> SUFFICES ASSUME IInv PROVE OperatorsGroup
    OBVIOUS
  <2>1. IsSeq(stack) /\ \A k \in 1 .. Len(stack) : FrameOK(stack[k])
    BY DEF IInv, CallsOK
  <2>2. DOMAIN stack = 1 .. Len(stack)
    BY <2>1, ElementsAre
  <2> QED
    BY <2>1, <2>2 DEF FrameOK, OperatorsGroup
<1> QED
  BY Invariant, <1>1, PTL

\* A step that goes back finds a word on the recovery stack.
THEOREM BackToSavedOnly == Spec => [][recover # <<>> \/ current' >= current]_vars
<1>1. IInv /\ [Next]_vars => [recover # <<>> \/ current' >= current]_vars
  BY Keeps, Stutters
<1> QED
  BY Invariant, <1>1, PTL DEF Spec

\* Without such a word on the stack a step other than WordItem leaves none.
LEMMA NothingSaved ==
    ASSUME IInv, recover = <<>>, [Next /\ ~WordItem]_vars
    PROVE  recover' = <<>>
<1>1. Popped(recover) = <<>>
  BY DEF Popped
<1>2. ASSUME Items, ~WordItem PROVE recover' = <<>>
  <2>1. CASE ConstItem
    BY <1>1, <2>1, ConstKeeps
  <2>2. CASE VariableItem \/ FunctionItem
    <3>1. Kind(current) = "identifier"
      BY <2>2 DEF VariableItem, FunctionItem, AtName
    <3>2. Inside(current)
      BY <3>1, KindInside
    <3>3. Popped(Pushed) = <<>>
      BY <3>1, <3>2, PushedIs
    <3> QED
      BY <2>2, <3>3, VariableKeeps, FunctionKeeps
  <2>3. CASE UnexpectedItem \/ EndItem
    BY <2>3 DEF UnexpectedItem, EndItem
  <2> QED
    BY <1>2, <2>1, <2>2, <2>3 DEF Items
<1>3. ASSUME Functions PROVE recover' = <<>>
  BY <1>3 DEF Functions, Parameter, ParameterRead, EndParameters, EndFunction, Call, Become
<1>4. ASSUME Statements PROVE recover' = <<>>
  <2>1. CASE LocalDeclaration
    BY <1>1, <2>1, LocalKeeps
  <2>2. CASE ReturnStatement \/ ReturnValue \/ Jump \/ Nop \/ ExpressionStatement \/ EndExpression
             \/ NoStatement
    BY <2>2 DEF ReturnStatement, ReturnValue, Jump, Nop, ExpressionStatement, EndExpression,
                NoStatement, Return, Call
  <2>3. CASE OpenBlock \/ NextStatement \/ AddToBlock \/ CloseBlock
    BY <2>3 DEF OpenBlock, NextStatement, AddToBlock, CloseBlock, Become, Call, Return
  <2>4. CASE OpenCondition \/ Condition \/ ElseFollows \/ Complete
    BY <2>4 DEF OpenCondition, Condition, ElseFollows, Complete, Call, Return
  <2> QED
    BY <1>4, <2>1, <2>2, <2>3, <2>4 DEF Statements
<1>5. ASSUME Declarations PROVE recover' = <<>>
  BY <1>5 DEF Declarations, NextDefinition, DefinitionRead, EndDeclaration, OpenSize, CloseSize,
              OpenInitial, InitialValue, EndDefinition, Become, Call, Return
<1>6. ASSUME Expressions PROVE recover' = <<>>
  <2>1. CASE UnaryOperator \/ UnaryOperand \/ OpenParenthesis \/ CloseParenthesis \/ OpenElements
             \/ Element \/ Primary \/ NoOperand
    BY <2>1 DEF UnaryOperator, UnaryOperand, OpenParenthesis, CloseParenthesis, OpenElements,
                Element, Primary, NoOperand, Become, Call
  <2>2. CASE EndOfExpression \/ OpenIndex \/ Index \/ OpenArguments \/ Argument
    BY <2>2 DEF EndOfExpression, OpenIndex, Index, OpenArguments, Argument, NextArgument,
                Become, Call, Return
  <2>3. CASE Operator \/ NoOperator \/ RightOperand
    BY <2>3 DEF Operator, NoOperator, RightOperand, Become, Call, Return
  <2> QED
    BY <1>6, <2>1, <2>2, <2>3 DEF Expressions
<1>7. ASSUME UNCHANGED vars PROVE recover' = <<>>
  BY <1>7 DEF vars
<1> QED
  BY <1>2, <1>3, <1>4, <1>5, <1>6, <1>7 DEF Next

\* The cursor never goes back in a file where every word before an item is the type of one:
\* WordItem is the only step that leaves a saved position behind.
THEOREM CursorMovesForward == Spec /\ [][~WordItem]_vars => MovesForward
<1>1. Init => IInv /\ recover = <<>>
  BY Initially DEF Init
<1>2. IInv /\ recover = <<>> /\ [Next]_vars /\ [~WordItem]_vars => (IInv /\ recover = <<>>)'
  <2> SUFFICES ASSUME IInv, recover = <<>>, [Next]_vars, [~WordItem]_vars
               PROVE  IInv' /\ recover' = <<>>
    OBVIOUS
  <2>1. [Next /\ ~WordItem]_vars
    OBVIOUS
  <2> QED
    BY <2>1, Keeps, Stutters, NothingSaved
<1>3. IInv /\ recover = <<>> /\ [Next]_vars => [current' >= current]_vars
  BY Keeps, Stutters
<1> QED
  BY <1>1, <1>2, <1>3, PTL DEF Spec, MovesForward
=============================================================================
