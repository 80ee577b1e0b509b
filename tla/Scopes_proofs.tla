---------------------------- MODULE Scopes_proofs ----------------------------
(***************************************************************************)
(* Proofs about Scopes, for every set of identifiers and functions: type   *)
(* correctness, the disjointness of frame slots, and name resolution.      *)
(* What makes the types inductive is the shape of the walk: a block is     *)
(* open for each "block" in ctl, and every construct but a function's      *)
(* body stands inside one.                                                 *)
(***************************************************************************)
EXTENDS Scopes, FiniteSetTheorems, SequenceTheorems, TLAPS

Construct == {"body", "block", "then", "else", "last"}

BlocksOf(c) == {k \in DOMAIN c : c[k] = "block"}

\* The constructs of a function: its body is the first, the block of the body the second.
Nested(c) ==
    /\ c \in Seq(Construct)
    /\ \A k \in DOMAIN c : k = 1 <=> c[k] = "body"
    /\ Len(c) >= 2 => c[2] = "block"

Shape ==
    /\ func = NoFunction => ctl = <<>>
    /\ Nested(ctl)
    /\ Cardinality(BlocksOf(ctl)) = Len(layerNames)
    /\ Awaits({"body"}) => blockName = Root(func)

MangledType == [id : Ids, mark : {"", "%", "@"}, layer : NameType]
NodeType == [id : Ids, mangled : MangledType, offset : Nat, size : Nat,
             func : Funcs \cup {NoFunction}]

Typed == TypeOK /\ nodes \in Seq(NodeType) /\ Shape

\* The walk with arrays of any length.
WideNext ==
    \/ \E f \in Funcs, params \in ParamLists : BeginFunction(f, params)
    \/ EndFunction \/ OpenBlock \/ CloseBlock
    \/ \E hasElse \in BOOLEAN : If(hasElse)
    \/ Else \/ While \/ Simple
    \/ \E i \in Ids, size \in Nat \ {0} : Declare(i, size)

LEMMA NextIsWide == [Next]_vars => [WideNext]_vars
  BY ScopesAssumption DEF Next, WideNext

-----------------------------------------------------------------------------
(* Sets of positions *)

\* A set of positions that is not empty has a last one: its members are ordered by
\* the intervals from them to the end, of which one is least.
LEMMA MaxIs ==
    ASSUME NEW n \in Nat, NEW S \in SUBSET (1 .. n), S # {}
    PROVE  Max(S) \in S /\ \A k \in S : k <= Max(S)
<1> DEFINE T == {m .. n : m \in S}
<1>1. T \subseteq FiniteSubsetsOf(Nat) /\ T # {}
  <2>1. ASSUME NEW m \in S PROVE m .. n \in FiniteSubsetsOf(Nat)
    <3>1. m .. n \in SUBSET Nat
      OBVIOUS
    <3>2. IsFiniteSet(m .. n)
      BY FS_Interval
    <3> QED
      BY <3>1, <3>2 DEF FiniteSubsetsOf
  <2> QED
    BY <2>1
<1>2. PICK x \in T : \A y \in T : ~(<<y, x>> \in StrictSubsetOrdering(Nat))
  <2> HIDE DEF T
  <2> QED
    BY <1>1, FS_StrictSubsetOrderingWellFounded, WFMin
<1>3. PICK m \in S : x = m .. n
  OBVIOUS
<1>4. ASSUME NEW k \in S PROVE m >= k
  <2> SUFFICES ASSUME k > m PROVE FALSE
    OBVIOUS
  <2>1. k .. n \in SUBSET Nat /\ m .. n \in SUBSET Nat /\ k .. n \in T
    OBVIOUS
  <2>2. k .. n \subseteq m .. n /\ k .. n # m .. n
    OBVIOUS
  <2>3. <<k .. n, m .. n>> \in StrictSubsetOrdering(Nat)
    BY <2>1, <2>2 DEF StrictSubsetOrdering
  <2> QED
    BY <1>2, <1>3, <2>1, <2>3
<1> QED
  BY <1>4 DEF Max

LEMMA PositionsFinite ==
    ASSUME NEW n \in Nat, NEW S \in SUBSET (1 .. n)
    PROVE  IsFiniteSet(S) /\ Cardinality(S) \in 0 .. n
<1>1. IsFiniteSet(1 .. n) /\ Cardinality(1 .. n) = n
  BY FS_Interval
<1>2. IsFiniteSet(S) /\ Cardinality(S) <= n
  BY <1>1, FS_Subset
<1>3. Cardinality(S) \in Nat
  BY <1>2, FS_CardinalityType
<1> QED
  BY <1>2, <1>3

LEMMA BlocksFinite ==
    ASSUME NEW S, NEW c \in Seq(S)
    PROVE  IsFiniteSet(BlocksOf(c)) /\ Cardinality(BlocksOf(c)) \in Nat
  BY PositionsFinite DEF BlocksOf

\* A stack from which some elements are popped.
LEMMA CutIs ==
    ASSUME NEW S, NEW q \in Seq(S), NEW n \in Nat
    PROVE  /\ SubSeq(q, 1, Len(q) - n) \in Seq(S)
           /\ n <= Len(q) => Len(SubSeq(q, 1, Len(q) - n)) = Len(q) - n
           /\ \A k \in 1 .. Len(q) - n : SubSeq(q, 1, Len(q) - n)[k] = q[k]
<1>1. Len(q) \in Nat /\ \A k \in 1 .. Len(q) : q[k] \in S
  OBVIOUS
<1> SUFFICES ASSUME NEW m \in Int, m = Len(q) - n
             PROVE  /\ SubSeq(q, 1, m) \in Seq(S)
                    /\ m >= 0 => Len(SubSeq(q, 1, m)) = m
                    /\ \A k \in 1 .. m : SubSeq(q, 1, m)[k] = q[k]
  BY <1>1
<1>2. \A k \in 1 .. m : q[k] \in S
  BY <1>1
<1>3. /\ SubSeq(q, 1, m) \in Seq(S)
      /\ Len(SubSeq(q, 1, m)) = IF 1 <= m THEN m - 1 + 1 ELSE 0
      /\ \A k \in 1 .. m - 1 + 1 : SubSeq(q, 1, m)[k] = q[1 + k - 1]
  BY <1>2, SubSeqProperties
<1>4. m >= 0 => Len(SubSeq(q, 1, m)) = m
  BY <1>3
<1>5. ASSUME NEW k \in 1 .. m PROVE SubSeq(q, 1, m)[k] = q[k]
  <2>1. k \in 1 .. m - 1 + 1 /\ 1 + k - 1 = k
    OBVIOUS
  <2> QED
    BY <1>3, <2>1
<1> QED
  BY <1>3, <1>4, <1>5

-----------------------------------------------------------------------------
(* The constructs the walk is inside of *)

\* A construct that is added is a block or is none.
LEMMA BlocksOfAppend ==
    ASSUME NEW c \in Seq(Construct), NEW e \in Construct
    PROVE  Cardinality(BlocksOf(Append(c, e))) =
              Cardinality(BlocksOf(c)) + (IF e = "block" THEN 1 ELSE 0)
<1> DEFINE d == Append(c, e)
<1>0. /\ DOMAIN c = 1 .. Len(c) /\ DOMAIN d = 1 .. Len(c) + 1 /\ Len(c) \in Nat
      /\ d[Len(c) + 1] = e /\ \A k \in 1 .. Len(c) : d[k] = c[k]
  OBVIOUS
<1>1. BlocksOf(d) =
        IF e = "block" THEN BlocksOf(c) \cup {Len(c) + 1} ELSE BlocksOf(c)
  <2> HIDE DEF d
  <2> QED
    BY <1>0 DEF BlocksOf
<1>2. Len(c) + 1 \notin BlocksOf(c)
  BY DEF BlocksOf
<1>3. IsFiniteSet(BlocksOf(c)) /\ Cardinality(BlocksOf(c)) \in Nat
  BY BlocksFinite
<1>4. Cardinality(BlocksOf(c) \cup {Len(c) + 1}) = Cardinality(BlocksOf(c)) + 1
  BY <1>2, <1>3, FS_AddElement
<1> QED
  BY <1>1, <1>3, <1>4

LEMMA FrontIs ==
    ASSUME NEW S, NEW c \in Seq(S), c # <<>>
    PROVE  /\ Front(c) \in Seq(S) /\ Len(Front(c)) = Len(c) - 1
           /\ \A k \in 1 .. Len(c) - 1 : Front(c)[k] = c[k]
           /\ Last(c) \in S /\ Last(c) = c[Len(c)] /\ DOMAIN Front(c) = 1 .. Len(c) - 1
<1>1. Len(c) \in Nat \ {0} /\ \A k \in 1 .. Len(c) : c[k] \in S
  OBVIOUS
<1>2. /\ Front(c) \in Seq(S) /\ Len(Front(c)) = Len(c) - 1
      /\ \A k \in 1 .. Len(c) - 1 : Front(c)[k] = c[k]
  <2>1. \A k \in 1 .. Len(c) - 1 : c[k] \in S
    BY <1>1
  <2>2. Len(c) - 1 \in Int /\ 1 \in Int /\ Len(c) - 1 - 1 + 1 = Len(c) - 1
    BY <1>1
  <2>3. /\ Front(c) \in Seq(S)
        /\ Len(Front(c)) = IF 1 <= Len(c) - 1 THEN Len(c) - 1 - 1 + 1 ELSE 0
        /\ \A k \in 1 .. Len(c) - 1 - 1 + 1 : Front(c)[k] = c[1 + k - 1]
    BY <2>1, <2>2, SubSeqProperties DEF Front
  <2>4. Len(Front(c)) = Len(c) - 1
    <3> DEFINE n == Len(c)
    <3>1. n \in Nat \ {0} /\ Len(Front(c)) = IF 1 <= n - 1 THEN n - 1 - 1 + 1 ELSE 0
      BY <1>1, <2>3
    <3> HIDE DEF n
    <3>2. n = 1 => Len(Front(c)) = n - 1
      BY <3>1
    <3>3. n # 1 => Len(Front(c)) = n - 1
      BY <3>1
    <3>4. Len(Front(c)) = n - 1
      BY <3>2, <3>3
    <3> QED
      BY <3>4 DEF n
  <2>5. ASSUME NEW k \in 1 .. Len(c) - 1 PROVE Front(c)[k] = c[k]
    <3>1. k \in 1 .. Len(c) - 1 - 1 + 1 /\ 1 + k - 1 = k
      BY <1>1
    <3> QED
      BY <2>3, <3>1
  <2> QED
    BY <2>3, <2>4, <2>5
<1> QED
  BY <1>1, <1>2 DEF Last

LEMMA BlocksOfFront ==
    ASSUME NEW c \in Seq(Construct), c # <<>>
    PROVE  Cardinality(BlocksOf(Front(c))) =
              Cardinality(BlocksOf(c)) - (IF Last(c) = "block" THEN 1 ELSE 0)
<1>0. /\ DOMAIN c = 1 .. Len(c) /\ DOMAIN Front(c) = 1 .. Len(c) - 1
      /\ Len(c) \in Nat \ {0} /\ Last(c) = c[Len(c)]
      /\ \A k \in 1 .. Len(c) - 1 : Front(c)[k] = c[k]
  <2>1. Len(c) \in Nat \ {0} /\ DOMAIN c = 1 .. Len(c)
    OBVIOUS
  <2> QED
    BY <2>1, FrontIs
<1>1. BlocksOf(Front(c)) =
        IF Last(c) = "block" THEN BlocksOf(c) \ {Len(c)} ELSE BlocksOf(c)
  BY <1>0 DEF BlocksOf
<1>2. Last(c) = "block" <=> Len(c) \in BlocksOf(c)
  BY <1>0 DEF BlocksOf
<1>3. IsFiniteSet(BlocksOf(c)) /\ Cardinality(BlocksOf(c)) \in Nat
  BY BlocksFinite
<1>4. Last(c) = "block" => Cardinality(BlocksOf(c) \ {Len(c)}) = Cardinality(BlocksOf(c)) - 1
  BY <1>2, <1>3, FS_RemoveElement
<1> QED
  BY <1>1, <1>3, <1>4

\* Completing a statement drops constructs that end with it, and no block.
LEMMA CompleteIs ==
    ASSUME NEW c \in Seq(Construct)
    PROVE  /\ Complete(c) \in Seq(Construct)
           /\ Len(Complete(c)) <= Len(c)
           /\ \A k \in DOMAIN Complete(c) :
                \/ Complete(c)[k] = c[k]
                \/ Complete(c)[k] = "else" /\ c[k] = "then"
           /\ \A k \in DOMAIN c : k > Len(Complete(c)) => c[k] \in {"body", "last"}
           /\ Complete(c) # <<>> => Last(Complete(c)) \notin {"body", "last", "then"}
<1> DEFINE open == {k \in DOMAIN c : c[k] \notin {"body", "last"}}
           kept == SubSeq(c, 1, IF open = {} THEN 0 ELSE Max(open))
<1>1. Complete(c) = IF kept # <<>> /\ Last(kept) = "then"
                    THEN Append(Front(kept), "else") ELSE kept
  BY DEF Complete
<1>2. CASE open = {}
  <2>1. kept = <<>>
    BY <1>2
  <2> QED
    BY <1>1, <1>2, <2>1
<1>3. CASE open # {}
  <2>0. open \in SUBSET (1 .. Len(c)) /\ Len(c) \in Nat
    OBVIOUS
  <2>1. PICK m \in 1 .. Len(c) : /\ m = Max(open) /\ c[m] \notin {"body", "last"}
                                 /\ \A k \in open : k <= m
    <3>1. Max(open) \in open /\ \A k \in open : k <= Max(open)
      <4> HIDE DEF open
      <4> QED
        BY <1>3, <2>0, MaxIs
    <3> QED
      BY <2>0, <3>1
  <2>2. /\ kept \in Seq(Construct) /\ Len(kept) = m /\ kept # <<>>
        /\ \A k \in 1 .. m : kept[k] = c[k]
    <3>1. kept = SubSeq(c, 1, m)
      BY <1>3, <2>1
    <3>2. /\ kept \in Seq(Construct) /\ Len(kept) = IF 1 <= m THEN m - 1 + 1 ELSE 0
          /\ \A k \in 1 .. m - 1 + 1 : kept[k] = c[1 + k - 1]
      <4>1. \A k \in 1 .. m : c[k] \in Construct
        OBVIOUS
      <4> HIDE DEF kept, open
      <4> QED
        BY <3>1, <4>1, SubSeqProperties
    <3> HIDE DEF kept, open
    <3> QED
      BY <3>2
  <2>3. Last(kept) = c[m]
    <3>1. m \in 1 .. m /\ Len(c) \in Nat
      OBVIOUS
    <3> HIDE DEF kept, open
    <3> QED
      BY <2>2, <3>1 DEF Last
  <2>4. \A k \in DOMAIN c : k > m => c[k] \in {"body", "last"}
    BY <2>1
  <2> HIDE DEF kept, open
  <2>5. CASE c[m] = "then"
    <3>1. Complete(c) = Append(Front(kept), "else")
      BY <1>1, <2>2, <2>3, <2>5
    <3>2. /\ Front(kept) \in Seq(Construct) /\ Len(Front(kept)) = m - 1
          /\ \A k \in 1 .. m - 1 : Front(kept)[k] = c[k]
      BY <2>2, FrontIs
    <3>3. /\ Complete(c) \in Seq(Construct) /\ Len(Complete(c)) = m
          /\ \A k \in 1 .. m - 1 : Complete(c)[k] = c[k]
          /\ Complete(c)[m] = "else"
      BY <3>1, <3>2 DEF Construct
    <3>4. DOMAIN Complete(c) = 1 .. m /\ Last(Complete(c)) = "else" /\ m <= Len(c)
      BY <3>3 DEF Last
    <3> HIDE DEF Complete
    <3> QED
      BY <2>4, <2>5, <3>3, <3>4
  <2>6. CASE c[m] # "then"
    <3>1. Complete(c) = kept
      BY <1>1, <2>3, <2>6
    <3> QED
      BY <2>1, <2>2, <2>3, <2>4, <2>6, <3>1
  <2> QED
    BY <2>5, <2>6
<1> QED
  BY <1>2, <1>3

LEMMA NestedAppend ==
    ASSUME NEW c, Nested(c), c # <<>>, NEW e \in Construct \ {"body"},
           Len(c) = 1 => e = "block"
    PROVE  Nested(Append(c, e)) /\ Last(Append(c, e)) = e
<1> DEFINE d == Append(c, e)
<1>1. /\ c \in Seq(Construct) /\ Len(c) \in Nat \ {0} /\ DOMAIN c = 1 .. Len(c)
      /\ d \in Seq(Construct) /\ Len(d) = Len(c) + 1 /\ DOMAIN d = 1 .. Len(c) + 1
      /\ d[Len(c) + 1] = e /\ \A k \in 1 .. Len(c) : d[k] = c[k]
  BY DEF Nested
<1> HIDE DEF d
<1>2. Last(d) = e
  BY <1>1 DEF Last
<1>3. Len(d) >= 2 => d[2] = "block"
  <2>1. CASE Len(c) = 1
    BY <1>1, <2>1
  <2>2. CASE Len(c) # 1
    <3>1. 2 \in 1 .. Len(c) /\ c[2] = "block"
      BY <1>1, <2>2 DEF Nested
    <3> QED
      BY <1>1, <3>1
  <2> QED
    BY <2>1, <2>2
<1>4. \A k \in DOMAIN d : k = 1 <=> d[k] = "body"
  BY <1>1 DEF Nested
<1> QED
  BY <1>1, <1>2, <1>3, <1>4 DEF Nested, d

LEMMA NestedFront ==
    ASSUME NEW c, Nested(c), c # <<>>
    PROVE  Nested(Front(c))
<1> DEFINE d == Front(c)
<1>1. /\ c \in Seq(Construct) /\ Len(c) \in Nat \ {0} /\ DOMAIN c = 1 .. Len(c)
      /\ d \in Seq(Construct) /\ Len(d) = Len(c) - 1 /\ DOMAIN d = 1 .. Len(c) - 1
      /\ \A k \in 1 .. Len(c) - 1 : d[k] = c[k]
  <2>1. c \in Seq(Construct) /\ Len(c) \in Nat \ {0} /\ DOMAIN c = 1 .. Len(c)
    BY DEF Nested
  <2> QED
    BY <2>1, FrontIs
<1> HIDE DEF d
<1>2. (Len(d) >= 2 => d[2] = "block") /\ \A k \in DOMAIN d : k = 1 <=> d[k] = "body"
  BY <1>1 DEF Nested
<1> QED
  BY <1>1, <1>2 DEF Nested, d

LEMMA NestedComplete ==
    ASSUME NEW c, Nested(c)
    PROVE  /\ Nested(Complete(c))
           /\ Complete(c) # <<>> => Last(Complete(c)) \in {"block", "else"}
<1> DEFINE d == Complete(c)
<1>1. /\ c \in Seq(Construct) /\ Len(c) \in Nat /\ DOMAIN c = 1 .. Len(c)
      /\ d \in Seq(Construct) /\ Len(d) \in 0 .. Len(c) /\ DOMAIN d = 1 .. Len(d)
      /\ \A k \in DOMAIN d : d[k] = c[k] \/ (d[k] = "else" /\ c[k] = "then")
      /\ d # <<>> => Last(d) \notin {"body", "last", "then"}
  <2>1. c \in Seq(Construct) /\ Len(c) \in Nat /\ DOMAIN c = 1 .. Len(c)
    BY DEF Nested
  <2>2. d \in Seq(Construct) /\ Len(d) <= Len(c)
    BY <2>1, CompleteIs
  <2>3. /\ \A k \in DOMAIN d : d[k] = c[k] \/ (d[k] = "else" /\ c[k] = "then")
        /\ d # <<>> => Last(d) \notin {"body", "last", "then"}
    BY <2>1, CompleteIs
  <2> HIDE DEF d
  <2> QED
    BY <2>1, <2>2, <2>3
<1> HIDE DEF d
<1>2. (Len(d) >= 2 => d[2] = "block") /\ \A k \in DOMAIN d : k = 1 <=> d[k] = "body"
  BY <1>1 DEF Nested
<1>3. d # <<>> => Last(d) \in Construct
  BY <1>1 DEF Last
<1> QED
  BY <1>1, <1>2, <1>3 DEF Nested, Construct, d

LEMMA BlocksOfComplete ==
    ASSUME NEW c \in Seq(Construct)
    PROVE  Cardinality(BlocksOf(Complete(c))) = Cardinality(BlocksOf(c))
<1>1. BlocksOf(Complete(c)) = BlocksOf(c)
  BY CompleteIs DEF BlocksOf
<1> QED
  BY <1>1

-----------------------------------------------------------------------------
(* Types *)

LEMMA ConsName ==
    ASSUME NEW p \in [tag : Funcs \cup {"b", "i", "e", "w"}, num : 0 .. MaxBlocks],
           NEW name \in NameType
    PROVE  /\ <<p>> \o name \in NameType
           /\ Len(<<p>> \o name) = Len(name) + 1 /\ (<<p>> \o name)[1] = p
  BY DEF NameType

LEMMA RootName ==
    ASSUME NEW f \in Funcs
    PROVE  Root(f) \in NameType /\ Root(f) # NoName /\ Len(Root(f)) = 1
  BY ScopesAssumption DEF Root, Part, NoName, NameType

\* Wherever a block or a clause is due or open, a block is open, but for the body.
LEMMA InBlock ==
    ASSUME Typed, ctl # <<>>, Last(ctl) # "body"
    PROVE  /\ layerNames # <<>> /\ blockVars # <<>>
           /\ Last(layerNames) \in NameType /\ Last(blockVars) \in Seq(Ids)
           /\ func \in Funcs /\ Len(ctl) >= 2
<1>1. ctl \in Seq(Construct) /\ Len(ctl) \in Nat \ {0} /\ Last(ctl) = ctl[Len(ctl)]
  BY DEF Typed, TypeOK, Construct, Last
<1>2. Len(ctl) >= 2
  BY <1>1 DEF Typed, Shape, Nested
<1>3. 2 \in BlocksOf(ctl)
  BY <1>1, <1>2 DEF Typed, Shape, Nested, BlocksOf
<1>4. Len(layerNames) # 0
  BY <1>1, <1>3, BlocksFinite, FS_EmptySet DEF Typed, Shape
<1>5. layerNames # <<>> /\ blockVars # <<>>
  BY <1>4 DEF Typed, TypeOK
<1> QED
  BY <1>1, <1>2, <1>5, FrontIs DEF Typed, TypeOK, Shape

\* The globals are numbered in an order of their own, each once.
LEMMA GlobalsInOrder ==
    /\ GlobalSeq \in Seq(GlobalIds) /\ Len(GlobalSeq) \in 0 .. MaxNodes
    /\ Len(GlobalSeq) = Cardinality(GlobalIds)
    /\ \A n, m \in 1 .. Len(GlobalSeq) : GlobalSeq[n] = GlobalSeq[m] => n = m
    /\ \A i \in GlobalIds : \E n \in 1 .. Len(GlobalSeq) : GlobalSeq[n] = i
<1> DEFINE size == Cardinality(GlobalIds)
<1>1. IsFiniteSet(GlobalIds) /\ size \in 0 .. MaxNodes
  BY FS_Subset, FS_CardinalityType, ScopesAssumption
<1>2. \E f \in [1 .. size -> GlobalIds] : IsInjective(f)
  BY <1>1, FS_CardinalityType DEF ExistsBijection, Bijection, Injection
<1>3. GlobalSeq \in [1 .. size -> GlobalIds] /\ IsInjective(GlobalSeq)
  BY <1>2 DEF GlobalSeq, SetToSeq
<1> HIDE DEF size
<1>4. IsFiniteSet(1 .. size) /\ Cardinality(1 .. size) = size
  BY <1>1, FS_Interval
<1>5. GlobalSeq \in Surjection(1 .. size, GlobalIds)
  BY <1>1, <1>3, <1>4, FS_Injection DEF Injection, size
<1>6. GlobalSeq \in Seq(GlobalIds) /\ Len(GlobalSeq) = size
  BY <1>1, <1>3
<1>7. DOMAIN GlobalSeq = 1 .. size
  BY <1>3
<1> QED
  BY <1>1, <1>3, <1>5, <1>6, <1>7 DEF IsInjective, Surjection, size

LEMMA InitTyped == Init => Typed
<1> SUFFICES ASSUME Init PROVE Typed
  OBVIOUS
<1>1. /\ nodes = [n \in 1 .. Len(GlobalSeq) |->
                    Node(GlobalSeq[n], Plain(GlobalSeq[n]), 0, 1, NoFunction)]
      /\ globals = [i \in GlobalIds |-> CHOOSE n \in DOMAIN nodes : nodes[n].id = i]
      /\ symbols = [m \in {Plain(i) : i \in GlobalIds} |-> globals[m.id]]
      /\ variables = [i \in Ids |-> <<>>]
      /\ blockVars = <<>> /\ layerNames = <<>> /\ blockName = NoName /\ blockId = 0
      /\ stackSize = 0 /\ func = NoFunction /\ recovers = {} /\ ctl = <<>>
      /\ todo = Funcs
  BY DEF Init
<1>2. nodes \in Seq(NodeType) /\ Len(nodes) = Len(GlobalSeq) /\ DOMAIN nodes = 1 .. Len(nodes)
  <2>1. ASSUME NEW n \in 1 .. Len(GlobalSeq) PROVE nodes[n] \in NodeType
    <3>1. GlobalSeq[n] \in Ids
      BY GlobalsInOrder, ScopesAssumption
    <3>2. Plain(GlobalSeq[n]) \in MangledType
      BY <3>1 DEF Plain, Mangle, MangledType, NoName, NameType
    <3> QED
      BY <1>1, <3>1, <3>2 DEF Node, NodeType
  <2>2. Len(GlobalSeq) \in Nat
    BY GlobalsInOrder, ScopesAssumption
  <2> QED
    BY <1>1, <2>1, <2>2
<1>3. \A i \in GlobalIds : globals[i] \in DOMAIN nodes
  <2> SUFFICES ASSUME NEW i \in GlobalIds PROVE globals[i] \in DOMAIN nodes
    OBVIOUS
  <2>1. \E n \in DOMAIN nodes : nodes[n].id = i
    BY <1>1, <1>2, GlobalsInOrder DEF Node
  <2> QED
    BY <1>1, <2>1
<1>4. \A m \in DOMAIN symbols : symbols[m] \in 0 .. Len(nodes)
  <2> SUFFICES ASSUME NEW m \in DOMAIN symbols PROVE symbols[m] \in 0 .. Len(nodes)
    OBVIOUS
  <2>1. PICK i \in GlobalIds : m = Plain(i)
    BY <1>1
  <2>2. m.id = i /\ symbols[m] = globals[m.id]
    BY <1>1, <2>1 DEF Plain, Mangle
  <2> QED
    BY <1>2, <1>3, <2>2
<1>5. variables \in IdStacks
  BY <1>1 DEF IdStacks
<1>6. blockName \in NameType /\ blockId \in 0 .. MaxBlocks
  BY <1>1, ScopesAssumption DEF NoName, NameType
<1>7. Nested(ctl) /\ Cardinality(BlocksOf(ctl)) = 0
  BY <1>1, FS_EmptySet DEF Nested, BlocksOf
<1>8. TypeOK
  <2>1. DOMAIN globals \subseteq Ids /\ \A i \in DOMAIN globals : globals[i] \in 0 .. Len(nodes)
    <3>1. DOMAIN globals = GlobalIds
      BY <1>1
    <3>2. Len(nodes) \in Nat
      BY <1>2
    <3> QED
      BY <1>2, <1>3, <3>1, <3>2, ScopesAssumption
  <2>2. blockVars \in Seq(Seq(Ids)) /\ layerNames \in Seq(NameType)
    <3>1. <<>> \in Seq(Seq(Ids)) /\ <<>> \in Seq(NameType)
      BY EmptySeq
    <3> QED
      BY <1>1, <3>1
  <2>3. Len(nodes) <= MaxNodes
    BY <1>2, GlobalsInOrder, ScopesAssumption
  <2>4. /\ stackSize \in Nat /\ func \in Funcs \cup {NoFunction} /\ recovers \subseteq Ids
        /\ todo \subseteq Funcs /\ ctl \in Seq({"body", "block", "then", "else", "last"})
        /\ Len(blockVars) = Len(layerNames)
    BY <1>1
  <2> QED
    BY <1>4, <1>5, <1>6, <2>1, <2>2, <2>3, <2>4 DEF TypeOK
<1>9. Shape
  BY <1>1, <1>7 DEF Shape, Awaits
<1> QED
  BY <1>2, <1>8, <1>9 DEF Typed

LEMMA BeginTyped ==
    ASSUME Typed, NEW f \in Funcs, NEW params \in ParamLists, BeginFunction(f, params)
    PROVE  Typed'
<1> DEFINE at(k)      == Len(nodes) + k
           mangled(k) == Mangle(params[k], "%", Root(f))
           number(i)  == CHOOSE k \in DOMAIN params : params[k] = i
<1>1. params \in Seq(Ids) /\ Len(params) \in Nat /\ DOMAIN params = 1 .. Len(params)
  BY DEF ParamLists, BoundedSeq, SeqOf
<1>2. /\ nodes \in Seq(NodeType) /\ Len(nodes) \in Nat
      /\ Len(nodes) + Len(params) <= MaxNodes /\ func = NoFunction /\ f \in todo
      /\ variables' = variables /\ blockVars' = blockVars /\ layerNames' = layerNames
      /\ blockId' = blockId /\ stackSize' = Len(params) /\ blockName' = Root(f)
      /\ func' = f /\ todo' = todo \ {f} /\ ctl' = <<"body">>
      /\ recovers' = Range(params) \cap DOMAIN globals
  BY DEF BeginFunction, Typed
<1>3. nodes' = nodes \o [k \in DOMAIN params |-> Node(params[k], mangled(k), k - 1, 1, f)]
  BY DEF BeginFunction
<1>4. nodes' \in Seq(NodeType) /\ Len(nodes') = Len(nodes) + Len(params)
  <2> DEFINE new == [k \in DOMAIN params |-> Node(params[k], mangled(k), k - 1, 1, f)]
  <2>1. ASSUME NEW k \in 1 .. Len(params) PROVE new[k] \in NodeType
    <3>1. mangled(k) \in MangledType
      BY <1>1, RootName DEF Mangle, MangledType
    <3> QED
      BY <1>1, <3>1 DEF Node, NodeType
  <2>2. new \in Seq(NodeType) /\ Len(new) = Len(params)
    BY <1>1, <2>1
  <2> HIDE DEF new
  <2>3. nodes' = nodes \o new
    BY <1>3 DEF new
  <2>4. nodes \o new \in Seq(NodeType) /\ Len(nodes \o new) = Len(nodes) + Len(new)
    BY <1>2, <2>2
  <2> QED
    BY <2>2, <2>3, <2>4
<1>5. ASSUME NEW i \in Range(params) PROVE number(i) \in 1 .. Len(params)
  BY <1>1 DEF Range
<1>6. \A i \in Range(params) : at(number(i)) \in 0 .. Len(nodes')
  <2> HIDE DEF number
  <2> QED
    BY <1>1, <1>2, <1>4, <1>5
<1>7. /\ DOMAIN globals' \subseteq Ids
      /\ \A i \in DOMAIN globals' : globals'[i] \in 0 .. Len(nodes')
  <2>1. globals' = [i \in DOMAIN globals \cup Range(params) |->
                      IF i \in Range(params) THEN at(number(i)) ELSE globals[i]]
    BY DEF BeginFunction
  <2>2. Range(params) \subseteq Ids
    BY <1>1 DEF Range
  <2> HIDE DEF number
  <2> QED
    BY <1>1, <1>2, <1>4, <1>6, <2>1, <2>2 DEF Typed, TypeOK
<1>8. \A m \in DOMAIN symbols' : symbols'[m] \in 0 .. Len(nodes')
  <2>1. symbols' = [m \in DOMAIN symbols \cup {mangled(k) : k \in DOMAIN params} |->
                      IF \E k \in DOMAIN params : m = mangled(k)
                      THEN at(number(m.id)) ELSE symbols[m]]
    BY DEF BeginFunction
  <2>2. \A k \in DOMAIN params : mangled(k).id \in Range(params)
    BY DEF Mangle, Range
  <2> HIDE DEF number, mangled
  <2> QED
    BY <1>1, <1>2, <1>4, <1>6, <2>1, <2>2 DEF Typed, TypeOK
<1>9. blockName' \in NameType
  BY <1>2, RootName
<1>10. TypeOK'
  <2>1. recovers' \subseteq Ids
    BY <1>2 DEF Typed, TypeOK
  <2>2. ctl' \in Seq({"body", "block", "then", "else", "last"})
    BY <1>2
  <2> QED
    BY <1>1, <1>2, <1>4, <1>7, <1>8, <1>9, <2>1, <2>2 DEF Typed, TypeOK, IdStacks
<1>11. Shape'
  <2>1. Nested(<<"body">>) /\ BlocksOf(<<"body">>) = {}
    BY DEF Nested, BlocksOf, Construct
  <2>2. BlocksOf(ctl) = {}
    BY <1>2 DEF Typed, Shape, BlocksOf
  <2>3. Cardinality(BlocksOf(ctl')) = Len(layerNames') /\ Nested(ctl')
    BY <1>2, <2>1, <2>2 DEF Typed, Shape
  <2> QED
    BY <1>2, <2>3, ScopesAssumption DEF Shape
<1> QED
  BY <1>4, <1>10, <1>11 DEF Typed

LEMMA EndTyped == ASSUME Typed, EndFunction PROVE Typed'
<1>1. /\ func # NoFunction /\ ctl = <<>> /\ func' = NoFunction /\ recovers' = {}
      /\ variables' = variables /\ blockVars' = blockVars /\ layerNames' = layerNames
      /\ blockName' = blockName /\ blockId' = blockId /\ nodes' = nodes
      /\ stackSize' = stackSize /\ ctl' = ctl /\ todo' = todo
  BY DEF EndFunction, names, frame
<1>2. \A m \in DOMAIN symbols' : symbols'[m] \in 0 .. Len(nodes)
  <2>1. symbols' = [m \in DOMAIN symbols \cup {Plain(i) : i \in recovers} |->
                      IF m \in DOMAIN symbols THEN symbols[m] ELSE NoNode]
    BY DEF EndFunction
  <2>2. Len(nodes) \in Nat
    BY DEF Typed
  <2> QED
    BY <2>1, <2>2 DEF Typed, TypeOK, NoNode
<1>3. \A i \in recovers : Plain(i) \in DOMAIN symbols'
  BY DEF EndFunction
<1>4. /\ DOMAIN globals' \subseteq Ids
      /\ \A i \in DOMAIN globals' : globals'[i] \in 0 .. Len(nodes)
  <2>1. globals' = [i \in DOMAIN globals |->
                      IF i \in recovers THEN symbols'[Plain(i)] ELSE globals[i]]
    BY DEF EndFunction, GivenBack
  <2> QED
    BY <1>2, <1>3, <2>1 DEF Typed, TypeOK
<1>5. TypeOK'
  BY <1>1, <1>2, <1>4 DEF Typed, TypeOK
<1>6. Shape'
  BY <1>1 DEF Typed, Shape, Awaits
<1> QED
  BY <1>1, <1>5, <1>6 DEF Typed

LEMMA OpenTyped == ASSUME Typed, OpenBlock PROVE Typed'
<1>1. /\ StatementDue \/ Awaits({"body"})
      /\ blockVars' = Append(blockVars, <<>>) /\ ctl' = Append(ctl, "block")
      /\ variables' = variables /\ globals' = globals /\ symbols' = symbols
      /\ nodes' = nodes /\ stackSize' = stackSize /\ func' = func
      /\ recovers' = recovers /\ todo' = todo
  BY DEF OpenBlock, frame
<1>2. ctl # <<>>
  BY <1>1 DEF StatementDue, Awaits
<1>3. /\ layerNames' \in Seq(NameType) /\ Len(layerNames') = Len(layerNames) + 1
      /\ blockName' \in NameType /\ blockId' \in 0 .. MaxBlocks
  <2>1. CASE blockName = NoName
    <3>1. Last(ctl) # "body"
      <4>1. func \in Funcs
        BY <1>2 DEF Typed, TypeOK, Shape
      <4>2. Root(func) # NoName
        BY <4>1, RootName
      <4> QED
        BY <1>2, <2>1, <4>2 DEF Typed, Shape, Awaits
    <3>2. Last(layerNames) \in NameType
      BY <1>2, <3>1, InBlock
    <3>3. /\ blockId < MaxBlocks /\ blockId' = blockId + 1 /\ blockName' = blockName
          /\ layerNames' = Append(layerNames, <<Part("b", blockId)>> \o Last(layerNames))
      BY <2>1 DEF OpenBlock
    <3>4. Part("b", blockId) \in [tag : Funcs \cup {"b", "i", "e", "w"}, num : 0 .. MaxBlocks]
      BY DEF Part, Typed, TypeOK
    <3>5. <<Part("b", blockId)>> \o Last(layerNames) \in NameType
      BY <3>2, <3>4, ConsName
    <3> QED
      BY <3>3, <3>5, ScopesAssumption DEF Typed, TypeOK
  <2>2. CASE blockName # NoName
    <3>1. layerNames' = Append(layerNames, blockName) /\ blockName' = NoName
          /\ blockId' = blockId
      BY <2>2 DEF OpenBlock
    <3>2. NoName \in NameType
      BY DEF NoName, NameType
    <3> QED
      BY <3>1, <3>2 DEF Typed, TypeOK
  <2> QED
    BY <2>1, <2>2
<1>4. blockVars' \in Seq(Seq(Ids)) /\ Len(blockVars') = Len(blockVars) + 1
  BY <1>1 DEF Typed, TypeOK
<1>5. Nested(ctl) /\ Nested(ctl') /\ Last(ctl') = "block"
  BY <1>1, <1>2, NestedAppend DEF Typed, Shape, Construct
<1>6. Cardinality(BlocksOf(ctl')) = Len(layerNames')
  BY <1>1, <1>3, <1>5, BlocksOfAppend DEF Typed, Shape, Nested, Construct
<1>7. func # NoFunction
  BY <1>2 DEF Typed, Shape
<1>8. TypeOK'
  BY <1>1, <1>3, <1>4, <1>5 DEF Typed, TypeOK, Nested, Construct
<1>9. Shape'
  BY <1>1, <1>5, <1>6, <1>7 DEF Shape, Awaits
<1> QED
  BY <1>1, <1>8, <1>9 DEF Typed

LEMMA CloseTyped == ASSUME Typed, CloseBlock PROVE Typed'
<1>1. /\ ctl # <<>> /\ Last(ctl) = "block"
      /\ variables' = Popped(Last(blockVars)) /\ layerNames' = Front(layerNames)
      /\ blockVars' = Front(blockVars) /\ ctl' = Complete(Front(ctl))
      /\ globals' = globals /\ blockName' = blockName /\ blockId' = blockId
      /\ symbols' = symbols /\ nodes' = nodes /\ stackSize' = stackSize
      /\ func' = func /\ recovers' = recovers /\ todo' = todo
  BY DEF CloseBlock, Awaits, OuterNames, frame
<1>2. layerNames # <<>> /\ blockVars # <<>> /\ Last(blockVars) \in Seq(Ids) /\ func \in Funcs
  BY <1>1, InBlock
<1>3. /\ layerNames' \in Seq(NameType) /\ Len(layerNames') = Len(layerNames) - 1
      /\ blockVars' \in Seq(Seq(Ids)) /\ Len(blockVars') = Len(blockVars) - 1
  BY <1>1, <1>2, FrontIs DEF Typed, TypeOK
<1>4. variables' \in IdStacks
  <2>1. ASSUME NEW i \in Ids
        PROVE  variables'[i] \in Seq(1 .. MaxNodes)
    <3> DEFINE S == {k \in DOMAIN Last(blockVars) : Last(blockVars)[k] = i}
    <3>1. S \in SUBSET (1 .. Len(Last(blockVars))) /\ Len(Last(blockVars)) \in Nat
      BY <1>2
    <3>2. Cardinality(S) \in Nat
      <4> HIDE DEF S
      <4> QED
        BY <3>1, PositionsFinite
    <3>3. variables'[i] = SubSeq(variables[i], 1, Len(variables[i]) - Cardinality(S))
      BY <1>1 DEF Popped
    <3> HIDE DEF S
    <3>4. variables[i] \in Seq(1 .. MaxNodes)
      BY DEF Typed, TypeOK, IdStacks
    <3> QED
      BY <3>2, <3>3, <3>4, CutIs
  <2>2. variables' = [i \in Ids |-> variables'[i]]
    BY <1>1 DEF Popped
  <2> QED
    BY <2>1, <2>2 DEF IdStacks
<1>5. Nested(ctl) /\ Nested(Front(ctl)) /\ Front(ctl) \in Seq(Construct)
  BY <1>1, NestedFront DEF Typed, Shape, Nested
<1>6. Nested(ctl') /\ (ctl' # <<>> => Last(ctl') \in {"block", "else"})
  BY <1>1, <1>5, NestedComplete
<1>7. Cardinality(BlocksOf(ctl')) = Len(layerNames')
  <2>1. Cardinality(BlocksOf(Front(ctl))) = Cardinality(BlocksOf(ctl)) - 1
    BY <1>1, <1>5, BlocksOfFront DEF Nested
  <2> QED
    BY <1>1, <1>3, <1>5, <2>1, BlocksOfComplete DEF Typed, Shape
<1>8. TypeOK'
  BY <1>1, <1>3, <1>4, <1>6 DEF Typed, TypeOK, Nested, Construct
<1>9. Shape'
  BY <1>1, <1>2, <1>6, <1>7, ScopesAssumption DEF Shape, Awaits
<1> QED
  BY <1>1, <1>8, <1>9 DEF Typed

\* A block is named for an if, an else clause or a loop.
LEMMA NameTyped ==
    ASSUME Typed, ctl # <<>>, Last(ctl) # "body",
           NEW tag \in {"i", "e", "w"}, NameNextBlock(tag)
    PROVE  blockName' \in NameType /\ blockId' \in 0 .. MaxBlocks
<1>1. Last(layerNames) \in NameType
  BY InBlock
<1> DEFINE name == <<Part(tag, blockId)>> \o Last(layerNames)
<1>2. blockId < MaxBlocks /\ blockId' = blockId + 1 /\ blockName' = name
  BY DEF NameNextBlock
<1>3. Part(tag, blockId) \in [tag : Funcs \cup {"b", "i", "e", "w"}, num : 0 .. MaxBlocks]
  BY DEF Part, Typed, TypeOK
<1>4. name \in NameType
  BY <1>1, <1>3, ConsName
<1> HIDE DEF name
<1>5. blockName' \in NameType
  BY <1>2, <1>4
<1> QED
  BY <1>2, <1>5, ScopesAssumption DEF Typed, TypeOK

LEMMA BranchTyped ==
    ASSUME Typed, While \/ (\E hasElse \in BOOLEAN : If(hasElse))
    PROVE  Typed'
<1>1. PICK tag \in {"i", "w"}, e \in {"then", "last"} :
      /\ StatementDue /\ NameNextBlock(tag) /\ ctl' = Append(ctl, e)
      /\ UNCHANGED <<variables, globals, blockVars, layerNames, symbols, frame, func,
                     recovers, todo>>
  BY DEF While, If
<1>2. ctl # <<>> /\ Last(ctl) # "body" /\ Last(ctl) # "else"
  BY <1>1 DEF StatementDue, Awaits, Clause
<1>3. blockName' \in NameType /\ blockId' \in 0 .. MaxBlocks
  BY <1>1, <1>2, NameTyped
<1>4. Len(ctl) >= 2 /\ func # NoFunction
  BY <1>2, InBlock, ScopesAssumption
<1>5. Nested(ctl) /\ Nested(ctl') /\ Last(ctl') = e
  BY <1>1, <1>2, <1>4, NestedAppend DEF Typed, Shape, Construct
<1>6. Cardinality(BlocksOf(ctl')) = Len(layerNames')
  BY <1>1, <1>5, BlocksOfAppend DEF Typed, Shape, Nested, Construct
<1>7. TypeOK'
  BY <1>1, <1>3, <1>5 DEF Typed, TypeOK, Nested, Construct, frame
<1>8. Shape'
  BY <1>1, <1>4, <1>5, <1>6 DEF Shape, Awaits
<1> QED
  BY <1>1, <1>7, <1>8 DEF Typed, frame

LEMMA ElseTyped == ASSUME Typed, Else PROVE Typed'
<1>1. /\ ctl # <<>> /\ Last(ctl) = "else" /\ NameNextBlock("e")
      /\ ctl' = Append(Front(ctl), "last")
      /\ UNCHANGED <<variables, globals, blockVars, layerNames, symbols, frame, func,
                     recovers, todo>>
  BY DEF Else, Awaits
<1>2. blockName' \in NameType /\ blockId' \in 0 .. MaxBlocks
  BY <1>1, NameTyped
<1>3. Len(ctl) >= 2 /\ func # NoFunction /\ Nested(ctl) /\ ctl \in Seq(Construct)
  BY <1>1, InBlock, ScopesAssumption DEF Typed, Shape, Nested
<1>4. ctl[Len(ctl)] = "else"
  BY <1>1 DEF Last
<1>5. Front(ctl) # <<>> /\ Nested(Front(ctl)) /\ Len(Front(ctl)) >= 2
  <2>1. Len(ctl) # 2
    BY <1>3, <1>4 DEF Nested
  <2>2. Len(Front(ctl)) = Len(ctl) - 1 /\ Len(ctl) \in Nat
    BY <1>1, <1>3, FrontIs
  <2> QED
    BY <1>1, <1>3, <2>1, <2>2, NestedFront
<1>6. Nested(ctl') /\ Last(ctl') = "last"
  BY <1>1, <1>5, NestedAppend DEF Construct
<1>7. Cardinality(BlocksOf(ctl')) = Len(layerNames')
  <2>1. Cardinality(BlocksOf(Front(ctl))) = Cardinality(BlocksOf(ctl)) - 0
    BY <1>1, <1>3, BlocksOfFront
  <2>2. Cardinality(BlocksOf(ctl')) = Cardinality(BlocksOf(Front(ctl))) + 0
    BY <1>1, <1>5, BlocksOfAppend DEF Nested, Construct
  <2> QED
    BY <1>1, <2>1, <2>2 DEF Typed, TypeOK, Shape
<1>8. TypeOK'
  BY <1>1, <1>2, <1>6 DEF Typed, TypeOK, Nested, Construct, frame
<1>9. Shape'
  BY <1>1, <1>3, <1>6, <1>7 DEF Shape, Awaits
<1> QED
  BY <1>1, <1>8, <1>9 DEF Typed, frame

LEMMA SimpleTyped == ASSUME Typed, Simple PROVE Typed'
<1>1. /\ ctl # <<>> /\ Last(ctl) \in Clause /\ ctl' = Complete(ctl)
      /\ UNCHANGED <<variables, globals, blockVars, names, symbols, frame, func, recovers,
                     todo>>
  BY DEF Simple, Awaits
<1>2. func # NoFunction /\ Nested(ctl) /\ ctl \in Seq(Construct)
  BY <1>1 DEF Typed, Shape, Nested
<1>3. Nested(ctl') /\ (ctl' # <<>> => Last(ctl') \in {"block", "else"})
  BY <1>1, <1>2, NestedComplete
<1>4. Cardinality(BlocksOf(ctl')) = Len(layerNames')
  BY <1>1, <1>2, BlocksOfComplete DEF Typed, Shape, names
<1>5. TypeOK'
  BY <1>1, <1>3 DEF Typed, TypeOK, Nested, Construct, frame, names
<1>6. Shape'
  BY <1>1, <1>2, <1>3, <1>4 DEF Shape, Awaits
<1> QED
  BY <1>1, <1>5, <1>6 DEF Typed, frame

LEMMA DeclareTyped ==
    ASSUME Typed, NEW i \in Ids, NEW size \in Nat \ {0}, Declare(i, size)
    PROVE  Typed'
<1> DEFINE n       == Len(nodes) + 1
           mangled == IF IsDuplicate(i) THEN Plain(i) ELSE Mangle(i, "@", Last(layerNames))
<1>1. /\ ctl # <<>> /\ Last(ctl) = "block" /\ n <= MaxNodes
      /\ nodes' = Append(nodes, Node(i, mangled, stackSize, size, func))
      /\ stackSize' = stackSize + size
      /\ \/ UNCHANGED <<symbols, variables, blockVars>>
         \/ /\ symbols' = Bind(symbols, mangled, n)
            /\ variables' = [variables EXCEPT ![i] = Append(@, n)]
            /\ blockVars' = Append(Front(blockVars), Append(Last(blockVars), i))
      /\ UNCHANGED <<globals, names, func, recovers, ctl, todo>>
  BY DEF Declare, Awaits, Slot, ListedToo
<1>2. /\ Last(layerNames) \in NameType /\ Last(blockVars) \in Seq(Ids)
      /\ blockVars # <<>> /\ func \in Funcs
  BY <1>1, InBlock
<1>3. size \in Nat /\ n \in 1 .. MaxNodes /\ nodes \in Seq(NodeType) /\ stackSize \in Nat
  BY <1>1, ScopesAssumption DEF Typed, TypeOK
<1>4. nodes' \in Seq(NodeType) /\ Len(nodes') = n
  <2>1. mangled \in MangledType
    <3>1. <<>> \in NameType
      BY DEF NameType
    <3> QED
      BY <1>2, <3>1 DEF Plain, Mangle, MangledType, NoName
  <2>2. Node(i, mangled, stackSize, size, func) \in NodeType
    BY <1>2, <1>3, <2>1 DEF Node, NodeType
  <2> QED
    BY <1>1, <1>3, <2>2
<1> HIDE DEF mangled
<1>5. \A m \in DOMAIN symbols' : symbols'[m] \in 0 .. n
  <2>1. \A m \in DOMAIN symbols : symbols[m] \in 0 .. n
    BY <1>3 DEF Typed, TypeOK
  <2> QED
    BY <1>1, <1>3, <2>1 DEF Bind
<1>6. variables' \in IdStacks
  <2>1. variables \in IdStacks
    BY DEF Typed, TypeOK
  <2>2. Append(variables[i], n) \in Seq(1 .. MaxNodes)
    BY <1>3, <2>1 DEF IdStacks
  <2> QED
    BY <1>1, <2>1, <2>2 DEF IdStacks
<1>7. blockVars' \in Seq(Seq(Ids)) /\ Len(blockVars') = Len(blockVars)
  <2>1. blockVars \in Seq(Seq(Ids)) /\ Append(Last(blockVars), i) \in Seq(Ids)
    BY <1>2 DEF Typed, TypeOK
  <2>2. Front(blockVars) \in Seq(Seq(Ids)) /\ Len(Front(blockVars)) = Len(blockVars) - 1
    BY <1>2, <2>1, FrontIs
  <2>3. LET lists == Append(Front(blockVars), Append(Last(blockVars), i))
        IN  lists \in Seq(Seq(Ids)) /\ Len(lists) = Len(blockVars)
    <3>1. Len(blockVars) \in Nat
      BY <2>1
    <3> QED
      BY <2>1, <2>2, <3>1, AppendProperties
  <2> QED
    BY <1>1, <2>1, <2>3
<1>8. /\ globals' = globals /\ layerNames' = layerNames /\ blockName' = blockName
      /\ blockId' = blockId /\ func' = func /\ recovers' = recovers /\ ctl' = ctl
      /\ todo' = todo /\ stackSize' \in Nat
  BY <1>1, <1>3 DEF names
<1>9. TypeOK'
  <2>1. \A j \in DOMAIN globals : globals[j] \in 0 .. n
    BY <1>3 DEF Typed, TypeOK
  <2> QED
    BY <1>3, <1>4, <1>5, <1>6, <1>7, <1>8, <2>1 DEF Typed, TypeOK
<1>10. Shape'
  BY <1>8 DEF Typed, Shape, Awaits
<1> QED
  BY <1>4, <1>9, <1>10 DEF Typed

LEMMA StutterTyped == ASSUME Typed, UNCHANGED vars PROVE Typed'
  BY DEF Typed, TypeOK, Shape, Awaits, vars

LEMMA StepTyped == Typed /\ [WideNext]_vars => Typed'
<1> SUFFICES ASSUME Typed, [WideNext]_vars PROVE Typed'
  OBVIOUS
<1>1. ASSUME NEW f \in Funcs, NEW params \in ParamLists, BeginFunction(f, params)
      PROVE  Typed'
  BY <1>1, BeginTyped
<1>2. ASSUME NEW i \in Ids, NEW size \in Nat \ {0}, Declare(i, size) PROVE Typed'
  BY <1>2, DeclareTyped
<1> QED
  BY <1>1, <1>2, EndTyped, OpenTyped, CloseTyped, BranchTyped, ElseTyped, SimpleTyped,
     StutterTyped DEF WideNext

LEMMA AlwaysTyped == Spec => []Typed
  BY InitTyped, StepTyped, NextIsWide, PTL DEF Spec

\* Every stack, list, name and table of the walk keeps its type; every block that is open
\* has one name and one list, and no name is longer than the numbers allow.
THEOREM TypeCorrect == Spec => []TypeOK
  BY AlwaysTyped, PTL DEF Typed

-----------------------------------------------------------------------------
(* Definitions *)

LEMMA ConcatIs ==
    ASSUME NEW S, NEW p \in Seq(S), NEW T, NEW q \in Seq(T)
    PROVE  /\ Len(p) \in Nat /\ Len(q) \in Nat
           /\ Len(p \o q) = Len(p) + Len(q) /\ DOMAIN (p \o q) = 1 .. Len(p) + Len(q)
           /\ \A n \in 1 .. Len(p) : (p \o q)[n] = p[n]
           /\ \A k \in 1 .. Len(q) : (p \o q)[Len(p) + k] = q[k]
<1>1. Len(p) \in Nat /\ Len(q) \in Nat /\ Len(p \o q) = Len(p) + Len(q)
      /\ DOMAIN (p \o q) = 1 .. Len(p) + Len(q)
  OBVIOUS
<1>2. ASSUME NEW n \in 1 .. Len(p) PROVE (p \o q)[n] = p[n]
  OBVIOUS
<1>3. ASSUME NEW k \in 1 .. Len(q) PROVE (p \o q)[Len(p) + k] = q[k]
  OBVIOUS
<1> QED
  BY <1>1, <1>2, <1>3

\* What BeginFunction adds to the tree.
LEMMA BeginNodes ==
    ASSUME Typed, NEW f \in Funcs, NEW params \in ParamLists, BeginFunction(f, params)
    PROVE  /\ params \in Seq(Ids) /\ Len(params) \in Nat /\ DOMAIN params = 1 .. Len(params)
           /\ DOMAIN nodes = 1 .. Len(nodes) /\ Len(nodes) \in Nat
           /\ DOMAIN nodes' = 1 .. Len(nodes) + Len(params)
           /\ Len(nodes') = Len(nodes) + Len(params)
           /\ \A n \in 1 .. Len(nodes) : nodes'[n] = nodes[n]
           /\ \A k \in 1 .. Len(params) :
                 /\ nodes'[Len(nodes) + k].id = params[k]
                 /\ nodes'[Len(nodes) + k].mangled = Mangle(params[k], "%", Root(f))
                 /\ nodes'[Len(nodes) + k].offset = k - 1
                 /\ nodes'[Len(nodes) + k].size = 1
                 /\ nodes'[Len(nodes) + k].func = f
<1>1. params \in Seq(Ids) /\ Len(params) \in Nat /\ DOMAIN params = 1 .. Len(params)
  BY DEF ParamLists, BoundedSeq, SeqOf
<1> DEFINE new == [k \in DOMAIN params |->
                      Node(params[k], Mangle(params[k], "%", Root(f)), k - 1, 1, f)]
<1>2. nodes' = nodes \o new
  BY DEF BeginFunction
<1>3. /\ new \in Seq({new[k] : k \in 1 .. Len(params)}) /\ Len(new) = Len(params)
      /\ \A k \in 1 .. Len(params) :
            /\ new[k].id = params[k] /\ new[k].mangled = Mangle(params[k], "%", Root(f))
            /\ new[k].offset = k - 1 /\ new[k].size = 1 /\ new[k].func = f
  BY <1>1 DEF Node
<1>4. nodes \in Seq(NodeType) /\ Len(nodes) \in Nat /\ DOMAIN nodes = 1 .. Len(nodes)
  BY DEF Typed
<1> HIDE DEF new
<1> DEFINE all == nodes \o new
<1>5. /\ DOMAIN all = 1 .. Len(nodes) + Len(new) /\ Len(all) = Len(nodes) + Len(new)
      /\ \A n \in 1 .. Len(nodes) : all[n] = nodes[n]
      /\ \A k \in 1 .. Len(new) : all[Len(nodes) + k] = new[k]
  <2> DEFINE T == {new[k] : k \in 1 .. Len(params)}
  <2>1. new \in Seq(T)
    BY <1>3
  <2> HIDE DEF T
  <2> QED
    BY <2>1, <1>4, ConcatIs
<1>6. nodes' = all /\ Len(new) = Len(params)
  BY <1>2, <1>3
<1> HIDE DEF all
<1>7. /\ DOMAIN nodes' = 1 .. Len(nodes) + Len(params)
      /\ Len(nodes') = Len(nodes) + Len(params)
      /\ \A n \in 1 .. Len(nodes) : nodes'[n] = nodes[n]
      /\ \A k \in 1 .. Len(params) : nodes'[Len(nodes) + k] = new[k]
  BY <1>5, <1>6
<1> QED
  BY <1>1, <1>3, <1>4, <1>7

\* What a declaration adds to the tree.
LEMMA DeclareNodes ==
    ASSUME Typed, NEW i \in Ids, NEW size \in Nat \ {0}, Declare(i, size)
    PROVE  /\ DOMAIN nodes = 1 .. Len(nodes) /\ Len(nodes) \in Nat
           /\ DOMAIN nodes' = 1 .. Len(nodes) + 1 /\ Len(nodes') = Len(nodes) + 1
           /\ \A n \in 1 .. Len(nodes) : nodes'[n] = nodes[n]
           /\ nodes'[Len(nodes) + 1].id = i
           /\ nodes'[Len(nodes) + 1].mangled =
                 IF IsDuplicate(i) THEN Plain(i) ELSE Mangle(i, "@", Last(layerNames))
           /\ nodes'[Len(nodes) + 1].offset = stackSize
           /\ nodes'[Len(nodes) + 1].size = size
           /\ nodes'[Len(nodes) + 1].func = func
<1> DEFINE new == Node(i, IF IsDuplicate(i) THEN Plain(i) ELSE Mangle(i, "@", Last(layerNames)),
                       stackSize, size, func)
<1>1. nodes' = Append(nodes, new)
  BY DEF Declare
<1>2. nodes \in Seq(NodeType)
  BY DEF Typed
<1> HIDE DEF new
<1>3. /\ DOMAIN nodes = 1 .. Len(nodes) /\ Len(nodes) \in Nat
      /\ DOMAIN nodes' = 1 .. Len(nodes) + 1 /\ Len(nodes') = Len(nodes) + 1
      /\ \A n \in 1 .. Len(nodes) : nodes'[n] = nodes[n]
      /\ nodes'[Len(nodes) + 1] = new
  BY <1>1, <1>2
<1> QED
  BY <1>3 DEF new, Node

\* The other steps leave the tree alone.
WalkStep == \/ OpenBlock \/ CloseBlock \/ (\E hasElse \in BOOLEAN : If(hasElse))
            \/ Else \/ While \/ Simple

LEMMA WalkKeepsNodes ==
    WalkStep => nodes' = nodes /\ stackSize' = stackSize /\ func' = func /\ todo' = todo
  BY DEF WalkStep, OpenBlock, CloseBlock, If, Else, While, Simple, frame

-----------------------------------------------------------------------------
(* Frames *)

\* Definitions belong to functions that have been walked, in full or in part.
Walked ==
    /\ \A n \in DOMAIN nodes : nodes[n].func \notin todo
    /\ func \notin todo

Framed == Walked /\ FrameSlotsDisjoint

LEMMA InitWalked == Init => Walked
  BY ScopesAssumption DEF Init, Walked, Node

LEMMA StepWalked == ASSUME Typed, Walked, [WideNext]_vars PROVE Walked'
<1>1. ASSUME NEW f \in Funcs, NEW params \in ParamLists, BeginFunction(f, params)
      PROVE  Walked'
  <2>1. func' = f /\ todo' = todo \ {f}
    BY <1>1 DEF BeginFunction
  <2>2. ASSUME NEW n \in DOMAIN nodes' PROVE nodes'[n].func \notin todo'
    <3>1. CASE n \in 1 .. Len(nodes)
      BY <1>1, <2>1, <3>1, BeginNodes DEF Walked
    <3>2. CASE n \notin 1 .. Len(nodes)
      <4>1. PICK k \in 1 .. Len(params) : n = Len(nodes) + k
        <5>1. /\ n \in 1 .. Len(nodes) + Len(params) /\ Len(nodes) \in Nat
              /\ Len(params) \in Nat
          BY <1>1, BeginNodes
        <5>2. n - Len(nodes) \in 1 .. Len(params) /\ n = Len(nodes) + (n - Len(nodes))
          BY <3>2, <5>1
        <5> QED
          BY <5>2
      <4>2. nodes'[n].func = f
        BY <1>1, <4>1, BeginNodes DEF Node
      <4> QED
        BY <2>1, <4>2
    <3> QED
      BY <3>1, <3>2
  <2> QED
    BY <2>1, <2>2 DEF Walked
<1>2. ASSUME NEW i \in Ids, NEW size \in Nat \ {0}, Declare(i, size) PROVE Walked'
  <2>1. func' = func /\ todo' = todo
    BY <1>2 DEF Declare
  <2>2. ASSUME NEW n \in DOMAIN nodes' PROVE nodes'[n].func \notin todo'
    <3>1. n \in 1 .. Len(nodes) \/ n = Len(nodes) + 1
      BY <1>2, DeclareNodes
    <3> QED
      BY <1>2, <2>1, <3>1, DeclareNodes DEF Walked, Node
  <2> QED
    BY <2>1, <2>2 DEF Walked
<1>3. CASE EndFunction
  BY <1>3, ScopesAssumption DEF EndFunction, Walked, Typed, TypeOK, frame
<1>4. CASE WalkStep
  BY <1>4, WalkKeepsNodes DEF Walked
<1>5. CASE UNCHANGED vars
  BY <1>5 DEF Walked, vars
<1> QED
  BY <1>1, <1>2, <1>3, <1>4, <1>5 DEF WideNext, WalkStep

\* FrameSlotsDisjoint of definitions ns, of which those of function f take `room' words.
Span(d) == d.offset .. d.offset + d.size - 1
Apart(ns, f, room) ==
    \A n \in DOMAIN ns : ns[n].func # NoFunction =>
        /\ ns[n].func = f => Span(ns[n]) \subseteq 0 .. room - 1
        /\ \A o \in DOMAIN ns : (o # n /\ ns[o].func = ns[n].func)
                                  => Span(ns[n]) \cap Span(ns[o]) = {}

LEMMA ApartIs == FrameSlotsDisjoint <=> Apart(nodes, func, stackSize)
  BY DEF FrameSlotsDisjoint, Local, Words, Apart, Span

LEMMA ApartIsNext == FrameSlotsDisjoint' <=> Apart(nodes', func', stackSize')
  BY DEF FrameSlotsDisjoint, Local, Words, Apart, Span

\* The same where a step leaves the tree alone.
LEMMA ApartKept ==
    ASSUME nodes' = nodes, Apart(nodes, func', stackSize')
    PROVE  FrameSlotsDisjoint'
  BY DEF FrameSlotsDisjoint, Local, Words, Apart, Span

LEMMA InitFramed == Init => FrameSlotsDisjoint
  BY DEF Init, FrameSlotsDisjoint, Local, Node

\* Parameters take a word each, from the first on.
LEMMA ApartParams ==
    ASSUME NEW ns, NEW old \in Nat, DOMAIN ns = 1 .. old, NEW g, NEW room,
           Apart(ns, g, room),
           NEW ms, NEW more \in Nat, DOMAIN ms = 1 .. old + more,
           \A n \in 1 .. old : ms[n] = ns[n],
           NEW f, \A n \in 1 .. old : ns[n].func # f,
           \A k \in 1 .. more : ms[old + k].func = f /\ Span(ms[old + k]) = {k - 1}
    PROVE  Apart(ms, f, more)
<1>1. ASSUME NEW n \in DOMAIN ms, n \notin 1 .. old
      PROVE  n - old \in 1 .. more /\ ms[n].func = f /\ Span(ms[n]) = {n - old - 1}
  <2>1. n - old \in 1 .. more /\ old + (n - old) = n
    BY <1>1
  <2> QED
    BY <2>1
<1>2. SUFFICES ASSUME NEW n \in DOMAIN ms, ms[n].func # NoFunction
      PROVE  /\ ms[n].func = f => Span(ms[n]) \subseteq 0 .. more - 1
             /\ \A o \in DOMAIN ms : (o # n /\ ms[o].func = ms[n].func)
                                       => Span(ms[n]) \cap Span(ms[o]) = {}
  BY DEF Apart
<1>3. CASE n \in 1 .. old
  <2>1. ASSUME NEW o \in DOMAIN ms, o # n, ms[o].func = ms[n].func
        PROVE  o \in 1 .. old
    BY <1>1, <1>3, <2>1
  <2> QED
    BY <1>2, <1>3, <2>1 DEF Apart
<1>4. CASE n \notin 1 .. old
  <2>1. Span(ms[n]) \subseteq 0 .. more - 1
    BY <1>1, <1>4
  <2>2. ASSUME NEW o \in DOMAIN ms, o # n, ms[o].func = ms[n].func
        PROVE  Span(ms[n]) \cap Span(ms[o]) = {}
    <3>1. o \notin 1 .. old
      BY <1>1, <1>4, <2>2
    <3>2. Span(ms[o]) = {o - old - 1} /\ Span(ms[n]) = {n - old - 1}
      BY <1>1, <1>4, <3>1
    <3>3. o - old - 1 # n - old - 1
      BY <2>2
    <3> QED
      BY <3>2, <3>3
  <2> QED
    BY <2>1, <2>2
<1> QED
  BY <1>3, <1>4

\* A declaration takes the words behind those taken.
LEMMA ApartDeclared ==
    ASSUME NEW ns, NEW old \in Nat, DOMAIN ns = 1 .. old, NEW f, NEW room \in Nat,
           Apart(ns, f, room), f # NoFunction,
           NEW ms, DOMAIN ms = 1 .. old + 1, \A n \in 1 .. old : ms[n] = ns[n],
           NEW size \in Nat, ms[old + 1].func = f,
           Span(ms[old + 1]) = room .. room + size - 1
    PROVE  Apart(ms, f, room + size)
<1>1. \A n \in DOMAIN ms : n \in 1 .. old \/ n = old + 1
  OBVIOUS
<1>2. \A n \in 1 .. old : ms[n].func = f => Span(ms[n]) \subseteq 0 .. room - 1
  BY DEF Apart
<1>3. SUFFICES ASSUME NEW n \in DOMAIN ms, ms[n].func # NoFunction
      PROVE  /\ ms[n].func = f => Span(ms[n]) \subseteq 0 .. room + size - 1
             /\ \A o \in DOMAIN ms : (o # n /\ ms[o].func = ms[n].func)
                                       => Span(ms[n]) \cap Span(ms[o]) = {}
  BY DEF Apart
<1>4. ms[n].func = f => Span(ms[n]) \subseteq 0 .. room + size - 1
  <2>1. room .. room + size - 1 \subseteq 0 .. room + size - 1
        /\ 0 .. room - 1 \subseteq 0 .. room + size - 1
    OBVIOUS
  <2> QED
    BY <1>1, <1>2, <2>1
<1>5. ASSUME NEW o \in DOMAIN ms, o # n, ms[o].func = ms[n].func
      PROVE  Span(ms[n]) \cap Span(ms[o]) = {}
  <2>1. (0 .. room - 1) \cap (room .. room + size - 1) = {}
    OBVIOUS
  <2>2. CASE n \in 1 .. old /\ o \in 1 .. old
    BY <1>3, <1>5, <2>2 DEF Apart
  <2>3. CASE n = old + 1 /\ o \in 1 .. old
    BY <1>2, <1>5, <2>1, <2>3
  <2>4. CASE n \in 1 .. old /\ o = old + 1
    BY <1>2, <1>5, <2>1, <2>4
  <2> QED
    BY <1>1, <1>5, <2>2, <2>3, <2>4
<1> QED
  BY <1>4, <1>5

LEMMA BeginFramed ==
    ASSUME Typed, Framed, NEW f \in Funcs, NEW params \in ParamLists,
           BeginFunction(f, params)
    PROVE  FrameSlotsDisjoint'
<1>1. func' = f /\ stackSize' = Len(params) /\ f \in todo
  BY DEF BeginFunction
<1>2. /\ DOMAIN nodes = 1 .. Len(nodes) /\ Len(nodes) \in Nat /\ Len(params) \in Nat
      /\ DOMAIN nodes' = 1 .. Len(nodes) + Len(params)
      /\ \A n \in 1 .. Len(nodes) : nodes'[n] = nodes[n]
  BY BeginNodes
<1>3. \A n \in 1 .. Len(nodes) : nodes[n].func # f
  BY <1>1, <1>2 DEF Framed, Walked
<1>4. ASSUME NEW k \in 1 .. Len(params)
      PROVE  nodes'[Len(nodes) + k].func = f /\ Span(nodes'[Len(nodes) + k]) = {k - 1}
  <2>1. /\ nodes'[Len(nodes) + k].func = f /\ nodes'[Len(nodes) + k].offset = k - 1
        /\ nodes'[Len(nodes) + k].size = 1
    BY BeginNodes
  <2>2. k - 1 .. k - 1 + 1 - 1 = {k - 1}
    BY <1>2
  <2> QED
    BY <2>1, <2>2 DEF Span
<1>5. Apart(nodes, func, stackSize)
  BY ApartIs DEF Framed
<1>6. Apart(nodes', f, Len(params))
  BY <1>2, <1>3, <1>4, <1>5, ApartParams
<1> QED
  BY <1>1, <1>6, ApartIsNext

LEMMA DeclareFramed ==
    ASSUME Typed, Framed, NEW i \in Ids, NEW size \in Nat \ {0}, Declare(i, size)
    PROVE  FrameSlotsDisjoint'
<1>1. func' = func /\ stackSize' = stackSize + size
  BY DEF Declare, Slot
<1>2. stackSize \in Nat /\ size \in Nat /\ func # NoFunction
  <2>1. ctl # <<>>
    BY DEF Declare, Awaits
  <2> QED
    BY <2>1, ScopesAssumption DEF Typed, TypeOK, Shape
<1>3. /\ DOMAIN nodes = 1 .. Len(nodes) /\ Len(nodes) \in Nat
      /\ DOMAIN nodes' = 1 .. Len(nodes) + 1
      /\ \A n \in 1 .. Len(nodes) : nodes'[n] = nodes[n]
  BY DeclareNodes
<1>4. /\ nodes'[Len(nodes) + 1].offset = stackSize /\ nodes'[Len(nodes) + 1].size = size
      /\ nodes'[Len(nodes) + 1].func = func
  BY DeclareNodes
<1>5. Span(nodes'[Len(nodes) + 1]) = stackSize .. stackSize + size - 1
  BY <1>4 DEF Span
<1>6. Apart(nodes, func, stackSize)
  BY ApartIs DEF Framed
<1>7. Apart(nodes', func, stackSize + size)
  BY <1>2, <1>3, <1>4, <1>5, <1>6, ApartDeclared
<1> QED
  BY <1>1, <1>7, ApartIsNext

LEMMA StepFramed == Typed /\ Framed /\ [WideNext]_vars => Framed'
<1> SUFFICES ASSUME Typed, Framed, [WideNext]_vars PROVE Framed'
  OBVIOUS
<1>1. Walked'
  BY StepWalked DEF Framed
<1>2. ASSUME NEW f \in Funcs, NEW params \in ParamLists, BeginFunction(f, params)
      PROVE  FrameSlotsDisjoint'
  BY <1>2, BeginFramed
<1>3. ASSUME NEW i \in Ids, NEW size \in Nat \ {0}, Declare(i, size) PROVE FrameSlotsDisjoint'
  BY <1>3, DeclareFramed
<1>4. ASSUME EndFunction PROVE FrameSlotsDisjoint'
  <2>1. nodes' = nodes /\ func' = NoFunction
    BY <1>4 DEF EndFunction, frame
  <2>2. Apart(nodes, func, stackSize)
    BY ApartIs DEF Framed
  <2>3. Apart(nodes, NoFunction, stackSize')
    BY <2>2 DEF Apart
  <2> QED
    BY <2>1, <2>3, ApartKept
<1>5. ASSUME WalkStep PROVE FrameSlotsDisjoint'
  <2>1. nodes' = nodes /\ func' = func /\ stackSize' = stackSize
    BY <1>5, WalkKeepsNodes
  <2>2. Apart(nodes, func, stackSize)
    BY ApartIs DEF Framed
  <2>3. Apart(nodes, func', stackSize')
    BY <2>1, <2>2
  <2> QED
    BY <2>1, <2>3, ApartKept
<1>6. ASSUME UNCHANGED vars PROVE FrameSlotsDisjoint'
  <2>1. nodes' = nodes /\ func' = func /\ stackSize' = stackSize
    BY <1>6 DEF vars
  <2>2. Apart(nodes, func, stackSize)
    BY ApartIs DEF Framed
  <2>3. Apart(nodes, func', stackSize')
    BY <2>1, <2>2
  <2> QED
    BY <2>1, <2>3, ApartKept
<1>7. FrameSlotsDisjoint'
  <2>1. \/ \E f \in Funcs, params \in ParamLists : BeginFunction(f, params)
        \/ EndFunction \/ WalkStep \/ (\E i \in Ids, size \in Nat \ {0} : Declare(i, size))
        \/ UNCHANGED vars
    BY DEF WideNext, WalkStep
  <2>2. ASSUME \E f \in Funcs, params \in ParamLists : BeginFunction(f, params)
        PROVE  FrameSlotsDisjoint'
    BY <1>2, <2>2
  <2>3. ASSUME \E i \in Ids, size \in Nat \ {0} : Declare(i, size) PROVE FrameSlotsDisjoint'
    BY <1>3, <2>3
  <2> QED
    BY <1>4, <1>5, <1>6, <2>1, <2>2, <2>3
<1> QED
  BY <1>1, <1>7 DEF Framed

\* Whatever functions, blocks and redeclarations a file has, two variables of a function
\* share no word of its frame, and the frame holds them all.
THEOREM SlotsDisjoint == Spec => []FrameSlotsDisjoint
<1>1. Init => Framed
  BY InitWalked, InitFramed DEF Framed
<1>2. Spec => []Framed
  BY <1>1, StepFramed, AlwaysTyped, NextIsWide, PTL DEF Spec
<1> QED
  BY <1>2, PTL DEF Framed

-----------------------------------------------------------------------------
(* Names.  Three facts carry the proof that the stacks of definitions, the  *)
(* lists of the open blocks, the names of the blocks and the table of       *)
(* symbols implement nested scopes, in a legal program.  The name of a      *)
(* block is used once, because it is a function's or starts with a number   *)
(* of its own (NamesInv).  The stack of an identifier has one element for   *)
(* each open block that lists it (StacksInv).  What _globals says of a      *)
(* global is its definition or a parameter that will give it back           *)
(* (GlobalsInv).                                                            *)

\* A block name that was formed already, when the functions in `left` are still to
\* walk and `next` is the next number of a block.
Spent(name, left, next) ==
    \/ \E f \in Funcs \ left : name = Root(f)
    \/ Len(name) > 1 /\ name[1].num < next

\* The definitions that blocks hold, and the identifiers they have.
OfBlock(n) == nodes[n].mangled.mark = "@"

Listing == \A n \in DOMAIN nodes, j \in DOMAIN layerNames :
    OfBlock(n) /\ nodes[n].mangled.layer = layerNames[j] => Listed(nodes[n].id, j)

\* The name that waits for the next block is that of no block yet.
Waiting == blockName # NoName =>
    /\ Spent(blockName, todo, blockId)
    /\ \A j \in DOMAIN layerNames : layerNames[j] # blockName
    /\ \A n \in DOMAIN nodes : OfBlock(n) => nodes[n].mangled.layer # blockName

NamesInv ==
    /\ \A j \in DOMAIN layerNames : Spent(layerNames[j], todo, blockId)
    /\ \A j, k \in DOMAIN layerNames : layerNames[j] = layerNames[k] => j = k
    /\ \A n \in DOMAIN nodes : nodes[n].mangled.mark # "" =>
          Spent(nodes[n].mangled.layer, todo, blockId)
    /\ Waiting
    /\ Listing

\* The mangled name of a definition tells where it stands.
MangledInv == \A n \in DOMAIN nodes :
    /\ nodes[n].mangled.id = nodes[n].id
    /\ nodes[n].mangled.mark = "" => nodes[n].mangled = Plain(nodes[n].id)
    /\ nodes[n].mangled.mark = "%" => nodes[n].mangled.layer = Root(nodes[n].func)

StacksInv ==
    /\ \A j \in DOMAIN blockVars : \A k, l \in DOMAIN blockVars[j] :
          blockVars[j][k] = blockVars[j][l] => k = l
    /\ \A i \in Ids :
          /\ Len(variables[i]) = Level(i, Len(blockVars))
          /\ \A k \in DOMAIN variables[i] : variables[i][k] \in DOMAIN nodes

GlobalsInv ==
    /\ Len(GlobalSeq) <= Len(nodes)
    /\ \A n \in 1 .. Len(GlobalSeq) :
          nodes[n] = Node(GlobalSeq[n], Plain(GlobalSeq[n]), 0, 1, NoFunction)
    /\ GlobalIds \subseteq DOMAIN globals
    /\ \A i \in GlobalIds :
          globals[i] = FileScope[i] \/ (IsParam(i) /\ i \in recovers)

Resolved == NamesInv /\ MangledInv /\ SymbolsFindEveryNode /\ StacksInv /\ GlobalsInv

-----------------------------------------------------------------------------
(* The walk outside functions and blocks *)

LEMMA Outside ==
    ASSUME Typed, ctl = <<>>
    PROVE  layerNames = <<>> /\ blockVars = <<>>
<1>1. BlocksOf(ctl) = {}
  BY DEF BlocksOf
<1>2. Len(layerNames) = 0 /\ Len(blockVars) = 0
  BY <1>1, FS_EmptySet DEF Typed, TypeOK, Shape
<1> QED
  BY <1>2 DEF Typed, TypeOK

LEMMA WalkTypes ==
    ASSUME Typed
    PROVE  /\ layerNames \in Seq(NameType) /\ blockVars \in Seq(Seq(Ids))
           /\ Len(layerNames) \in Nat /\ Len(blockVars) = Len(layerNames)
           /\ DOMAIN layerNames = 1 .. Len(layerNames)
           /\ DOMAIN blockVars = 1 .. Len(layerNames)
           /\ \A j \in 1 .. Len(layerNames) : layerNames[j] \in NameType
           /\ \A j \in 1 .. Len(layerNames) : blockVars[j] \in Seq(Ids)
           /\ blockName \in NameType /\ blockId \in Nat
           /\ nodes \in Seq(NodeType) /\ Len(nodes) \in Nat /\ DOMAIN nodes = 1 .. Len(nodes)
           /\ \A n \in 1 .. Len(nodes) : nodes[n] \in NodeType
  BY ScopesAssumption DEF Typed, TypeOK

LEMMA NodeIs ==
    ASSUME NEW n \in NodeType
    PROVE  /\ n.id \in Ids /\ n.mangled \in MangledType /\ n.mangled.id \in Ids
           /\ n.mangled.mark \in {"", "%", "@"} /\ n.mangled.layer \in NameType
           /\ n.func \in Funcs \cup {NoFunction}
  BY DEF NodeType, MangledType

-----------------------------------------------------------------------------
(* Names of blocks *)

LEMMA NameIs ==
    ASSUME NEW name \in NameType
    PROVE  /\ Len(name) \in Nat
           /\ Len(name) > 0 => name[1].num \in Nat
<1>1. Len(name) \in Nat
  BY DEF NameType
<1>2. ASSUME Len(name) > 0 PROVE name[1].num \in Nat
  <2> DEFINE PartType == [tag : Funcs \cup {"b", "i", "e", "w"}, num : 0 .. MaxBlocks]
  <2>1. name[1] \in PartType
    <3>1. name \in Seq(PartType) /\ 1 \in 1 .. Len(name)
      BY <1>1, <1>2 DEF NameType
    <3> HIDE DEF PartType
    <3> QED
      BY <3>1
  <2>2. name[1].num \in 0 .. MaxBlocks
    BY <2>1
  <2> QED
    BY <2>2, ScopesAssumption
<1> QED
  BY <1>1, <1>2

\* A name that was formed stays formed.
LEMMA SpentKept ==
    ASSUME NEW name \in NameType, NEW left, NEW next \in Nat, NEW fewer \in SUBSET left,
           NEW later \in Nat, next <= later, Spent(name, left, next)
    PROVE  Spent(name, fewer, later)
<1>1. Len(name) \in Nat /\ (Len(name) > 1 => name[1].num \in Nat)
  BY NameIs
<1> QED
  BY <1>1 DEF Spent

LEMMA SpentNotEmpty ==
    ASSUME NEW name \in NameType, NEW left, NEW next, Spent(name, left, next)
    PROVE  Len(name) >= 1 /\ name # NoName
<1>1. Len(NoName) = 0 /\ Len(name) \in Nat
  BY NameIs DEF NoName
<1>2. \A f \in Funcs : Len(Root(f)) = 1
  BY RootName
<1> QED
  BY <1>1, <1>2 DEF Spent

\* The name of a function is new as long as the function is still to walk, and a name
\* that starts with a new number is new.
LEMMA RootFresh ==
    ASSUME NEW f \in Funcs, NEW left, f \in left, NEW next
    PROVE  /\ ~Spent(Root(f), left, next)
           /\ Spent(Root(f), left \ {f}, next)
<1>1. \A h \in Funcs : Root(h) = Root(f) => h = f
  <2>1. \A h \in Funcs : Root(h)[1].tag = h
    BY DEF Root, Part
  <2> QED
    BY <2>1
<1>2. Len(Root(f)) = 1
  BY RootName
<1> QED
  BY <1>1, <1>2 DEF Spent

LEMMA NumberFresh ==
    ASSUME NEW tag \in {"b", "i", "e", "w"}, NEW next \in 0 .. MaxBlocks, NEW left,
           NEW name \in NameType, Len(name) >= 1
    PROVE  /\ <<Part(tag, next)>> \o name \in NameType
           /\ ~Spent(<<Part(tag, next)>> \o name, left, next)
           /\ Spent(<<Part(tag, next)>> \o name, left, next + 1)
<1> DEFINE p == Part(tag, next)
           new == <<p>> \o name
<1>1. p \in [tag : Funcs \cup {"b", "i", "e", "w"}, num : 0 .. MaxBlocks] /\ p.num = next
  BY DEF Part
<1>2. new \in NameType /\ Len(new) = Len(name) + 1 /\ new[1] = p
  BY <1>1, ConsName
<1>3. Len(name) \in Nat /\ next \in Nat
  BY NameIs, ScopesAssumption
<1>4. Len(new) > 1
  BY <1>2, <1>3
<1>5. \A f \in Funcs : Len(Root(f)) = 1
  BY RootName
<1>6. ~Spent(new, left, next)
  BY <1>1, <1>2, <1>3, <1>4, <1>5 DEF Spent
<1>7. Spent(new, left, next + 1)
  BY <1>1, <1>2, <1>3, <1>4 DEF Spent
<1> QED
  BY <1>2, <1>6, <1>7

LEMMA InitNames == Init => NamesInv
<1> SUFFICES ASSUME Init PROVE NamesInv
  OBVIOUS
<1>1. /\ nodes = [n \in 1 .. Len(GlobalSeq) |->
                    Node(GlobalSeq[n], Plain(GlobalSeq[n]), 0, 1, NoFunction)]
      /\ layerNames = <<>> /\ blockName = NoName
  BY DEF Init
<1>2. \A n \in DOMAIN nodes : nodes[n].mangled.mark = ""
  BY <1>1 DEF Node, Plain, Mangle
<1>3. DOMAIN layerNames = {}
  BY <1>1
<1> QED
  BY <1>1, <1>2, <1>3 DEF NamesInv, Waiting, Listing, OfBlock

\* A function's name waits for the block of its body.
LEMMA BeginNames ==
    ASSUME Typed, NamesInv, NEW f \in Funcs, NEW params \in ParamLists,
           BeginFunction(f, params)
    PROVE  NamesInv'
<1>1. /\ func = NoFunction /\ f \in todo /\ todo' = todo \ {f}
      /\ blockName' = Root(f) /\ layerNames' = layerNames /\ blockId' = blockId
  BY DEF BeginFunction
<1>2. layerNames = <<>> /\ blockId \in Nat
  BY <1>1, Outside, WalkTypes DEF Typed, Shape
<1>3. /\ DOMAIN nodes = 1 .. Len(nodes) /\ Len(nodes) \in Nat /\ Len(params) \in Nat
      /\ DOMAIN nodes' = 1 .. Len(nodes) + Len(params)
      /\ \A n \in 1 .. Len(nodes) : nodes'[n] = nodes[n]
      /\ \A k \in 1 .. Len(params) :
            nodes'[Len(nodes) + k].mangled = Mangle(params[k], "%", Root(f))
  BY BeginNodes
<1>4. ~Spent(Root(f), todo, blockId) /\ Spent(Root(f), todo', blockId')
  BY <1>1, RootFresh
<1>5. ASSUME NEW n \in DOMAIN nodes'
      PROVE  \/ n \in DOMAIN nodes /\ nodes'[n] = nodes[n]
             \/ nodes'[n].mangled.mark = "%" /\ nodes'[n].mangled.layer = Root(f)
  <2>1. CASE n \in 1 .. Len(nodes)
    BY <1>3, <2>1
  <2>2. CASE n \notin 1 .. Len(nodes)
    <3>1. n - Len(nodes) \in 1 .. Len(params) /\ n = Len(nodes) + (n - Len(nodes))
      BY <1>3, <2>2
    <3>2. nodes'[n].mangled = Mangle(params[n - Len(nodes)], "%", Root(f))
      BY <1>3, <3>1
    <3> QED
      BY <3>2 DEF Mangle
  <2> QED
    BY <2>1, <2>2
<1>6. ASSUME NEW n \in DOMAIN nodes', nodes'[n].mangled.mark # ""
      PROVE  Spent(nodes'[n].mangled.layer, todo', blockId')
  <2>1. CASE n \in DOMAIN nodes /\ nodes'[n] = nodes[n]
    <3>1. Spent(nodes[n].mangled.layer, todo, blockId)
      BY <1>6, <2>1 DEF NamesInv
    <3>2. nodes[n].mangled.layer \in NameType
      BY <1>3, <2>1, WalkTypes, NodeIs
    <3> QED
      BY <1>1, <1>2, <2>1, <3>1, <3>2, SpentKept
  <2> QED
    BY <1>4, <1>5, <2>1
<1>7. \A n \in DOMAIN nodes' : nodes'[n].mangled.mark = "@" =>
         nodes'[n].mangled.layer # Root(f)
  BY <1>4, <1>5 DEF NamesInv
<1>8. DOMAIN layerNames' = {}
  BY <1>1, <1>2
<1> QED
  BY <1>1, <1>4, <1>6, <1>7, <1>8 DEF NamesInv, Waiting, Listing, OfBlock

\* Steps that leave the names and the tree alone.
LEMMA SameNames ==
    ASSUME NamesInv, UNCHANGED <<layerNames, blockName, blockId, nodes, blockVars, todo>>
    PROVE  NamesInv'
  BY DEF NamesInv, Waiting, Listing, OfBlock, Listed

\* What open blocks list, after a block is opened or closed.
LEMMA OpenNames == ASSUME Typed, NamesInv, OpenBlock PROVE NamesInv'
<1> DEFINE last == Len(layerNames) + 1
<1>1. /\ nodes' = nodes /\ todo' = todo /\ blockVars' = Append(blockVars, <<>>)
      /\ StatementDue \/ Awaits({"body"})
  BY DEF OpenBlock, frame
<1> DEFINE Opens(name) ==
             /\ layerNames' = Append(layerNames, name) /\ blockName' = NoName
             /\ blockId <= blockId' /\ blockId' \in Nat
             /\ Spent(name, todo, blockId')
             /\ \A j \in DOMAIN layerNames : layerNames[j] # name
             /\ \A n \in DOMAIN nodes : OfBlock(n) => nodes[n].mangled.layer # name
<1>2. PICK new \in NameType : Opens(new)
  <2>1. CASE blockName # NoName
    <3>1. layerNames' = Append(layerNames, blockName) /\ blockName' = NoName
          /\ blockId' = blockId
      BY <2>1 DEF OpenBlock
    <3>2. Spent(blockName, todo, blockId') /\ blockId <= blockId' /\ blockId' \in Nat
      <4>1. Spent(blockName, todo, blockId)
        BY <2>1 DEF NamesInv, Waiting
      <4> QED
        BY <3>1, <4>1, WalkTypes
    <3>3. /\ \A j \in DOMAIN layerNames : layerNames[j] # blockName
          /\ \A n \in DOMAIN nodes : OfBlock(n) => nodes[n].mangled.layer # blockName
      BY <2>1 DEF NamesInv, Waiting
    <3>4. Opens(blockName) /\ blockName \in NameType
      BY <3>1, <3>2, <3>3, WalkTypes
    <3> QED
      BY <3>4
  <2>2. CASE blockName = NoName
    <3> DEFINE made == <<Part("b", blockId)>> \o Last(layerNames)
    <3>1. layerNames' = Append(layerNames, made) /\ blockName' = NoName
          /\ blockId' = blockId + 1 /\ blockId < MaxBlocks
      BY <2>2 DEF OpenBlock
    <3>2. Last(layerNames) \in NameType /\ Len(Last(layerNames)) >= 1
      <4>1. ctl # <<>> /\ Last(ctl) # "body"
        <5>1. CASE Awaits({"body"})
          <6>1. blockName = Root(func) /\ func \in Funcs
            <7>1. blockName = Root(func) /\ ctl # <<>>
              BY <5>1 DEF Typed, Shape, Awaits
            <7> QED
              BY <7>1 DEF Typed, TypeOK, Shape
          <6> QED
            BY <2>2, <6>1, RootName
        <5>2. CASE StatementDue
          BY <5>2 DEF StatementDue, Awaits, Clause
        <5> QED
          BY <1>1, <5>1, <5>2
      <4>2. layerNames # <<>> /\ Last(layerNames) \in NameType
        BY <4>1, InBlock
      <4>3. Len(layerNames) \in DOMAIN layerNames
        BY <4>2, WalkTypes
      <4>4. Spent(Last(layerNames), todo, blockId)
        BY <4>3 DEF NamesInv, Last
      <4> QED
        BY <4>2, <4>4, SpentNotEmpty
    <3>3. blockId \in 0 .. MaxBlocks /\ blockId \in Nat
      BY WalkTypes DEF Typed, TypeOK
    <3>4. made \in NameType /\ ~Spent(made, todo, blockId) /\ Spent(made, todo, blockId + 1)
      BY <3>2, <3>3, NumberFresh
    <3>5. \A j \in DOMAIN layerNames : layerNames[j] # made
      BY <3>4 DEF NamesInv
    <3>6. \A n \in DOMAIN nodes : OfBlock(n) => nodes[n].mangled.layer # made
      BY <3>4 DEF NamesInv, OfBlock
    <3>7. Opens(made)
      <4> HIDE DEF made
      <4> QED
        BY <3>1, <3>3, <3>4, <3>5, <3>6
    <3> HIDE DEF made, Opens
    <3> QED
      BY <3>4, <3>7
  <2> QED
    BY <2>1, <2>2
<1>3. /\ DOMAIN layerNames' = 1 .. last /\ Len(layerNames) \in Nat
      /\ DOMAIN layerNames = 1 .. Len(layerNames)
      /\ layerNames'[last] = new /\ \A j \in 1 .. Len(layerNames) : layerNames'[j] = layerNames[j]
      /\ \A j \in 1 .. Len(layerNames) : blockVars'[j] = blockVars[j]
      /\ \A j \in 1 .. last : j \in 1 .. Len(layerNames) \/ j = last
  BY <1>1, <1>2, WalkTypes
<1> HIDE DEF last
<1>4. ASSUME NEW j \in DOMAIN layerNames' PROVE Spent(layerNames'[j], todo', blockId')
  <2>1. CASE j \in DOMAIN layerNames
    <3>1. Spent(layerNames[j], todo, blockId) /\ layerNames[j] \in NameType
      BY <2>1, WalkTypes DEF NamesInv
    <3>2. Spent(layerNames[j], todo, blockId')
      BY <1>2, <3>1, SpentKept, WalkTypes
    <3> QED
      BY <1>1, <1>3, <2>1, <3>2
  <2> QED
    BY <1>1, <1>2, <1>3, <2>1
<1>5. \A j, k \in DOMAIN layerNames' : layerNames'[j] = layerNames'[k] => j = k
  <2>1. \A j, k \in 1 .. Len(layerNames) : layerNames[j] = layerNames[k] => j = k
    BY <1>3 DEF NamesInv
  <2>2. \A j \in 1 .. Len(layerNames) : layerNames'[j] # layerNames'[last]
    BY <1>2, <1>3
  <2> SUFFICES ASSUME NEW j \in 1 .. last, NEW k \in 1 .. last,
                      layerNames'[j] = layerNames'[k]
               PROVE  j = k
    BY <1>3
  <2> QED
    BY <1>3, <2>1, <2>2
<1>6. ASSUME NEW n \in DOMAIN nodes, nodes[n].mangled.mark # ""
      PROVE  Spent(nodes[n].mangled.layer, todo, blockId')
  <2>1. Spent(nodes[n].mangled.layer, todo, blockId)
    BY <1>6 DEF NamesInv
  <2>2. nodes[n].mangled.layer \in NameType
    BY WalkTypes, NodeIs
  <2> QED
    BY <1>2, <2>1, <2>2, SpentKept, WalkTypes
<1>7. ASSUME NEW n \in DOMAIN nodes, NEW j \in DOMAIN layerNames',
             nodes[n].mangled.mark = "@", nodes[n].mangled.layer = layerNames'[j]
      PROVE  nodes[n].id \in Range(blockVars'[j])
  <2>1. j \in 1 .. Len(layerNames)
    BY <1>2, <1>3, <1>7 DEF OfBlock
  <2>2. nodes[n].mangled.layer = layerNames[j] /\ blockVars'[j] = blockVars[j]
    BY <1>3, <1>7, <2>1
  <2> QED
    BY <1>3, <1>7, <2>1, <2>2 DEF NamesInv, Listing, Listed, OfBlock
<1> QED
  BY <1>1, <1>2, <1>4, <1>5, <1>6, <1>7 DEF NamesInv, Waiting, Listing, Listed, OfBlock

LEMMA CloseNames == ASSUME Typed, NamesInv, CloseBlock PROVE NamesInv'
<1>1. /\ layerNames' = Front(layerNames) /\ blockVars' = Front(blockVars)
      /\ blockName' = blockName /\ blockId' = blockId /\ nodes' = nodes /\ todo' = todo
      /\ ctl # <<>> /\ Last(ctl) = "block"
  BY DEF CloseBlock, Awaits, OuterNames, frame
<1>2. layerNames # <<>> /\ blockVars # <<>>
  BY <1>1, InBlock
<1>3. /\ DOMAIN layerNames' = 1 .. Len(layerNames) - 1 /\ Len(layerNames) \in Nat
      /\ DOMAIN layerNames = 1 .. Len(layerNames)
      /\ \A j \in 1 .. Len(layerNames) - 1 : layerNames'[j] = layerNames[j]
      /\ \A j \in 1 .. Len(layerNames) - 1 : blockVars'[j] = blockVars[j]
  BY <1>1, <1>2, FrontIs, WalkTypes
<1>4. DOMAIN layerNames' \subseteq DOMAIN layerNames
  BY <1>3
<1>5. /\ \A j \in DOMAIN layerNames' : layerNames'[j] = layerNames[j]
      /\ \A j \in DOMAIN layerNames' : blockVars'[j] = blockVars[j]
  BY <1>3
<1> QED
  BY <1>1, <1>4, <1>5 DEF NamesInv, Waiting, Listing, OfBlock, Listed

\* A name for the clause or body that comes next starts with a new number.
LEMMA BranchNames ==
    ASSUME Typed, NamesInv, ctl # <<>>, Last(ctl) # "body",
           NEW tag \in {"i", "e", "w"}, NameNextBlock(tag),
           UNCHANGED <<layerNames, nodes, blockVars, todo>>
    PROVE  NamesInv'
<1> DEFINE made == <<Part(tag, blockId)>> \o Last(layerNames)
<1>1. blockName' = made /\ blockId' = blockId + 1
  BY DEF NameNextBlock
<1>2. Last(layerNames) \in NameType /\ Len(Last(layerNames)) >= 1
  <2>1. layerNames # <<>> /\ Last(layerNames) \in NameType
    BY InBlock
  <2>2. Len(layerNames) \in DOMAIN layerNames
    BY <2>1, WalkTypes
  <2>3. Spent(Last(layerNames), todo, blockId)
    BY <2>2 DEF NamesInv, Last
  <2> QED
    BY <2>1, <2>3, SpentNotEmpty
<1>3. blockId \in 0 .. MaxBlocks /\ blockId \in Nat
  BY WalkTypes DEF Typed, TypeOK
<1>4. made \in NameType /\ ~Spent(made, todo, blockId) /\ Spent(made, todo, blockId + 1)
  BY <1>2, <1>3, NumberFresh
<1> HIDE DEF made
<1>5. /\ \A j \in DOMAIN layerNames : layerNames[j] # made
      /\ \A n \in DOMAIN nodes : OfBlock(n) => nodes[n].mangled.layer # made
  BY <1>4 DEF NamesInv, OfBlock
<1>6. ASSUME NEW name \in NameType, Spent(name, todo, blockId)
      PROVE  Spent(name, todo, blockId + 1)
  BY <1>3, <1>6, SpentKept
<1>7. \A j \in DOMAIN layerNames : Spent(layerNames[j], todo, blockId + 1)
  BY <1>6, WalkTypes DEF NamesInv
<1>8. ASSUME NEW n \in DOMAIN nodes, nodes[n].mangled.mark # ""
      PROVE  Spent(nodes[n].mangled.layer, todo, blockId + 1)
  <2>1. Spent(nodes[n].mangled.layer, todo, blockId)
    BY <1>8 DEF NamesInv
  <2>2. nodes[n].mangled.layer \in NameType
    BY WalkTypes, NodeIs
  <2> QED
    BY <1>6, <2>1, <2>2
<1> QED
  BY <1>1, <1>4, <1>5, <1>7, <1>8 DEF NamesInv, Waiting, Listing, OfBlock, Listed

\* A step that meets an if, an else or a loop.
BranchStep == (\E hasElse \in BOOLEAN : If(hasElse)) \/ Else \/ While

LEMMA BranchIs ==
    ASSUME BranchStep
    PROVE  /\ ctl # <<>> /\ Last(ctl) # "body"
           /\ \E tag \in {"i", "e", "w"} : NameNextBlock(tag)
           /\ UNCHANGED <<variables, globals, blockVars, layerNames, symbols, nodes,
                          stackSize, func, recovers, todo>>
  BY DEF BranchStep, If, Else, While, StatementDue, Awaits, Clause, frame

LEMMA BranchStepNames == ASSUME Typed, NamesInv, BranchStep PROVE NamesInv'
  BY BranchIs, BranchNames

\* What the lists of the open blocks are after one more identifier.
ListsGrow(lists, more, depth, i) ==
    /\ \A j \in 1 .. depth - 1 : more[j] = lists[j]
    /\ \A j \in 1 .. depth : Range(lists[j]) \subseteq Range(more[j])
    /\ Range(more[depth]) = Range(lists[depth]) \cup {i}
    /\ Len(more) = depth /\ DOMAIN more = 1 .. depth
    /\ more[depth] = Append(lists[depth], i)

LEMMA ListsAre ==
    ASSUME NEW lists \in Seq(Seq(Ids)), lists # <<>>, NEW i \in Ids
    PROVE  ListsGrow(lists, Append(Front(lists), Append(Last(lists), i)), Len(lists), i)
<1> DEFINE d == Len(lists)
           q == lists[d]
           p == Append(q, i)
           more == Append(Front(lists), p)
<1>1. /\ d \in Nat \ {0} /\ q \in Seq(Ids) /\ Last(lists) = q
      /\ Front(lists) \in Seq(Seq(Ids)) /\ Len(Front(lists)) = d - 1
      /\ \A j \in 1 .. d - 1 : Front(lists)[j] = lists[j]
  BY FrontIs DEF Last
<1>2. Range(p) = Range(q) \cup {i}
  <2>1. /\ Len(q) \in Nat /\ DOMAIN q = 1 .. Len(q) /\ DOMAIN p = 1 .. Len(q) + 1
        /\ p[Len(q) + 1] = i /\ \A k \in 1 .. Len(q) : p[k] = q[k]
    BY <1>1
  <2>2. \A k \in 1 .. Len(q) + 1 : k \in 1 .. Len(q) \/ k = Len(q) + 1
    BY <2>1
  <2>3. 1 .. Len(q) \subseteq 1 .. Len(q) + 1 /\ Len(q) + 1 \in 1 .. Len(q) + 1
    BY <2>1
  <2> HIDE DEF p, q
  <2>4. ASSUME NEW v \in Range(p) PROVE v \in Range(q) \cup {i}
    BY <2>1, <2>2 DEF Range
  <2>5. ASSUME NEW v \in Range(q) PROVE v \in Range(p)
    BY <2>1, <2>3 DEF Range
  <2>6. i \in Range(p)
    BY <2>1, <2>3 DEF Range
  <2> QED
    BY <2>4, <2>5, <2>6
<1>3. p \in Seq(Ids)
  BY <1>1
<1> HIDE DEF p, q
<1>4. /\ Len(more) = d /\ DOMAIN more = 1 .. d /\ more[d] = p
      /\ \A j \in 1 .. d - 1 : more[j] = lists[j]
  <2>1. Len(more) = d - 1 + 1 /\ more[d - 1 + 1] = p /\ more \in Seq(Seq(Ids))
        /\ \A j \in 1 .. d - 1 : more[j] = Front(lists)[j]
    BY <1>1, <1>3
  <2>2. d - 1 + 1 = d
    BY <1>1
  <2> HIDE DEF more
  <2> QED
    BY <1>1, <2>1, <2>2
<1>5. more = Append(Front(lists), Append(Last(lists), i)) /\ q = lists[d] /\ p = Append(q, i)
  BY <1>1 DEF p, q
<1> HIDE DEF more
<1>6. \A j \in 1 .. d : j \in 1 .. d - 1 \/ j = d
  BY <1>1
<1> HIDE DEF d
<1>7. ListsGrow(lists, more, d, i)
  BY <1>2, <1>4, <1>5, <1>6 DEF ListsGrow
<1> QED
  BY <1>5, <1>7 DEF d

\* A declaration that is not dropped belongs to the innermost block, which lists it.
LEMMA DeclareNames ==
    ASSUME Typed, NamesInv, NEW i \in Ids, NEW size \in Nat \ {0}, Declare(i, size),
           ~IsDuplicate(i)
    PROVE  NamesInv'
<1> DEFINE new == Len(nodes) + 1
           depth == Len(layerNames)
<1>1. /\ layerNames' = layerNames /\ blockName' = blockName /\ blockId' = blockId
      /\ todo' = todo /\ blockVars' = Append(Front(blockVars), Append(Last(blockVars), i))
      /\ ctl # <<>> /\ Last(ctl) = "block"
  BY DEF Declare, Awaits, names, ListedToo
<1>2. /\ DOMAIN nodes = 1 .. Len(nodes) /\ Len(nodes) \in Nat
      /\ DOMAIN nodes' = 1 .. new
      /\ \A n \in 1 .. Len(nodes) : nodes'[n] = nodes[n]
      /\ nodes'[new].id = i /\ nodes'[new].mangled = Mangle(i, "@", Last(layerNames))
  BY DeclareNodes
<1>3. /\ layerNames # <<>> /\ depth \in Nat \ {0} /\ DOMAIN layerNames = 1 .. depth
      /\ Last(layerNames) = layerNames[depth]
  BY <1>1, InBlock, WalkTypes DEF Last
<1>4. ListsGrow(blockVars, blockVars', depth, i)
  <2>1. blockVars \in Seq(Seq(Ids)) /\ blockVars # <<>> /\ Len(blockVars) = depth
    BY <1>1, InBlock, WalkTypes
  <2> QED
    BY <1>1, <2>1, ListsAre
<1>5. Spent(Last(layerNames), todo, blockId)
  <2>1. depth \in DOMAIN layerNames
    BY <1>3
  <2> QED
    BY <1>3, <2>1 DEF NamesInv
<1>6. /\ nodes'[new].mangled.mark = "@" /\ nodes'[new].mangled.layer = Last(layerNames)
      /\ \A n \in DOMAIN nodes' : n = new \/ (n \in DOMAIN nodes /\ nodes'[n] = nodes[n])
  BY <1>2 DEF Mangle
<1> HIDE DEF new, depth
<1>7. \A n \in DOMAIN nodes' :
         nodes'[n].mangled.mark # "" => Spent(nodes'[n].mangled.layer, todo, blockId)
  BY <1>5, <1>6 DEF NamesInv
<1>8. blockName # NoName => \A n \in DOMAIN nodes' :
         nodes'[n].mangled.mark = "@" => nodes'[n].mangled.layer # blockName
  <2>1. blockName # NoName => Last(layerNames) # blockName
    <3>1. depth \in DOMAIN layerNames
      BY <1>3
    <3> QED
      BY <1>3, <3>1 DEF NamesInv, Waiting
  <2> QED
    BY <1>6, <2>1 DEF NamesInv, Waiting, OfBlock
<1>9. ASSUME NEW n \in DOMAIN nodes', NEW j \in DOMAIN layerNames,
             nodes'[n].mangled.mark = "@", nodes'[n].mangled.layer = layerNames[j]
      PROVE  nodes'[n].id \in Range(blockVars'[j])
  <2>1. CASE n = new
    <3>1. j = depth
      <4>1. depth \in DOMAIN layerNames /\ layerNames[depth] = layerNames[j]
        BY <1>3, <1>6, <1>9, <2>1
      <4> QED
        BY <4>1 DEF NamesInv
    <3> QED
      BY <1>2, <1>4, <2>1, <3>1 DEF ListsGrow
  <2>2. CASE n \in DOMAIN nodes /\ nodes'[n] = nodes[n]
    <3>1. nodes[n].id \in Range(blockVars[j])
      BY <1>9, <2>2 DEF NamesInv, Listing, Listed, OfBlock
    <3> QED
      BY <1>3, <1>4, <2>2, <3>1 DEF ListsGrow
  <2> QED
    BY <1>6, <2>1, <2>2
<1> QED
  BY <1>1, <1>7, <1>8, <1>9 DEF NamesInv, Waiting, Listing, OfBlock, Listed

-----------------------------------------------------------------------------
(* Levels: how many of the first j lists have i *)

LevelIn(lists, i, j) == Cardinality({k \in 1 .. j : i \in Range(lists[k])})

LEMMA LevelIs == \A i, j : Level(i, j) = LevelIn(blockVars, i, j)
  BY DEF Level, Listed, LevelIn

LEMMA LevelSame ==
    ASSUME NEW p, NEW q, NEW i, NEW j, \A k \in 1 .. j : Range(p[k]) = Range(q[k])
    PROVE  LevelIn(p, i, j) = LevelIn(q, i, j)
<1>1. {k \in 1 .. j : i \in Range(p[k])} = {k \in 1 .. j : i \in Range(q[k])}
  OBVIOUS
<1> QED
  BY <1>1 DEF LevelIn

LEMMA LevelBounds ==
    ASSUME NEW p, NEW i, NEW j \in Nat
    PROVE  /\ LevelIn(p, i, j) \in 0 .. j
           /\ LevelIn(p, i, j) = 0 <=> \A k \in 1 .. j : i \notin Range(p[k])
<1> DEFINE S == {k \in 1 .. j : i \in Range(p[k])}
<1>1. IsFiniteSet(S) /\ Cardinality(S) \in 0 .. j
  BY PositionsFinite
<1>2. Cardinality(S) = 0 <=> S = {}
  <2> HIDE DEF S
  <2> QED
    BY <1>1, FS_EmptySet
<1>3. S = {} <=> \A k \in 1 .. j : i \notin Range(p[k])
  OBVIOUS
<1>4. LevelIn(p, i, j) = Cardinality(S)
  BY DEF LevelIn
<1> HIDE DEF S
<1> QED
  BY <1>1, <1>2, <1>3, <1>4

\* The last list counts or does not.
LEMMA LevelStep ==
    ASSUME NEW p, NEW i, NEW j \in Nat \ {0}
    PROVE  /\ i \in Range(p[j]) => LevelIn(p, i, j) = LevelIn(p, i, j - 1) + 1
           /\ i \notin Range(p[j]) => LevelIn(p, i, j) = LevelIn(p, i, j - 1)
<1> DEFINE S == {k \in 1 .. j : i \in Range(p[k])}
           T == {k \in 1 .. j - 1 : i \in Range(p[k])}
<1>1. IsFiniteSet(T) /\ j \notin T
  <2>1. j - 1 \in Nat /\ T \in SUBSET (1 .. j - 1)
    OBVIOUS
  <2>2. IsFiniteSet(T)
    <3> HIDE DEF T
    <3> QED
      BY <2>1, PositionsFinite
  <2> QED
    BY <2>2
<1>2. i \in Range(p[j]) => S = T \cup {j}
  OBVIOUS
<1>3. i \notin Range(p[j]) => S = T
  <2> SUFFICES ASSUME i \notin Range(p[j]) PROVE S = T
    OBVIOUS
  <2>1. \A k \in S : k \in 1 .. j - 1
    <3> SUFFICES ASSUME NEW k \in S PROVE k \in 1 .. j - 1
      OBVIOUS
    <3>1. k # j /\ k \in 1 .. j
      OBVIOUS
    <3> QED
      BY <3>1
  <2> QED
    BY <2>1
<1>4. Cardinality(T \cup {j}) = Cardinality(T) + 1
  <2> HIDE DEF T
  <2> QED
    BY <1>1, FS_AddElement
<1>5. LevelIn(p, i, j) = Cardinality(S) /\ LevelIn(p, i, j - 1) = Cardinality(T)
  BY DEF LevelIn
<1> HIDE DEF S, T
<1> QED
  BY <1>2, <1>3, <1>4, <1>5

LEMMA LevelGrows ==
    ASSUME NEW p, NEW i, NEW j \in Nat, NEW k \in Nat, j <= k
    PROVE  LevelIn(p, i, j) <= LevelIn(p, i, k)
<1> DEFINE S == {l \in 1 .. k : i \in Range(p[l])}
           T == {l \in 1 .. j : i \in Range(p[l])}
<1>1. IsFiniteSet(S) /\ T \subseteq S
  BY PositionsFinite
<1>2. Cardinality(T) <= Cardinality(S)
  <2> HIDE DEF S, T
  <2> QED
    BY <1>1, FS_Subset
<1> QED
  BY <1>2 DEF LevelIn

\* Nothing after j lists i: the level stays.
LEMMA LevelStays ==
    ASSUME NEW p, NEW i, NEW j \in Nat, NEW k \in Nat, j <= k,
           \A l \in j + 1 .. k : i \notin Range(p[l])
    PROVE  LevelIn(p, i, j) = LevelIn(p, i, k)
<1>1. {l \in 1 .. j : i \in Range(p[l])} = {l \in 1 .. k : i \in Range(p[l])}
  OBVIOUS
<1> QED
  BY <1>1 DEF LevelIn

\* A list that is missing leaves room below.
LEMMA LevelMisses ==
    ASSUME NEW p, NEW i, NEW j \in Nat \ {0}, i \notin Range(p[j])
    PROVE  LevelIn(p, i, j) # j
<1>1. LevelIn(p, i, j) = LevelIn(p, i, j - 1) /\ LevelIn(p, i, j - 1) \in 0 .. j - 1
  BY LevelStep, LevelBounds
<1> QED
  BY <1>1

-----------------------------------------------------------------------------
(* Stacks of definitions *)

LEMMA StackIs ==
    ASSUME Typed, NEW i \in Ids
    PROVE  /\ variables[i] \in Seq(1 .. MaxNodes) /\ Len(variables[i]) \in Nat
           /\ DOMAIN variables[i] = 1 .. Len(variables[i])
           /\ \A k \in 1 .. Len(variables[i]) : variables[i][k] \in Nat \ {0}
<1>1. variables[i] \in Seq(1 .. MaxNodes)
  BY DEF Typed, TypeOK, IdStacks
<1>2. 1 .. MaxNodes \subseteq Nat \ {0}
  BY ScopesAssumption
<1>3. \A k \in 1 .. Len(variables[i]) : variables[i][k] \in 1 .. MaxNodes
  BY <1>1, ElementOfSeq
<1> QED
  BY <1>1, <1>2, <1>3

\* In a legal program the test of newVariable never drops a declaration.
LEMMA NeverDropped ==
    ASSUME ~MayRedeclare, Typed, StacksInv, NEW i \in Ids, NEW size \in Nat \ {0},
           Declare(i, size)
    PROVE  ~IsDuplicate(i) /\ i \notin Range(Last(blockVars))
<1> DEFINE d == Len(blockVars)
<1>1. i \notin Range(Last(blockVars)) /\ ctl # <<>> /\ Last(ctl) = "block"
  BY DEF Declare, Awaits
<1>2. d \in Nat \ {0} /\ Last(blockVars) = blockVars[d] /\ d = Len(layerNames)
  BY <1>1, InBlock, WalkTypes DEF Last
<1>3. Len(variables[i]) = LevelIn(blockVars, i, d)
  BY LevelIs DEF StacksInv
<1>4. LevelIn(blockVars, i, d) # d
  BY <1>1, <1>2, LevelMisses
<1> QED
  BY <1>1, <1>2, <1>3, <1>4 DEF IsDuplicate

\* A block lists an identifier once, so one definition of it is popped.
LEMMA PoppedIs ==
    ASSUME Typed, NEW closing \in Seq(Ids), NEW i \in Ids,
           \A k, l \in DOMAIN closing : closing[k] = closing[l] => k = l
    PROVE  LET q == variables[i]
               p == Popped(closing)[i]
           IN  /\ p \in Seq(1 .. MaxNodes)
               /\ i \in Range(closing) /\ Len(q) > 0 => Len(p) = Len(q) - 1
               /\ i \notin Range(closing) => Len(p) = Len(q)
               /\ Len(p) <= Len(q)
               /\ \A k \in 1 .. Len(p) : p[k] = q[k]
<1> DEFINE q == variables[i]
           S == {k \in DOMAIN closing : closing[k] = i}
           times == Cardinality(S)
           p == SubSeq(q, 1, Len(q) - times)
<1>1. q \in Seq(1 .. MaxNodes) /\ Len(q) \in Nat
  BY StackIs
<1>2. i \in Range(closing) => times = 1
  <2> SUFFICES ASSUME i \in Range(closing) PROVE times = 1
    OBVIOUS
  <2>1. PICK k \in DOMAIN closing : closing[k] = i
    BY DEF Range
  <2>2. S = {k}
    BY <2>1
  <2> QED
    BY <2>2, FS_Singleton
<1>3. i \notin Range(closing) => times = 0
  <2> SUFFICES ASSUME i \notin Range(closing) PROVE times = 0
    OBVIOUS
  <2>1. S = {}
    BY DEF Range
  <2> QED
    BY <2>1, FS_EmptySet
<1>4. times \in Nat
  BY <1>2, <1>3
<1>5. Popped(closing)[i] = p
  BY DEF Popped
<1> HIDE DEF q, times
<1>6. /\ p \in Seq(1 .. MaxNodes) /\ (times <= Len(q) => Len(p) = Len(q) - times)
      /\ \A k \in 1 .. Len(q) - times : p[k] = q[k]
  BY <1>1, <1>4, CutIs
<1>7. ~(times <= Len(q)) => Len(p) = 0
  <2>1. ~(times <= Len(q)) => p = <<>>
    BY <1>1, <1>4
  <2> HIDE DEF p
  <2> QED
    BY <2>1
<1> HIDE DEF p
<1>8. /\ i \in Range(closing) /\ Len(q) > 0 => Len(p) = Len(q) - 1
      /\ i \notin Range(closing) => Len(p) = Len(q)
      /\ Len(p) <= Len(q)
  BY <1>1, <1>2, <1>3, <1>4, <1>6, <1>7
<1>9. \A k \in 1 .. Len(p) : p[k] = q[k]
  BY <1>1, <1>4, <1>6, <1>7
<1> QED
  BY <1>5, <1>6, <1>8, <1>9 DEF q

LEMMA InitStacks == Init => StacksInv
<1> SUFFICES ASSUME Init PROVE StacksInv
  OBVIOUS
<1>1. blockVars = <<>> /\ variables = [i \in Ids |-> <<>>]
  BY DEF Init
<1>2. \A i \in Ids : LevelIn(blockVars, i, 0) = 0
  BY LevelBounds
<1>3. DOMAIN blockVars = {} /\ Len(blockVars) = 0
  BY <1>1
<1>4. \A i \in Ids : Len(variables[i]) = 0 /\ DOMAIN variables[i] = {}
  BY <1>1
<1> QED
  BY <1>2, <1>3, <1>4, LevelIs DEF StacksInv

\* Steps that leave the stacks and the lists alone and may add to the tree.
LEMMA SameStacks ==
    ASSUME StacksInv, UNCHANGED <<variables, blockVars>>, DOMAIN nodes \subseteq DOMAIN nodes'
    PROVE  StacksInv'
  BY DEF StacksInv, Level, Listed

LEMMA OpenStacks == ASSUME Typed, StacksInv, OpenBlock PROVE StacksInv'
<1> DEFINE d == Len(blockVars)
           more == Append(blockVars, <<>>)
<1>1. blockVars' = more /\ variables' = variables /\ nodes' = nodes
  BY DEF OpenBlock, frame
<1>2. /\ d \in Nat /\ Len(more) = d + 1 /\ DOMAIN more = 1 .. d + 1 /\ more[d + 1] = <<>>
      /\ DOMAIN blockVars = 1 .. d /\ \A j \in 1 .. d : more[j] = blockVars[j]
  BY WalkTypes
<1> HIDE DEF more, d
<1>3. ASSUME NEW i \in Ids
      PROVE  Len(variables[i]) = LevelIn(more, i, d + 1)
  <2>1. Len(variables[i]) = LevelIn(blockVars, i, d)
    BY LevelIs DEF StacksInv, d
  <2>2. LevelIn(more, i, d) = LevelIn(blockVars, i, d)
    BY <1>2, LevelSame
  <2>3. i \notin Range(more[d + 1])
    BY <1>2 DEF Range
  <2>4. LevelIn(more, i, d + 1) = LevelIn(more, i, d + 1 - 1) /\ d + 1 - 1 = d
    BY <1>2, <2>3, LevelStep
  <2> QED
    BY <2>1, <2>2, <2>4
<1>4. ASSUME NEW j \in DOMAIN more, NEW k \in DOMAIN more[j], NEW l \in DOMAIN more[j],
             more[j][k] = more[j][l]
      PROVE  k = l
  <2>1. CASE j \in 1 .. d
    BY <1>2, <1>4, <2>1 DEF StacksInv
  <2>2. CASE j = d + 1
    BY <1>2, <2>2
  <2> QED
    BY <1>2, <2>1, <2>2
<1>5. \A i \in Ids : Level(i, Len(blockVars))' = LevelIn(more, i, d + 1)
  BY <1>1, <1>2 DEF Level, Listed, LevelIn
<1> QED
  BY <1>1, <1>3, <1>4, <1>5 DEF StacksInv

LEMMA CloseStacks == ASSUME Typed, StacksInv, CloseBlock PROVE StacksInv'
<1> DEFINE d == Len(blockVars)
           less == Front(blockVars)
           closing == Last(blockVars)
<1>1. /\ blockVars' = less /\ variables' = Popped(closing) /\ nodes' = nodes
      /\ ctl # <<>> /\ Last(ctl) = "block"
  BY DEF CloseBlock, Awaits, frame
<1>2. /\ d \in Nat \ {0} /\ Len(less) = d - 1 /\ DOMAIN less = 1 .. d - 1
      /\ DOMAIN blockVars = 1 .. d /\ \A j \in 1 .. d - 1 : less[j] = blockVars[j]
      /\ closing = blockVars[d] /\ closing \in Seq(Ids)
  <2>1. blockVars # <<>> /\ blockVars \in Seq(Seq(Ids))
    BY <1>1, InBlock, WalkTypes
  <2>2. d \in Nat \ {0} /\ DOMAIN blockVars = 1 .. d
    BY <2>1
  <2>3. /\ Len(less) = d - 1 /\ DOMAIN less = 1 .. d - 1
        /\ \A j \in 1 .. d - 1 : less[j] = blockVars[j]
        /\ closing = blockVars[d] /\ closing \in Seq(Ids)
    BY <2>1, FrontIs
  <2> QED
    BY <2>2, <2>3
<1> HIDE DEF less, d, closing
<1>3. \A k, l \in DOMAIN closing : closing[k] = closing[l] => k = l
  <2>1. d \in DOMAIN blockVars
    BY <1>2
  <2> QED
    BY <1>2, <2>1 DEF StacksInv
<1>4. ASSUME NEW i \in Ids
      PROVE  /\ Len(variables'[i]) = LevelIn(less, i, d - 1)
             /\ \A k \in DOMAIN variables'[i] : variables'[i][k] \in DOMAIN nodes
  <2>1. Len(variables[i]) = LevelIn(blockVars, i, d)
    BY LevelIs DEF StacksInv, d
  <2>2. LevelIn(less, i, d - 1) = LevelIn(blockVars, i, d - 1)
    BY <1>2, LevelSame
  <2>3. /\ i \in Range(closing) => LevelIn(blockVars, i, d) = LevelIn(blockVars, i, d - 1) + 1
        /\ i \notin Range(closing) => LevelIn(blockVars, i, d) = LevelIn(blockVars, i, d - 1)
    BY <1>2, LevelStep
  <2>4. d - 1 \in Nat /\ LevelIn(blockVars, i, d - 1) \in Nat
    BY <1>2, LevelBounds
  <2> DEFINE q == variables[i]
             p == variables'[i]
  <2>5. /\ p \in Seq(1 .. MaxNodes)
        /\ i \in Range(closing) /\ Len(q) > 0 => Len(p) = Len(q) - 1
        /\ i \notin Range(closing) => Len(p) = Len(q)
        /\ Len(p) <= Len(q)
        /\ \A k \in 1 .. Len(p) : p[k] = q[k]
    BY <1>1, <1>2, <1>3, PoppedIs
  <2>6. /\ Len(q) \in Nat /\ DOMAIN q = 1 .. Len(q) /\ Len(p) \in Nat
        /\ DOMAIN p = 1 .. Len(p)
    BY <2>5, StackIs
  <2>7. \A k \in DOMAIN q : q[k] \in DOMAIN nodes
    BY DEF StacksInv
  <2> HIDE DEF p, q
  <2>8. Len(p) = LevelIn(less, i, d - 1)
    <3>1. Len(q) = LevelIn(blockVars, i, d)
      BY <2>1 DEF q
    <3> QED
      BY <2>2, <2>3, <2>4, <2>5, <2>6, <3>1
  <2>9. ASSUME NEW k \in DOMAIN p PROVE p[k] \in DOMAIN nodes
    <3>1. k \in 1 .. Len(p)
      BY <2>6
    <3>2. k \in 1 .. Len(q)
      <4>1. Len(p) \in Nat /\ Len(q) \in Nat /\ Len(p) <= Len(q)
        BY <2>5, <2>6
      <4> QED
        BY <3>1, <4>1
    <3>3. k \in DOMAIN q /\ p[k] = q[k]
      BY <2>5, <2>6, <3>1, <3>2
    <3> QED
      BY <2>7, <3>3
  <2> QED
    BY <2>8, <2>9 DEF p
<1>5. \A j \in DOMAIN less : \A k, l \in DOMAIN less[j] : less[j][k] = less[j][l] => k = l
  BY <1>2 DEF StacksInv
<1>6. \A i \in Ids : Level(i, Len(blockVars))' = LevelIn(less, i, d - 1)
  BY <1>1, <1>2 DEF Level, Listed, LevelIn
<1> QED
  BY <1>1, <1>4, <1>5, <1>6 DEF StacksInv

LEMMA DeclareStacks ==
    ASSUME ~MayRedeclare, Typed, StacksInv, NEW i \in Ids, NEW size \in Nat \ {0},
           Declare(i, size)
    PROVE  StacksInv'
<1> DEFINE d == Len(blockVars)
           n == Len(nodes) + 1
<1>1. ~IsDuplicate(i) /\ i \notin Range(Last(blockVars))
  BY NeverDropped
<1>2. /\ variables' = [variables EXCEPT ![i] = Append(@, n)]
      /\ blockVars' = Append(Front(blockVars), Append(Last(blockVars), i))
      /\ ctl # <<>> /\ Last(ctl) = "block"
  BY <1>1 DEF Declare, Awaits, ListedToo
<1>3. /\ blockVars \in Seq(Seq(Ids)) /\ blockVars # <<>> /\ d \in Nat \ {0}
      /\ Last(blockVars) = blockVars[d] /\ DOMAIN blockVars = 1 .. d
      /\ blockVars[d] \in Seq(Ids)
  BY <1>2, InBlock, WalkTypes DEF Last
<1>4. ListsGrow(blockVars, blockVars', d, i)
  BY <1>2, <1>3, ListsAre
<1>5. DOMAIN nodes = 1 .. n - 1 /\ DOMAIN nodes' = 1 .. n /\ n \in Nat \ {0}
  BY DeclareNodes
<1> HIDE DEF d, n
<1> DEFINE more == blockVars'
<1>6. ASSUME NEW h \in Ids
      PROVE  /\ h = i => LevelIn(more, h, d) = LevelIn(blockVars, h, d) + 1
             /\ h # i => LevelIn(more, h, d) = LevelIn(blockVars, h, d)
  <2>1. LevelIn(more, h, d - 1) = LevelIn(blockVars, h, d - 1)
    BY <1>4, LevelSame DEF ListsGrow
  <2>2. /\ h \in Range(more[d]) => LevelIn(more, h, d) = LevelIn(more, h, d - 1) + 1
        /\ h \notin Range(more[d]) => LevelIn(more, h, d) = LevelIn(more, h, d - 1)
        /\ h \in Range(blockVars[d]) =>
              LevelIn(blockVars, h, d) = LevelIn(blockVars, h, d - 1) + 1
        /\ h \notin Range(blockVars[d]) =>
              LevelIn(blockVars, h, d) = LevelIn(blockVars, h, d - 1)
    BY <1>3, LevelStep
  <2>3. h \in Range(more[d]) <=> h \in Range(blockVars[d]) \/ h = i
    BY <1>4 DEF ListsGrow
  <2>4. h = i => h \notin Range(blockVars[d])
    BY <1>1, <1>3
  <2> HIDE DEF more
  <2> QED
    BY <2>1, <2>2, <2>3, <2>4
<1>7. ASSUME NEW h \in Ids
      PROVE  /\ Len(variables'[h]) = LevelIn(more, h, d)
             /\ \A k \in DOMAIN variables'[h] : variables'[h][k] \in DOMAIN nodes'
  <2> DEFINE q == variables[h]
  <2>1. /\ q \in Seq(1 .. MaxNodes) /\ Len(q) \in Nat /\ DOMAIN q = 1 .. Len(q)
        /\ Len(q) = LevelIn(blockVars, h, d) /\ \A k \in DOMAIN q : q[k] \in DOMAIN nodes
    BY StackIs, LevelIs DEF StacksInv, d
  <2>2. variables \in [Ids -> Seq(1 .. MaxNodes)]
    BY DEF Typed, TypeOK, IdStacks
  <2>3. CASE h # i
    <3>1. variables'[h] = q
      BY <1>2, <2>2, <2>3
    <3> HIDE DEF q, more
    <3>2. DOMAIN nodes \subseteq DOMAIN nodes'
      BY <1>5
    <3>3. Len(q) = LevelIn(more, h, d)
      BY <1>6, <2>1, <2>3
    <3> QED
      BY <2>1, <3>1, <3>2, <3>3
  <2>4. CASE h = i
    <3> DEFINE p == Append(q, n)
    <3>1. variables'[h] = p
      BY <1>2, <2>2, <2>4
    <3>2. /\ Len(p) = Len(q) + 1 /\ DOMAIN p = 1 .. Len(q) + 1 /\ p[Len(q) + 1] = n
          /\ \A k \in 1 .. Len(q) : p[k] = q[k]
      <4> HIDE DEF q
      <4> QED
        BY <2>1
    <3> HIDE DEF p, q
    <3>3. Len(p) = LevelIn(more, h, d)
      BY <1>6, <2>1, <2>4, <3>2
    <3>4. ASSUME NEW k \in DOMAIN p PROVE p[k] \in DOMAIN nodes'
      <4>1. CASE k = Len(q) + 1
        BY <1>5, <3>2, <4>1
      <4>2. CASE k \in 1 .. Len(q)
        <5>1. p[k] \in 1 .. n - 1
          BY <1>5, <2>1, <3>2, <4>2
        <5> QED
          BY <1>5, <5>1
      <4> QED
        BY <2>1, <3>2, <4>1, <4>2
    <3> QED
      BY <3>1, <3>3, <3>4
  <2> QED
    BY <2>3, <2>4
<1>8. ASSUME NEW j \in DOMAIN more, NEW k \in DOMAIN more[j], NEW l \in DOMAIN more[j],
             more[j][k] = more[j][l]
      PROVE  k = l
  <2>1. CASE j \in 1 .. d - 1
    BY <1>3, <1>4, <1>8, <2>1 DEF ListsGrow, StacksInv
  <2>2. CASE j = d
    <3> DEFINE q == blockVars[d]
               p == Append(q, i)
    <3>1. more[j] = p
      BY <1>4, <2>2 DEF ListsGrow
    <3>2. /\ DOMAIN p = 1 .. Len(q) + 1 /\ p[Len(q) + 1] = i /\ Len(q) \in Nat
          /\ DOMAIN q = 1 .. Len(q) /\ \A m \in 1 .. Len(q) : p[m] = q[m]
      BY <1>3
    <3>3. \A m \in 1 .. Len(q) : q[m] # i
      BY <1>1, <1>3, <3>2 DEF Range
    <3>4. \A m, o \in 1 .. Len(q) : q[m] = q[o] => m = o
      <4>1. d \in DOMAIN blockVars
        BY <1>3
      <4> QED
        BY <3>2, <4>1 DEF StacksInv
    <3>5. p[k] = p[l] /\ k \in 1 .. Len(q) + 1 /\ l \in 1 .. Len(q) + 1
      BY <1>8, <3>1, <3>2
    <3> HIDE DEF p, q
    <3>6. \A m \in 1 .. Len(q) + 1 : m \in 1 .. Len(q) \/ m = Len(q) + 1
      BY <3>2
    <3> QED
      BY <3>2, <3>3, <3>4, <3>5, <3>6
  <2> QED
    BY <1>4, <2>1, <2>2 DEF ListsGrow
<1>9. \A h \in Ids : Level(h, Len(blockVars))' = LevelIn(more, h, d)
  BY <1>4 DEF Level, Listed, LevelIn, ListsGrow
<1> QED
  BY <1>7, <1>8, <1>9 DEF StacksInv

-----------------------------------------------------------------------------
(* Mangled names and the table of symbols *)

LEMMA NodeParts ==
    \A id, mangled, offset, size, f :
       /\ Node(id, mangled, offset, size, f).id = id
       /\ Node(id, mangled, offset, size, f).mangled = mangled
       /\ Node(id, mangled, offset, size, f).func = f
  BY DEF Node

LEMMA PlainParts == \A id : Plain(id).id = id /\ Plain(id).mark = ""
  BY DEF Plain, Mangle

LEMMA InitMangled == Init => MangledInv /\ SymbolsFindEveryNode
<1> SUFFICES ASSUME Init PROVE MangledInv /\ SymbolsFindEveryNode
  OBVIOUS
<1>1. /\ nodes = [n \in 1 .. Len(GlobalSeq) |->
                    Node(GlobalSeq[n], Plain(GlobalSeq[n]), 0, 1, NoFunction)]
      /\ globals = [i \in GlobalIds |-> CHOOSE n \in DOMAIN nodes : nodes[n].id = i]
      /\ symbols = [m \in {Plain(i) : i \in GlobalIds} |-> globals[m.id]]
  BY DEF Init
<1>2. DOMAIN nodes = 1 .. Len(GlobalSeq)
  BY <1>1
<1>3. ASSUME NEW n \in DOMAIN nodes
      PROVE  /\ GlobalSeq[n] \in GlobalIds /\ nodes[n].id = GlobalSeq[n]
             /\ nodes[n].mangled = Plain(GlobalSeq[n]) /\ nodes[n].func = NoFunction
             /\ nodes[n].mangled.id = GlobalSeq[n] /\ nodes[n].mangled.mark = ""
  <2>1. GlobalSeq[n] \in GlobalIds
    BY <1>2, GlobalsInOrder, ElementOfSeq
  <2>2. nodes[n] = Node(GlobalSeq[n], Plain(GlobalSeq[n]), 0, 1, NoFunction)
    <3>1. n \in 1 .. Len(GlobalSeq)
      BY <1>2
    <3> QED
      BY <1>1, <3>1
  <2>3. /\ nodes[n].id = GlobalSeq[n] /\ nodes[n].mangled = Plain(GlobalSeq[n])
        /\ nodes[n].func = NoFunction
    BY <2>2, NodeParts
  <2> QED
    BY <2>1, <2>3, PlainParts
<1>4. ASSUME NEW n \in DOMAIN nodes
      PROVE  nodes[n].mangled \in DOMAIN symbols /\ symbols[nodes[n].mangled] = n
  <2> DEFINE i == GlobalSeq[n]
  <2>1. i \in GlobalIds /\ nodes[n].id = i /\ nodes[n].mangled = Plain(i)
        /\ Plain(i) \in DOMAIN symbols /\ Plain(i).id = i
    BY <1>1, <1>3 DEF Plain, Mangle
  <2>2. globals[i] = n
    <3>1. \A o \in DOMAIN nodes : nodes[o].id = i => o = n
      <4> SUFFICES ASSUME NEW o \in DOMAIN nodes, nodes[o].id = i PROVE o = n
        OBVIOUS
      <4>1. GlobalSeq[o] = GlobalSeq[n] /\ o \in 1 .. Len(GlobalSeq) /\ n \in 1 .. Len(GlobalSeq)
        BY <1>2, <1>3
      <4> QED
        BY <4>1, GlobalsInOrder
    <3>2. globals[i] = CHOOSE o \in DOMAIN nodes : nodes[o].id = i
      BY <1>1, <2>1
    <3> QED
      BY <2>1, <3>1, <3>2
  <2>3. symbols[Plain(i)] = globals[Plain(i).id]
    BY <1>1, <2>1
  <2> QED
    BY <2>1, <2>2, <2>3
<1> QED
  BY <1>3, <1>4 DEF MangledInv, SymbolsFindEveryNode

\* Steps that leave the tree alone and only add to the table.
LEMMA SameSymbols ==
    ASSUME MangledInv, SymbolsFindEveryNode, nodes' = nodes,
           \A m \in DOMAIN symbols : m \in DOMAIN symbols' /\ symbols'[m] = symbols[m]
    PROVE  MangledInv' /\ SymbolsFindEveryNode'
  BY DEF MangledInv, SymbolsFindEveryNode

\* No definition has the name of a parameter of a function that is still to walk.
LEMMA BeginSymbols ==
    ASSUME Typed, NamesInv, MangledInv, SymbolsFindEveryNode, NEW f \in Funcs,
           NEW params \in ParamLists, BeginFunction(f, params)
    PROVE  MangledInv' /\ SymbolsFindEveryNode'
<1> DEFINE old == Len(nodes)
           mangled(k) == Mangle(params[k], "%", Root(f))
           number(i)  == CHOOSE k \in DOMAIN params : params[k] = i
<1>1. /\ DOMAIN nodes = 1 .. old /\ old \in Nat /\ Len(params) \in Nat
      /\ DOMAIN params = 1 .. Len(params)
      /\ DOMAIN nodes' = 1 .. old + Len(params)
      /\ \A n \in 1 .. old : nodes'[n] = nodes[n]
      /\ \A k \in 1 .. Len(params) :
            /\ nodes'[old + k].id = params[k] /\ nodes'[old + k].mangled = mangled(k)
            /\ nodes'[old + k].func = f
  <2>1. Len(params) \in Nat /\ DOMAIN params = 1 .. Len(params) /\ DOMAIN nodes = 1 .. old
        /\ old \in Nat
    BY BeginNodes
  <2>2. DOMAIN nodes' = 1 .. old + Len(params) /\ \A n \in 1 .. old : nodes'[n] = nodes[n]
    BY BeginNodes
  <2>3. ASSUME NEW k \in 1 .. Len(params)
        PROVE  /\ nodes'[old + k].id = params[k] /\ nodes'[old + k].mangled = mangled(k)
               /\ nodes'[old + k].func = f
    BY BeginNodes
  <2> QED
    BY <2>1, <2>2, <2>3
<1>2. symbols' = [m \in DOMAIN symbols \cup {mangled(k) : k \in DOMAIN params} |->
                    IF \E k \in DOMAIN params : m = mangled(k)
                    THEN old + number(m.id) ELSE symbols[m]]
      /\ f \in todo
  BY DEF BeginFunction
<1>3. \A k, l \in DOMAIN params : params[k] = params[l] => k = l
  BY DEF ParamLists, IsInjective
<1>4. f # NoFunction
  BY ScopesAssumption
<1>5. \A k : mangled(k).id = params[k] /\ mangled(k).mark = "%" /\ mangled(k).layer = Root(f)
  BY DEF Mangle
<1> HIDE DEF mangled, old
<1>6. \A k \in DOMAIN params : number(params[k]) = k
  BY <1>3
<1> HIDE DEF number
<1>7. ASSUME NEW n \in 1 .. old
      PROVE  \A k \in DOMAIN params : nodes[n].mangled # mangled(k)
  <2>1. nodes[n].mangled.mark = "%" => nodes[n].mangled.layer # Root(f)
    <3>1. ~Spent(Root(f), todo, blockId)
      BY <1>2, RootFresh
    <3>2. nodes[n].mangled.mark # "" => Spent(nodes[n].mangled.layer, todo, blockId)
      BY <1>1 DEF NamesInv
    <3> QED
      BY <3>1, <3>2
  <2> QED
    BY <1>5, <2>1
<1>8. ASSUME NEW n \in 1 .. old
      PROVE  /\ nodes[n].mangled \in DOMAIN symbols'
             /\ symbols'[nodes[n].mangled] = n
  <2>1. nodes[n].mangled \in DOMAIN symbols /\ symbols[nodes[n].mangled] = n
    BY <1>1 DEF SymbolsFindEveryNode
  <2> QED
    BY <1>2, <1>7, <2>1
<1>9. ASSUME NEW k \in DOMAIN params
      PROVE  mangled(k) \in DOMAIN symbols' /\ symbols'[mangled(k)] = old + k
  <2>1. mangled(k) \in DOMAIN symbols'
    BY <1>2
  <2>2. symbols'[mangled(k)] = old + number(mangled(k).id)
    BY <1>2, <2>1
  <2> QED
    BY <1>5, <1>6, <2>1, <2>2
<1>10. ASSUME NEW n \in DOMAIN nodes', n \notin 1 .. old
       PROVE  \E k \in DOMAIN params : n = old + k
  <2>1. n - old \in 1 .. Len(params) /\ n = old + (n - old)
    BY <1>1, <1>10
  <2> QED
    BY <1>1, <2>1
<1>11. SymbolsFindEveryNode'
  <2> SUFFICES ASSUME NEW n \in DOMAIN nodes'
               PROVE  /\ nodes'[n].mangled \in DOMAIN symbols'
                      /\ symbols'[nodes'[n].mangled] = n
                      /\ nodes'[n].mangled.mark = "" <=> nodes'[n].func = NoFunction
    BY DEF SymbolsFindEveryNode
  <2>1. CASE n \in 1 .. old
    BY <1>1, <1>8, <2>1 DEF SymbolsFindEveryNode
  <2>2. CASE n \notin 1 .. old
    <3>1. PICK k \in DOMAIN params : n = old + k
      BY <1>10, <2>2
    <3>2. nodes'[n].mangled = mangled(k) /\ nodes'[n].func = f
      BY <1>1, <3>1
    <3> QED
      BY <1>4, <1>5, <1>9, <3>1, <3>2
  <2> QED
    BY <2>1, <2>2
<1>12. MangledInv'
  <2> SUFFICES ASSUME NEW n \in DOMAIN nodes'
               PROVE  /\ nodes'[n].mangled.id = nodes'[n].id
                      /\ nodes'[n].mangled.mark = "" =>
                            nodes'[n].mangled = Plain(nodes'[n].id)
                      /\ nodes'[n].mangled.mark = "%" =>
                            nodes'[n].mangled.layer = Root(nodes'[n].func)
    BY DEF MangledInv
  <2>1. CASE n \in 1 .. old
    BY <1>1, <2>1 DEF MangledInv
  <2>2. CASE n \notin 1 .. old
    <3>1. PICK k \in DOMAIN params : n = old + k
      BY <1>10, <2>2
    <3>2. nodes'[n].mangled = mangled(k) /\ nodes'[n].func = f /\ nodes'[n].id = params[k]
      BY <1>1, <3>1
    <3> QED
      BY <1>5, <3>2
  <2> QED
    BY <2>1, <2>2
<1> QED
  BY <1>11, <1>12

\* The name of a new definition is new: the definitions with the name of its block are
\* those the block lists.
LEMMA DeclareSymbols ==
    ASSUME ~MayRedeclare, Typed, NamesInv, StacksInv, MangledInv, SymbolsFindEveryNode,
           NEW i \in Ids, NEW size \in Nat \ {0}, Declare(i, size)
    PROVE  MangledInv' /\ SymbolsFindEveryNode'
<1> DEFINE new == Len(nodes) + 1
           made == Mangle(i, "@", Last(layerNames))
           depth == Len(layerNames)
<1>1. ~IsDuplicate(i) /\ i \notin Range(Last(blockVars))
  BY NeverDropped
<1>2. /\ symbols' = Bind(symbols, made, new) /\ ctl # <<>> /\ Last(ctl) = "block"
  BY <1>1 DEF Declare, Awaits
<1>3. /\ DOMAIN nodes = 1 .. Len(nodes) /\ Len(nodes) \in Nat
      /\ DOMAIN nodes' = 1 .. new
      /\ \A n \in 1 .. Len(nodes) : nodes'[n] = nodes[n]
      /\ nodes'[new].id = i /\ nodes'[new].mangled = made /\ nodes'[new].func = func
  BY <1>1, DeclareNodes
<1>4. /\ depth \in DOMAIN layerNames /\ Last(layerNames) = layerNames[depth]
      /\ Last(blockVars) = blockVars[depth] /\ func # NoFunction
  BY <1>2, InBlock, WalkTypes, ScopesAssumption DEF Last
<1>5. made.id = i /\ made.mark = "@" /\ made.layer = layerNames[depth]
  BY <1>4 DEF Mangle
<1> HIDE DEF new, made, depth
<1>6. ASSUME NEW n \in DOMAIN nodes PROVE nodes[n].mangled # made
  <2> SUFFICES ASSUME nodes[n].mangled = made PROVE FALSE
    OBVIOUS
  <2>1. nodes[n].id = i
    BY <1>5 DEF MangledInv
  <2>2. Listed(nodes[n].id, depth)
    BY <1>4, <1>5 DEF NamesInv, Listing, OfBlock
  <2> QED
    BY <1>1, <1>4, <2>1, <2>2 DEF Listed
<1>7. /\ made \in DOMAIN symbols' /\ symbols'[made] = new
      /\ \A m \in DOMAIN symbols : m # made =>
            m \in DOMAIN symbols' /\ symbols'[m] = symbols[m]
  BY <1>2 DEF Bind
<1>8. ASSUME NEW n \in DOMAIN nodes'
      PROVE  n = new \/ (n \in DOMAIN nodes /\ nodes'[n] = nodes[n])
  BY <1>3 DEF new
<1>9. SymbolsFindEveryNode'
  <2> SUFFICES ASSUME NEW n \in DOMAIN nodes'
               PROVE  /\ nodes'[n].mangled \in DOMAIN symbols'
                      /\ symbols'[nodes'[n].mangled] = n
                      /\ nodes'[n].mangled.mark = "" <=> nodes'[n].func = NoFunction
    BY DEF SymbolsFindEveryNode
  <2>1. CASE n = new
    BY <1>3, <1>4, <1>5, <1>7, <2>1
  <2>2. CASE n \in DOMAIN nodes /\ nodes'[n] = nodes[n]
    BY <1>6, <1>7, <2>2 DEF SymbolsFindEveryNode
  <2> QED
    BY <1>8, <2>1, <2>2
<1>10. MangledInv'
  BY <1>3, <1>5, <1>8 DEF MangledInv
<1> QED
  BY <1>9, <1>10

-----------------------------------------------------------------------------
(* What _globals says of the globals *)

FileOf(tree) == [i \in Ids |->
    IF i \in GlobalIds THEN CHOOSE n \in 1 .. Len(GlobalSeq) : tree[n].id = i ELSE NoNode]

\* The file scope: the position of each global.
File == [i \in Ids |->
    IF i \in GlobalIds THEN CHOOSE n \in 1 .. Len(GlobalSeq) : GlobalSeq[n] = i ELSE NoNode]

HasGlobals(tree) == \A n \in 1 .. Len(GlobalSeq) :
    tree[n] = Node(GlobalSeq[n], Plain(GlobalSeq[n]), 0, 1, NoFunction)

LEMMA FilePosition ==
    ASSUME NEW i \in GlobalIds
    PROVE  /\ i \in Ids /\ File[i] \in 1 .. Len(GlobalSeq) /\ GlobalSeq[File[i]] = i
           /\ \A n \in 1 .. Len(GlobalSeq) : GlobalSeq[n] = i => n = File[i]
<1>1. i \in Ids
  BY ScopesAssumption
<1>2. \E n \in 1 .. Len(GlobalSeq) : GlobalSeq[n] = i
  BY GlobalsInOrder
<1>3. File[i] = CHOOSE n \in 1 .. Len(GlobalSeq) : GlobalSeq[n] = i
  BY <1>1 DEF File
<1>4. File[i] \in 1 .. Len(GlobalSeq) /\ GlobalSeq[File[i]] = i
  BY <1>2, <1>3
<1> QED
  BY <1>1, <1>4, GlobalsInOrder

LEMMA FileIs ==
    ASSUME NEW tree, HasGlobals(tree)
    PROVE  FileOf(tree) = File
<1>1. \A n \in 1 .. Len(GlobalSeq) : tree[n].id = GlobalSeq[n]
  BY NodeParts DEF HasGlobals
<1>2. ASSUME NEW i \in GlobalIds
      PROVE  (CHOOSE n \in 1 .. Len(GlobalSeq) : tree[n].id = i) = File[i]
  <2>1. File[i] \in 1 .. Len(GlobalSeq) /\ tree[File[i]].id = i
    BY <1>1, FilePosition
  <2>2. \A n \in 1 .. Len(GlobalSeq) : tree[n].id = i => n = File[i]
    BY <1>1, FilePosition
  <2> QED
    BY <2>1, <2>2
<1>3. ASSUME NEW i \in Ids PROVE FileOf(tree)[i] = File[i]
  BY <1>2, <1>3 DEF FileOf, File
<1> QED
  BY <1>3 DEF FileOf, File

LEMMA FileScopeIs ==
    /\ HasGlobals(nodes) => FileScope = File
    /\ HasGlobals(nodes') => FileScope' = File
<1>1. FileScope = FileOf(nodes) /\ FileScope' = FileOf(nodes')
  BY DEF FileScope, FileOf
<1> QED
  BY <1>1, FileIs

\* GlobalsInv of the tree, the map and the function it is about.
GoodGlobals(tree, map, f, back) ==
    /\ Len(GlobalSeq) <= Len(tree) /\ HasGlobals(tree) /\ GlobalIds \subseteq DOMAIN map
    /\ \A i \in GlobalIds :
          \/ map[i] = File[i]
          \/ /\ map[i] \in DOMAIN tree /\ tree[map[i]].func # NoFunction
             /\ tree[map[i]].func = f /\ i \in back

LEMMA GlobalsAre ==
    /\ GlobalsInv <=> GoodGlobals(nodes, globals, func, recovers)
    /\ GlobalsInv' <=> GoodGlobals(nodes', globals', func', recovers')
<1>1. \A i \in GlobalIds : IsParam(i) /\ i \in DOMAIN globals <=>
         /\ i \in DOMAIN globals /\ globals[i] \in DOMAIN nodes
         /\ nodes[globals[i]].func # NoFunction /\ nodes[globals[i]].func = func
  BY DEF IsParam, Local
<1>2. \A i \in GlobalIds : IsParam(i)' /\ i \in DOMAIN globals' <=>
         /\ i \in DOMAIN globals' /\ globals'[i] \in DOMAIN nodes'
         /\ nodes'[globals'[i]].func # NoFunction /\ nodes'[globals'[i]].func = func'
  BY DEF IsParam, Local
<1>3. GlobalsInv <=> GoodGlobals(nodes, globals, func, recovers)
  BY <1>1, FileScopeIs DEF GlobalsInv, GoodGlobals, HasGlobals
<1>4. GlobalsInv' <=> GoodGlobals(nodes', globals', func', recovers')
  BY <1>2, FileScopeIs DEF GlobalsInv, GoodGlobals, HasGlobals
<1> QED
  BY <1>3, <1>4

LEMMA InitGlobals == Init => GlobalsInv
<1> SUFFICES ASSUME Init PROVE GlobalsInv
  OBVIOUS
<1>1. /\ nodes = [n \in 1 .. Len(GlobalSeq) |->
                    Node(GlobalSeq[n], Plain(GlobalSeq[n]), 0, 1, NoFunction)]
      /\ globals = [i \in GlobalIds |-> CHOOSE n \in DOMAIN nodes : nodes[n].id = i]
  BY DEF Init
<1>2. Len(GlobalSeq) \in Nat
  BY GlobalsInOrder, ScopesAssumption
<1>3. DOMAIN nodes = 1 .. Len(GlobalSeq) /\ Len(nodes) = Len(GlobalSeq) /\ HasGlobals(nodes)
  BY <1>1, <1>2 DEF HasGlobals
<1>4. ASSUME NEW i \in GlobalIds PROVE globals[i] = File[i]
  <2>1. i \in Ids
    BY FilePosition
  <2>2. globals[i] = CHOOSE n \in 1 .. Len(GlobalSeq) : nodes[n].id = i
    BY <1>1, <1>3
  <2>3. FileOf(nodes)[i] = CHOOSE n \in 1 .. Len(GlobalSeq) : nodes[n].id = i
    BY <2>1 DEF FileOf
  <2> QED
    BY <1>3, <2>2, <2>3, FileIs
<1>5. GlobalIds \subseteq DOMAIN globals
  BY <1>1
<1> QED
  BY <1>2, <1>3, <1>4, <1>5, GlobalsAre DEF GoodGlobals

\* Steps that leave the map and the function alone and may add to the tree.
LEMMA SameGlobals ==
    ASSUME GlobalsInv, UNCHANGED <<globals, func, recovers>>,
           Len(nodes) \in Nat, Len(nodes') \in Nat, Len(nodes) <= Len(nodes'),
           DOMAIN nodes = 1 .. Len(nodes), DOMAIN nodes' = 1 .. Len(nodes'),
           \A n \in 1 .. Len(nodes) : nodes'[n] = nodes[n]
    PROVE  GlobalsInv'
<1>1. Len(GlobalSeq) \in Nat
  BY GlobalsInOrder, ScopesAssumption
<1>2. GoodGlobals(nodes, globals, func, recovers)
  BY GlobalsAre
<1>3. Len(GlobalSeq) <= Len(nodes') /\ HasGlobals(nodes')
  <2>1. \A n \in 1 .. Len(GlobalSeq) : n \in 1 .. Len(nodes)
    BY <1>1, <1>2 DEF GoodGlobals
  <2> QED
    BY <1>1, <1>2, <2>1 DEF GoodGlobals, HasGlobals
<1>4. \A n \in DOMAIN nodes : n \in DOMAIN nodes' /\ nodes'[n] = nodes[n]
  OBVIOUS
<1>5. GoodGlobals(nodes', globals', func', recovers')
  BY <1>2, <1>3, <1>4 DEF GoodGlobals
<1> QED
  BY <1>5, GlobalsAre

\* A parameter that hides a global is one the function gives back.
LEMMA BeginGlobals ==
    ASSUME Typed, GlobalsInv, NEW f \in Funcs, NEW params \in ParamLists,
           BeginFunction(f, params)
    PROVE  GlobalsInv'
<1> DEFINE old == Len(nodes)
           number(i)  == CHOOSE k \in DOMAIN params : params[k] = i
<1>1. /\ DOMAIN nodes = 1 .. old /\ old \in Nat /\ Len(params) \in Nat
      /\ DOMAIN params = 1 .. Len(params)
      /\ DOMAIN nodes' = 1 .. old + Len(params) /\ Len(nodes') = old + Len(params)
      /\ \A n \in 1 .. old : nodes'[n] = nodes[n]
  BY BeginNodes
<1>2. ASSUME NEW k \in 1 .. Len(params) PROVE nodes'[old + k].func = f
  BY BeginNodes
<1>3. /\ globals' = [i \in DOMAIN globals \cup Range(params) |->
                       IF i \in Range(params) THEN old + number(i) ELSE globals[i]]
      /\ recovers' = Range(params) \cap DOMAIN globals
      /\ func = NoFunction /\ func' = f
  BY DEF BeginFunction
<1> HIDE DEF old
<1>4. \A i \in Range(params) : number(i) \in 1 .. Len(params)
  BY <1>1 DEF Range
<1> HIDE DEF number
<1>5. f # NoFunction
  BY ScopesAssumption
<1>6. Len(GlobalSeq) \in Nat
  BY GlobalsInOrder, ScopesAssumption
<1>7. GoodGlobals(nodes, globals, func, recovers)
  BY GlobalsAre
<1>8. Len(GlobalSeq) <= Len(nodes') /\ HasGlobals(nodes')
  <2>1. Len(GlobalSeq) <= old
    BY <1>7 DEF GoodGlobals, old
  <2>2. \A n \in 1 .. Len(GlobalSeq) : n \in 1 .. old
    BY <1>1, <1>6, <2>1
  <2> QED
    BY <1>1, <1>6, <1>7, <2>1, <2>2 DEF GoodGlobals, HasGlobals
<1>9. ASSUME NEW i \in GlobalIds
      PROVE  /\ i \in DOMAIN globals'
             /\ \/ globals'[i] = File[i]
                \/ /\ globals'[i] \in DOMAIN nodes' /\ nodes'[globals'[i]].func # NoFunction
                   /\ nodes'[globals'[i]].func = f /\ i \in recovers'
  <2>1. i \in DOMAIN globals /\ globals[i] = File[i]
    BY <1>3, <1>7 DEF GoodGlobals
  <2>2. CASE i \in Range(params)
    <3>1. PICK k \in 1 .. Len(params) : k = number(i)
      BY <1>4, <2>2
    <3>2. globals'[i] = old + k
      BY <1>3, <2>2, <3>1
    <3>3. old + k \in DOMAIN nodes' /\ nodes'[old + k].func = f
      BY <1>1, <1>2
    <3> QED
      BY <1>3, <1>5, <2>1, <2>2, <3>2, <3>3
  <2>3. CASE i \notin Range(params)
    BY <1>3, <2>1, <2>3
  <2> QED
    BY <2>2, <2>3
<1>10. GoodGlobals(nodes', globals', func', recovers')
  BY <1>3, <1>8, <1>9 DEF GoodGlobals
<1> QED
  BY <1>10, GlobalsAre

\* What a function gives back is the definition of the file.
LEMMA EndGlobals ==
    ASSUME Typed, MangledInv, SymbolsFindEveryNode, GlobalsInv, EndFunction
    PROVE  GlobalsInv'
<1>1. /\ symbols' = [m \in DOMAIN symbols \cup {Plain(i) : i \in recovers} |->
                       IF m \in DOMAIN symbols THEN symbols[m] ELSE NoNode]
      /\ globals' = [i \in DOMAIN globals |->
                       IF i \in recovers THEN symbols'[Plain(i)] ELSE globals[i]]
      /\ nodes' = nodes
  BY DEF EndFunction, GivenBack, frame
<1>2. GoodGlobals(nodes, globals, func, recovers)
  BY GlobalsAre
<1>3. /\ DOMAIN nodes = 1 .. Len(nodes) /\ Len(nodes) \in Nat /\ Len(GlobalSeq) \in Nat
  BY WalkTypes, GlobalsInOrder, ScopesAssumption
<1>4. ASSUME NEW i \in GlobalIds PROVE i \in DOMAIN globals' /\ globals'[i] = File[i]
  <2>1. i \in DOMAIN globals
    BY <1>2 DEF GoodGlobals
  <2>2. CASE i \in recovers
    <3>1. File[i] \in 1 .. Len(GlobalSeq) /\ GlobalSeq[File[i]] = i
      BY FilePosition
    <3>2. File[i] \in DOMAIN nodes
      BY <1>2, <1>3, <3>1 DEF GoodGlobals
    <3>3. nodes[File[i]].mangled = Plain(i)
      BY <1>2, <3>1, NodeParts DEF GoodGlobals, HasGlobals
    <3>4. Plain(i) \in DOMAIN symbols /\ symbols[Plain(i)] = File[i]
      BY <3>2, <3>3 DEF SymbolsFindEveryNode
    <3>5. symbols'[Plain(i)] = File[i]
      BY <1>1, <3>4
    <3> QED
      BY <1>1, <2>1, <2>2, <3>5
  <2>3. CASE i \notin recovers
    BY <1>1, <1>2, <2>1, <2>3 DEF GoodGlobals
  <2> QED
    BY <2>2, <2>3
<1>5. GoodGlobals(nodes', globals', func', recovers')
  BY <1>1, <1>2, <1>4 DEF GoodGlobals
<1> QED
  BY <1>5, GlobalsAre

-----------------------------------------------------------------------------
(* The names of a legal program *)

LEMMA InitResolved == Init => Resolved
  BY InitNames, InitMangled, InitStacks, InitGlobals DEF Resolved

LEMMA BeginResolved ==
    ASSUME Typed, Resolved, NEW f \in Funcs, NEW params \in ParamLists,
           BeginFunction(f, params)
    PROVE  Resolved'
<1>1. variables' = variables /\ blockVars' = blockVars
  BY DEF BeginFunction
<1>2. DOMAIN nodes \subseteq DOMAIN nodes'
  BY BeginNodes
<1>3. NamesInv' /\ MangledInv' /\ SymbolsFindEveryNode' /\ GlobalsInv'
  BY BeginNames, BeginSymbols, BeginGlobals DEF Resolved
<1>4. StacksInv'
  BY <1>1, <1>2, SameStacks DEF Resolved
<1> QED
  BY <1>3, <1>4 DEF Resolved

LEMMA EndResolved == ASSUME Typed, Resolved, EndFunction PROVE Resolved'
<1>1. UNCHANGED <<variables, blockVars, layerNames, blockName, blockId, nodes, todo>>
  BY DEF EndFunction, names, frame
<1>2. \A m \in DOMAIN symbols : m \in DOMAIN symbols' /\ symbols'[m] = symbols[m]
  BY DEF EndFunction
<1>3. NamesInv' /\ StacksInv' /\ GlobalsInv'
  BY <1>1, SameNames, SameStacks, EndGlobals DEF Resolved
<1>4. MangledInv' /\ SymbolsFindEveryNode'
  BY <1>1, <1>2, SameSymbols DEF Resolved
<1> QED
  BY <1>3, <1>4 DEF Resolved

\* The steps that leave the tree, the table and the globals alone.
LEMMA WalkResolved ==
    ASSUME Typed, Resolved, NamesInv', StacksInv',
           UNCHANGED <<nodes, symbols, globals, func, recovers>>
    PROVE  Resolved'
<1>1. MangledInv' /\ SymbolsFindEveryNode'
  BY SameSymbols DEF Resolved
<1>2. GlobalsInv'
  BY WalkTypes, SameGlobals DEF Resolved
<1> QED
  BY <1>1, <1>2 DEF Resolved

LEMMA DeclareResolved ==
    ASSUME ~MayRedeclare, Typed, Resolved, NEW i \in Ids, NEW size \in Nat \ {0},
           Declare(i, size)
    PROVE  Resolved'
<1>1. ~IsDuplicate(i)
  BY NeverDropped DEF Resolved
<1>2. NamesInv' /\ StacksInv' /\ MangledInv' /\ SymbolsFindEveryNode'
  BY <1>1, DeclareNames, DeclareStacks, DeclareSymbols DEF Resolved
<1>3. globals' = globals /\ func' = func /\ recovers' = recovers
  BY DEF Declare
<1>4. /\ DOMAIN nodes = 1 .. Len(nodes) /\ Len(nodes) \in Nat
      /\ DOMAIN nodes' = 1 .. Len(nodes) + 1 /\ Len(nodes') = Len(nodes) + 1
      /\ \A n \in 1 .. Len(nodes) : nodes'[n] = nodes[n]
  BY DeclareNodes
<1>5. GlobalsInv'
  BY <1>3, <1>4, SameGlobals DEF Resolved
<1> QED
  BY <1>2, <1>5 DEF Resolved

LEMMA StepResolved ==
    ASSUME ~MayRedeclare, Typed, Resolved, [WideNext]_vars
    PROVE  Resolved'
<1>1. ASSUME NEW f \in Funcs, NEW params \in ParamLists, BeginFunction(f, params)
      PROVE  Resolved'
  BY <1>1, BeginResolved
<1>2. CASE EndFunction
  BY <1>2, EndResolved
<1>3. CASE OpenBlock
  <2>1. UNCHANGED <<nodes, symbols, globals, func, recovers>>
    BY <1>3 DEF OpenBlock, frame
  <2>2. NamesInv' /\ StacksInv'
    BY <1>3, OpenNames, OpenStacks DEF Resolved
  <2> QED
    BY <2>1, <2>2, WalkResolved
<1>4. CASE CloseBlock
  <2>1. UNCHANGED <<nodes, symbols, globals, func, recovers>>
    BY <1>4 DEF CloseBlock, frame
  <2>2. NamesInv' /\ StacksInv'
    BY <1>4, CloseNames, CloseStacks DEF Resolved
  <2> QED
    BY <2>1, <2>2, WalkResolved
<1>5. CASE BranchStep
  <2>1. UNCHANGED <<nodes, symbols, globals, func, recovers, variables, blockVars>>
    BY <1>5, BranchIs
  <2>2. NamesInv' /\ StacksInv'
    BY <1>5, <2>1, BranchStepNames, SameStacks DEF Resolved
  <2> QED
    BY <2>1, <2>2, WalkResolved
<1>6. CASE Simple \/ UNCHANGED vars
  <2>1. UNCHANGED <<nodes, symbols, globals, func, recovers, variables, blockVars,
                    layerNames, blockName, blockId, todo>>
    BY <1>6 DEF Simple, names, frame, vars
  <2>2. NamesInv' /\ StacksInv'
    BY <2>1, SameNames, SameStacks DEF Resolved
  <2> QED
    BY <2>1, <2>2, WalkResolved
<1>7. ASSUME NEW i \in Ids, NEW size \in Nat \ {0}, Declare(i, size) PROVE Resolved'
  BY <1>7, DeclareResolved
<1> QED
  BY <1>1, <1>2, <1>3, <1>4, <1>5, <1>6, <1>7 DEF WideNext, BranchStep

LEMMA AlwaysResolved ==
    ASSUME ~MayRedeclare
    PROVE  Spec => [](Typed /\ Resolved)
<1>1. Init => Typed /\ Resolved
  BY InitTyped, InitResolved
<1>2. Typed /\ Resolved /\ [WideNext]_vars => Typed' /\ Resolved'
  BY StepTyped, StepResolved
<1> QED
  BY <1>1, <1>2, NextIsWide, PTL DEF Spec

\* In a legal program every definition has a mangled name of its own, whatever blocks are
\* called, and the table of symbols leads from the name to the definition.
THEOREM SymbolsFind ==
    ASSUME ~MayRedeclare
    PROVE  Spec => []SymbolsFindEveryNode
<1>1. Resolved => SymbolsFindEveryNode
  BY DEF Resolved
<1> QED
  BY <1>1, AlwaysResolved, PTL

-----------------------------------------------------------------------------
(* The scopes that are open *)

LEMMA ScopesAre ==
    ASSUME Typed, func # NoFunction
    PROVE  /\ Len(OpenScopes) = Len(blockVars) + 2 /\ Len(blockVars) \in Nat
           /\ DOMAIN OpenScopes = 1 .. Len(blockVars) + 2
           /\ OpenScopes[1] = FileScope /\ OpenScopes[2] = ParamScope
           /\ \A j \in 1 .. Len(blockVars) : OpenScopes[j + 2] = BlockScope(j)
<1> DEFINE d == Len(blockVars)
           blocks == [j \in 1 .. d |-> BlockScope(j)]
           both == <<FileScope, ParamScope>>
<1>1. d \in Nat /\ DOMAIN blockVars = 1 .. d
  BY WalkTypes
<1>2. OpenScopes = both \o blocks
  BY <1>1 DEF OpenScopes
<1>3. Len(both) = 2 /\ both[1] = FileScope /\ both[2] = ParamScope
  OBVIOUS
<1>4. Len(blocks) = d /\ DOMAIN blocks = 1 .. d /\ \A j \in 1 .. d : blocks[j] = BlockScope(j)
  BY <1>1
<1>5. both \in Seq({FileScope, ParamScope}) /\ blocks \in Seq({blocks[j] : j \in 1 .. d})
  BY <1>1
<1> HIDE DEF both, blocks
<1> DEFINE all == both \o blocks
<1>6. /\ Len(all) = Len(both) + Len(blocks) /\ DOMAIN all = 1 .. Len(both) + Len(blocks)
      /\ \A n \in 1 .. Len(both) : all[n] = both[n]
      /\ \A j \in 1 .. Len(blocks) : all[Len(both) + j] = blocks[j]
  <2> DEFINE S == {FileScope, ParamScope}
             T == {blocks[j] : j \in 1 .. d}
  <2>1. both \in Seq(S) /\ blocks \in Seq(T)
    BY <1>5
  <2> HIDE DEF S, T
  <2> QED
    BY <2>1, ConcatIs
<1> HIDE DEF all
<1>7. 1 \in 1 .. 2 /\ 2 \in 1 .. 2 /\ 2 + d = d + 2 /\ \A j \in 1 .. d : 2 + j = j + 2
  BY <1>1
<1>8. OpenScopes = all
  BY <1>2 DEF all
<1>9. /\ Len(all) = d + 2 /\ DOMAIN all = 1 .. d + 2
      /\ all[1] = both[1] /\ all[2] = both[2]
      /\ \A j \in 1 .. d : all[j + 2] = blocks[j]
  BY <1>3, <1>4, <1>6, <1>7
<1> QED
  BY <1>1, <1>3, <1>4, <1>8, <1>9

LEMMA OutsideScopes ==
    ASSUME func = NoFunction
    PROVE  OpenScopes = <<FileScope>>
  BY DEF OpenScopes

\* The innermost scope that declares i decides, and without one there is none.
LEMMA LookupIs ==
    ASSUME Len(OpenScopes) \in Nat, NEW i,
           NEW k \in 1 .. Len(OpenScopes), OpenScopes[k][i] # NoNode,
           \A l \in k + 1 .. Len(OpenScopes) : OpenScopes[l][i] = NoNode
    PROVE  Lexical!Lookup(i) = OpenScopes[k][i]
<1> DEFINE hits == {l \in 1 .. Len(OpenScopes) : OpenScopes[l][i] # NoNode}
<1>1. k \in hits /\ \A l \in hits : l <= k
  OBVIOUS
<1>2. \A m \in hits : (\A l \in hits : l <= m) => m = k
  <2> SUFFICES ASSUME NEW m \in hits, \A l \in hits : l <= m PROVE m = k
    OBVIOUS
  <2>1. k <= m /\ m <= k /\ m \in Int /\ k \in Int
    BY <1>1
  <2> QED
    BY <2>1
<1>3. Lexical!Lookup(i) = IF hits = {} THEN NoNode
         ELSE OpenScopes[CHOOSE m \in hits : \A l \in hits : l <= m][i]
  BY DEF Lexical!Lookup, Lexical!Depth
<1> HIDE DEF hits
<1>4. (CHOOSE m \in hits : \A l \in hits : l <= m) = k
  BY <1>1, <1>2
<1> QED
  BY <1>1, <1>3, <1>4

LEMMA LookupNone ==
    ASSUME NEW i, \A l \in 1 .. Len(OpenScopes) : OpenScopes[l][i] = NoNode
    PROVE  Lexical!Lookup(i) = NoNode
  BY DEF Lexical!Lookup, Lexical!Depth

\* What a block declares: the element of the stack at its level.
LEMMA BlockScopeIs ==
    ASSUME NEW i \in Ids, NEW j
    PROVE  BlockScope(j)[i] =
             IF /\ i \in Range(blockVars[j])
                /\ LevelIn(blockVars, i, j) <= Len(variables[i])
             THEN variables[i][LevelIn(blockVars, i, j)] ELSE NoNode
  BY LevelIs DEF BlockScope, Listed

LEMMA InnermostFound ==
    ASSUME Typed, Resolved, func # NoFunction, NEW i \in Ids,
           Lexical!Lookup(i) # NoNode
    PROVE  Resolve(i) = Lexical!Lookup(i) /\ Resolve(i) \in DOMAIN nodes
<1> DEFINE d == Len(blockVars)
           q == variables[i]
           S == {j \in 1 .. d : i \in Range(blockVars[j])}
<1>1. /\ d \in Nat /\ Len(OpenScopes) = d + 2 /\ OpenScopes[1] = FileScope
      /\ OpenScopes[2] = ParamScope /\ \A j \in 1 .. d : OpenScopes[j + 2] = BlockScope(j)
  BY ScopesAre
<1>2. /\ Len(q) = LevelIn(blockVars, i, d) /\ Len(q) \in Nat /\ DOMAIN q = 1 .. Len(q)
      /\ \A k \in DOMAIN q : q[k] \in DOMAIN nodes
      /\ \A k \in 1 .. Len(q) : q[k] \in Nat \ {0}
  BY LevelIs, StackIs DEF Resolved, StacksInv
<1>3. ASSUME NEW j \in 1 .. d, i \notin Range(blockVars[j]) PROVE OpenScopes[j + 2][i] = NoNode
  BY <1>1, <1>3, BlockScopeIs
<1>4. \A l \in 1 .. d + 2 : l = 1 \/ l = 2 \/ (l - 2 \in 1 .. d /\ l = (l - 2) + 2)
  BY <1>1
<1>5. CASE S # {}
  <2>1. PICK j \in S : \A l \in S : l <= j
    <3>1. S \in SUBSET (1 .. d)
      OBVIOUS
    <3> HIDE DEF S
    <3> QED
      BY <1>1, <1>5, <3>1, MaxIs
  <2>2. j \in 1 .. d /\ i \in Range(blockVars[j]) /\ j \in Nat /\ j <= d
    BY <1>1
  <2>3. \A l \in j + 1 .. d : i \notin Range(blockVars[l])
    <3> SUFFICES ASSUME NEW l \in j + 1 .. d, i \in Range(blockVars[l]) PROVE FALSE
      OBVIOUS
    <3>1. l \in 1 .. d /\ l > j
      BY <1>1, <2>2
    <3>2. l \in S
      BY <3>1
    <3> QED
      BY <2>1, <3>1, <3>2
  <2>4. LevelIn(blockVars, i, j) = Len(q)
    BY <1>1, <1>2, <2>2, <2>3, LevelStays
  <2>5. Len(q) # 0
    BY <1>1, <1>2, <2>2, LevelBounds
  <2>6. BlockScope(j)[i] = q[Len(q)]
    BY <1>2, <2>2, <2>4, BlockScopeIs
  <2>7. q[Len(q)] \in DOMAIN nodes /\ q[Len(q)] # NoNode /\ q # <<>>
    BY <1>2, <2>5 DEF NoNode
  <2>8. ASSUME NEW l \in j + 2 + 1 .. Len(OpenScopes) PROVE OpenScopes[l][i] = NoNode
    <3>1. l - 2 \in j + 1 .. d /\ l - 2 \in 1 .. d /\ l = (l - 2) + 2
      BY <1>1, <2>2
    <3> QED
      BY <1>3, <2>3, <3>1
  <2>9. j + 2 \in 1 .. Len(OpenScopes) /\ Len(OpenScopes) \in Nat
    BY <1>1, <2>2
  <2>10. OpenScopes[j + 2][i] = q[Len(q)]
    BY <1>1, <2>2, <2>6
  <2>11. Lexical!Lookup(i) = q[Len(q)]
    BY <2>7, <2>8, <2>9, <2>10, LookupIs
  <2>12. Resolve(i) = q[Len(q)]
    BY <2>7 DEF Resolve, Last
  <2> QED
    BY <2>7, <2>11, <2>12
<1>6. CASE S = {}
  <2>1. \A j \in 1 .. d : i \notin Range(blockVars[j])
    BY <1>6
  <2>2. q = <<>>
    <3>1. Len(q) = 0
      BY <1>1, <1>2, <2>1, LevelBounds
    <3>2. q \in Seq(1 .. MaxNodes)
      BY StackIs
    <3> HIDE DEF q
    <3> QED
      BY <3>1, <3>2
  <2>3. Resolve(i) = globals[i]
    BY <2>2 DEF Resolve
  <2>4. ASSUME NEW l \in 3 .. Len(OpenScopes) PROVE OpenScopes[l][i] = NoNode
    <3>1. l - 2 \in 1 .. d /\ l = (l - 2) + 2
      BY <1>1
    <3> QED
      BY <1>3, <2>1, <3>1
  <2>5. OpenScopes[2][i] = IF IsParam(i) THEN globals[i] ELSE NoNode
    BY <1>1 DEF ParamScope
  <2>6. Len(OpenScopes) \in Nat /\ 2 \in 1 .. Len(OpenScopes) /\ 1 \in 1 .. Len(OpenScopes)
        /\ 2 + 1 = 3 /\ \A l \in 1 + 1 .. Len(OpenScopes) : l = 2 \/ l \in 3 .. Len(OpenScopes)
    BY <1>1
  <2>7. CASE IsParam(i)
    <3>1. globals[i] \in DOMAIN nodes /\ globals[i] # NoNode
      BY <2>7, WalkTypes DEF IsParam, Local, NoNode
    <3>2. Lexical!Lookup(i) = OpenScopes[2][i]
      BY <2>4, <2>5, <2>6, <2>7, <3>1, LookupIs
    <3> QED
      BY <2>3, <2>5, <2>7, <3>1, <3>2
  <2>8. CASE ~IsParam(i)
    <3>1. \A l \in 1 + 1 .. Len(OpenScopes) : OpenScopes[l][i] = NoNode
      BY <2>4, <2>5, <2>6, <2>8
    <3>2. GoodGlobals(nodes, globals, func, recovers) /\ FileScope = File
      BY GlobalsAre, FileScopeIs DEF Resolved, GoodGlobals
    <3>3. CASE i \in GlobalIds
      <4>1. globals[i] = File[i]
        BY <2>8, <3>2, <3>3 DEF GoodGlobals, IsParam, Local
      <4>2. File[i] \in 1 .. Len(GlobalSeq) /\ Len(GlobalSeq) <= Len(nodes)
        BY <3>2, <3>3, FilePosition DEF GoodGlobals
      <4>3. Len(GlobalSeq) \in Nat
        BY GlobalsInOrder, ScopesAssumption
      <4>4. File[i] \in DOMAIN nodes /\ File[i] # NoNode
        BY <4>2, <4>3, WalkTypes DEF NoNode
      <4>5. OpenScopes[1][i] = File[i]
        BY <1>1, <3>2
      <4>6. Lexical!Lookup(i) = OpenScopes[1][i]
        BY <2>6, <3>1, <4>4, <4>5, LookupIs
      <4> QED
        BY <2>3, <4>1, <4>4, <4>5, <4>6
    <3>4. CASE i \notin GlobalIds
      <4>1. OpenScopes[1][i] = NoNode
        BY <1>1, <3>2, <3>4 DEF File
      <4>2. \A l \in 1 .. Len(OpenScopes) : l = 1 \/ l \in 1 + 1 .. Len(OpenScopes)
        BY <2>6
      <4>3. \A l \in 1 .. Len(OpenScopes) : OpenScopes[l][i] = NoNode
        BY <3>1, <4>1, <4>2
      <4> QED
        BY <4>3, LookupNone
    <3> QED
      BY <3>3, <3>4
  <2> QED
    BY <2>7, <2>8
<1> QED
  BY <1>5, <1>6

\* In a legal program every use of an identifier finds its innermost declaration, by the
\* stacks of Sema and through the table of symbols.
THEOREM UsesFind ==
    ASSUME ~MayRedeclare
    PROVE  Spec => []UsesFindInnermost
<1>1. Typed /\ Resolved => UsesFindInnermost
  <2> SUFFICES ASSUME Typed, Resolved, func # NoFunction, NEW i \in Ids,
                      Lexical!Lookup(i) # NoNode
               PROVE  /\ Resolve(i) = Lexical!Lookup(i)
                      /\ symbols[nodes[Resolve(i)].mangled] = Lexical!Lookup(i)
    BY DEF UsesFindInnermost
  <2>1. Resolve(i) = Lexical!Lookup(i) /\ Resolve(i) \in DOMAIN nodes
    BY InnermostFound
  <2>2. symbols[nodes[Resolve(i)].mangled] = Resolve(i)
    BY <2>1 DEF Resolved, SymbolsFindEveryNode
  <2> QED
    BY <2>1, <2>2
<1> QED
  BY <1>1, AlwaysResolved, PTL

-----------------------------------------------------------------------------
(* Refinement: every step of the walk is a step of the scopes or none *)

BlockOf(stacks, lists, j) == [i \in Ids |->
    IF i \in Range(lists[j]) /\ LevelIn(lists, i, j) <= Len(stacks[i])
    THEN stacks[i][LevelIn(lists, i, j)] ELSE NoNode]

ParamsOf(map, tree, f) == [i \in Ids |->
    IF /\ i \in DOMAIN map /\ map[i] \in DOMAIN tree
       /\ tree[map[i]].func # NoFunction /\ tree[map[i]].func = f
    THEN map[i] ELSE NoNode]

ScopesOf(stacks, lists, params) ==
    <<File, params>> \o [j \in DOMAIN lists |-> BlockOf(stacks, lists, j)]

LEMMA OpenScopesAre ==
    /\ GlobalsInv => OpenScopes =
          IF func = NoFunction THEN <<File>>
          ELSE ScopesOf(variables, blockVars, ParamsOf(globals, nodes, func))
    /\ GlobalsInv' => OpenScopes' =
          IF func' = NoFunction THEN <<File>>
          ELSE ScopesOf(variables', blockVars', ParamsOf(globals', nodes', func'))
<1>1. GlobalsInv => FileScope = File
  BY FileScopeIs, GlobalsAre DEF GoodGlobals
<1>2. GlobalsInv' => FileScope' = File
  BY FileScopeIs, GlobalsAre DEF GoodGlobals
<1>3. ParamScope = ParamsOf(globals, nodes, func)
  BY DEF ParamScope, ParamsOf, IsParam, Local
<1>4. ParamScope' = ParamsOf(globals', nodes', func')
  BY DEF ParamScope, ParamsOf, IsParam, Local
<1>5. [j \in DOMAIN blockVars |-> BlockScope(j)] =
         [j \in DOMAIN blockVars |-> BlockOf(variables, blockVars, j)]
  BY DEF BlockScope, BlockOf, Listed, Level, LevelIn
<1>6. [j \in DOMAIN blockVars |-> BlockScope(j)]' =
         [j \in DOMAIN blockVars' |-> BlockOf(variables', blockVars', j)]
  BY DEF BlockScope, BlockOf, Listed, Level, LevelIn
<1>7. ASSUME GlobalsInv
      PROVE  OpenScopes =
                IF func = NoFunction THEN <<File>>
                ELSE ScopesOf(variables, blockVars, ParamsOf(globals, nodes, func))
  BY <1>1, <1>3, <1>5, <1>7 DEF OpenScopes, ScopesOf
<1>8. ASSUME GlobalsInv'
      PROVE  OpenScopes' =
                IF func' = NoFunction THEN <<File>>
                ELSE ScopesOf(variables', blockVars', ParamsOf(globals', nodes', func'))
  BY <1>2, <1>4, <1>6, <1>8 DEF OpenScopes, ScopesOf
<1> QED
  BY <1>7, <1>8

\* The scopes as a sequence: the file, the parameters, the blocks.
IsScopes(s, stacks, lists, params, d) ==
    /\ \E T : s \in Seq(T)
    /\ Len(s) = d + 2 /\ s[1] = File /\ s[2] = params
    /\ \A j \in 1 .. d : s[j + 2] = BlockOf(stacks, lists, j)

LEMMA ScopesOfIs ==
    ASSUME NEW stacks, NEW lists, NEW params, NEW d \in Nat, DOMAIN lists = 1 .. d
    PROVE  IsScopes(ScopesOf(stacks, lists, params), stacks, lists, params, d)
<1> DEFINE blocks == [j \in 1 .. d |-> BlockOf(stacks, lists, j)]
           both == <<File, params>>
           all == both \o blocks
<1>1. ScopesOf(stacks, lists, params) = all
  BY DEF ScopesOf
<1>2. Len(both) = 2 /\ both[1] = File /\ both[2] = params
  OBVIOUS
<1>3. /\ Len(blocks) = d /\ DOMAIN blocks = 1 .. d
      /\ \A j \in 1 .. d : blocks[j] = BlockOf(stacks, lists, j)
  OBVIOUS
<1>4. \E S, T : both \in Seq(S) /\ blocks \in Seq(T)
  <2>1. both \in Seq({File, params}) /\ blocks \in Seq({blocks[j] : j \in 1 .. d})
    OBVIOUS
  <2> QED
    BY <2>1
<1> HIDE DEF both, blocks
<1>5. /\ Len(all) = Len(both) + Len(blocks)
      /\ \A n \in 1 .. Len(both) : all[n] = both[n]
      /\ \A j \in 1 .. Len(blocks) : all[Len(both) + j] = blocks[j]
      /\ \E T : all \in Seq(T)
  <2>1. PICK S, T : both \in Seq(S) /\ blocks \in Seq(T)
    BY <1>4
  <2>2. both \in Seq(S \cup T) /\ blocks \in Seq(S \cup T)
    BY <2>1
  <2>3. all \in Seq(S \cup T)
    BY <2>2
  <2> QED
    BY <2>1, <2>3, ConcatIs
<1> HIDE DEF all
<1>6. 1 \in 1 .. 2 /\ 2 \in 1 .. 2 /\ 2 + d = d + 2 /\ \A j \in 1 .. d : 2 + j = j + 2
  OBVIOUS
<1>7. /\ Len(all) = d + 2 /\ all[1] = both[1] /\ all[2] = both[2]
      /\ \A j \in 1 .. d : all[j + 2] = blocks[j]
  BY <1>2, <1>3, <1>5, <1>6
<1> QED
  BY <1>1, <1>2, <1>3, <1>5, <1>7 DEF IsScopes

LEMMA Positions ==
    ASSUME NEW d \in Nat, NEW n \in 1 .. d + 2
    PROVE  n = 1 \/ n = 2 \/ \E j \in 1 .. d : n = j + 2
<1>1. n = 1 \/ n = 2 \/ (n - 2 \in 1 .. d /\ n = (n - 2) + 2)
  OBVIOUS
<1> QED
  BY <1>1

\* A block looks the same when its lists and the elements they stand for do.
LEMMA BlockSame ==
    ASSUME NEW stacks, NEW lists, NEW stacks2, NEW lists2, NEW j \in Nat \ {0},
           \A k \in 1 .. j : Range(lists2[k]) = Range(lists[k]),
           \A i \in Ids : i \in Range(lists[j]) =>
              /\ LevelIn(lists, i, j) <= Len(stacks[i])
              /\ LevelIn(lists, i, j) <= Len(stacks2[i])
              /\ stacks2[i][LevelIn(lists, i, j)] = stacks[i][LevelIn(lists, i, j)]
    PROVE  BlockOf(stacks2, lists2, j) = BlockOf(stacks, lists, j)
<1>1. j \in 1 .. j
  OBVIOUS
<1>2. \A i : LevelIn(lists2, i, j) = LevelIn(lists, i, j)
  BY LevelSame
<1> QED
  BY <1>1, <1>2 DEF BlockOf

LEMMA OpenIs ==
    ASSUME Typed, Resolved, func # NoFunction
    PROVE  /\ IsScopes(OpenScopes, variables, blockVars, ParamsOf(globals, nodes, func),
                       Len(blockVars))
           /\ Len(blockVars) \in Nat /\ DOMAIN blockVars = 1 .. Len(blockVars)
<1>1. Len(blockVars) \in Nat /\ DOMAIN blockVars = 1 .. Len(blockVars)
  BY WalkTypes
<1>2. OpenScopes = ScopesOf(variables, blockVars, ParamsOf(globals, nodes, func))
  BY OpenScopesAre DEF Resolved
<1> QED
  BY <1>1, <1>2, ScopesOfIs

LEMMA OpenIsNext ==
    ASSUME Typed', Resolved', func' # NoFunction
    PROVE  /\ IsScopes(OpenScopes', variables', blockVars', ParamsOf(globals', nodes', func'),
                       Len(blockVars'))
           /\ Len(blockVars') \in Nat /\ DOMAIN blockVars' = 1 .. Len(blockVars')
<1>1. Len(blockVars') \in Nat /\ DOMAIN blockVars' = 1 .. Len(blockVars')
  <2>1. blockVars' \in Seq(Seq(Ids))
    BY DEF Typed, TypeOK
  <2> QED
    BY <2>1
<1>2. OpenScopes' = ScopesOf(variables', blockVars', ParamsOf(globals', nodes', func'))
  BY OpenScopesAre DEF Resolved
<1> QED
  BY <1>1, <1>2, ScopesOfIs

\* The level of an identifier in a block that lists it is a position of its stack.
LEMMA ListedLevel ==
    ASSUME StacksInv, Len(blockVars) \in Nat, NEW j \in 1 .. Len(blockVars),
           NEW i \in Ids, i \in Range(blockVars[j])
    PROVE  LevelIn(blockVars, i, j) \in 1 .. Len(variables[i]) /\ Len(variables[i]) \in Nat
<1>1. Len(variables[i]) = LevelIn(blockVars, i, Len(blockVars))
  BY LevelIs DEF StacksInv
<1>2. LevelIn(blockVars, i, j) \in Nat /\ LevelIn(blockVars, i, Len(blockVars)) \in Nat
  BY LevelBounds
<1>3. LevelIn(blockVars, i, j) # 0
  <2>1. j \in 1 .. j
    OBVIOUS
  <2> QED
    BY <2>1, LevelBounds
<1>4. LevelIn(blockVars, i, j) <= LevelIn(blockVars, i, Len(blockVars))
  BY LevelGrows
<1> QED
  BY <1>1, <1>2, <1>3, <1>4

LEMMA OpenRefines ==
    ASSUME Typed, Resolved, Typed', Resolved', OpenBlock
    PROVE  Lexical!EnterBlock
<1> DEFINE d == Len(blockVars)
           p == ParamsOf(globals, nodes, func)
<1>1. /\ blockVars' = Append(blockVars, <<>>) /\ variables' = variables /\ nodes' = nodes
      /\ globals' = globals /\ func' = func
  BY DEF OpenBlock, frame
<1>2. func # NoFunction
  <2>1. ctl # <<>>
    BY DEF OpenBlock, StatementDue, Awaits
  <2> QED
    BY <2>1 DEF Typed, Shape
<1>3. IsScopes(OpenScopes, variables, blockVars, p, d) /\ d \in Nat
  BY <1>2, OpenIs
<1>4. IsScopes(OpenScopes', variables, blockVars', p, d + 1)
  <2>1. Len(blockVars') = d + 1
    BY <1>1, WalkTypes
  <2> QED
    BY <1>1, <1>2, <2>1, OpenIsNext
<1>5. blockVars'[d + 1] = <<>> /\ \A j \in 1 .. d : blockVars'[j] = blockVars[j]
  BY <1>1, WalkTypes
<1>6. StacksInv
  BY DEF Resolved
<1> HIDE DEF d, p
<1>7. ASSUME NEW j \in 1 .. d
      PROVE  BlockOf(variables, blockVars', j) = BlockOf(variables, blockVars, j)
  <2>1. j \in Nat \ {0} /\ \A k \in 1 .. j : Range(blockVars'[k]) = Range(blockVars[k])
    BY <1>3, <1>5
  <2>2. \A i \in Ids : i \in Range(blockVars[j]) =>
           LevelIn(blockVars, i, j) <= Len(variables[i])
    <3> SUFFICES ASSUME NEW i \in Ids, i \in Range(blockVars[j])
                 PROVE  LevelIn(blockVars, i, j) <= Len(variables[i])
      OBVIOUS
    <3>1. LevelIn(blockVars, i, j) \in 1 .. Len(variables[i]) /\ Len(variables[i]) \in Nat
      BY <1>3, <1>6, ListedLevel DEF d
    <3> QED
      BY <3>1
  <2> QED
    BY <2>1, <2>2, BlockSame
<1>8. BlockOf(variables, blockVars', d + 1) = Lexical!Blank
  <2>1. Range(blockVars'[d + 1]) = {}
    BY <1>5 DEF Range
  <2> QED
    BY <2>1 DEF BlockOf, Lexical!Blank
<1>9. OpenScopes' = Append(OpenScopes, Lexical!Blank)
  <2> DEFINE s == OpenScopes
             t == OpenScopes'
             blank == Lexical!Blank
  <2>1. PICK S, T : s \in Seq(S) /\ t \in Seq(T)
    BY <1>3, <1>4 DEF IsScopes
  <2>2. /\ Len(s) = d + 2 /\ Len(t) = d + 1 + 2 /\ t[d + 1 + 2] = blank
        /\ \A n \in 1 .. d + 2 : t[n] = s[n]
    <3>1. Len(s) = d + 2 /\ Len(t) = d + 1 + 2 /\ s[1] = t[1] /\ s[2] = t[2]
      BY <1>3, <1>4 DEF IsScopes
    <3>2. t[d + 1 + 2] = blank
      <4>1. d + 1 \in 1 .. d + 1
        BY <1>3
      <4> QED
        BY <1>4, <1>8, <4>1 DEF IsScopes
    <3>3. ASSUME NEW n \in 1 .. d + 2 PROVE t[n] = s[n]
      <4>1. CASE \E j \in 1 .. d : n = j + 2
        <5>1. PICK j \in 1 .. d : n = j + 2
          BY <4>1
        <5>2. j \in 1 .. d + 1
          BY <1>3
        <5>3. s[n] = BlockOf(variables, blockVars, j) /\ t[n] = BlockOf(variables, blockVars', j)
          BY <1>3, <1>4, <5>1, <5>2 DEF IsScopes
        <5> QED
          BY <1>7, <5>3
      <4> QED
        BY <1>3, <3>1, <4>1, Positions
    <3> QED
      BY <3>1, <3>2, <3>3
  <2> HIDE DEF s, t, blank
  <2>3. t = Append(s, blank)
    <3>1. s \in Seq(S \cup T \cup {blank}) /\ t \in Seq(S \cup T \cup {blank})
      BY <2>1
    <3>2. /\ Append(s, blank) \in Seq(S \cup T \cup {blank})
          /\ Len(Append(s, blank)) = d + 2 + 1 /\ Append(s, blank)[d + 2 + 1] = blank
          /\ \A n \in 1 .. d + 2 : Append(s, blank)[n] = s[n]
      BY <2>2, <3>1
    <3>3. d + 2 + 1 = d + 1 + 2 /\ \A n \in 1 .. d + 2 + 1 : n \in 1 .. d + 2 \/ n = d + 2 + 1
      BY <1>3
    <3> DEFINE u == Append(s, blank)
    <3>4. \A n \in 1 .. Len(t) : t[n] = u[n]
      <4> HIDE DEF u
      <4> QED
        BY <2>2, <3>2, <3>3 DEF u
    <3> QED
      BY <2>2, <3>1, <3>2, <3>3, <3>4, SeqEqual
  <2> QED
    BY <2>3 DEF s, t, blank
<1>10. Lexical!Depth > 1
  BY <1>3 DEF Lexical!Depth, IsScopes
<1> QED
  BY <1>1, <1>9, <1>10 DEF Lexical!EnterBlock

\* A sequence without its last element, and one with its last element replaced.
LEMMA ShorterIs ==
    ASSUME NEW S, NEW s \in Seq(S), NEW T, NEW t \in Seq(T), NEW n \in Nat,
           Len(t) = n, Len(s) = n + 1, \A k \in 1 .. n : t[k] = s[k]
    PROVE  t = SubSeq(s, 1, Len(s) - 1)
<1> DEFINE u == SubSeq(s, 1, n)
<1>1. n + 1 - 1 = n /\ Len(s) - 1 = n
  OBVIOUS
<1>2. u \in Seq(S) /\ Len(u) = n /\ \A k \in 1 .. n : u[k] = s[k]
  <2>1. /\ SubSeq(s, 1, Len(s) - 1) \in Seq(S)
        /\ 1 <= Len(s) => Len(SubSeq(s, 1, Len(s) - 1)) = Len(s) - 1
        /\ \A k \in 1 .. Len(s) - 1 : SubSeq(s, 1, Len(s) - 1)[k] = s[k]
    BY CutIs
  <2>2. SubSeq(s, 1, Len(s) - 1) = u /\ 1 <= Len(s)
    BY <1>1
  <2> HIDE DEF u
  <2> QED
    BY <1>1, <2>1, <2>2
<1> HIDE DEF u
<1>3. t \in Seq(S \cup T) /\ u \in Seq(S \cup T)
  BY <1>2
<1>4. Len(t) = Len(u) /\ \A k \in 1 .. Len(t) : t[k] = u[k]
  BY <1>2
<1>5. t = u
  BY <1>3, <1>4, SeqEqual
<1> QED
  BY <1>1, <1>5 DEF u

LEMMA CloseRefines ==
    ASSUME Typed, Resolved, Typed', Resolved', CloseBlock
    PROVE  Lexical!Leave
<1> DEFINE d == Len(blockVars)
           p == ParamsOf(globals, nodes, func)
           closing == Last(blockVars)
<1>1. /\ blockVars' = Front(blockVars) /\ variables' = Popped(closing) /\ nodes' = nodes
      /\ globals' = globals /\ func' = func /\ ctl # <<>> /\ Last(ctl) = "block"
  BY DEF CloseBlock, Awaits, frame
<1>2. func # NoFunction /\ blockVars # <<>>
  BY <1>1, InBlock, ScopesAssumption
<1>3. /\ d \in Nat \ {0} /\ Len(blockVars') = d - 1
      /\ \A j \in 1 .. d - 1 : blockVars'[j] = blockVars[j]
      /\ closing = blockVars[d] /\ closing \in Seq(Ids) /\ DOMAIN blockVars = 1 .. d
  <2>1. blockVars \in Seq(Seq(Ids)) /\ d \in Nat \ {0} /\ DOMAIN blockVars = 1 .. d
    BY <1>2, WalkTypes
  <2>2. /\ Len(blockVars') = d - 1 /\ closing = blockVars[d] /\ closing \in Seq(Ids)
        /\ \A j \in 1 .. d - 1 : blockVars'[j] = blockVars[j]
    BY <1>1, <1>2, <2>1, FrontIs
  <2> QED
    BY <2>1, <2>2
<1>4. IsScopes(OpenScopes, variables, blockVars, p, d)
  BY <1>2, OpenIs
<1>5. IsScopes(OpenScopes', variables', blockVars', p, d - 1)
  BY <1>1, <1>2, <1>3, OpenIsNext
<1>6. StacksInv /\ StacksInv'
  BY DEF Resolved
<1> HIDE DEF p
<1>7. \A k, l \in DOMAIN closing : closing[k] = closing[l] => k = l
  <2>1. d \in DOMAIN blockVars
    BY <1>3
  <2> QED
    BY <1>3, <1>6, <2>1 DEF StacksInv
<1> HIDE DEF d, closing
<1>8. ASSUME NEW j \in 1 .. d - 1
      PROVE  BlockOf(variables', blockVars', j) = BlockOf(variables, blockVars, j)
  <2>1. /\ j \in Nat \ {0} /\ j \in 1 .. d /\ d - 1 \in Nat
        /\ \A k \in 1 .. j : Range(blockVars'[k]) = Range(blockVars[k])
    BY <1>3
  <2>2. ASSUME NEW i \in Ids, i \in Range(blockVars[j])
        PROVE  /\ LevelIn(blockVars, i, j) <= Len(variables[i])
               /\ LevelIn(blockVars, i, j) <= Len(variables'[i])
               /\ variables'[i][LevelIn(blockVars, i, j)] =
                     variables[i][LevelIn(blockVars, i, j)]
    <3> DEFINE level == LevelIn(blockVars, i, j)
    <3>1. level \in 1 .. Len(variables[i]) /\ Len(variables[i]) \in Nat
      BY <1>3, <1>6, <2>1, <2>2, ListedLevel DEF d
    <3>2. Len(variables'[i]) = LevelIn(blockVars', i, d - 1)
      BY <1>3, <1>6 DEF StacksInv, Level, LevelIn, Listed
    <3>3. LevelIn(blockVars', i, d - 1) = LevelIn(blockVars, i, d - 1)
      BY <1>3, LevelSame
    <3>4. level <= LevelIn(blockVars, i, d - 1) /\ LevelIn(blockVars, i, d - 1) \in Nat
      BY <1>3, <2>1, LevelGrows, LevelBounds
    <3>5. \A k \in 1 .. Len(variables'[i]) : variables'[i][k] = variables[i][k]
      BY <1>1, <1>3, <1>7, PoppedIs
    <3> HIDE DEF level
    <3>6. level \in 1 .. Len(variables'[i])
      BY <3>1, <3>2, <3>3, <3>4
    <3>7. /\ level <= Len(variables[i]) /\ level <= Len(variables'[i])
          /\ variables'[i][level] = variables[i][level]
      BY <3>1, <3>2, <3>3, <3>4, <3>5, <3>6
    <3> QED
      BY <3>7 DEF level
  <2> QED
    BY <2>1, <2>2, BlockSame
<1>9. OpenScopes' = SubSeq(OpenScopes, 1, Lexical!Depth - 1)
  <2> DEFINE s == OpenScopes
             t == OpenScopes'
  <2>1. PICK S, T : s \in Seq(S) /\ t \in Seq(T)
    BY <1>4, <1>5 DEF IsScopes
  <2>2. Len(s) = d + 2 /\ Len(t) = d - 1 + 2 /\ s[1] = t[1] /\ s[2] = t[2]
    BY <1>4, <1>5 DEF IsScopes
  <2>3. d - 1 + 2 = d + 1 /\ d + 2 = (d + 1) + 1 /\ d + 1 \in Nat /\ d - 1 \in Nat
    BY <1>3
  <2>4. ASSUME NEW n \in 1 .. d - 1 + 2 PROVE t[n] = s[n]
    <3>1. CASE \E j \in 1 .. d - 1 : n = j + 2
      <4>1. PICK j \in 1 .. d - 1 : n = j + 2
        BY <3>1
      <4>2. j \in 1 .. d
        BY <1>3
      <4>3. /\ s[n] = BlockOf(variables, blockVars, j)
            /\ t[n] = BlockOf(variables', blockVars', j)
        BY <1>4, <1>5, <4>1, <4>2 DEF IsScopes
      <4> QED
        BY <1>8, <4>3
    <3> QED
      BY <2>2, <2>3, <3>1, Positions
  <2>5. Lexical!Depth = Len(s)
    BY DEF Lexical!Depth
  <2> HIDE DEF s, t
  <2>6. t = SubSeq(s, 1, Len(s) - 1)
    BY <2>1, <2>2, <2>3, <2>4, ShorterIs
  <2> QED
    BY <2>5, <2>6 DEF s, t
<1>10. Lexical!Depth > 1
  BY <1>3, <1>4 DEF Lexical!Depth, IsScopes
<1> QED
  BY <1>1, <1>9, <1>10 DEF Lexical!Leave

LEMMA EndRefines ==
    ASSUME Typed, Resolved, Typed', Resolved', EndFunction
    PROVE  Lexical!Leave
<1> DEFINE p == ParamsOf(globals, nodes, func)
<1>1. func # NoFunction /\ ctl = <<>> /\ func' = NoFunction /\ nodes' = nodes
  BY DEF EndFunction, frame
<1>2. OpenScopes' = <<File>>
  BY <1>1, OpenScopesAre DEF Resolved
<1>3. Len(blockVars) = 0
  BY <1>1, Outside
<1>4. IsScopes(OpenScopes, variables, blockVars, p, 0)
  BY <1>1, <1>3, OpenIs
<1>5. Len(OpenScopes) = 2 /\ OpenScopes[1] = File /\ \E S : OpenScopes \in Seq(S)
  BY <1>4 DEF IsScopes
<1>6. OpenScopes' = SubSeq(OpenScopes, 1, Lexical!Depth - 1)
  <2> DEFINE s == OpenScopes
             t == <<File>>
  <2>1. PICK S : s \in Seq(S)
    BY <1>5
  <2>2. t \in Seq({File}) /\ Len(t) = 1 /\ Len(s) = 1 + 1
        /\ \A n \in 1 .. 1 : t[n] = s[n]
    BY <1>5
  <2>3. Lexical!Depth = Len(s)
    BY DEF Lexical!Depth
  <2> HIDE DEF s, t
  <2>4. t = SubSeq(s, 1, Len(s) - 1)
    BY <2>1, <2>2, ShorterIs
  <2> QED
    BY <1>2, <2>3, <2>4 DEF s, t
<1>7. Lexical!Depth > 1
  BY <1>5 DEF Lexical!Depth
<1> QED
  BY <1>1, <1>6, <1>7 DEF Lexical!Leave

\* Steps that change no scope.
LEMMA SameScopes ==
    ASSUME UNCHANGED <<variables, globals, blockVars, nodes, func>>
    PROVE  UNCHANGED <<OpenScopes, Len(nodes)>>
  BY DEF OpenScopes, FileScope, ParamScope, BlockScope, IsParam, Local, Listed, Level

\* A function enters the scope of its parameters, each a new definition.
LEMMA BeginRefines ==
    ASSUME Typed, Resolved, Typed', Resolved', Walked, NEW f \in Funcs,
           NEW params \in ParamLists, BeginFunction(f, params)
    PROVE  Lexical!EnterFunction
<1> DEFINE old == Len(nodes)
           more == Len(params)
           number(i) == CHOOSE k \in DOMAIN params : params[k] = i
           p == ParamsOf(globals', nodes', f)
<1>1. /\ DOMAIN nodes = 1 .. old /\ old \in Nat /\ more \in Nat
      /\ params \in Seq(Ids) /\ DOMAIN params = 1 .. more
      /\ DOMAIN nodes' = 1 .. old + more /\ Len(nodes') = old + more
      /\ \A n \in 1 .. old : nodes'[n] = nodes[n]
  BY BeginNodes
<1>2. ASSUME NEW k \in 1 .. more PROVE nodes'[old + k].func = f
  BY BeginNodes
<1>3. /\ globals' = [i \in DOMAIN globals \cup Range(params) |->
                       IF i \in Range(params) THEN old + number(i) ELSE globals[i]]
      /\ func = NoFunction /\ func' = f /\ f \in todo
      /\ blockVars' = blockVars
  BY DEF BeginFunction
<1>4. \A k, l \in DOMAIN params : params[k] = params[l] => k = l
  BY DEF ParamLists, IsInjective
<1>5. f # NoFunction /\ blockVars = <<>>
  BY <1>3, ScopesAssumption, Outside DEF Typed, Shape
<1>6. /\ \A i \in Range(params) : number(i) \in 1 .. more
      /\ \A k \in 1 .. more : number(params[k]) = k
      /\ \A k \in 1 .. more : params[k] \in Range(params) /\ params[k] \in Ids
  BY <1>1, <1>4 DEF Range
<1> HIDE DEF old, number, more
<1>7. ASSUME NEW i \in Ids
      PROVE  p[i] = IF i \in Range(params) THEN old + number(i) ELSE NoNode
  <2>1. CASE i \in Range(params)
    <3>1. i \in DOMAIN globals' /\ globals'[i] = old + number(i)
      BY <1>3, <2>1
    <3>2. old + number(i) \in DOMAIN nodes' /\ nodes'[old + number(i)].func = f
      BY <1>1, <1>2, <1>6, <2>1
    <3> QED
      BY <1>5, <2>1, <3>1, <3>2 DEF ParamsOf
  <2>2. CASE i \notin Range(params)
    <3> SUFFICES ASSUME i \in DOMAIN globals', globals'[i] \in DOMAIN nodes',
                        nodes'[globals'[i]].func = f
                 PROVE  FALSE
      BY <2>2 DEF ParamsOf
    <3>1. i \in DOMAIN globals /\ globals'[i] = globals[i]
      BY <1>3, <2>2
    <3>2. globals[i] \in 0 .. old
      BY <3>1 DEF Typed, TypeOK, old
    <3>3. globals[i] \in 1 .. old
      BY <1>1, <3>1, <3>2
    <3> QED
      BY <1>1, <1>3, <3>1, <3>3 DEF Walked
  <2> QED
    BY <2>1, <2>2
<1>8. p \in Lexical!Scope(old + 1, old + more)
  <2>1. ASSUME NEW i \in Ids PROVE p[i] \in {NoNode} \cup ((old + 1) .. (old + more))
    BY <1>1, <1>6, <1>7
  <2>2. p = [i \in Ids |-> p[i]]
    BY DEF ParamsOf
  <2> HIDE DEF p
  <2> QED
    BY <2>1, <2>2 DEF Lexical!Scope
<1>9. ASSUME NEW n \in (old + 1) .. (old + more) PROVE Lexical!Holds(p, n)
  <2>1. n - old \in 1 .. more /\ old + (n - old) = n
    BY <1>1
  <2>2. params[n - old] \in Range(params) /\ params[n - old] \in Ids
        /\ number(params[n - old]) = n - old
    BY <1>6, <2>1
  <2>3. p[params[n - old]] = old + (n - old)
    BY <1>7, <2>2
  <2> HIDE DEF p
  <2> QED
    BY <2>1, <2>2, <2>3 DEF Lexical!Holds
<1>10. more \in 0 .. Cardinality(Ids)
  <2>1. params \in [1 .. more -> Ids]
    BY <1>1, <1>6
  <2>2. IsFiniteSet(1 .. more) /\ Cardinality(1 .. more) = more
    BY <1>1, FS_Interval
  <2>3. IsFiniteSet(Ids) /\ Cardinality(Ids) \in Nat
    BY ScopesAssumption, FS_CardinalityType
  <2>4. params \in Injection(1 .. more, Ids)
    BY <1>1, <1>4, <2>1 DEF Injection, IsInjective
  <2>5. Cardinality(1 .. more) <= Cardinality(Ids)
    BY <2>2, <2>3, <2>4, FS_Injection
  <2> QED
    BY <1>1, <2>2, <2>3, <2>5
<1>11. OpenScopes = <<File>>
  BY <1>3, OpenScopesAre DEF Resolved
<1>12. OpenScopes' = <<File, p>>
  <2>1. func' # NoFunction /\ Len(blockVars') = 0
    BY <1>3, <1>5
  <2>2. IsScopes(OpenScopes', variables', blockVars', p, 0)
    BY <1>3, <2>1, OpenIsNext
  <2> HIDE DEF p
  <2>3. PICK S : OpenScopes' \in Seq(S)
    BY <2>2 DEF IsScopes
  <2> DEFINE t == OpenScopes'
             u == <<File, p>>
  <2>4. Len(t) = 2 /\ t[1] = File /\ t[2] = p /\ t \in Seq(S)
    BY <2>2, <2>3 DEF IsScopes
  <2>5. u \in Seq({File, p}) /\ Len(u) = 2 /\ u[1] = File /\ u[2] = p
    OBVIOUS
  <2> HIDE DEF t, u
  <2>6. t \in Seq(S \cup {File, p}) /\ u \in Seq(S \cup {File, p})
    BY <2>4, <2>5
  <2>7. \A n \in 1 .. Len(t) : t[n] = u[n]
    <3>1. \A n \in 1 .. 2 : n = 1 \/ n = 2
      OBVIOUS
    <3> QED
      BY <2>4, <2>5, <3>1
  <2>8. t = u
    BY <2>4, <2>5, <2>6, <2>7, SeqEqual
  <2> QED
    BY <2>8 DEF t, u
<1>13. OpenScopes' = Append(OpenScopes, p) /\ Lexical!Depth = 1
  BY <1>11, <1>12 DEF Lexical!Depth
<1> HIDE DEF p
<1>14. Len(nodes) = old /\ Len(nodes') = old + more
  BY <1>1 DEF old
<1>15. /\ p \in Lexical!Scope(Len(nodes) + 1, Len(nodes'))
       /\ \A n \in (Len(nodes) + 1) .. Len(nodes') : Lexical!Holds(p, n)
  BY <1>8, <1>9, <1>14
<1>16. \E k \in 0 .. Cardinality(Ids) : Len(nodes') = Len(nodes) + k
  BY <1>10, <1>14
<1>17. Lexical!Cardinality(Ids) = Cardinality(Ids)
  BY DEF Lexical!Cardinality, Cardinality
<1> QED
  BY <1>13, <1>15, <1>16, <1>17 DEF Lexical!EnterFunction

\* A declaration enters the innermost block.
LEMMA DeclareRefines ==
    ASSUME ~MayRedeclare, Typed, Resolved, Typed', Resolved', NEW i \in Ids,
           NEW size \in Nat \ {0}, Declare(i, size)
    PROVE  Lexical!Declare(i)
<1> DEFINE d == Len(blockVars)
           n == Len(nodes) + 1
           p == ParamsOf(globals, nodes, func)
<1>1. ~IsDuplicate(i) /\ i \notin Range(Last(blockVars))
  BY NeverDropped DEF Resolved
<1>2. /\ variables' = [variables EXCEPT ![i] = Append(@, n)]
      /\ blockVars' = Append(Front(blockVars), Append(Last(blockVars), i))
      /\ ctl # <<>> /\ Last(ctl) = "block" /\ func' = func /\ globals' = globals
  BY <1>1 DEF Declare, Awaits, ListedToo
<1>3. /\ blockVars \in Seq(Seq(Ids)) /\ blockVars # <<>> /\ d \in Nat \ {0}
      /\ Last(blockVars) = blockVars[d] /\ func # NoFunction
  BY <1>2, InBlock, WalkTypes, ScopesAssumption DEF Last
<1>4. ListsGrow(blockVars, blockVars', d, i)
  BY <1>2, <1>3, ListsAre
<1>5. /\ DOMAIN nodes = 1 .. Len(nodes) /\ Len(nodes) \in Nat
      /\ DOMAIN nodes' = 1 .. n /\ Len(nodes') = n /\ n \in Nat
      /\ \A o \in 1 .. Len(nodes) : nodes'[o] = nodes[o]
  BY DeclareNodes
<1>6. IsScopes(OpenScopes, variables, blockVars, p, d)
  BY <1>3, OpenIs
<1>7. IsScopes(OpenScopes', variables', blockVars', p, d)
  <2>1. Len(blockVars') = d
    BY <1>4 DEF ListsGrow
  <2>2. ParamsOf(globals', nodes', func') = p
    <3>1. ASSUME NEW h \in DOMAIN globals
          PROVE  /\ globals[h] \in DOMAIN nodes' <=> globals[h] \in DOMAIN nodes \/ globals[h] = n
                 /\ globals[h] # n
                 /\ globals[h] \in DOMAIN nodes => nodes'[globals[h]] = nodes[globals[h]]
      <4>1. globals[h] \in 0 .. Len(nodes)
        BY DEF Typed, TypeOK
      <4> QED
        BY <1>5, <4>1
    <3> HIDE DEF n
    <3> QED
      BY <1>2, <3>1 DEF ParamsOf
  <2> QED
    BY <1>2, <1>3, <2>1, <2>2, OpenIsNext
<1>8. StacksInv /\ StacksInv' /\ variables \in [Ids -> Seq(1 .. MaxNodes)]
  BY DEF Resolved, Typed, TypeOK, IdStacks
<1> HIDE DEF d, p
<1>9. ASSUME NEW h \in Ids
      PROVE  /\ \A k \in 1 .. Len(variables[h]) : variables'[h][k] = variables[h][k]
             /\ Len(variables[h]) \in Nat /\ Len(variables'[h]) \in Nat
             /\ Len(variables[h]) <= Len(variables'[h])
             /\ h # i => variables'[h] = variables[h]
             /\ h = i => /\ Len(variables'[h]) = Len(variables[h]) + 1
                         /\ variables'[h][Len(variables[h]) + 1] = n
  <2> DEFINE q == variables[h]
  <2>1. q \in Seq(1 .. MaxNodes) /\ Len(q) \in Nat
    BY StackIs
  <2>2. CASE h # i
    <3>1. variables'[h] = q
      BY <1>2, <1>8, <2>2
    <3> HIDE DEF q
    <3>2. variables[h] = q
      BY DEF q
    <3> QED
      BY <2>1, <2>2, <3>1, <3>2
  <2>3. CASE h = i
    <3>1. variables'[h] = Append(q, n)
      BY <1>2, <1>8, <2>3
    <3> HIDE DEF q, n
    <3>2. /\ Len(Append(q, n)) = Len(q) + 1 /\ Append(q, n)[Len(q) + 1] = n
          /\ \A k \in 1 .. Len(q) : Append(q, n)[k] = q[k]
      BY <2>1
    <3>3. variables[h] = q
      BY DEF q
    <3> QED
      BY <2>1, <2>3, <3>1, <3>2, <3>3
  <2> QED
    BY <2>2, <2>3
<1> HIDE DEF n
<1>10. \A j \in 1 .. d : \A h \in Ids : h \in Range(blockVars[j]) =>
          LevelIn(blockVars, h, j) \in 1 .. Len(variables[h])
  BY <1>3, <1>8, ListedLevel DEF d
<1>11. ASSUME NEW j \in 1 .. d - 1
       PROVE  BlockOf(variables', blockVars', j) = BlockOf(variables, blockVars, j)
  <2>1. j \in Nat \ {0} /\ j \in 1 .. d
        /\ \A k \in 1 .. j : Range(blockVars'[k]) = Range(blockVars[k])
    BY <1>3, <1>4 DEF ListsGrow
  <2>2. ASSUME NEW h \in Ids, h \in Range(blockVars[j])
        PROVE  /\ LevelIn(blockVars, h, j) <= Len(variables[h])
               /\ LevelIn(blockVars, h, j) <= Len(variables'[h])
               /\ variables'[h][LevelIn(blockVars, h, j)] =
                     variables[h][LevelIn(blockVars, h, j)]
    <3> DEFINE level == LevelIn(blockVars, h, j)
    <3>1. level \in 1 .. Len(variables[h])
      BY <1>10, <2>1, <2>2
    <3> HIDE DEF level
    <3>2. level <= Len(variables[h]) /\ level <= Len(variables'[h])
          /\ variables'[h][level] = variables[h][level]
      BY <1>9, <3>1
    <3> QED
      BY <3>2 DEF level
  <2> QED
    BY <2>1, <2>2, BlockSame
<1>12. \A h \in Ids : LevelIn(blockVars', h, d - 1) = LevelIn(blockVars, h, d - 1)
  BY <1>4, LevelSame DEF ListsGrow
<1>13. ASSUME NEW h \in Ids, h # i
       PROVE  BlockOf(variables', blockVars', d)[h] = BlockOf(variables, blockVars, d)[h]
  <2>1. h \in Range(blockVars'[d]) <=> h \in Range(blockVars[d])
    BY <1>4, <1>13 DEF ListsGrow
  <2>2. h \in Range(blockVars[d]) => LevelIn(blockVars', h, d) = LevelIn(blockVars, h, d)
    BY <1>3, <1>12, <2>1, LevelStep
  <2> QED
    BY <1>9, <1>13, <2>1, <2>2 DEF BlockOf
<1>14. BlockOf(variables', blockVars', d)[i] = n
  <2>1. i \in Range(blockVars'[d])
    BY <1>4 DEF ListsGrow
  <2>2. LevelIn(blockVars', i, d) = LevelIn(blockVars, i, d - 1) + 1
    BY <1>3, <1>12, <2>1, LevelStep
  <2>3. LevelIn(blockVars, i, d) = LevelIn(blockVars, i, d - 1)
    BY <1>1, <1>3, LevelStep
  <2>4. Len(variables[i]) = LevelIn(blockVars, i, d)
    BY <1>8, LevelIs DEF StacksInv, d
  <2>5. LevelIn(blockVars', i, d) = Len(variables'[i])
        /\ variables'[i][LevelIn(blockVars', i, d)] = n
    BY <1>9, <2>2, <2>3, <2>4
  <2>6. LevelIn(blockVars', i, d) <= Len(variables'[i])
    BY <1>9, <2>5
  <2> QED
    BY <2>1, <2>5, <2>6 DEF BlockOf
<1>15. BlockOf(variables', blockVars', d) = [BlockOf(variables, blockVars, d) EXCEPT ![i] = n]
  <2> DEFINE e == BlockOf(variables', blockVars', d)
             g == BlockOf(variables, blockVars, d)
  <2>1. DOMAIN e = Ids /\ DOMAIN g = Ids /\ e = [h \in Ids |-> e[h]] /\ g = [h \in Ids |-> g[h]]
    BY DEF BlockOf
  <2>2. e[i] = n /\ \A h \in Ids : h # i => e[h] = g[h]
    BY <1>13, <1>14
  <2> HIDE DEF e, g
  <2>3. e = [g EXCEPT ![i] = n]
    BY <2>1, <2>2
  <2> QED
    BY <2>3 DEF e, g
<1>16. BlockOf(variables, blockVars, d)[i] = NoNode
  BY <1>1, <1>3 DEF BlockOf
<1> DEFINE s == OpenScopes
           t == OpenScopes'
           u == [s EXCEPT ![d + 2] = [@ EXCEPT ![i] = n]]
<1>17. /\ Len(s) = d + 2 /\ Len(t) = d + 2 /\ s[1] = t[1] /\ s[2] = t[2]
       /\ \A j \in 1 .. d : s[j + 2] = BlockOf(variables, blockVars, j)
       /\ \A j \in 1 .. d : t[j + 2] = BlockOf(variables', blockVars', j)
  BY <1>6, <1>7 DEF IsScopes
<1>18. PICK S, T : s \in Seq(S) /\ t \in Seq(T)
  BY <1>6, <1>7 DEF IsScopes
<1>19. Lexical!Depth = d + 2 /\ Lexical!Depth > 2 /\ s[d + 2][i] = NoNode
  BY <1>3, <1>16, <1>17 DEF Lexical!Depth
<1> HIDE DEF s, t
<1>20. t = u
  <2>1. d \in 1 .. d /\ d + 2 \in 1 .. d + 2 /\ d + 2 \in Nat
    BY <1>3
  <2>2. s = [m \in 1 .. d + 2 |-> s[m]] /\ t = [m \in 1 .. d + 2 |-> t[m]]
    BY <1>17, <1>18, <2>1
  <2>3. t[d + 2] = [s[d + 2] EXCEPT ![i] = n]
    BY <1>15, <1>17, <2>1
  <2>4. ASSUME NEW m \in 1 .. d + 2, m # d + 2 PROVE t[m] = s[m]
    <3>1. CASE \E j \in 1 .. d : m = j + 2
      <4>1. PICK j \in 1 .. d : m = j + 2
        BY <3>1
      <4>2. j \in 1 .. d - 1
        BY <1>3, <2>4, <4>1
      <4>3. s[m] = BlockOf(variables, blockVars, j) /\ t[m] = BlockOf(variables', blockVars', j)
        BY <1>17, <4>1
      <4> QED
        BY <1>11, <4>2, <4>3
    <3> QED
      BY <1>3, <1>17, <3>1, Positions
  <2> QED
    BY <2>1, <2>2, <2>3, <2>4
<1>21. OpenScopes' = [OpenScopes EXCEPT ![Lexical!Depth][i] = n]
  BY <1>19, <1>20 DEF s, t
<1>22. Len(nodes') = n /\ n = Len(nodes) + 1
  BY <1>5 DEF n
<1> QED
  BY <1>19, <1>21, <1>22 DEF Lexical!Declare, s

LEMMA InitRefines == Init => Lexical!Init
<1> SUFFICES ASSUME Init PROVE Lexical!Init
  OBVIOUS
<1>1. OpenScopes = <<File>>
  <2>1. func = NoFunction /\ GlobalsInv
    BY InitGlobals DEF Init
  <2> QED
    BY <2>1, OpenScopesAre
<1>2. Len(nodes) = Cardinality(GlobalIds)
  <2>1. nodes = [n \in 1 .. Len(GlobalSeq) |->
                   Node(GlobalSeq[n], Plain(GlobalSeq[n]), 0, 1, NoFunction)]
    BY DEF Init
  <2>2. Len(GlobalSeq) \in Nat /\ Len(GlobalSeq) = Cardinality(GlobalIds)
    BY GlobalsInOrder, ScopesAssumption
  <2> QED
    BY <2>1, <2>2
<1>3. Cardinality(GlobalIds) \in 0 .. Cardinality(Ids)
  <2>1. IsFiniteSet(Ids) /\ GlobalIds \subseteq Ids
    BY ScopesAssumption
  <2>2. IsFiniteSet(GlobalIds) /\ Cardinality(GlobalIds) <= Cardinality(Ids)
    BY <2>1, FS_Subset
  <2>3. Cardinality(GlobalIds) \in Nat /\ Cardinality(Ids) \in Nat
    BY <2>1, <2>2, FS_CardinalityType
  <2> QED
    BY <2>2, <2>3
<1>4. File \in Lexical!Scope(1, Len(nodes))
  <2>1. Len(nodes) = Len(GlobalSeq)
    BY <1>2, GlobalsInOrder
  <2>2. ASSUME NEW i \in Ids PROVE File[i] \in {NoNode} \cup (1 .. Len(nodes))
    <3>1. CASE i \in GlobalIds
      BY <2>1, <3>1, FilePosition
    <3>2. CASE i \notin GlobalIds
      BY <3>2 DEF File
    <3> QED
      BY <3>1, <3>2
  <2>3. File = [i \in Ids |-> File[i]]
    BY DEF File
  <2> QED
    BY <2>2, <2>3 DEF Lexical!Scope
<1>5. Lexical!Cardinality(Ids) = Cardinality(Ids)
  BY DEF Lexical!Cardinality, Cardinality
<1> QED
  BY <1>1, <1>2, <1>3, <1>4, <1>5 DEF Lexical!Init

LEMMA StepRefines ==
    ASSUME ~MayRedeclare, Typed, Resolved, Typed', Resolved', Walked, [WideNext]_vars
    PROVE  [Lexical!Next]_<<OpenScopes, Len(nodes)>>
<1>1. ASSUME NEW f \in Funcs, NEW params \in ParamLists, BeginFunction(f, params)
      PROVE  Lexical!Next
  BY <1>1, BeginRefines DEF Lexical!Next
<1>2. CASE EndFunction
  BY <1>2, EndRefines DEF Lexical!Next
<1>3. CASE OpenBlock
  BY <1>3, OpenRefines DEF Lexical!Next
<1>4. CASE CloseBlock
  BY <1>4, CloseRefines DEF Lexical!Next
<1>5. CASE BranchStep
  <2>1. UNCHANGED <<variables, globals, blockVars, nodes, func>>
    BY <1>5, BranchIs
  <2> QED
    BY <2>1, SameScopes
<1>6. CASE Simple \/ UNCHANGED vars
  <2>1. UNCHANGED <<variables, globals, blockVars, nodes, func>>
    BY <1>6 DEF Simple, frame, vars
  <2> QED
    BY <2>1, SameScopes
<1>7. ASSUME NEW i \in Ids, NEW size \in Nat \ {0}, Declare(i, size) PROVE Lexical!Next
  BY <1>7, DeclareRefines DEF Lexical!Next
<1> QED
  BY <1>1, <1>2, <1>3, <1>4, <1>5, <1>6, <1>7 DEF WideNext, BranchStep

\* The stacks, lists and maps of Sema implement nested scopes for every legal program:
\* each step of the walk opens, fills or leaves one scope, or changes none.
THEOREM ScopesImplemented ==
    ASSUME ~MayRedeclare
    PROVE  Spec => ImplementsScopes
<1> DEFINE All == Typed /\ Resolved /\ Walked
<1>1. Init => All
  BY InitTyped, InitResolved, InitWalked
<1>2. All /\ [WideNext]_vars => All'
  BY StepTyped, StepResolved, StepWalked
<1>3. All /\ All' /\ [WideNext]_vars => [Lexical!Next]_<<OpenScopes, Len(nodes)>>
  BY StepRefines
<1>4. Init => Lexical!Init
  BY InitRefines
<1>5. Spec => Lexical!Spec
  <2> HIDE DEF All
  <2> QED
    BY <1>1, <1>2, <1>3, <1>4, NextIsWide, PTL DEF Spec, Lexical!Spec
<1> QED
  BY <1>5 DEF ImplementsScopes
=============================================================================
