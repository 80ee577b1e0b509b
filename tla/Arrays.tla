------------------------------- MODULE Arrays -------------------------------
(***************************************************************************)
(* Arrays of kisyshot: the layout of initialisers (Sema::prepareArrayDef,  *)
(* Sema::flattenArray), the data section (Arms::generateGlobal) and the    *)
(* offsets of index expressions (IndexExpression::genCode).                *)
(*                                                                         *)
(* An initialiser is chosen while flattenArray walks it.  Next to what the *)
(* code does, each open brace carries the place the C rules give it: a     *)
(* nested list initialises the largest sub-array that starts where the     *)
(* list stands.                                                            *)
(***************************************************************************)
EXTENDS Integers, Sequences, FiniteSets, SequencesExt

CONSTANTS
    Shapes,       \* dimensions of the arrays, outermost first
    ParamShapes,  \* those of array parameters: the first one is 0
    Zero,         \* TRUE: a given element may be 0
    WholeRows,    \* TRUE: a nested list stands only where a row starts
    NoElement     \* an element the initialiser does not give

ASSUME ArraysAssumption ==
    /\ Shapes \subseteq Seq(Nat \ {0}) \ {<<>>}
    /\ ParamShapes \subseteq Seq(Nat)
    /\ \A s \in ParamShapes :
          /\ s # <<>> /\ s[1] = 0
          /\ \A k \in DOMAIN s : k > 1 => s[k] \in Nat \ {0}
    /\ Zero \in BOOLEAN /\ WholeRows \in BOOLEAN
    /\ NoElement \notin Nat

VARIABLES
    dimension,  \* VarDefinition.dimension
    srcArray,   \* VarDefinition.srcArray; for a global also `values`
    calls,      \* active calls of flattenArray, innermost last
    wanted,     \* offset -> element the C rules give it, NoElement by default
    phase,      \* "flatten", "emit" (a global), "done" or "abort"
    place,      \* j of generateGlobal
    data        \* directives generateGlobal has written

vars == <<dimension, srcArray, calls, wanted, phase, place, data>>

\* --- prepareArrayDef -------------------------------------------------------
\* accumulation[layer], whose first element is the size of the array: the words an
\* index at that layer steps over.  It is built from the last dimension on.
Words(dims) ==
    LET words[layer \in 0 .. Len(dims)] ==
            IF layer = Len(dims) THEN 1 ELSE words[layer + 1] * dims[layer + 1]
    IN  words

\* The last element is overwritten by -1, the mark of an index that reaches a word.
AccumulationShifted(dims, layer) ==   \* mutant: a layer too far out
    IF layer = Len(dims) THEN -1 ELSE Words(dims)[layer - 1]
Accumulation(dims, layer) ==
    IF layer = Len(dims) THEN -1 ELSE Words(dims)[layer]

\* --- IndexExpression::genCode -----------------------------------------------
\* What an index is multiplied by.
Step(dims, layer) == IF Accumulation(dims, layer) = -1 THEN 1 ELSE Accumulation(dims, layer)

\* The offset computed for the indices given, from the innermost expression
\* out; fewer indices than dimensions give the address of a sub-array.
Offset(dims, index) ==
    LET sum[n \in 0 .. Len(index)] ==
            IF n = 0 THEN 0 ELSE sum[n - 1] + index[n] * Step(dims, n)
    IN  sum[Len(index)]

\* --- flattenArray -----------------------------------------------------------
Top    == Last(calls)
Size   == Len(srcArray)
Room   == Top.target - (Size - Top.current)

\* Words of the sub-arrays `level` levels inside the array.
Unit(level) == Words(dimension)[level]

\* The largest sub-array that starts where the next element of the list goes.
Aligned == {l \in (Top.level + 1) .. (Len(dimension) - 1) : Top.pos % Unit(l) = 0}

Call(target, dim, base, level) ==
    [target |-> target, dim |-> dim, current |-> Size, singleCount |-> 0,
     base |-> base, level |-> level, pos |-> 0]

SetTop(call) == Append(Front(calls), call)

Init ==
    /\ dimension \in Shapes
    /\ srcArray = <<>>
    /\ calls = <<[target |-> Unit(0), dim |-> 0, current |-> 0,
                  singleCount |-> 0, base |-> 0, level |-> 0, pos |-> 0]>>
    /\ wanted = [o \in 0 .. (Unit(0) - 1) |-> NoElement]
    /\ phase = "flatten" /\ place = 0 /\ data = <<>>

\* An element that is no list.
Single ==
    /\ phase = "flatten"
    /\ Top.pos < Unit(Top.level)
    /\ \E e \in {Size + 1} \cup (IF Zero THEN {0} ELSE {}) :
        /\ srcArray' = Append(srcArray, e)
        /\ wanted' = [wanted EXCEPT ![Top.base + Top.pos] = e]
    /\ calls' = SetTop([Top EXCEPT !.singleCount = @ + 1, !.pos = @ + 1])
    /\ UNCHANGED <<dimension, phase, place, data>>

\* The elements a nested list stands for, and the assertion before the call.
InnerTargetFlat == Top.target                  \* mutant: not divided
InnerTarget == Top.target \div dimension[Top.dim + 1]
RowUnchecked == TRUE                           \* mutant: no assertion
RowFilled == Top.singleCount \in {0, InnerTarget}

\* A nested list, where C allows one.
Nested ==
    /\ phase = "flatten"
    /\ Aligned # {} /\ Top.pos < Unit(Top.level)
    /\ WholeRows => Top.pos % Unit(Top.level + 1) = 0
    /\ IF RowFilled
       THEN LET level == CHOOSE l \in Aligned : \A k \in Aligned : l <= k
                outer == [Top EXCEPT !.singleCount = 0, !.pos = @ + Unit(level)]
            IN  /\ calls' = SetTop(outer) \o
                              <<Call(InnerTarget, Top.dim + 1, Top.base + Top.pos, level)>>
                /\ UNCHANGED phase
       ELSE phase' = "abort" /\ UNCHANGED calls
    /\ UNCHANGED <<dimension, srcArray, wanted, place, data>>

\* The end of a list: the rest of its part of the array is 0.
Rest == [k \in 1 .. Room |-> 0]
CloseList ==
    /\ phase = "flatten"
    /\ srcArray' = srcArray \o Rest
    /\ calls' = Front(calls)
    /\ phase' = IF Len(calls) = 1 THEN "emit" ELSE phase
    /\ UNCHANGED <<dimension, wanted, place, data>>

\* --- generateGlobal ----------------------------------------------------------
Zeros(n) == [directive |-> "space", arg |-> n]
Word(v)  == [directive |-> "word", arg |-> v]

\* The zeros from element j on.
Run(j) == LET ends == {k \in (j + 1) .. Size : srcArray[k] # 0}
          IN  IF ends = {} THEN Size - j ELSE Min(ends) - 1 - j

\* One turn of the loop over the values: a run of zeros and the element after
\* it.  (The test of a run reads values[j] before it compares j with the size; the
\* second half of the condition makes the stray value irrelevant.)
AfterWord(j) == <<Word(srcArray[j + 1])>>
AfterZerosOnly(n, j) == IF n = 0 THEN AfterWord(j) ELSE <<Zeros(n)>>  \* mutant: no word
AfterZeros(n, j) == IF n = 0 THEN AfterWord(j)
                    ELSE IF j < Size THEN <<Zeros(n)>> \o AfterWord(j) ELSE <<Zeros(n)>>
EmitGlobal ==
    /\ phase = "emit" /\ place < Size
    /\ LET j == place + Run(place)
       IN  /\ data' = data \o AfterZeros(Run(place), j)
           /\ place' = j + 1
    /\ UNCHANGED <<dimension, srcArray, calls, wanted, phase>>

EndGlobal ==
    /\ phase = "emit" /\ place >= Size
    /\ phase' = "done"
    /\ UNCHANGED <<dimension, srcArray, calls, wanted, place, data>>

Next == Single \/ Nested \/ CloseList \/ EmitGlobal \/ EndGlobal

Spec == Init /\ [][Next]_vars

(***************************************************************************)
(* Properties.                                                             *)
(***************************************************************************)

TypeOK ==
    /\ dimension \in Shapes
    /\ srcArray \in Seq(Nat) /\ Size <= Unit(0)
    /\ \A k \in DOMAIN calls :
          /\ calls[k].target \in Nat /\ calls[k].dim \in 0 .. Len(dimension)
          /\ calls[k].current <= Size /\ calls[k].singleCount \in 0 .. Size
          /\ calls[k].level \in 0 .. (Len(dimension) - 1)
    /\ wanted \in [0 .. (Unit(0) - 1) -> Nat \cup {NoElement}]
    /\ phase \in {"flatten", "emit", "done", "abort"}
    /\ place \in Nat

Given(o) == IF wanted[o] = NoElement THEN 0 ELSE wanted[o]
Offsets  == 0 .. (Unit(0) - 1)

\* Whatever braces are written or left out, the flattened initialiser has one
\* element for each word of the array, and every given element stands where
\* the C rules put it (flattenArray).
LayoutIsC ==
    phase \in {"emit", "done"} =>
        /\ Size = Unit(0)
        /\ \A o \in Offsets : srcArray[o + 1] = Given(o)

\* The words the assembler makes of the data section are the values of the
\* array, in order and none missing (generateGlobal).
Assembled(directives) ==
    LET image[k \in 0 .. Len(directives)] ==
            IF k = 0 THEN <<>>
            ELSE image[k - 1] \o (IF directives[k].directive = "word"
                                  THEN <<directives[k].arg>>
                                  ELSE [n \in 1 .. directives[k].arg |-> 0])
    IN  image[Len(directives)]
DataIsArray == phase = "done" => Assembled(data) = srcArray

\* An index expression reaches the element that C's nesting of rows means, and
\* one with fewer indices the first word of that sub-array, also when the
\* length of the first dimension is not known (IndexExpression::genCode reads
\* what Sema::traverseExpression took from accumulation).
Subscripts(dims) == {ix \in [DOMAIN dims -> 0 .. (Max(Range(dims)) - 1)] :
                        \A k \in DOMAIN dims : ix[k] < dims[k]}
Precedes(s, t) == \E k \in DOMAIN s : s[k] < t[k] /\ \A l \in 1 .. (k - 1) : s[l] = t[l]
Known(dims)    == IF dims[1] = 0 THEN [dims EXCEPT ![1] = 2] ELSE dims
IndexFindsElement ==
    phase = "done" =>
        \A dims \in {dimension} \cup ParamShapes :
            LET all == Subscripts(Known(dims))
            IN  \A ix \in all, n \in DOMAIN dims :
                    (\A k \in DOMAIN dims : k > n => ix[k] = 0)
                    => Offset(dims, SubSeq(ix, 1, n)) =
                         Cardinality({before \in all : Precedes(before, ix)})

\* Elements before a nested list fill exactly one row (the assertion in
\* flattenArray).
RowsAlwaysFilled == phase # "abort"
=============================================================================
