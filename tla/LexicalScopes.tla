--------------------------- MODULE LexicalScopes ---------------------------
(***************************************************************************)
(* What name resolution promises: scopes nest, every declaration enters    *)
(* the innermost one, an identifier means its innermost declaration, and   *)
(* the file scope never changes.  scopes[1] is the file scope, scopes[2]   *)
(* the parameters of the function being analysed, the rest its open        *)
(* blocks.  Definitions are numbered in the order they are met.            *)
(***************************************************************************)
EXTENDS Integers, Sequences, FiniteSets

CONSTANTS
    Ids,      \* identifiers
    NoDef     \* an identifier with no definition in a scope

VARIABLES
    scopes,   \* sequence of maps: identifier -> definition or NoDef
    latest    \* the number of the last definition

Depth  == Len(scopes)
Blank  == [i \in Ids |-> NoDef]
Scope(first, last) == [Ids -> {NoDef} \cup (first .. last)]
Holds(scope, d) == \E i \in Ids : scope[i] = d

\* The innermost definition of i, NoDef if no open scope declares it.
Lookup(i) ==
    LET hits == {k \in 1 .. Depth : scopes[k][i] # NoDef}
    IN  IF hits = {} THEN NoDef
        ELSE scopes[CHOOSE k \in hits : \A l \in hits : l <= k][i]

Init ==
    /\ latest \in 0 .. Cardinality(Ids)
    /\ \E file \in Scope(1, latest) : scopes = <<file>>

\* Every parameter is a new definition.
EnterFunction ==
    /\ Depth = 1
    /\ \E k \in 0 .. Cardinality(Ids) : latest' = latest + k
    /\ \E params \in Scope(latest + 1, latest') :
        /\ \A d \in (latest + 1) .. latest' : Holds(params, d)
        /\ scopes' = Append(scopes, params)

EnterBlock == Depth > 1 /\ scopes' = Append(scopes, Blank) /\ UNCHANGED latest

\* Each identifier once in a scope: the program is legal.
Declare(i) ==
    /\ Depth > 2 /\ scopes[Depth][i] = NoDef
    /\ latest' = latest + 1
    /\ scopes' = [scopes EXCEPT ![Depth][i] = latest']

\* The end of a block and the end of a function.
Leave == Depth > 1 /\ scopes' = SubSeq(scopes, 1, Depth - 1) /\ UNCHANGED latest

Next == EnterFunction \/ EnterBlock \/ (\E i \in Ids : Declare(i)) \/ Leave

Spec == Init /\ [][Next]_<<scopes, latest>>
=============================================================================
