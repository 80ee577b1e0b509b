------------------------------ MODULE MCLexer ------------------------------
(***************************************************************************)
(* Every short text over the characters that meet in one scanner.          *)
(***************************************************************************)
EXTENDS Reports, TLC

UpTo(n, chars) == UNION {[1 .. k -> chars] : k \in 0 .. n}

MCSources ==
    UpTo(5, {"quote", "backslash", "newline", "/", "*", "g"})   \* strings, comments
    \cup UpTo(4, {"0", "7", "8", ".", "e", "x", "a", "+"})      \* numbers
    \cup UpTo(3, {"=", "<", "&", "+", "/", "g", "semi", "@", "8"}) \* marks
    \cup UpTo(3, {"0", "nul", "fe", "ff", "high", "space", "@", "g", "8"})   \* bytes
    \cup UpTo(4, {"g", "a", "7", "space"})                          \* words

MCLibrary == <<"g", "space", "g", "semi", "newline">>

MCSpelling == (<<"g">> :> "keyword") @@ (<<"a", "g">> :> "keyword")
              @@ (<<"g", "g", "a">> :> "eof")   \* a name of an internal kind of token
=============================================================================
