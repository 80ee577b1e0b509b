------------------------------- MODULE Tokens -------------------------------
(***************************************************************************)
(* What the scanner promises: the text is cut, from the front, into spaces *)
(* and lexemes, and each lexeme becomes one token.  How far a lexeme goes  *)
(* is said by what its characters are, not by how they are read; Lexer     *)
(* reads them one by one and implements this specification.                *)
(***************************************************************************)
EXTENDS Chars

CONSTANT Texts

VARIABLES
    code,        \* the text
    place,       \* what is left of it starts here
    tokens,      \* the tokens so far
    diagnostics, \* indices of the tokens that are reported
    eof          \* the end has been marked

vars == <<code, place, tokens, diagnostics, eof>>

At(i) == CharAt(code, i)
Here  == At(place)

\* From p, exactly the characters before q are in S.
Run(p, q, S) == p <= q /\ At(q) \notin S /\ \A k \in p .. q - 1 : At(k) \in S

\* An odd number of backslashes stands right before k, in a string opened at p.
Escaped(p, k) == \E j \in p + 1 .. k - 1 :
    /\ (k - j) % 2 = 1
    /\ \A i \in j .. k - 1 : At(i) = "backslash"
    /\ j = p + 1 \/ At(j - 1) # "backslash"

\* A string opened at p is still open before k.
Open(p, k) == \A i \in p + 1 .. k - 1 :
    At(i) \in {"quote", "newline"} => Escaped(p, i)

Unclosed(p, k) == \A i \in p + 2 .. k - 1 : ~(At(i) = "*" /\ At(i + 1) = "/")

\* The token a lexeme becomes, and whether it is reported.
Becomes(type, from, size) ==
    /\ tokens' = Append(tokens, Token(type, place, from, size))
    /\ UNCHANGED diagnostics
IsWrong(type, from, size) ==
    /\ tokens' = Append(tokens, Token(type, place, from, size))
    /\ diagnostics' = diagnostics \cup {Len(tokens) + 1}

\* The lexemes.  q is where what follows starts.
Name(q) ==
    /\ Here \in Letter /\ Run(place, q, Word)
    /\ Becomes(WordType(SubSeq(code, place, q - 1)), place, q - place)

Exponent(p, q) ==    \* e, a sign or none, digits or none
    /\ At(p) = "e"
    /\ IF At(p + 1) = "+" THEN Run(p + 2, q, Digit) ELSE Run(p + 1, q, Digit)

Fraction(p, q) ==    \* at the point
    /\ At(p) = "."
    /\ \E e \in p + 1 .. q : /\ Run(p + 1, e, Digit)
                             /\ IF At(e) = "e" THEN Exponent(e, q) ELSE e = q

Decimal(q) ==
    /\ Here \in Digit
    /\ Here = "0" => At(place + 1) \notin Digit \cup {"x"}
    /\ \E e \in place + 1 .. q :
          /\ Run(place, e, Digit)
          /\ \/ Fraction(e, q)
             \/ Here # "0" /\ Exponent(e, q)
             \/ e = q /\ At(q) # "." /\ (At(q) = "e" => Here = "0")

Octals(q) == Here = "0" /\ At(place + 1) \in Octal /\ Run(place, q, Octal)
Hexes(q)  == Here = "0" /\ At(place + 1) = "x" /\ Run(place + 2, q, Hex)

Number(q) == /\ Decimal(q) \/ Octals(q) \/ Hexes(q)
             /\ Becomes("numeric_literal", place, q - place)

BadNumber(q) == /\ Here = "0" /\ At(place + 1) = "8" /\ Run(place, q, Joined)
                /\ IsWrong("numeric_literal", place, q - place)

String(q) == /\ Here = "quote" /\ At(q - 1) = "quote"
             /\ q > place + 1 /\ Open(place, q - 1) /\ ~Escaped(place, q - 1)
             /\ Becomes("string_literal", place + 1, q - place - 2)

OpenString(q) ==
    /\ Here = "quote" /\ At(q - 1) = "newline"
    /\ q > place + 1 /\ Open(place, q - 1) /\ ~Escaped(place, q - 1)
    /\ IsWrong("string_literal", place, 1)

LineComment(q) ==
    /\ Here = "/" /\ At(place + 1) = "/"
    /\ \A k \in place .. q - 1 : At(k) # "newline"
    /\ q = Len(code) + 1 \/ At(q) = "newline"
    /\ Becomes("inline_comment", place, q - place)

Comment(q) ==
    /\ Here = "/" /\ At(place + 1) = "*" /\ q > place + 3
    /\ At(q - 2) = "*" /\ At(q - 1) = "/" /\ Unclosed(place, q - 2)
    /\ Becomes("interline_comment", place, q - place)

OpenComment(q) ==
    /\ Here = "/" /\ At(place + 1) = "*"
    /\ q = Len(code) + 1 /\ Unclosed(place, q)
    /\ IsWrong("interline_comment", place, 2)

Mark(q) ==
    \/ Here = "semi" /\ q = place + 1 /\ Becomes("punctuator", place, 1)
    \/ /\ <<Here, At(place + 1)>> \in Operators /\ q = place + 2
       /\ Becomes("operator", place, 2)
    \/ /\ Here \in Heads /\ <<Here, At(place + 1)>> \notin Operators /\ q = place + 1
       /\ Here = "/" => At(place + 1) \notin {"/", "*"}
       /\ Becomes(MarkType(<<Here>>), place, 1)

Starts == Word \cup Space \cup Heads \cup {"quote", "semi"}
Stray(q) == /\ Here \notin Starts
            /\ Run(place + 1, q, Joined)
            /\ IsWrong("unknown", place, q - place)

\* Spaces disappear.
Skip == /\ \/ Here \in Space /\ place' = place + 1
           \/ <<Here, At(place + 1)>> \in Wide /\ place < Len(code) /\ place' = place + 2
        /\ UNCHANGED <<tokens, diagnostics, eof>>

Take == /\ \E q \in place + 1 .. Len(code) + 1 :
              /\ place' = q
              /\ \/ Name(q) \/ Number(q) \/ BadNumber(q) \/ String(q) \/ OpenString(q)
                 \/ LineComment(q) \/ Comment(q) \/ OpenComment(q) \/ Mark(q) \/ Stray(q)
        /\ <<Here, At(place + 1)>> \in Wide => place = Len(code)
        /\ UNCHANGED eof

End == /\ place = Len(code) + 1 /\ eof' = TRUE
       /\ Becomes("eof", place, 0)
       /\ UNCHANGED place

Init == /\ code \in Texts
        /\ place = 1 /\ tokens = <<>> /\ diagnostics = {} /\ eof = FALSE

Next == /\ ~eof
        /\ \/ place <= Len(code) /\ (Skip \/ Take)
           \/ End
        /\ UNCHANGED code

Spec == Init /\ [][Next]_vars
=============================================================================
