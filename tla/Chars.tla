------------------------------- MODULE Chars -------------------------------
(***************************************************************************)
(* The characters the scanner of kisyshot tells apart                      *)
(* (src/src/compiler/lexer.cc, src/include/ast/tokens.inc).  Each stands   *)
(* for the bytes every branch of the scanner treats like it:               *)
(*   "0"; "7" for 1..7; "8" for 8 and 9; "a" for the hexadecimal letters   *)
(*   but e; "e"; "x"; "g" for the other letters and the underscore;        *)
(*   "space" for white space within a line and the byte A0; "newline";     *)
(*   "+" for + and -; "*"; "/"; "="; "<" for the operators that may be     *)
(*   doubled by =; "&" for the ones that occur only doubled; "semi" for    *)
(*   the punctuators; "quote" and "backslash"; "."; "@" for ASCII          *)
(*   characters that start nothing; "fe", "ff" and "high" for bytes above  *)
(*   127; "nul".                                                           *)
(* A text is a sequence of them, its positions start at 1.                 *)
(***************************************************************************)
EXTENDS Integers, Sequences

CONSTANT Spelling    \* m_raw_token on words: word -> type of its token

Octal == {"0", "7"}
Digit == Octal \cup {"8"}
Hex == Digit \cup {"a", "e"}
Letter == {"a", "e", "x", "g"}
Word == Letter \cup Digit
Space == {"space", "newline"}
High == {"fe", "ff", "high"}
Heads == {"+", "*", "/", "=", "<", "&"}    \* s_operator_heads
Operators == {<<"=", "=">>, <<"<", "=">>, <<"&", "&">>} \cup {<<c>> : c \in Heads \ {"&"}}
Char == Word \cup Space \cup High \cup Heads
           \cup {"semi", "quote", "backslash", ".", "@", "nul"}

\* Two bytes that are skipped as one space: the table of spaces holds UTF-16.
Wide == {<<"0", "nul">>, <<"fe", "ff">>}

\* Characters for which isSplitter() answers false.  Where char is signed no char is
\* above 127, its first test.
Joined == Word

\* Reading one past the end finds the terminator of the std::string.
CharAt(text, i) == IF i \in 1 .. Len(text) THEN text[i] ELSE "nul"

\* rawTokenType of an operator, and of a word that nextIdentifier has cut out.
MarkType(raw) == IF raw \in Operators THEN "operator" ELSE "unknown"
WordType(word) == IF word \in DOMAIN Spelling THEN Spelling[word] ELSE "identifier"

Kinds == {"identifier", "numeric_literal", "string_literal", "inline_comment",
          "interline_comment", "punctuator", "operator", "unknown", "eof"}
         \cup {Spelling[word] : word \in DOMAIN Spelling}

\* raw is the string_view: where it starts, how long it is.
Token(type, offset, from, size) ==
    [type |-> type, offset |-> offset, raw |-> <<from, size>>]
=============================================================================
