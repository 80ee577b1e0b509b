------------------------------- MODULE Lexer -------------------------------
(***************************************************************************)
(* The scanner of kisyshot (src/src/compiler/lexer.cc).                    *)
(*                                                                         *)
(* lex() calls next() until the end is marked; next() decides by the first *)
(* characters which scanner runs.  A step is one decision of next() or one *)
(* turn of the scanner's loop: `scanner' says whose, "next" between them.  *)
(* lex() returns whether diagnostics is empty.                             *)
(*                                                                         *)
(* The text is a source with the declarations of the runtime behind it:    *)
(* ContextManager::load appends them.  They end with a newline.            *)
(***************************************************************************)
EXTENDS Chars

CONSTANTS Sources,  \* the files
          Library   \* what load appends

VARIABLES
    code,         \* _code
    position,     \* _position
    eof,          \* _eof
    tokens,       \* _context->tokens
    diagnostics,  \* indices of the tokens diagnostics are at
    scanner,      \* the loop that runs
    startPos,     \* locals of the scanners:
    escaped,      \*   nextStringLiteral
    type,         \*   nextNumericLiteral
    offset        \*   nextIdentifier

locals == <<startPos, escaped, type, offset>>
vars == <<code, position, eof, tokens, diagnostics, scanner, locals>>

ASSUME LexerAssumption ==
    /\ Sources \subseteq Seq(Char)
    /\ Library \in Seq(Char) /\ Len(Library) > 1
    /\ Library[Len(Library)] = "newline" /\ Library[Len(Library) - 1] # "backslash"

\* The declarations start with the word int, and hold no string and no comment.
ASSUME LibraryAssumption ==
    /\ Library[1] \in Letter
    /\ \A k \in 1 .. Len(Library) : Library[k] # "quote"
    /\ \A k \in 1 .. Len(Library) - 1 : Library[k] = "*" => Library[k + 1] # "/"

Texts == {source \o Library : source \in Sources}

At(i) == CharAt(code, i)
Here == At(position)
Ahead == At(position + 1)

\* --- what a scanner does to the shared state -----------------------------------
Push(kind, start, from, size) ==
    /\ tokens' = Append(tokens, Token(kind, start, from, size))
    /\ UNCHANGED diagnostics
PushWrong(kind, start, from, size) ==
    /\ tokens' = Append(tokens, Token(kind, start, from, size))
    /\ diagnostics' = diagnostics \cup {Len(tokens) + 1}

Return(p) == position' = p /\ scanner' = "next" /\ UNCHANGED <<code, eof, locals>>

Running(name) == scanner = name
Stays == UNCHANGED <<code, eof, tokens, diagnostics, scanner>>

\* --- next() --------------------------------------------------------------------
AtNext == Running("next") /\ ~eof

\* Behind the terminator substr throws: no step.
EndOfCode ==
    /\ AtNext /\ position = Len(code) + 1
    /\ Push("eof", position, position, 0)
    /\ eof' = TRUE
    /\ UNCHANGED <<code, position, scanner, locals>>

InCode == AtNext /\ position <= Len(code)
IsSpace == Here \in Space
IsWide == position < Len(code) /\ <<Here, Ahead>> \in Wide
Solid == InCode /\ ~IsSpace /\ ~IsWide

SkipSpace ==
    /\ InCode
    /\ \/ IsSpace /\ position' = position + 1
       \/ ~IsSpace /\ IsWide /\ position' = position + 2
    /\ Stays /\ UNCHANGED locals

Punctuator ==
    /\ Solid /\ Here = "semi"
    /\ Push("punctuator", position, position, 1)
    /\ Return(position + 1)

\* substr(_position, 2): one character if it is the last.
Pair == IF position < Len(code) THEN <<Here, Ahead>> ELSE <<Here>>
StartsComment == Here = "/" /\ Ahead \in {"/", "*"}

\* Mutant: an operator of one character is preferred.
ShortOperator ==
    /\ Solid /\ Here \in Heads /\ ~StartsComment
    /\ Push(MarkType(<<Here>>), position, position, 1)
    /\ Return(position + 1)
Operator ==
    /\ Solid /\ Here \in Heads /\ ~StartsComment
    /\ LET raw == IF Pair \in Operators THEN Pair ELSE <<Here>>
       IN Push(MarkType(raw), position, position, Len(raw))
    /\ Return(position + (IF Pair \in Operators THEN 2 ELSE 1))

\* A scanner is called: p is where its loop starts.
Start(name, p) ==
    /\ scanner' = name /\ position' = p /\ startPos' = position
    /\ UNCHANGED <<code, eof, tokens, diagnostics>>
Move(p) == position' = p /\ Stays

\* --- nextNumericLiteral() --------------------------------------------------------
Zero == Solid /\ Here = "0" /\ position < Len(code)

ZeroAlone ==
    /\ Zero /\ Ahead \notin {".", "x"} \cup Digit
    /\ Push("numeric_literal", position, position, 1)
    /\ Return(position + 1)

StartNumber ==
    /\ Solid /\ Here \in Digit
    /\ \/ ~Zero /\ Start("number", position) /\ type' = "NORMAL"
       \/ Zero /\ Ahead = "."      /\ Start("number", position + 2) /\ type' = "FLOAT"
       \/ Zero /\ Ahead = "x"      /\ Start("number", position + 2) /\ type' = "HEX"
       \/ Zero /\ Ahead \in Octal  /\ Start("number", position + 1) /\ type' = "OCT"
    /\ UNCHANGED <<escaped, offset>>

IsDigit == \/ Here \in Octal
           \/ Here = "8" /\ type # "OCT"
           \/ Here \in {"a", "e"} /\ type = "HEX"
IsPoint == Here = "." /\ type = "NORMAL"
IsExponent == Here = "e" /\ type \in {"NORMAL", "FLOAT"}

NumberDigit ==
    /\ Running("number") /\ IsDigit
    /\ Move(position + 1) /\ UNCHANGED locals

NumberPoint ==
    /\ Running("number") /\ IsPoint
    /\ Move(position + 1)
    /\ type' = "FLOAT" /\ UNCHANGED <<startPos, escaped, offset>>

NumberExponent ==
    /\ Running("number") /\ IsExponent
    /\ Move(position + (IF Ahead = "+" THEN 2 ELSE 1))
    /\ type' = "SCIENTIFIC" /\ UNCHANGED <<startPos, escaped, offset>>

NumberEnds ==
    /\ Running("number") /\ ~IsDigit /\ ~IsPoint /\ ~IsExponent
    /\ Push("numeric_literal", startPos, startPos, position - startPos)
    /\ Return(position)

\* An 8 or a 9 after a leading 0: everything up to a splitter is wrong.
StartBadNumber ==
    /\ Zero /\ Ahead = "8"
    /\ Start("bad_number", position) /\ UNCHANGED <<escaped, type, offset>>

BadNumberChar ==
    /\ Running("bad_number") /\ Here \in Joined
    /\ Move(position + 1) /\ UNCHANGED locals

BadNumberEnds ==
    /\ Running("bad_number") /\ Here \notin Joined
    /\ PushWrong("numeric_literal", startPos, startPos, position - startPos)
    /\ Return(position)

\* --- nextStringLiteral() -----------------------------------------------------------
StartString ==
    /\ Solid /\ Here = "quote"
    /\ Start("string", position + 1)
    /\ escaped' = FALSE /\ UNCHANGED <<type, offset>>

\* The end of the code is not reached: the last newline ends the string if none does.
InString == Running("string") /\ position <= Len(code)

StringCloses ==
    /\ InString /\ Here = "quote" /\ ~escaped
    /\ Push("string_literal", startPos, startPos + 1, position - startPos - 1)
    /\ Return(position + 1)

\* Mutant: a backslash escapes the next character even when it is escaped itself.
AlwaysEscapes == Here = "backslash"
EscapesNext == Here = "backslash" /\ ~escaped
StringChar ==
    /\ InString /\ (Here \in {"quote", "newline"} => escaped)
    /\ Move(position + 1)
    /\ escaped' = EscapesNext /\ UNCHANGED <<startPos, type, offset>>

StringBreaks ==
    /\ InString /\ Here = "newline" /\ ~escaped
    /\ PushWrong("string_literal", startPos, startPos, 1)
    /\ Return(position + 1)

\* --- nextInlineComment(), nextInterlineComment() -----------------------------------
StartLineComment ==
    /\ Solid /\ Here = "/" /\ Ahead = "/"
    /\ Start("inline_comment", position) /\ UNCHANGED <<escaped, type, offset>>

LineNeverEnds == position > Len(code)   \* mutant: up to the end of the code
LineEnds == position > Len(code) \/ Ahead = "newline"

LineCommentChar ==
    /\ Running("inline_comment") /\ ~LineEnds
    /\ Move(position + 1) /\ UNCHANGED locals

LineCommentEnds ==
    /\ Running("inline_comment") /\ LineEnds
    /\ LET p == IF position > Len(code) THEN position ELSE position + 1
       IN /\ Push("inline_comment", startPos, startPos, p - startPos)
          /\ Return(p)

StartComment ==
    /\ Solid /\ Here = "/" /\ Ahead = "*"
    /\ Start("interline_comment", position + 2) /\ UNCHANGED <<escaped, type, offset>>

InComment == Running("interline_comment") /\ position < Len(code)
Closes == Here = "*" /\ Ahead = "/"

CommentCharButStar ==   \* mutant: a star is not stepped over
    /\ InComment /\ ~Closes
    /\ Move(IF Here = "*" THEN position ELSE position + 1) /\ UNCHANGED locals
CommentChar ==
    /\ InComment /\ ~Closes
    /\ Move(position + 1) /\ UNCHANGED locals

CommentClosesEarly ==   \* mutant: the slash is left
    /\ InComment /\ Closes
    /\ Push("interline_comment", startPos, startPos, position + 2 - startPos)
    /\ Return(position + 1)
CommentCloses ==
    /\ InComment /\ Closes
    /\ Push("interline_comment", startPos, startPos, position + 2 - startPos)
    /\ Return(position + 2)

CommentAtEndStepsTwo ==   \* mutant: one step too far
    /\ Running("interline_comment") /\ position >= Len(code)
    /\ PushWrong("interline_comment", startPos, startPos, 2)
    /\ Return(position + 2)
CommentAtEnd ==
    /\ Running("interline_comment") /\ position >= Len(code)
    /\ PushWrong("interline_comment", startPos, startPos, 2)
    /\ Return(position + 1)

\* --- nextIdentifier(offset) --------------------------------------------------------
StartName ==
    /\ Solid /\ Here \in Letter
    /\ Start("identifier", position)
    /\ offset' = 0 /\ UNCHANGED <<escaped, type>>

InName == position + offset <= Len(code) /\ At(position + offset) \in Word

NameChar ==
    /\ Running("identifier") /\ InName
    /\ Move(position)
    /\ offset' = offset + 1 /\ UNCHANGED <<startPos, escaped, type>>

NameEnds ==
    /\ Running("identifier") /\ ~InName
    /\ Push(WordType(SubSeq(code, position, position + offset - 1)),
            position, position, offset)
    /\ Return(position + offset)

\* --- neither of the above --------------------------------------------------------------
StartStray ==
    /\ Solid /\ Here \notin Word \cup Heads \cup {"quote", "semi"}
    /\ Start("unknown", position + 1) /\ UNCHANGED <<escaped, type, offset>>

StrayChar ==
    /\ Running("unknown") /\ Here \in Joined
    /\ Move(position + 1) /\ UNCHANGED locals

StrayEnds ==
    /\ Running("unknown") /\ Here \notin Joined
    /\ PushWrong("unknown", startPos, startPos, position - startPos)
    /\ Return(position)

Init ==
    /\ code \in Texts
    /\ position = 1 /\ eof = FALSE
    /\ tokens = <<>> /\ diagnostics = {}
    /\ scanner = "next"
    /\ startPos = 1 /\ escaped = FALSE /\ type = "NORMAL" /\ offset = 0

Next ==
    \/ EndOfCode \/ SkipSpace \/ Punctuator \/ Operator
    \/ ZeroAlone \/ StartNumber \/ NumberDigit \/ NumberPoint \/ NumberExponent \/ NumberEnds
    \/ StartBadNumber \/ BadNumberChar \/ BadNumberEnds
    \/ StartString \/ StringCloses \/ StringChar \/ StringBreaks
    \/ StartLineComment \/ LineCommentChar \/ LineCommentEnds
    \/ StartComment \/ CommentChar \/ CommentCloses \/ CommentAtEnd
    \/ StartName \/ NameChar \/ NameEnds
    \/ StartStray \/ StrayChar \/ StrayEnds

\* lex() calls next() as long as the end is not marked.
Spec == Init /\ [][Next]_vars /\ WF_vars(Next)

\* --- properties --------------------------------------------------------------------------
Scanners == {"next", "number", "bad_number", "string", "inline_comment",
             "interline_comment", "identifier", "unknown"}
Place == IF scanner = "next" THEN position ELSE startPos

TokensInText ==
    /\ tokens \in Seq([type : Kinds, offset : Nat, raw : Nat \X Nat])
    /\ \A k \in DOMAIN tokens :
          /\ tokens[k].raw[1] >= tokens[k].offset
          /\ tokens[k].raw[1] + tokens[k].raw[2] <= Len(code) + 1
    /\ diagnostics \subseteq DOMAIN tokens

\* Types, and that the scanner stays in the text: it reads the terminator at most,
\* substr never throws, and string_views lie in the text.
TypeOK ==
    /\ code \in Texts
    /\ position \in 1 .. Len(code) + 1 /\ startPos \in 1 .. Len(code)
    /\ scanner = "identifier" => offset \in 0 .. Len(code) + 1 - position
    /\ offset \in Nat /\ eof \in BOOLEAN /\ escaped \in BOOLEAN
    /\ type \in {"NORMAL", "FLOAT", "SCIENTIFIC", "OCT", "HEX"}
    /\ scanner \in Scanners
    /\ TokensInText

\* No character is in two tokens, and none is lost: one that is in no token is white
\* space, a quotation mark of a string, or what follows the start of a reported token.
Viewed(k) == tokens[k].raw[1] .. tokens[k].raw[1] + tokens[k].raw[2] - 1
Reach(k) == tokens[k].offset ..
           (IF k < Len(tokens) THEN tokens[k + 1].offset ELSE Place) - 1
InToken(i) == \E k \in DOMAIN tokens : i \in Viewed(k)
IsBlank(i) == \/ code[i] \in Space
              \/ <<code[i], At(i + 1)>> \in Wide \/ <<At(i - 1), code[i]>> \in Wide
IsDelimiter(i) == code[i] = "quote" /\ \E k \in DOMAIN tokens :
                      tokens[k].type = "string_literal" /\ i \in Reach(k)
IsReported(i) == \E k \in diagnostics : i \in Reach(k)
EveryCharOnce ==
    /\ \A k \in 1 .. Len(tokens) - 1 :
          tokens[k].raw[1] + tokens[k].raw[2] <= tokens[k + 1].offset
    /\ \A i \in 1 .. Place - 1 :
          InToken(i) \/ IsBlank(i) \/ IsDelimiter(i) \/ IsReported(i)

\* After a source that ends with a newline and in which nothing is reported, the
\* declarations that load() appends are scanned from their first character.
Edge == Len(code) - Len(Library)
LibraryIsSeen ==
    eof /\ diagnostics = {} /\ Edge > 0 /\ code[Edge] = "newline" =>
        \E k \in DOMAIN tokens : /\ tokens[k].offset = Edge + 1
                                 /\ tokens[k].raw[1] = Edge + 1

\* lex() ends: every loop of every scanner moves on.
LexEnds == <>eof

\* Character by character, the scanner cuts the text into the lexemes of Tokens.
T == INSTANCE Tokens WITH place <- Place
ImplementsTokens == T!Spec
=============================================================================
