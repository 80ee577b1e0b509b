---------------------------- MODULE Lexer_proofs ----------------------------
(***************************************************************************)
(* For every source and every runtime that ends with a newline: the        *)
(* scanner stays in the text, and it implements Tokens.  The invariant     *)
(* says, for each loop, what the characters behind it are: it is the part  *)
(* of the lexeme that has been read.                                       *)
(*                                                                         *)
(* The second part is about Reports: a diagnostic at a token of one line   *)
(* is printed with its line, once, and marked under the token              *)
(* (Context::locate, Context::lastOfLine, Diagnostic::writeTo).  First     *)
(* where the scanner puts tokens, then the table of lines, then the        *)
(* printing.                                                               *)
(***************************************************************************)
EXTENDS Reports, WellFoundedInduction, FunctionTheorems, FiniteSetTheorems, TLAPS

-----------------------------------------------------------------------------
(* Characters at and behind the end *)

TextOK == code \in Seq(Char) /\ Len(code) > 1 /\ CharAt(code, Len(code)) = "newline"

\* Every text ends with the newline of the last declaration.
LEMMA TextsEnd == ASSUME code \in Texts PROVE TextOK
<1>1. PICK source \in Sources : code = source \o Library
  BY DEF Texts
<1>2. source \in Seq(Char) /\ Library \in Seq(Char) /\ Len(Library) > 1
  BY LexerAssumption
<1>3. /\ code \in Seq(Char) /\ Len(code) = Len(source) + Len(Library)
      /\ Len(source) \in Nat /\ Len(Library) \in Nat
  BY <1>1, <1>2
<1>4. code[Len(code)] = Library[Len(Library)]
  BY <1>1, <1>2, <1>3
<1> QED
  BY <1>2, <1>3, <1>4, LexerAssumption DEF TextOK, CharAt

\* Only the terminator is behind the text.
LEMMA Behind ==
    ASSUME TextOK, NEW i \in Int
    PROVE  /\ CharAt(code, i) \in Char
           /\ CharAt(code, i) # "nul" => i \in 1 .. Len(code)
           /\ i > Len(code) => CharAt(code, i) = "nul"
<1>1. "nul" \in Char
  BY DEF Char
<1> QED
  BY <1>1 DEF TextOK, CharAt

\* The terminator and the last character belong to no number, word or operator.
LEMMA NotInside ==
    /\ {"nul", "newline"} \cap (Word \cup Heads \cup {".", "x", "e", "quote", "semi"}) = {}
    /\ Octal \subseteq Digit /\ Digit \subseteq Hex /\ Digit \subseteq Word
    /\ "nul" \notin Space \cup Hex /\ {"e", "+", "."} \cap Digit = {} /\ "0" \in Octal
  BY DEF Word, Heads, Letter, Digit, Octal, Hex, Space

-----------------------------------------------------------------------------
(* The invariant: what has been read of a lexeme *)

Begun == scanner # "next" =>
    /\ eof = FALSE /\ startPos <= position
    /\ startPos < Len(code) => <<At(startPos), At(startPos + 1)>> \notin Wide

Digits(p, q) == p <= q /\ \A k \in p .. q - 1 : At(k) \in Digit
NoPrefix == At(startPos) = "0" => At(startPos + 1) \notin Digit \cup {"x"}
PointRead(q) == \E p \in startPos + 1 .. q - 1 :
    At(p) = "." /\ Digits(startPos, p) /\ Digits(p + 1, q)
ExponentRead(d) ==
    /\ At(d) = "e"
    /\ IF At(d + 1) = "+" THEN Digits(d + 2, position) ELSE Digits(d + 1, position)
    /\ PointRead(d) \/ (At(startPos) # "0" /\ Digits(startPos, d))

NumberRead == scanner = "number" =>
    /\ At(startPos) \in Digit
    /\ type = "NORMAL" => /\ Digits(startPos, position)
                          /\ At(startPos) = "0" => At(startPos + 1) = "nul"
    /\ type = "FLOAT" => NoPrefix /\ PointRead(position)
    /\ type = "SCIENTIFIC" =>
          NoPrefix /\ \E d \in startPos + 1 .. position - 1 : ExponentRead(d)
    /\ type = "OCT" => /\ At(startPos) = "0" /\ At(startPos + 1) \in Octal
                       /\ \A k \in startPos .. position - 1 : At(k) \in Octal
                       /\ startPos < position
    /\ type = "HEX" => /\ At(startPos) = "0" /\ At(startPos + 1) = "x"
                       /\ startPos + 2 <= position
                       /\ \A k \in startPos + 2 .. position - 1 : At(k) \in Hex

BadNumberRead == scanner = "bad_number" =>
    /\ At(startPos) = "0" /\ At(startPos + 1) = "8"
    /\ \A k \in startPos .. position - 1 : At(k) \in Joined

\* Before position lies a run of backslashes, perhaps of none.
BackslashRun(j) ==
    /\ \A i \in j .. position - 1 : At(i) = "backslash"
    /\ j = startPos + 1 \/ At(j - 1) # "backslash"
StringRead == scanner = "string" =>
    /\ At(startPos) = "quote" /\ startPos < position
    /\ T!Open(startPos, position)
    /\ \E j \in startPos + 1 .. position :
          /\ BackslashRun(j)
          /\ escaped = TRUE => (position - j) % 2 = 1
          /\ escaped = FALSE => (position - j) % 2 = 0

LineCommentRead == scanner = "inline_comment" =>
    /\ At(startPos) = "/" /\ At(startPos + 1) = "/"
    /\ \A k \in startPos .. position : At(k) # "newline"

CommentRead == scanner = "interline_comment" =>
    /\ At(startPos) = "/" /\ At(startPos + 1) = "*"
    /\ startPos + 2 <= position /\ position <= Len(code)
    /\ T!Unclosed(startPos, position)

NameRead == scanner = "identifier" =>
    /\ At(startPos) \in Letter /\ position = startPos
    /\ \A k \in position .. position + offset - 1 : At(k) \in Word

StrayRead == scanner = "unknown" =>
    /\ At(startPos) \notin Word \cup Space \cup Heads \cup {"quote", "semi"}
    /\ startPos < position
    /\ \A k \in startPos + 1 .. position - 1 : At(k) \in Joined

IInv == /\ TypeOK /\ Begun
        /\ NumberRead /\ BadNumberRead /\ StringRead /\ LineCommentRead
        /\ CommentRead /\ NameRead /\ StrayRead

-----------------------------------------------------------------------------
(* Types *)

\* A token that lies in the text may be added.
LEMMA PushTyped ==
    ASSUME TextOK, TokensInText, code' = code,
           NEW kind \in Kinds, NEW start \in Nat, NEW from \in Nat, NEW size \in Nat,
           from >= start, from + size <= Len(code) + 1,
           Push(kind, start, from, size) \/ PushWrong(kind, start, from, size)
    PROVE  TokensInText'
<1> DEFINE t == Token(kind, start, from, size)
           S == [type : Kinds, offset : Nat, raw : Nat \X Nat]
<1>1. t \in S /\ t.offset = start /\ t.raw[1] = from /\ t.raw[2] = size
  BY DEF Token
<1>2. tokens \in Seq(S) /\ tokens' = Append(tokens, t)
  BY DEF TokensInText, Push, PushWrong
<1> HIDE DEF t
<1>3. tokens' \in Seq(S)
  BY <1>1, <1>2
<1>4. /\ Len(tokens) \in Nat /\ DOMAIN tokens = 1 .. Len(tokens)
      /\ DOMAIN tokens' = 1 .. Len(tokens) + 1
  BY <1>1, <1>2
<1>5. \A k \in DOMAIN tokens' : tokens'[k] = IF k = Len(tokens) + 1 THEN t ELSE tokens[k]
  BY <1>2, <1>4
<1>6. ASSUME NEW k \in DOMAIN tokens'
      PROVE  /\ tokens'[k].raw[1] >= tokens'[k].offset
             /\ tokens'[k].raw[1] + tokens'[k].raw[2] <= Len(code') + 1
  <2>1. CASE k = Len(tokens) + 1
    BY <1>1, <1>5, <2>1
  <2>2. CASE k # Len(tokens) + 1
    <3>1. k \in DOMAIN tokens /\ tokens'[k] = tokens[k]
      BY <1>4, <1>5, <1>6, <2>2
    <3> QED
      BY <3>1, Zenon DEF TokensInText
  <2> QED
    BY <2>1, <2>2
<1>7. diagnostics' \subseteq DOMAIN tokens'
  BY <1>4 DEF TokensInText, Push, PushWrong
<1> QED
  BY <1>3, <1>6, <1>7 DEF TokensInText

\* A loop that goes on leaves the text and its tokens alone.
Goes == /\ UNCHANGED <<code, eof, tokens, diagnostics>>
        /\ position' \in 1 .. Len(code) + 1 /\ startPos' \in 1 .. Len(code)
        /\ escaped' \in BOOLEAN /\ offset' \in Nat
        /\ type' \in {"NORMAL", "FLOAT", "SCIENTIFIC", "OCT", "HEX"}
        /\ scanner' \in Scanners
        /\ scanner' = "identifier" => offset' \in 0 .. Len(code) + 1 - position'

LEMMA GoesTyped == TypeOK /\ Goes => TypeOK'
  BY DEF TypeOK, Goes, TokensInText

\* A token ends between startPos, or where next() was called, and position'.
LEMMA EndTyped ==
    ASSUME TypeOK, NEW kind \in Kinds, NEW start \in 1 .. Len(code),
           NEW from \in Nat, NEW size \in Nat, NEW p \in 1 .. Len(code) + 1,
           from >= start, from + size <= Len(code) + 1,
           Push(kind, start, from, size) \/ PushWrong(kind, start, from, size), Return(p)
    PROVE  TypeOK'
<1>1. TextOK /\ Len(code) \in Nat
  BY TextsEnd DEF TypeOK, TextOK
<1>2. TokensInText' 
  BY <1>1, PushTyped DEF TypeOK, Return
<1> QED
  BY <1>1, <1>2 DEF TypeOK, Return, locals, Scanners

LEMMA WordTyped == ASSUME NEW word PROVE WordType(word) \in Kinds
  BY DEF WordType, Kinds

\* What is said of a loop holds when another one runs.
LEMMA Elsewhere ==
    /\ scanner' # "number" => NumberRead'
    /\ scanner' # "bad_number" => BadNumberRead'
    /\ scanner' # "string" => StringRead'
    /\ scanner' # "inline_comment" => LineCommentRead'
    /\ scanner' # "interline_comment" => CommentRead'
    /\ scanner' # "identifier" => NameRead'
    /\ scanner' # "unknown" => StrayRead'
  BY DEF NumberRead, BadNumberRead, StringRead, LineCommentRead, CommentRead, NameRead,
         StrayRead

LEMMA ReturnKeeps == ASSUME TypeOK', scanner' = "next" PROVE IInv'
<1>1. Begun'
  BY DEF Begun
<1> QED
  BY <1>1, Elsewhere DEF IInv

\* A scanner starts at a lexeme.
LEMMA StartBegins ==
    ASSUME TypeOK, Solid, NEW name, NEW p \in Nat, p >= position, Start(name, p)
    PROVE  Begun' /\ startPos' = position /\ position \in 1 .. Len(code)
<1>1. position \in 1 .. Len(code) /\ Len(code) \in Nat
  BY TextsEnd DEF TypeOK, Solid, InCode, TextOK
<1> QED
  BY <1>1 DEF Begun, Start, Solid, InCode, AtNext, IsWide, Here, Ahead, At

\* The three kinds of steps of the loops, with what is to be shown of them.
NumericType == {"NORMAL", "FLOAT", "SCIENTIFIC", "OCT", "HEX"}
StepTyped == offset' = offset /\ escaped' \in BOOLEAN /\ type' \in NumericType
Starts(name, p) ==
    /\ Solid /\ Start(name, p) /\ StepTyped
    /\ name \in Scanners \ {"next", "identifier"}
    /\ p \in 1 .. Len(code) + 1 /\ p >= position
Moves(p) ==
    /\ scanner \notin {"next", "identifier"} /\ Move(p) /\ StepTyped
    /\ startPos' = startPos
    /\ p \in 1 .. Len(code) + 1 /\ p >= startPos
Ends(kind, start, from, size, p) ==
    /\ Push(kind, start, from, size) \/ PushWrong(kind, start, from, size)
    /\ Return(p)
    /\ kind \in Kinds /\ start \in 1 .. Len(code)
    /\ from \in Nat /\ size \in Nat /\ from >= start
    /\ from + size <= Len(code) + 1
    /\ p \in 1 .. Len(code) + 1

LEMMA StartKeeps ==
    ASSUME TypeOK, NEW name, NEW p, Starts(name, p)
    PROVE  /\ TypeOK' /\ Begun'
           /\ startPos' = position /\ position \in 1 .. Len(code) /\ scanner' = name
<1>1. /\ Begun' /\ startPos' = position /\ position \in 1 .. Len(code)
      /\ Len(code) \in Nat
  BY StartBegins, TextsEnd DEF TypeOK, TextOK, Starts
<1>2. Goes
  BY <1>1 DEF Goes, Start, TypeOK, Starts, StepTyped, NumericType
<1> QED
  BY <1>1, <1>2, GoesTyped DEF Start, Starts

LEMMA MoveKeeps ==
    ASSUME TypeOK, Begun, NEW p, Moves(p)
    PROVE  TypeOK' /\ Begun' /\ scanner' = scanner
<1>1. Goes
  BY DEF Goes, Move, Stays, TypeOK, Moves, StepTyped, NumericType
<1>2. Begun'
  BY DEF Begun, Move, Stays, At, Moves
<1> QED
  BY <1>1, <1>2, GoesTyped DEF Moves, Move, Stays

LEMMA EndKeeps ==
    ASSUME TypeOK, NEW kind, NEW start, NEW from, NEW size, NEW p,
           Ends(kind, start, from, size, p)
    PROVE  IInv'
  BY EndTyped, ReturnKeeps DEF Ends, Return

\* The variables between two steps, and the characters the scanner looks at.
LEMMA Looks ==
    ASSUME TypeOK
    PROVE  /\ Len(code) \in Nat /\ position \in 1 .. Len(code) + 1
           /\ startPos \in 1 .. Len(code)
           /\ escaped \in BOOLEAN /\ type \in NumericType /\ offset \in Nat
           /\ \A i \in Int : At(i) # "nul" => i \in 1 .. Len(code)
           /\ \A i \in Int : i > Len(code) => At(i) = "nul"
           /\ At(Len(code)) = "newline"
<1>1. /\ Len(code) \in Nat /\ position \in 1 .. Len(code) + 1
      /\ startPos \in 1 .. Len(code)
      /\ escaped \in BOOLEAN /\ type \in NumericType /\ offset \in Nat
  BY TextsEnd DEF TypeOK, TextOK, NumericType
<1>2. TextOK
  BY TextsEnd DEF TypeOK
<1> QED
  BY <1>1, <1>2, Behind DEF TextOK, At

LEMMA SameAt == \A i : T!At(i) = At(i)
  BY DEF T!At, T!CharAt, At, CharAt

LEMMA LooksHere == ASSUME TypeOK, Here # "nul" PROVE position \in 1 .. Len(code)
  BY Looks DEF Here

\* A turn of a loop that steps over a character.
LEMMA TurnKeeps ==
    ASSUME TypeOK, Begun, scanner \notin {"next", "identifier"}, position <= Len(code),
           Move(position + 1), startPos' = startPos, StepTyped
    PROVE  /\ TypeOK' /\ Begun' /\ scanner' = scanner
           /\ position' = position + 1 /\ code' = code
           /\ position \in 1 .. Len(code) /\ startPos <= position
<1>1. /\ Len(code) \in Nat /\ position \in 1 .. Len(code) + 1
      /\ startPos \in 1 .. Len(code)
  BY Looks
<1>2. startPos <= position
  BY DEF Begun
<1>3. position + 1 \in 1 .. Len(code) + 1 /\ position + 1 >= startPos
  BY <1>1, <1>2
<1>4. Moves(position + 1)
  BY <1>3 DEF Moves
<1>5. TypeOK' /\ Begun' /\ scanner' = scanner
  BY <1>4, MoveKeeps
<1>6. position' = position + 1 /\ code' = code
  BY DEF Move, Stays
<1> QED
  BY <1>1, <1>2, <1>5, <1>6

\* A loop ends with the token from where it started up to position.
LEMMA LoopEnds ==
    ASSUME TypeOK, Begun, scanner # "next", NEW kind \in Kinds, Return(position),
           \/ Push(kind, startPos, startPos, position - startPos)
           \/ PushWrong(kind, startPos, startPos, position - startPos)
    PROVE  IInv'
<1>1. /\ Len(code) \in Nat /\ position \in 1 .. Len(code) + 1
      /\ startPos \in 1 .. Len(code)
  BY Looks
<1>2. startPos <= position
  BY DEF Begun
<1>3. /\ startPos \in Nat /\ startPos >= startPos /\ position - startPos \in Nat
      /\ startPos + (position - startPos) <= Len(code) + 1
  BY <1>1, <1>2
<1>4. Ends(kind, startPos, startPos, position - startPos, position)
  BY <1>1, <1>3 DEF Ends
<1> QED
  BY <1>4, EndKeeps

\* A scanner starts and its loop begins at p.
LEMMA StartsLoop ==
    ASSUME TypeOK, Solid, NEW name \in Scanners \ {"next", "identifier"},
           NEW p \in 1 .. Len(code) + 1, p >= position, Start(name, p), StepTyped
    PROVE  /\ TypeOK' /\ Begun' /\ scanner' = name /\ code' = code
           /\ startPos' = position /\ position' = p
           /\ position \in 1 .. Len(code) /\ Len(code) \in Nat
<1>1. Starts(name, p)
  BY DEF Starts
<1>2. /\ TypeOK' /\ Begun' /\ scanner' = name
      /\ startPos' = position /\ position \in 1 .. Len(code)
  BY <1>1, StartKeeps
<1>3. code' = code /\ position' = p
  BY DEF Start
<1> QED
  BY <1>2, <1>3, Looks

LEMMA TypedAfter ==
    ASSUME TypeOK
    PROVE  /\ UNCHANGED <<escaped, type, offset>> => StepTyped
           /\ UNCHANGED locals => StepTyped /\ startPos' = startPos
<1>1. escaped \in BOOLEAN /\ type \in NumericType
  BY Looks
<1> QED
  BY <1>1 DEF StepTyped, locals

-----------------------------------------------------------------------------
(* The loops *)

\* nextIdentifier
LEMMA NameStep == ASSUME IInv, StartName \/ NameChar \/ NameEnds PROVE IInv'
<1>1. TypeOK /\ TextOK /\ Len(code) \in Nat
  BY TextsEnd DEF IInv, TypeOK, TextOK
<1>2. CASE StartName
  <2>1. Begun' /\ startPos' = position /\ position \in 1 .. Len(code)
    BY <1>1, <1>2, StartBegins DEF StartName, TypeOK
  <2>2. Goes
    <3>1. /\ position' = position /\ offset' = 0 /\ scanner' = "identifier"
          /\ UNCHANGED <<code, eof, tokens, diagnostics, escaped, type>>
      BY <1>2 DEF StartName, Start
    <3>2. offset' \in 0 .. Len(code) + 1 - position'
      BY <1>1, <2>1, <3>1
    <3>3. scanner' \in Scanners
      BY <3>1 DEF Scanners
    <3> QED
      BY <1>1, <2>1, <3>1, <3>2, <3>3 DEF Goes, TypeOK
  <2>3. NameRead'
    BY <1>1, <1>2, <2>1 DEF NameRead, StartName, Start, Here, At
  <2> QED
    BY <1>1, <1>2, <2>1, <2>2, <2>3, GoesTyped, Elsewhere DEF IInv, StartName, Start
<1>3. CASE NameChar
  <2>1. Goes
    BY <1>1, <1>3 DEF Goes, TypeOK, NameChar, Move, Stays, Running, InName
  <2>2. Begun'
    BY <1>3 DEF IInv, Begun, NameChar, Move, Stays, At
  <2>3. NameRead'
    BY <1>1, <1>3 DEF IInv, NameRead, NameChar, Move, Stays, At, InName, Running, TypeOK
  <2> QED
    BY <1>1, <1>3, <2>1, <2>2, <2>3, GoesTyped, Elsewhere
    DEF IInv, NameChar, Move, Stays, Running
<1>4. CASE NameEnds
  <2> DEFINE kind == WordType(SubSeq(code, position, position + offset - 1))
  <2>1. kind \in Kinds
    BY WordTyped
  <2> HIDE DEF kind
  <2>2. /\ position = startPos /\ position \in 1 .. Len(code)
        /\ offset \in Nat /\ position + offset \in 1 .. Len(code) + 1
        /\ position \in Nat /\ position >= position
        /\ position + offset <= Len(code) + 1
    BY <1>1, <1>4 DEF IInv, TypeOK, NameRead, NameEnds, Running
  <2>3. Push(kind, position, position, offset) /\ Return(position + offset)
    BY <1>4 DEF NameEnds, kind
  <2>4. TypeOK'
    BY <1>1, <2>1, <2>2, <2>3, EndTyped
  <2> QED
    BY <2>3, <2>4, ReturnKeeps DEF Return
<1> QED
  BY <1>2, <1>3, <1>4

\* The characters up to a splitter, in a bad number
LEMMA BadNumberStep ==
    ASSUME IInv, StartBadNumber \/ BadNumberChar \/ BadNumberEnds PROVE IInv'
<1>1. TypeOK /\ Begun
  BY DEF IInv
<1>2. CASE StartBadNumber
  <2>1. "bad_number" \in Scanners \ {"next", "identifier"}
    BY DEF Scanners
  <2>2. /\ Solid /\ Start("bad_number", position) /\ UNCHANGED <<escaped, type, offset>>
        /\ Here = "0" /\ Ahead = "8"
    BY <1>2 DEF StartBadNumber, Zero
  <2>3. position \in 1 .. Len(code) + 1 /\ position >= position /\ position \in Nat
    BY <1>1, <2>2, Looks DEF Solid, InCode
  <2>4. StepTyped
    BY <1>1, <2>2, TypedAfter
  <2>5. /\ TypeOK' /\ Begun' /\ scanner' = "bad_number" /\ code' = code
        /\ startPos' = position /\ position' = position
    BY <1>1, <2>1, <2>2, <2>3, <2>4, StartsLoop
  <2>6. BadNumberRead'
    BY <2>2, <2>3, <2>5 DEF BadNumberRead, Here, Ahead, At
  <2> QED
    BY <2>5, <2>6, Elsewhere DEF IInv
<1>3. CASE BadNumberChar
  <2>1. scanner = "bad_number" /\ Here \in Joined /\ Move(position + 1) /\ UNCHANGED locals
    BY <1>3 DEF BadNumberChar, Running
  <2>2. position <= Len(code)
    BY <1>1, <2>1, LooksHere, NotInside DEF Joined
  <2>3. startPos' = startPos /\ StepTyped
    BY <1>1, <2>1, TypedAfter
  <2>4. /\ TypeOK' /\ Begun' /\ scanner' = scanner /\ code' = code
        /\ position' = position + 1 /\ position \in Nat /\ startPos \in Nat
        /\ startPos <= position
    BY <1>1, <2>1, <2>2, <2>3, TurnKeeps, Looks
  <2>5. BadNumberRead'
    BY <2>1, <2>3, <2>4 DEF IInv, BadNumberRead, Here, At
  <2> QED
    BY <2>1, <2>4, <2>5, Elsewhere DEF IInv
<1>4. CASE BadNumberEnds
  <2>1. "numeric_literal" \in Kinds
    BY DEF Kinds
  <2>2. /\ scanner = "bad_number" /\ Return(position)
        /\ PushWrong("numeric_literal", startPos, startPos, position - startPos)
    BY <1>4 DEF BadNumberEnds, Running
  <2> QED
    BY <1>1, <2>1, <2>2, LoopEnds
<1> QED
  BY <1>2, <1>3, <1>4

\* The same in a stray token
LEMMA StrayStep ==
    ASSUME IInv, StartStray \/ StrayChar \/ StrayEnds PROVE IInv'
<1>1. TypeOK /\ Begun
  BY DEF IInv
<1>2. CASE StartStray
  <2>1. "unknown" \in Scanners \ {"next", "identifier"}
    BY DEF Scanners
  <2>2. /\ Solid /\ Start("unknown", position + 1) /\ UNCHANGED <<escaped, type, offset>>
        /\ Here \notin Word \cup Space \cup Heads \cup {"quote", "semi"}
    BY <1>2 DEF StartStray, Solid, IsSpace
  <2>3. position + 1 \in 1 .. Len(code) + 1 /\ position + 1 >= position /\ position \in Nat
    BY <1>1, <2>2, Looks DEF Solid, InCode
  <2>4. StepTyped
    BY <1>1, <2>2, TypedAfter
  <2>5. /\ TypeOK' /\ Begun' /\ scanner' = "unknown" /\ code' = code
        /\ startPos' = position /\ position' = position + 1
    BY <1>1, <2>1, <2>2, <2>3, <2>4, StartsLoop
  <2>6. StrayRead'
    BY <2>2, <2>3, <2>5 DEF StrayRead, Here, At
  <2> QED
    BY <2>5, <2>6, Elsewhere DEF IInv
<1>3. CASE StrayChar
  <2>1. scanner = "unknown" /\ Here \in Joined /\ Move(position + 1) /\ UNCHANGED locals
    BY <1>3 DEF StrayChar, Running
  <2>2. position <= Len(code)
    BY <1>1, <2>1, LooksHere, NotInside DEF Joined
  <2>3. startPos' = startPos /\ StepTyped
    BY <1>1, <2>1, TypedAfter
  <2>4. /\ TypeOK' /\ Begun' /\ scanner' = scanner /\ code' = code
        /\ position' = position + 1 /\ position \in Nat /\ startPos \in Nat
        /\ startPos <= position
    BY <1>1, <2>1, <2>2, <2>3, TurnKeeps, Looks
  <2>5. StrayRead'
    BY <2>1, <2>3, <2>4 DEF IInv, StrayRead, Here, At
  <2> QED
    BY <2>1, <2>4, <2>5, Elsewhere DEF IInv
<1>4. CASE StrayEnds
  <2>1. "unknown" \in Kinds
    BY DEF Kinds
  <2>2. /\ scanner = "unknown" /\ Return(position)
        /\ PushWrong("unknown", startPos, startPos, position - startPos)
    BY <1>4 DEF StrayEnds, Running
  <2> QED
    BY <1>1, <2>1, <2>2, LoopEnds
<1> QED
  BY <1>2, <1>3, <1>4

\* What was read stays read, and one more digit may be.
LEMMA DigitsStay ==
    ASSUME code' = code, startPos' = startPos
    PROVE  /\ \A k : At(k)' = At(k)
           /\ \A p, q : Digits(p, q)' <=> Digits(p, q)
           /\ \A q : PointRead(q)' <=> PointRead(q)
           /\ NoPrefix' <=> NoPrefix
<1>1. \A k : At(k)' = At(k)
  BY DEF At
<1>2. \A p, q : Digits(p, q)' <=> Digits(p, q)
  BY <1>1 DEF Digits
<1> QED
  BY <1>1, <1>2 DEF PointRead, NoPrefix

LEMMA DigitsMore ==
    ASSUME NEW p \in Nat, NEW q \in Nat, Digits(p, q), At(q) \in Digit
    PROVE  Digits(p, q + 1)
  BY DEF Digits

\* nextNumericLiteral
LEMMA NumberDigitStep == ASSUME IInv, NumberDigit PROVE IInv'
<1>1. TypeOK /\ Begun /\ NumberRead
  BY DEF IInv
<1>2. scanner = "number" /\ IsDigit /\ Move(position + 1) /\ UNCHANGED locals
  BY DEF NumberDigit, Running
<1>3. /\ Here \in Hex
      /\ type # "HEX" => Here \in Digit
      /\ type = "OCT" => Here \in Octal
  BY <1>2 DEF IsDigit, Hex, Digit, Octal
<1>4. position <= Len(code)
  BY <1>1, <1>3, LooksHere, NotInside
<1>5. startPos' = startPos /\ StepTyped /\ type' = type
  BY <1>1, <1>2, TypedAfter DEF locals
<1>6. /\ TypeOK' /\ Begun' /\ scanner' = scanner /\ code' = code
      /\ position' = position + 1 /\ position \in Nat /\ startPos \in Nat
      /\ startPos <= position
  BY <1>1, <1>2, <1>4, <1>5, TurnKeeps, Looks
<1>7. At(position) = Here /\ At(startPos)' = At(startPos)
      /\ At(startPos + 1)' = At(startPos + 1)
  BY <1>5, <1>6 DEF Here, At
<1>8. ASSUME type = "NORMAL" PROVE Digits(startPos, position)'
  <2>1. Digits(startPos, position + 1)
    BY <1>1, <1>2, <1>3, <1>6, <1>7, <1>8, DigitsMore DEF NumberRead
  <2> QED
    BY <2>1, <1>5, <1>6 DEF Digits, At
<1>9. ASSUME type = "FLOAT" PROVE NoPrefix' /\ PointRead(position)'
  <2>1. NoPrefix /\ PointRead(position)
    BY <1>1, <1>2, <1>9 DEF NumberRead
  <2>2. PICK p \in startPos + 1 .. position - 1 :
           At(p) = "." /\ Digits(startPos, p) /\ Digits(p + 1, position)
    BY <2>1 DEF PointRead
  <2>3. Digits(p + 1, position + 1)
    BY <2>2, <1>3, <1>6, <1>7, <1>9, DigitsMore
  <2>4. PointRead(position + 1)
    BY <2>2, <2>3, <1>6 DEF PointRead
  <2> QED
    BY <2>1, <2>4, <1>5, <1>6, DigitsStay DEF PointRead
<1>10. ASSUME type = "SCIENTIFIC"
       PROVE  NoPrefix' /\ (\E d \in startPos + 1 .. position - 1 : ExponentRead(d))'
  <2>1. NoPrefix
    BY <1>1, <1>2, <1>10 DEF NumberRead
  <2>2. PICK d \in startPos + 1 .. position - 1 : ExponentRead(d)
    BY <1>1, <1>2, <1>10 DEF NumberRead
  <2>3. IF At(d + 1) = "+" THEN Digits(d + 2, position + 1) ELSE Digits(d + 1, position + 1)
    BY <2>2, <1>3, <1>6, <1>7, <1>10, DigitsMore DEF ExponentRead
  <2>4. ExponentRead(d)'
    BY <2>2, <2>3, <1>5, <1>6, DigitsStay DEF ExponentRead
  <2> QED
    BY <2>1, <2>2, <2>4, <1>5, <1>6, DigitsStay
<1>11. ASSUME type = "OCT"
       PROVE  startPos < position' /\ \A k \in startPos .. position' - 1 : At(k)' \in Octal
  BY <1>1, <1>2, <1>3, <1>5, <1>6, <1>7, <1>11, DigitsStay DEF NumberRead
<1>12. ASSUME type = "HEX"
       PROVE  startPos + 2 <= position'
              /\ \A k \in startPos + 2 .. position' - 1 : At(k)' \in Hex
  BY <1>1, <1>2, <1>3, <1>5, <1>6, <1>7, <1>12, DigitsStay DEF NumberRead
<1>13. NumberRead'
  BY <1>1, <1>2, <1>5, <1>7, <1>8, <1>9, <1>10, <1>11, <1>12 DEF NumberRead
<1> QED
  BY <1>2, <1>6, <1>13, Elsewhere DEF IInv
LEMMA NumberPointStep == ASSUME IInv, NumberPoint PROVE IInv'
<1>1. TypeOK /\ Begun /\ NumberRead
  BY DEF IInv
<1>2. /\ scanner = "number" /\ Here = "." /\ type = "NORMAL" /\ Move(position + 1)
      /\ type' = "FLOAT" /\ startPos' = startPos /\ escaped' = escaped /\ offset' = offset
  BY DEF NumberPoint, Running, IsPoint
<1>3. position <= Len(code)
  BY <1>1, <1>2, LooksHere
<1>4. StepTyped
  BY <1>1, <1>2, Looks DEF StepTyped, NumericType
<1>5. /\ TypeOK' /\ Begun' /\ scanner' = scanner /\ code' = code
      /\ position' = position + 1 /\ position \in Nat /\ startPos \in Nat
      /\ startPos <= position
  BY <1>1, <1>2, <1>3, <1>4, TurnKeeps, Looks
<1>6. /\ At(startPos) \in Digit /\ Digits(startPos, position) /\ At(position) = "."
      /\ At(startPos) = "0" => At(startPos + 1) = "nul"
  BY <1>1, <1>2 DEF NumberRead, Here
<1>7. position \in startPos + 1 .. position /\ Digits(position + 1, position + 1)
  <2>1. startPos # position
    BY <1>6, NotInside
  <2> QED
    BY <2>1, <1>5 DEF Digits
<1>8. PointRead(position + 1)
  BY <1>5, <1>6, <1>7 DEF PointRead
<1>9. NoPrefix
  BY <1>6, NotInside DEF NoPrefix
<1>10. NumberRead'
  BY <1>2, <1>5, <1>6, <1>8, <1>9, DigitsStay DEF NumberRead, PointRead
<1> QED
  BY <1>2, <1>5, <1>10, Elsewhere DEF IInv

LEMMA NumberExponentStep == ASSUME IInv, NumberExponent PROVE IInv'
<1>1. TypeOK /\ Begun /\ NumberRead
  BY DEF IInv
<1> DEFINE p == position + (IF Ahead = "+" THEN 2 ELSE 1)
<1>2. /\ scanner = "number" /\ Here = "e" /\ type \in {"NORMAL", "FLOAT"}
      /\ Move(p) /\ type' = "SCIENTIFIC"
      /\ startPos' = startPos /\ escaped' = escaped /\ offset' = offset
  BY DEF NumberExponent, Running, IsExponent
<1>3. position \in 1 .. Len(code) /\ Len(code) \in Nat /\ startPos \in Nat
  BY <1>1, <1>2, LooksHere, Looks
<1>4. Ahead = "+" => position + 1 \in 1 .. Len(code)
  BY <1>1, <1>3, Looks DEF Ahead
<1>5. p \in position + 1 .. Len(code) + 1
  BY <1>3, <1>4
<1>6. startPos <= position
  BY <1>1, <1>2 DEF Begun
<1> HIDE DEF p
<1>7. StepTyped
  BY <1>1, <1>2, Looks DEF StepTyped, NumericType
<1>8. Moves(p)
  BY <1>2, <1>3, <1>5, <1>6, <1>7 DEF Moves
<1>9. TypeOK' /\ Begun' /\ scanner' = scanner /\ position' = p /\ code' = code
  BY <1>1, <1>2, <1>8, MoveKeeps DEF Move, Stays
<1>10. At(startPos) \in Digit /\ At(position) = "e"
  BY <1>1, <1>2 DEF NumberRead, Here
<1>11. startPos # position
  BY <1>10, NotInside
<1>12. /\ NoPrefix
       /\ PointRead(position) \/ (At(startPos) # "0" /\ Digits(startPos, position))
  <2>1. CASE type = "FLOAT"
    BY <1>1, <1>2, <2>1 DEF NumberRead
  <2>2. CASE type = "NORMAL"
    <3>1. Digits(startPos, position) /\ (At(startPos) = "0" => At(startPos + 1) = "nul")
      BY <1>1, <1>2, <2>2 DEF NumberRead
    <3>2. At(startPos) # "0"
      <4>1. CASE position = startPos + 1
        BY <3>1, <4>1, <1>10
      <4>2. CASE position # startPos + 1
        <5>1. startPos + 1 \in startPos .. position - 1
          BY <4>2, <1>3, <1>6, <1>11
        <5> QED
          BY <3>1, <5>1, NotInside DEF Digits
      <4> QED
        BY <4>1, <4>2
    <3> QED
      BY <3>1, <3>2 DEF NoPrefix
  <2> QED
    BY <1>2, <2>1, <2>2
<1>13. IF At(position + 1) = "+" THEN Digits(position + 2, p) ELSE Digits(position + 1, p)
  BY <1>3 DEF p, Digits, Ahead
<1>14. PICK d : d = position
  OBVIOUS
<1>15. d \in startPos + 1 .. p - 1
  BY <1>3, <1>5, <1>6, <1>11, <1>14
<1>16. ExponentRead(d)'
  BY <1>2, <1>9, <1>10, <1>12, <1>13, <1>14, DigitsStay DEF ExponentRead
<1>17. (\E e \in startPos + 1 .. position - 1 : ExponentRead(e))'
  BY <1>2, <1>9, <1>15, <1>16
<1>18. NumberRead'
  BY <1>2, <1>9, <1>10, <1>12, <1>17, DigitsStay DEF NumberRead
<1> QED
  BY <1>2, <1>9, <1>18, Elsewhere DEF IInv

LEMMA NumberEndStep == ASSUME IInv, NumberEnds PROVE IInv'
<1>1. TypeOK /\ Begun
  BY DEF IInv
<1>2. "numeric_literal" \in Kinds
  BY DEF Kinds
<1>3. /\ scanner = "number" /\ Return(position)
      /\ Push("numeric_literal", startPos, startPos, position - startPos)
  BY DEF NumberEnds, Running
<1> QED
  BY <1>1, <1>2, <1>3, LoopEnds

\* A number starts where next() was called, or behind its prefix.
LEMMA SolidIn ==
    ASSUME TypeOK, Solid
    PROVE  /\ position \in 1 .. Len(code) /\ Len(code) \in Nat /\ position \in Nat
           /\ position \in 1 .. Len(code) + 1 /\ position >= position
           /\ position + 1 \in 1 .. Len(code) + 1 /\ position + 1 >= position
           /\ position < Len(code) =>
                 position + 2 \in 1 .. Len(code) + 1 /\ position + 2 >= position
<1>1. position <= Len(code)
  BY DEF Solid, InCode
<1> QED
  BY <1>1, Looks

LEMMA NumberStartStep == ASSUME IInv, StartNumber PROVE IInv'
<1>1. TypeOK
  BY DEF IInv
<1>2. Solid /\ Here \in Digit /\ escaped' = escaped /\ offset' = offset
  BY DEF StartNumber
<1>3. "number" \in Scanners \ {"next", "identifier"}
  BY DEF Scanners
<1>4. ASSUME NEW p \in {position, position + 1, position + 2}, NEW t \in NumericType,
             Start("number", p), type' = t, p = position + 2 => position < Len(code)
      PROVE  /\ TypeOK' /\ Begun' /\ scanner' = "number" /\ code' = code
             /\ startPos' = position /\ position' = p
  <2>1. StepTyped
    BY <1>1, <1>2, <1>4, Looks DEF StepTyped
  <2>2. p \in 1 .. Len(code) + 1 /\ p >= position
    BY <1>1, <1>2, <1>4, SolidIn
  <2> QED
    BY <1>1, <1>2, <1>3, <1>4, <2>1, <2>2, StartsLoop
<1>5. position \in 1 .. Len(code) /\ Len(code) \in Nat /\ At(position) \in Digit
  BY <1>1, <1>2, SolidIn DEF Here
<1>6. {"NORMAL", "FLOAT", "OCT", "HEX"} \subseteq NumericType
  BY DEF NumericType
<1>7. CASE ~Zero /\ Start("number", position) /\ type' = "NORMAL"
  <2>1. /\ TypeOK' /\ Begun' /\ scanner' = "number" /\ code' = code
        /\ startPos' = position /\ position' = position
    BY <1>4, <1>5, <1>6, <1>7
  <2>2. Here = "0" => position + 1 > Len(code)
    BY <1>2, <1>5, <1>7 DEF Zero
  <2>3. At(position) = "0" => At(position + 1) = "nul"
    BY <1>1, <1>5, <2>2, Looks DEF Here
  <2>4. NumberRead'
    BY <2>1, <2>3, <1>5, <1>7 DEF NumberRead, Digits, At
  <2> QED
    BY <2>1, <2>4, Elsewhere DEF IInv
<1>8. CASE Zero /\ Ahead = "." /\ Start("number", position + 2) /\ type' = "FLOAT"
  <2>1. Here = "0" /\ position < Len(code)
    BY <1>8 DEF Zero
  <2>2. /\ TypeOK' /\ Begun' /\ scanner' = "number" /\ code' = code
        /\ startPos' = position /\ position' = position + 2
    BY <1>4, <1>5, <1>6, <1>8, <2>1
  <2>3. /\ At(position) = "0" /\ At(position + 1) = "."
        /\ Digits(position, position + 1) /\ Digits(position + 2, position + 2)
    BY <1>5, <1>8, <2>1 DEF Here, Ahead, Digits
  <2>4. PICK d : d = position + 1
    OBVIOUS
  <2>5. PointRead(position)'
    <3>1. d \in startPos' + 1 .. position' - 1 /\ d + 1 = position + 2
      BY <1>5, <2>2, <2>4
    <3>2. Digits(position, d) /\ Digits(d + 1, position + 2) /\ At(d) = "."
      BY <2>3, <2>4, <3>1
    <3> QED
      BY <2>2, <3>1, <3>2 DEF PointRead, Digits, At
  <2>6. NoPrefix'
    BY <2>2, <2>3, NotInside DEF NoPrefix, At
  <2>7. NumberRead'
    BY <1>5, <1>8, <2>2, <2>5, <2>6 DEF NumberRead, At
  <2> QED
    BY <2>2, <2>7, Elsewhere DEF IInv
<1>9. CASE Zero /\ Ahead = "x" /\ Start("number", position + 2) /\ type' = "HEX"
  <2>1. Here = "0" /\ position < Len(code)
    BY <1>9 DEF Zero
  <2>2. /\ TypeOK' /\ Begun' /\ scanner' = "number" /\ code' = code
        /\ startPos' = position /\ position' = position + 2
    BY <1>4, <1>5, <1>6, <1>9, <2>1
  <2>3. NumberRead'
    BY <1>5, <1>9, <2>1, <2>2 DEF NumberRead, At, Here, Ahead
  <2> QED
    BY <2>2, <2>3, Elsewhere DEF IInv
<1>10. CASE Zero /\ Ahead \in Octal /\ Start("number", position + 1) /\ type' = "OCT"
  <2>1. Here = "0" /\ "0" \in Octal
    BY <1>10, NotInside DEF Zero
  <2>2. /\ TypeOK' /\ Begun' /\ scanner' = "number" /\ code' = code
        /\ startPos' = position /\ position' = position + 1
    BY <1>4, <1>5, <1>6, <1>10
  <2>3. NumberRead'
    BY <1>5, <1>10, <2>1, <2>2 DEF NumberRead, At, Here, Ahead
  <2> QED
    BY <2>2, <2>3, Elsewhere DEF IInv
<1> QED
  BY <1>7, <1>8, <1>9, <1>10 DEF StartNumber

\* nextStringLiteral
LEMMA StringStartStep == ASSUME IInv, StartString PROVE IInv'
<1>1. TypeOK
  BY DEF IInv
<1>2. /\ Solid /\ Here = "quote" /\ Start("string", position + 1)
      /\ escaped' = FALSE /\ type' = type /\ offset' = offset
  BY DEF StartString
<1>3. "string" \in Scanners \ {"next", "identifier"}
  BY DEF Scanners
<1>4. StepTyped
  BY <1>1, <1>2, Looks DEF StepTyped
<1>5. /\ TypeOK' /\ Begun' /\ scanner' = "string" /\ code' = code
      /\ startPos' = position /\ position' = position + 1 /\ position \in Nat
  BY <1>1, <1>2, <1>3, <1>4, SolidIn, StartsLoop
<1>6. At(startPos)' = "quote"
  BY <1>2, <1>5 DEF Here, At
<1>7. T!Open(startPos, position)'
  BY <1>5 DEF T!Open
<1>8. PICK j : j = position + 1
  OBVIOUS
<1>9. BackslashRun(j)'
  BY <1>5, <1>8 DEF BackslashRun
<1>10. StringRead'
  BY <1>2, <1>5, <1>6, <1>7, <1>8, <1>9 DEF StringRead
<1> QED
  BY <1>5, <1>10, Elsewhere DEF IInv

LEMMA StringCharStep == ASSUME IInv, StringChar PROVE IInv'
<1>1. TypeOK /\ Begun /\ StringRead
  BY DEF IInv
<1>2. /\ scanner = "string" /\ position <= Len(code)
      /\ Here \in {"quote", "newline"} => escaped
      /\ Move(position + 1) /\ escaped' = EscapesNext
      /\ startPos' = startPos /\ type' = type /\ offset' = offset
  BY DEF StringChar, InString, Running
<1>3. /\ escaped \in BOOLEAN
      /\ Here = "backslash" /\ escaped = FALSE => escaped' = TRUE
      /\ Here # "backslash" => escaped' = FALSE
      /\ escaped = TRUE => escaped' = FALSE
  BY <1>1, <1>2, Zenon, Looks DEF EscapesNext
<1>4. StepTyped
  BY <1>1, <1>2, <1>3, Looks DEF StepTyped
<1>5. /\ TypeOK' /\ Begun' /\ scanner' = scanner /\ code' = code
      /\ position' = position + 1 /\ position \in Nat /\ startPos \in Nat
  BY <1>1, <1>2, <1>4, TurnKeeps, Looks
<1>6. /\ At(startPos) = "quote" /\ startPos < position /\ T!Open(startPos, position)
  BY <1>1, <1>2 DEF StringRead
<1>7. PICK j \in startPos + 1 .. position :
         /\ BackslashRun(j)
         /\ escaped = TRUE => (position - j) % 2 = 1
         /\ escaped = FALSE => (position - j) % 2 = 0
  BY <1>1, <1>2 DEF StringRead
<1>8. \A k : At(k)' = At(k)
  BY <1>2, <1>5, DigitsStay
<1>9. escaped = TRUE => T!Escaped(startPos, position)
  <2>1. ASSUME escaped = TRUE PROVE j \in startPos + 1 .. position - 1
    BY <1>5, <1>7, <2>1
  <2> QED
    BY <2>1, <1>5, <1>7, SameAt DEF T!Escaped, BackslashRun
<1>10. T!Open(startPos, position)'
  <2>1. \A i \in startPos + 1 .. position :
           T!At(i) \in {"quote", "newline"} => T!Escaped(startPos, i)
    <3>1. T!At(position) \in {"quote", "newline"} => T!Escaped(startPos, position)
      BY <1>2, <1>9, SameAt, Zenon DEF Here
    <3> QED
      BY <1>5, <1>6, <3>1 DEF T!Open
  <2>2. \A i : T!At(i)' = T!At(i) /\ (T!Escaped(startPos, i)' <=> T!Escaped(startPos, i))
    BY <1>2, <1>5, <1>8 DEF T!At, T!Escaped, At
  <2> QED
    BY <1>2, <1>5, <2>1, <2>2 DEF T!Open
<1>11. At(position) = Here
  BY DEF Here
<1>12. (\E i \in startPos + 1 .. position :
          /\ BackslashRun(i)
          /\ escaped = TRUE => (position - i) % 2 = 1
          /\ escaped = FALSE => (position - i) % 2 = 0)'
  <2>1. CASE Here = "backslash"
    <3>1. BackslashRun(j)'
      BY <1>2, <1>5, <1>7, <1>8, <1>11, <2>1 DEF BackslashRun
    <3>2. /\ escaped' = TRUE => (position' - j) % 2 = 1
          /\ escaped' = FALSE => (position' - j) % 2 = 0
      BY <1>3, <1>5, <1>7, <2>1
    <3> QED
      BY <1>2, <1>5, <1>7, <3>1, <3>2
  <2>2. CASE Here # "backslash"
    <3>1. PICK i : i = position + 1
      OBVIOUS
    <3>2. BackslashRun(i)'
      BY <1>2, <1>5, <1>8, <1>11, <2>2, <3>1 DEF BackslashRun
    <3>3. (position' - i) % 2 = 0 /\ escaped' = FALSE /\ i \in startPos' + 1 .. position'
      BY <1>2, <1>3, <1>5, <1>6, <2>2, <3>1
    <3> QED
      BY <3>2, <3>3
  <2> QED
    BY <2>1, <2>2
<1>13. At(startPos)' = "quote" /\ startPos' < position'
  BY <1>2, <1>5, <1>6 DEF At
<1>14. StringRead'
  BY <1>10, <1>12, <1>13 DEF StringRead
<1> QED
  BY <1>2, <1>5, <1>14, Elsewhere DEF IInv

LEMMA StringEndStep == ASSUME IInv, StringCloses \/ StringBreaks PROVE IInv'
<1>1. TypeOK /\ Begun /\ StringRead
  BY DEF IInv
<1>2. scanner = "string" /\ position <= Len(code)
  BY DEF StringCloses, StringBreaks, InString, Running
<1>3. /\ position \in 1 .. Len(code) /\ Len(code) \in Nat
      /\ startPos \in 1 .. Len(code) /\ startPos < position
  BY <1>1, <1>2, Looks DEF StringRead
<1>4. "string_literal" \in Kinds
  BY DEF Kinds
<1>5. position + 1 \in 1 .. Len(code) + 1
  BY <1>3
<1>6. CASE StringCloses
  <2>1. /\ Push("string_literal", startPos, startPos + 1, position - startPos - 1)
        /\ Return(position + 1)
    BY <1>6 DEF StringCloses
  <2>2. /\ startPos + 1 \in Nat /\ position - startPos - 1 \in Nat /\ startPos + 1 >= startPos
        /\ startPos + 1 + (position - startPos - 1) <= Len(code) + 1
    BY <1>3
  <2>3. Ends("string_literal", startPos, startPos + 1, position - startPos - 1, position + 1)
    BY <1>3, <1>4, <1>5, <2>1, <2>2 DEF Ends
  <2> QED
    BY <1>1, <2>3, EndKeeps
<1>7. CASE StringBreaks
  <2>1. PushWrong("string_literal", startPos, startPos, 1) /\ Return(position + 1)
    BY <1>7 DEF StringBreaks
  <2>2. startPos \in Nat /\ 1 \in Nat /\ startPos >= startPos /\ startPos + 1 <= Len(code) + 1
    BY <1>3
  <2>3. Ends("string_literal", startPos, startPos, 1, position + 1)
    BY <1>3, <1>4, <1>5, <2>1, <2>2 DEF Ends
  <2> QED
    BY <1>1, <2>3, EndKeeps
<1> QED
  BY <1>6, <1>7

\* nextInlineComment
LEMMA LineCommentStep ==
    ASSUME IInv, StartLineComment \/ LineCommentChar \/ LineCommentEnds PROVE IInv'
<1>1. TypeOK /\ Begun /\ LineCommentRead
  BY DEF IInv
<1>2. CASE StartLineComment
  <2>1. /\ Solid /\ Here = "/" /\ Ahead = "/" /\ Start("inline_comment", position)
        /\ UNCHANGED <<escaped, type, offset>>
    BY <1>2 DEF StartLineComment
  <2>2. "inline_comment" \in Scanners \ {"next", "identifier"}
    BY DEF Scanners
  <2>3. StepTyped
    BY <1>1, <2>1, TypedAfter
  <2>4. /\ TypeOK' /\ Begun' /\ scanner' = "inline_comment" /\ code' = code
        /\ startPos' = position /\ position' = position /\ position \in Nat
    BY <1>1, <2>1, <2>2, <2>3, SolidIn, StartsLoop
  <2>5. LineCommentRead'
    BY <2>1, <2>4 DEF LineCommentRead, Here, Ahead, At
  <2> QED
    BY <2>4, <2>5, Elsewhere DEF IInv
<1>3. CASE LineCommentChar
  <2>1. /\ scanner = "inline_comment" /\ position <= Len(code) /\ Ahead # "newline"
        /\ Move(position + 1) /\ UNCHANGED locals
    BY <1>1, <1>3, Looks DEF LineCommentChar, LineEnds, Running
  <2>2. startPos' = startPos /\ StepTyped
    BY <1>1, <2>1, TypedAfter
  <2>3. /\ TypeOK' /\ Begun' /\ scanner' = scanner /\ code' = code
        /\ position' = position + 1 /\ position \in Nat /\ startPos \in Nat
    BY <1>1, <2>1, <2>2, TurnKeeps, Looks
  <2>4. LineCommentRead'
    BY <1>1, <2>1, <2>2, <2>3 DEF LineCommentRead, Ahead, At
  <2> QED
    BY <2>1, <2>3, <2>4, Elsewhere DEF IInv
<1>4. CASE LineCommentEnds
  <2> DEFINE p == IF position > Len(code) THEN position ELSE position + 1
  <2>1. /\ scanner = "inline_comment" /\ Return(p)
        /\ Push("inline_comment", startPos, startPos, p - startPos)
    BY <1>4 DEF LineCommentEnds, Running
  <2>2. p \in 1 .. Len(code) + 1 /\ p >= startPos /\ startPos \in 1 .. Len(code)
    BY <1>1, <2>1, Looks DEF Begun
  <2> HIDE DEF p
  <2>3. /\ startPos \in Nat /\ p - startPos \in Nat /\ startPos >= startPos
        /\ startPos + (p - startPos) <= Len(code) + 1
    BY <1>1, <2>2, Looks
  <2>4. "inline_comment" \in Kinds
    BY DEF Kinds
  <2>5. Ends("inline_comment", startPos, startPos, p - startPos, p)
    BY <2>1, <2>2, <2>3, <2>4 DEF Ends
  <2> QED
    BY <1>1, <2>5, EndKeeps
<1> QED
  BY <1>2, <1>3, <1>4

\* nextInterlineComment.  A comment does not start with the last character, a newline:
\* its loop starts in the text.
LEMMA CommentStartStep == ASSUME IInv, StartComment PROVE IInv'
<1>1. TypeOK
  BY DEF IInv
<1>2. /\ Solid /\ Here = "/" /\ Ahead = "*" /\ Start("interline_comment", position + 2)
      /\ UNCHANGED <<escaped, type, offset>>
  BY DEF StartComment
<1>3. "interline_comment" \in Scanners \ {"next", "identifier"}
  BY DEF Scanners
<1>4. StepTyped
  BY <1>1, <1>2, TypedAfter
<1>5. position + 1 \in 1 .. Len(code) /\ position + 1 # Len(code)
  BY <1>1, <1>2, Looks DEF Ahead
<1>6. position + 2 \in 1 .. Len(code) + 1 /\ position + 2 >= position
  BY <1>1, <1>5, Looks
<1>7. /\ TypeOK' /\ Begun' /\ scanner' = "interline_comment" /\ code' = code
      /\ startPos' = position /\ position' = position + 2
      /\ position \in Nat /\ Len(code) \in Nat
  BY <1>1, <1>2, <1>3, <1>4, <1>6, SolidIn, StartsLoop
<1>8. T!Unclosed(startPos, position)'
  BY <1>7 DEF T!Unclosed
<1>9. At(startPos)' = "/" /\ At(startPos + 1)' = "*"
  BY <1>2, <1>7 DEF Here, Ahead, At
<1>10. startPos' + 2 <= position' /\ position' <= Len(code')
  BY <1>5, <1>7
<1>11. CommentRead'
  BY <1>8, <1>9, <1>10 DEF CommentRead
<1> QED
  BY <1>7, <1>11, Elsewhere DEF IInv

LEMMA CommentCharStep == ASSUME IInv, CommentChar PROVE IInv'
<1>1. TypeOK /\ Begun /\ CommentRead
  BY DEF IInv
<1>2. /\ scanner = "interline_comment" /\ position < Len(code) /\ ~Closes
      /\ Move(position + 1) /\ UNCHANGED locals
  BY DEF CommentChar, InComment, Running
<1>3. startPos' = startPos /\ StepTyped
  BY <1>1, <1>2, TypedAfter
<1>4. /\ TypeOK' /\ Begun' /\ scanner' = scanner /\ code' = code /\ Len(code) \in Nat
      /\ position' = position + 1 /\ position \in Nat /\ startPos \in Nat
  <2>1. position <= Len(code)
    BY <1>1, <1>2, Looks
  <2> QED
    BY <1>1, <1>2, <1>3, <2>1, TurnKeeps, Looks
<1>5. /\ At(startPos) = "/" /\ At(startPos + 1) = "*"
      /\ startPos + 2 <= position /\ T!Unclosed(startPos, position)
  BY <1>1, <1>2 DEF CommentRead
<1>6. T!Unclosed(startPos, position)'
  <2>1. \A i \in startPos + 2 .. position : ~(T!At(i) = "*" /\ T!At(i + 1) = "/")
    <3>1. ~(At(position) = "*" /\ At(position + 1) = "/")
      BY <1>2 DEF Closes, Here, Ahead
    <3> QED
      BY <1>4, <1>5, <3>1, SameAt DEF T!Unclosed
  <2>2. \A i : T!At(i)' = T!At(i)
    BY <1>4 DEF T!At
  <2> QED
    BY <1>3, <1>4, <2>1, <2>2 DEF T!Unclosed
<1>7. At(startPos)' = "/" /\ At(startPos + 1)' = "*"
  BY <1>3, <1>4, <1>5 DEF At
<1>8. startPos' + 2 <= position' /\ position' <= Len(code')
  BY <1>2, <1>3, <1>4, <1>5
<1>9. CommentRead'
  BY <1>6, <1>7, <1>8 DEF CommentRead
<1> QED
  BY <1>2, <1>4, <1>9, Elsewhere DEF IInv

LEMMA CommentEndStep == ASSUME IInv, CommentCloses \/ CommentAtEnd PROVE IInv'
<1>1. TypeOK /\ Begun /\ CommentRead
  BY DEF IInv
<1>2. scanner = "interline_comment"
  BY DEF CommentCloses, CommentAtEnd, InComment, Running
<1>3. /\ position \in 1 .. Len(code) /\ Len(code) \in Nat
      /\ startPos \in 1 .. Len(code) /\ startPos + 2 <= position
  BY <1>1, <1>2, Looks DEF CommentRead
<1>4. "interline_comment" \in Kinds
  BY DEF Kinds
<1>5. CASE CommentCloses
  <2>1. /\ Push("interline_comment", startPos, startPos, position + 2 - startPos)
        /\ Return(position + 2) /\ position < Len(code)
    BY <1>5 DEF CommentCloses, InComment
  <2>2. /\ startPos \in Nat /\ position + 2 - startPos \in Nat /\ startPos >= startPos
        /\ startPos + (position + 2 - startPos) <= Len(code) + 1
        /\ position + 2 \in 1 .. Len(code) + 1
    BY <1>3, <2>1
  <2>3. Ends("interline_comment", startPos, startPos, position + 2 - startPos, position + 2)
    BY <1>3, <1>4, <2>1, <2>2 DEF Ends
  <2> QED
    BY <1>1, <2>3, EndKeeps
<1>6. CASE CommentAtEnd
  <2>1. PushWrong("interline_comment", startPos, startPos, 2) /\ Return(position + 1)
    BY <1>6 DEF CommentAtEnd
  <2>2. /\ startPos \in Nat /\ 2 \in Nat /\ startPos >= startPos
        /\ startPos + 2 <= Len(code) + 1 /\ position + 1 \in 1 .. Len(code) + 1
    BY <1>3
  <2>3. Ends("interline_comment", startPos, startPos, 2, position + 1)
    BY <1>3, <1>4, <2>1, <2>2 DEF Ends
  <2> QED
    BY <1>1, <2>3, EndKeeps
<1> QED
  BY <1>5, <1>6

-----------------------------------------------------------------------------
(* next() itself *)

LEMMA DirectStep ==
    ASSUME IInv, Punctuator \/ Operator \/ ZeroAlone PROVE IInv'
<1>1. TypeOK
  BY DEF IInv
<1>2. Solid
  BY DEF Punctuator, Operator, ZeroAlone, Zero
<1>3. /\ position \in 1 .. Len(code) /\ Len(code) \in Nat /\ position \in Nat
      /\ position + 1 \in 1 .. Len(code) + 1 /\ position >= position
      /\ position + 1 <= Len(code) + 1 /\ 1 \in Nat /\ 2 \in Nat
  BY <1>1, <1>2, SolidIn
<1>4. {"punctuator", "numeric_literal", "operator", "unknown"} \subseteq Kinds
  BY DEF Kinds
<1>5. CASE Punctuator
  <2>1. Push("punctuator", position, position, 1) /\ Return(position + 1)
    BY <1>5 DEF Punctuator
  <2>2. Ends("punctuator", position, position, 1, position + 1)
    BY <1>3, <1>4, <2>1 DEF Ends
  <2> QED
    BY <1>1, <2>2, EndKeeps
<1>6. CASE ZeroAlone
  <2>1. Push("numeric_literal", position, position, 1) /\ Return(position + 1)
    BY <1>6 DEF ZeroAlone
  <2>2. Ends("numeric_literal", position, position, 1, position + 1)
    BY <1>3, <1>4, <2>1 DEF Ends
  <2> QED
    BY <1>1, <2>2, EndKeeps
<1>7. CASE Operator
  <2>1. \A raw : MarkType(raw) \in Kinds
    BY <1>4 DEF MarkType
  <2>2. CASE Pair \in Operators
    <3> DEFINE kind == MarkType(Pair)
    <3>1. position < Len(code) => Len(Pair) = 2
      BY DEF Pair
    <3>2. Push(kind, position, position, Len(Pair)) /\ Return(position + 2)
      BY <1>7, <2>2 DEF Operator
    <3>3. position < Len(code)
      <4>1. ASSUME position >= Len(code) PROVE FALSE
        <5>1. position = Len(code) /\ Here = "newline"
          BY <1>1, <1>3, <4>1, Looks DEF Here
        <5>2. Here \in Heads
          BY <1>7 DEF Operator
        <5> QED
          BY <5>1, <5>2, NotInside
      <4> QED
        BY <1>3, <4>1
    <3>4. position + 2 <= Len(code) + 1 /\ position + 2 \in 1 .. Len(code) + 1
      BY <1>3, <3>3
    <3>5. kind \in Kinds /\ Len(Pair) = 2
      BY <2>1, <3>1, <3>3
    <3> HIDE DEF kind
    <3>6. Ends(kind, position, position, 2, position + 2)
      BY <1>3, <3>2, <3>4, <3>5 DEF Ends
    <3> QED
      BY <1>1, <3>6, EndKeeps
  <2>3. CASE Pair \notin Operators
    <3> DEFINE kind == MarkType(<<Here>>)
    <3>1. Push(kind, position, position, 1) /\ Return(position + 1)
      BY <1>7, <2>3 DEF Operator
    <3>2. kind \in Kinds
      BY <2>1
    <3> HIDE DEF kind
    <3>3. Ends(kind, position, position, 1, position + 1)
      BY <1>3, <3>1, <3>2 DEF Ends
    <3> QED
      BY <1>1, <3>3, EndKeeps
  <2> QED
    BY <2>2, <2>3
<1> QED
  BY <1>5, <1>6, <1>7

LEMMA SpaceStep == ASSUME IInv, SkipSpace PROVE IInv'
<1>1. TypeOK
  BY DEF IInv
<1>2. scanner = "next" /\ scanner' = "next" /\ Stays /\ UNCHANGED locals
  BY DEF SkipSpace, InCode, AtNext, Running, Stays
<1>3. position' \in 1 .. Len(code) + 1
  BY <1>1, Looks DEF SkipSpace, InCode, IsWide
<1>4. Goes
  BY <1>1, <1>2, <1>3, Looks DEF Goes, Stays, locals, Scanners, NumericType
<1> QED
  BY <1>1, <1>2, <1>4, GoesTyped, ReturnKeeps

\* The token of the end is empty, and behind the text.
LEMMA EndOfCodeStep == ASSUME IInv, EndOfCode PROVE IInv'
<1>1. TypeOK /\ TextOK
  BY TextsEnd DEF IInv, TypeOK
<1>2. /\ scanner = "next" /\ scanner' = "next" /\ eof' = TRUE /\ position = Len(code) + 1
      /\ Push("eof", position, position, 0)
      /\ UNCHANGED <<code, position, locals>>
  BY DEF EndOfCode, AtNext, Running
<1>3. "eof" \in Kinds
  BY DEF Kinds
<1>4. position \in Nat /\ 0 \in Nat /\ position >= position /\ position + 0 <= Len(code) + 1
  BY <1>1, <1>2, Looks
<1>5. TokensInText'
  BY <1>1, <1>2, <1>3, <1>4, PushTyped DEF TypeOK
<1>6. TypeOK'
  BY <1>1, <1>2, <1>5 DEF TypeOK, locals, Scanners
<1> QED
  BY <1>2, <1>6, ReturnKeeps

-----------------------------------------------------------------------------
(* The invariant is one *)

LEMMA InitIInv == Init => IInv
<1> SUFFICES ASSUME Init PROVE IInv
  OBVIOUS
<1>1. TextOK
  BY TextsEnd DEF Init
<1>2. /\ Len(code) \in Nat /\ Len(code) > 1 /\ position \in 1 .. Len(code) + 1
      /\ startPos \in 1 .. Len(code)
  BY <1>1 DEF TextOK, Init
<1>3. TypeOK
  <2>1. tokens = <<>> /\ diagnostics = {}
    BY DEF Init
  <2>2. TokensInText
    BY <2>1 DEF TokensInText
  <2>3. /\ code \in Texts /\ offset = 0 /\ eof = FALSE /\ escaped = FALSE
        /\ type = "NORMAL" /\ scanner = "next"
    BY DEF Init
  <2> QED
    BY <1>2, <2>2, <2>3 DEF TypeOK, Scanners
<1>4. scanner = "next"
  BY DEF Init
<1> QED
  BY <1>3, <1>4 DEF IInv, Begun, NumberRead, BadNumberRead, StringRead, LineCommentRead,
                    CommentRead, NameRead, StrayRead

LEMMA StutterIInv == ASSUME IInv, UNCHANGED vars PROVE IInv'
<1>1. TypeOK' /\ Begun'
  BY DEF IInv, TypeOK, TokensInText, Begun, vars, locals, At
<1>2. NumberRead' /\ BadNumberRead'
  BY DEF IInv, NumberRead, BadNumberRead, vars, locals, At, NoPrefix, PointRead, Digits,
         ExponentRead
<1>3. StringRead' /\ LineCommentRead'
  BY DEF IInv, StringRead, LineCommentRead, vars, locals, At, BackslashRun, T!Open,
         T!Escaped, T!At
<1>4. CommentRead' /\ NameRead' /\ StrayRead'
  BY DEF IInv, CommentRead, NameRead, StrayRead, vars, locals, At, T!Unclosed, T!At
<1> QED
  BY <1>1, <1>2, <1>3, <1>4 DEF IInv

LEMMA NextIInv == IInv /\ [Next]_vars => IInv'
<1> SUFFICES ASSUME IInv, [Next]_vars PROVE IInv'
  OBVIOUS
<1> USE DEF Next
<1>1. CASE UNCHANGED vars
  BY <1>1, StutterIInv
<1>2. CASE EndOfCode \/ SkipSpace
  BY <1>2, EndOfCodeStep, SpaceStep
<1>3. CASE Punctuator \/ Operator \/ ZeroAlone
  BY <1>3, DirectStep
<1>4. CASE StartNumber \/ NumberDigit \/ NumberPoint \/ NumberExponent \/ NumberEnds
  BY <1>4, NumberStartStep, NumberDigitStep, NumberPointStep, NumberExponentStep,
     NumberEndStep
<1>5. CASE StartBadNumber \/ BadNumberChar \/ BadNumberEnds
  BY <1>5, BadNumberStep
<1>6. CASE StartString \/ StringCloses \/ StringChar \/ StringBreaks
  BY <1>6, StringStartStep, StringCharStep, StringEndStep
<1>7. CASE StartLineComment \/ LineCommentChar \/ LineCommentEnds
  BY <1>7, LineCommentStep
<1>8. CASE StartComment \/ CommentChar \/ CommentCloses \/ CommentAtEnd
  BY <1>8, CommentStartStep, CommentCharStep, CommentEndStep
<1>9. CASE StartName \/ NameChar \/ NameEnds
  BY <1>9, NameStep
<1>10. CASE StartStray \/ StrayChar \/ StrayEnds
  BY <1>10, StrayStep
<1> QED
  BY <1>1, <1>2, <1>3, <1>4, <1>5, <1>6, <1>7, <1>8, <1>9, <1>10

THEOREM Invariance == Spec => []IInv
<1> QED
  BY InitIInv, NextIInv, PTL DEF Spec

\* For every source, and for every runtime that ends with a newline nothing escapes: the
\* scanner reads at most the terminator, substr never throws, and the text of every token
\* lies in the text.
THEOREM TypeCorrect == Spec => []TypeOK
<1>1. IInv => TypeOK
  BY DEF IInv
<1> QED
  BY <1>1, Invariance, PTL

-----------------------------------------------------------------------------
(***************************************************************************)
(* Lexer implements Tokens.  A step that starts a scanner, and a turn of a *)
(* loop, leaves what Tokens sees as it is; the step that adds the token    *)
(* takes the lexeme from Place up to the new position, and the invariant   *)
(* says what its characters are.                                           *)
(***************************************************************************)

\* Tokens and Lexer name the same characters.
LEMMA SameChars ==
    /\ T!Word = Word /\ T!Letter = Letter /\ T!Digit = Digit /\ T!Octal = Octal
    /\ T!Hex = Hex /\ T!Joined = Joined /\ T!Space = Space /\ T!Heads = Heads
    /\ T!Operators = Operators /\ T!Wide = Wide
  BY DEF T!Word, Word, T!Letter, Letter, T!Digit, Digit, T!Octal, Octal, T!Hex, Hex,
         T!Joined, Joined, T!Space, Space, T!Heads, Heads, T!Operators, Operators,
         T!Wide, Wide

LEMMA SameTokens ==
    /\ \A kind, start, from, size :
          T!Token(kind, start, from, size) = Token(kind, start, from, size)
    /\ \A word : T!WordType(word) = WordType(word)
    /\ \A raw : T!MarkType(raw) = MarkType(raw)
  BY SameChars DEF T!Token, Token, T!WordType, WordType, T!MarkType, MarkType

LEMMA SamePush ==
    ASSUME NEW kind, NEW from, NEW size
    PROVE  /\ T!Becomes(kind, from, size) <=> Push(kind, Place, from, size)
           /\ T!IsWrong(kind, from, size) <=> PushWrong(kind, Place, from, size)
  BY SameTokens DEF T!Becomes, T!IsWrong, Push, PushWrong

\* The kinds of lexemes that a loop reads.
Lexeme(q) == \/ T!Name(q) \/ T!Number(q) \/ T!BadNumber(q) \/ T!String(q)
             \/ T!OpenString(q) \/ T!LineComment(q) \/ T!Comment(q) \/ T!OpenComment(q)
             \/ T!Mark(q) \/ T!Stray(q)

\* What holds when a loop runs.
LEMMA InLoop ==
    ASSUME IInv, scanner # "next"
    PROVE  /\ TypeOK /\ Begun /\ Place = startPos /\ T!Here = At(startPos)
           /\ startPos <= position
           /\ Len(code) \in Nat /\ position \in 1 .. Len(code) + 1
           /\ startPos \in 1 .. Len(code)
<1>1. TypeOK /\ Begun
  BY DEF IInv
<1>2. Place = startPos
  BY DEF Place
<1> QED
  BY <1>1, <1>2, Looks, SameAt DEF Begun, T!Here

\* The step that ends a loop takes a lexeme.
LEMMA TakesLexeme ==
    ASSUME IInv, scanner # "next", NEW q \in startPos + 1 .. Len(code) + 1,
           Return(q), Lexeme(q)
    PROVE  T!Next
<1>1. /\ Place = startPos /\ startPos \in 1 .. Len(code) /\ Len(code) \in Nat
      /\ T!Here = At(startPos) /\ Begun
  BY InLoop
<1>2. Place' = q /\ eof' = eof /\ code' = code
  BY DEF Return, Place
<1>3. T!Wide = Wide /\ T!At(Place + 1) = At(startPos + 1)
  BY <1>1, SameChars, SameAt
<1>4. <<T!Here, T!At(Place + 1)>> \in T!Wide => Place = Len(code)
  BY <1>1, <1>3 DEF Begun
<1>5. q \in Place + 1 .. Len(code) + 1
  BY <1>1
<1>6. T!Take
  BY <1>2, <1>4, <1>5 DEF T!Take, Lexeme
<1>7. ~eof /\ Place <= Len(code)
  BY <1>1 DEF Begun
<1> QED
  BY <1>2, <1>6, <1>7 DEF T!Next

LEMMA Runs ==
    ASSUME NEW p, NEW q, NEW S
    PROVE  T!Run(p, q, S) <=> p <= q /\ At(q) \notin S /\ \A k \in p .. q - 1 : At(k) \in S
  BY SameAt DEF T!Run

LEMMA NameTakes == ASSUME IInv, NameEnds PROVE T!Next
<1>1. /\ scanner = "identifier" /\ ~InName /\ Return(position + offset)
      /\ Push(WordType(SubSeq(code, position, position + offset - 1)), position, position,
              offset)
  BY DEF NameEnds, Running
<1>2. /\ Place = startPos /\ startPos \in 1 .. Len(code) /\ Len(code) \in Nat
      /\ T!Here = At(startPos) /\ TypeOK /\ position \in Int
  BY <1>1, InLoop
<1>3. /\ At(startPos) \in Letter /\ position = startPos
      /\ \A k \in position .. position + offset - 1 : At(k) \in Word
  BY <1>1 DEF IInv, NameRead
<1>4. PICK q : q = position + offset
  OBVIOUS
<1>5. offset \in Nat /\ q \in Int /\ q <= Len(code) + 1 /\ offset = q - startPos
  BY <1>1, <1>2, <1>3, <1>4 DEF TypeOK
<1>6. At(q) \notin Word
  BY <1>1, <1>2, <1>4, <1>5, Looks, NotInside DEF InName
<1>7. q > startPos
  <2>1. CASE q = startPos
    BY <1>3, <1>6, <2>1 DEF Word
  <2> QED
    BY <1>2, <1>3, <1>4, <1>5, <2>1
<1>8. T!Run(Place, q, T!Word)
  BY <1>2, <1>3, <1>4, <1>5, <1>6, <1>7, Runs, SameChars
<1>9. T!Becomes(WordType(SubSeq(code, Place, q - 1)), Place, q - Place)
  BY <1>1, <1>2, <1>3, <1>4, <1>5, SamePush
<1>10. T!Name(q)
  BY <1>2, <1>3, <1>8, <1>9, SameChars, SameTokens DEF T!Name
<1> QED
  BY <1>1, <1>2, <1>4, <1>5, <1>7, <1>10, TakesLexeme DEF Lexeme

LEMMA StrayTakes == ASSUME IInv, StrayEnds PROVE T!Next
<1>1. /\ scanner = "unknown" /\ Here \notin Joined /\ Return(position)
      /\ PushWrong("unknown", startPos, startPos, position - startPos)
  BY DEF StrayEnds, Running
<1>2. /\ Place = startPos /\ startPos \in 1 .. Len(code) /\ Len(code) \in Nat
      /\ T!Here = At(startPos) /\ position \in 1 .. Len(code) + 1
  BY <1>1, InLoop
<1>3. /\ At(startPos) \notin Word \cup Space \cup Heads \cup {"quote", "semi"}
      /\ startPos < position
      /\ \A k \in startPos + 1 .. position - 1 : At(k) \in Joined
  BY <1>1 DEF IInv, StrayRead
<1>4. T!Run(Place + 1, position, T!Joined)
  BY <1>1, <1>2, <1>3, Runs, SameChars DEF Here
<1>5. T!IsWrong("unknown", Place, position - Place)
  BY <1>1, <1>2, SamePush
<1>6. T!Stray(position)
  BY <1>2, <1>3, <1>4, <1>5, SameChars DEF T!Stray, T!Starts
<1> QED
  BY <1>1, <1>2, <1>3, <1>6, TakesLexeme DEF Lexeme

LEMMA BadNumberTakes == ASSUME IInv, BadNumberEnds PROVE T!Next
<1>1. /\ scanner = "bad_number" /\ Here \notin Joined /\ Return(position)
      /\ PushWrong("numeric_literal", startPos, startPos, position - startPos)
  BY DEF BadNumberEnds, Running
<1>2. /\ Place = startPos /\ startPos \in 1 .. Len(code) /\ Len(code) \in Nat
      /\ T!Here = At(startPos) /\ position \in 1 .. Len(code) + 1 /\ startPos <= position
  BY <1>1, InLoop
<1>3. /\ At(startPos) = "0" /\ At(startPos + 1) = "8"
      /\ \A k \in startPos .. position - 1 : At(k) \in Joined
  BY <1>1 DEF IInv, BadNumberRead
<1>4. startPos < position
  <2>1. CASE startPos = position
    BY <1>1, <1>3, <2>1, NotInside DEF Here, Joined
  <2> QED
    BY <1>2, <2>1
<1>5. T!Run(Place, position, T!Joined)
  BY <1>1, <1>2, <1>3, Runs, SameChars DEF Here
<1>6. T!IsWrong("numeric_literal", Place, position - Place)
  BY <1>1, <1>2, SamePush
<1>7. T!BadNumber(position)
  BY <1>2, <1>3, <1>5, <1>6, SameAt DEF T!BadNumber
<1> QED
  BY <1>1, <1>2, <1>4, <1>7, TakesLexeme DEF Lexeme

\* Digits are read up to a character that is none.
LEMMA DigitsRun ==
    ASSUME NEW p, NEW q, Digits(p, q), At(q) \notin Digit
    PROVE  T!Run(p, q, T!Digit)
  BY Runs, SameChars DEF Digits

LEMMA NumberTakes == ASSUME IInv, NumberEnds PROVE T!Next
<1>1. /\ scanner = "number" /\ Return(position)
      /\ Push("numeric_literal", startPos, startPos, position - startPos)
  BY DEF NumberEnds, Running
<1>2. /\ Place = startPos /\ startPos \in 1 .. Len(code) /\ Len(code) \in Nat
      /\ T!Here = At(startPos) /\ position \in 1 .. Len(code) + 1 /\ startPos <= position
      /\ TypeOK /\ Begun
  BY <1>1, InLoop
<1>3. /\ type \in NumericType /\ NumberRead /\ At(startPos) \in Digit
      /\ T!At(Place + 1) = At(startPos + 1)
  BY <1>1, <1>2, Looks, SameAt DEF IInv, NumberRead
<1>4. /\ type # "OCT" => At(position) \notin Digit
      /\ type = "OCT" => At(position) \notin Octal
      /\ type = "HEX" => At(position) \notin Hex
      /\ type = "NORMAL" => At(position) # "."
      /\ type \in {"NORMAL", "FLOAT"} => At(position) # "e"
  BY DEF NumberEnds, IsDigit, IsPoint, IsExponent, Here, Digit, Hex
<1>5. position > startPos /\ (T!Decimal(position) \/ T!Octals(position) \/ T!Hexes(position))
  <2>1. CASE type = "NORMAL"
    <3>1. /\ Digits(startPos, position)
          /\ At(startPos) = "0" => At(startPos + 1) = "nul"
      BY <1>1, <1>3, <2>1 DEF NumberRead
    <3>2. position # startPos
      BY <1>3, <1>4, <2>1
    <3>3. T!Run(Place, position, T!Digit)
      BY <1>2, <1>4, <2>1, <3>1, DigitsRun
    <3>4. At(startPos) = "0" => At(startPos + 1) \notin Digit \cup {"x"}
      BY <3>1, NotInside
    <3>5. position \in Place + 1 .. position
      BY <1>2, <3>2
    <3>6. T!At(position) # "." /\ T!At(position) # "e"
      BY <1>4, <2>1, SameAt
    <3>7. T!Here \in T!Digit /\ (T!Here = "0" => T!At(Place + 1) \notin T!Digit \cup {"x"})
      BY <1>2, <1>3, <3>4, SameChars
    <3> QED
      BY <1>2, <3>2, <3>3, <3>5, <3>6, <3>7 DEF T!Decimal
  <2>2. CASE type = "FLOAT"
    <3>1. NoPrefix /\ PointRead(position)
      BY <1>1, <1>3, <2>2 DEF NumberRead
    <3>2. PICK p \in startPos + 1 .. position - 1 :
             At(p) = "." /\ Digits(startPos, p) /\ Digits(p + 1, position)
      BY <3>1 DEF PointRead
    <3>3. T!Run(Place, p, T!Digit) /\ T!Run(p + 1, position, T!Digit)
      BY <1>2, <1>4, <2>2, <3>2, DigitsRun, NotInside
    <3>4. position \in p + 1 .. position /\ p \in Place + 1 .. position
      BY <1>2, <3>2
    <3>5. T!At(p) = "." /\ T!At(position) # "e"
      BY <1>4, <2>2, <3>2, SameAt
    <3>6. T!Fraction(p, position)
      BY <3>3, <3>4, <3>5 DEF T!Fraction
    <3>7. T!Here \in T!Digit /\ (T!Here = "0" => T!At(Place + 1) \notin T!Digit \cup {"x"})
      BY <1>2, <1>3, <3>1, SameChars DEF NoPrefix
    <3>8. T!Decimal(position)
      BY <3>3, <3>4, <3>6, <3>7 DEF T!Decimal
    <3> QED
      BY <1>2, <3>4, <3>8
  <2>3. CASE type = "SCIENTIFIC"
    <3>1. NoPrefix /\ \E d \in startPos + 1 .. position - 1 : ExponentRead(d)
      BY <1>1, <1>3, <2>3 DEF NumberRead
    <3>2. PICK d \in startPos + 1 .. position - 1 : ExponentRead(d)
      BY <3>1
    <3>3. At(d) = "e" /\ (PointRead(d) \/ (At(startPos) # "0" /\ Digits(startPos, d)))
      BY <3>2 DEF ExponentRead
    <3>4. T!Exponent(d, position)
      <4>1. /\ At(d + 1) = "+" => Digits(d + 2, position)
            /\ At(d + 1) # "+" => Digits(d + 1, position)
        BY <3>2 DEF ExponentRead
      <4>2. /\ At(d + 1) = "+" => T!Run(d + 2, position, T!Digit)
            /\ At(d + 1) # "+" => T!Run(d + 1, position, T!Digit)
        BY <1>4, <2>3, <4>1, DigitsRun
      <4> QED
        BY <3>3, <4>2, SameAt DEF T!Exponent
    <3>5. At(d) \notin Digit
      BY <3>3, NotInside
    <3>6. T!Here \in T!Digit /\ (T!Here = "0" => T!At(Place + 1) \notin T!Digit \cup {"x"})
      BY <1>2, <1>3, <3>1, SameChars DEF NoPrefix
    <3>7. CASE PointRead(d)
      <4>1. PICK p \in startPos + 1 .. d - 1 :
               At(p) = "." /\ Digits(startPos, p) /\ Digits(p + 1, d)
        BY <3>7 DEF PointRead
      <4>2. T!Run(Place, p, T!Digit) /\ T!Run(p + 1, d, T!Digit)
        BY <1>2, <3>5, <4>1, DigitsRun, NotInside
      <4>3. d \in p + 1 .. position /\ p \in Place + 1 .. position /\ position > startPos
        BY <1>2, <3>2, <4>1
      <4>4. T!At(p) = "." /\ T!At(d) = "e"
        BY <3>3, <4>1, SameAt
      <4>5. T!Fraction(p, position)
        BY <3>4, <4>2, <4>3, <4>4 DEF T!Fraction
      <4>6. T!Decimal(position)
        BY <3>6, <4>2, <4>3, <4>5 DEF T!Decimal
      <4> QED
        BY <4>3, <4>6
    <3>8. CASE At(startPos) # "0" /\ Digits(startPos, d)
      <4>1. T!Run(Place, d, T!Digit) /\ T!Here # "0"
        BY <1>2, <3>5, <3>8, DigitsRun
      <4>2. d \in Place + 1 .. position /\ position > startPos
        BY <1>2, <3>2
      <4>3. T!Decimal(position)
        BY <3>4, <3>6, <4>1, <4>2 DEF T!Decimal
      <4> QED
        BY <4>2, <4>3
    <3> QED
      BY <3>3, <3>7, <3>8
  <2>4. CASE type = "OCT"
    <3>1. /\ At(startPos) = "0" /\ At(startPos + 1) \in Octal /\ startPos < position
          /\ \A k \in startPos .. position - 1 : At(k) \in Octal
      BY <1>1, <1>3, <2>4 DEF NumberRead
    <3>2. T!Run(Place, position, T!Octal)
      BY <1>2, <1>4, <2>4, <3>1, Runs, SameChars
    <3>3. T!Octals(position)
      BY <1>2, <1>3, <3>1, <3>2, SameChars DEF T!Octals
    <3> QED
      BY <1>2, <3>1, <3>3
  <2>5. CASE type = "HEX"
    <3>1. /\ At(startPos) = "0" /\ At(startPos + 1) = "x" /\ startPos + 2 <= position
          /\ \A k \in startPos + 2 .. position - 1 : At(k) \in Hex
      BY <1>1, <1>3, <2>5 DEF NumberRead
    <3>2. T!Run(Place + 2, position, T!Hex)
      BY <1>2, <1>4, <2>5, <3>1, Runs, SameChars
    <3>3. T!Hexes(position)
      BY <1>2, <1>3, <3>1, <3>2 DEF T!Hexes
    <3> QED
      BY <1>2, <3>1, <3>3
  <2> QED
    BY <1>3, <2>1, <2>2, <2>3, <2>4, <2>5 DEF NumericType
<1>6. T!Becomes("numeric_literal", Place, position - Place)
  BY <1>1, <1>2, SamePush
<1>7. T!Number(position)
  BY <1>5, <1>6 DEF T!Number
<1>8. position \in startPos + 1 .. Len(code) + 1
  BY <1>2, <1>5
<1> QED
  BY <1>1, <1>7, <1>8, TakesLexeme DEF Lexeme

\* An escaped place has an odd run of backslashes before it, and only one run is longest.
LEMMA EscapedOdd ==
    ASSUME startPos \in Nat, position \in Nat, T!Escaped(startPos, position),
           NEW j \in startPos + 1 .. position, BackslashRun(j)
    PROVE  (position - j) % 2 = 1
<1>1. PICK e \in startPos + 1 .. position - 1 :
         /\ (position - e) % 2 = 1
         /\ \A i \in e .. position - 1 : At(i) = "backslash"
         /\ e = startPos + 1 \/ At(e - 1) # "backslash"
  BY SameAt DEF T!Escaped
<1>2. /\ \A i \in j .. position - 1 : At(i) = "backslash"
      /\ j = startPos + 1 \/ At(j - 1) # "backslash"
  BY DEF BackslashRun
<1>3. ~(e < j)
  <2>1. ASSUME e < j PROVE FALSE
    <3>1. j - 1 \in e .. position - 1 /\ j # startPos + 1
      BY <1>1, <2>1
    <3> QED
      BY <1>1, <1>2, <3>1
  <2> QED
    BY <2>1
<1>4. ~(j < e)
  <2>1. ASSUME j < e PROVE FALSE
    <3>1. e - 1 \in j .. position - 1 /\ e # startPos + 1
      BY <1>1, <2>1
    <3> QED
      BY <1>1, <1>2, <3>1
  <2> QED
    BY <2>1
<1>5. e = j
  BY <1>1, <1>3, <1>4
<1> QED
  BY <1>1, <1>5

LEMMA StringTakes == ASSUME IInv, StringCloses \/ StringBreaks PROVE T!Next
<1>1. /\ scanner = "string" /\ position <= Len(code) /\ escaped # TRUE
      /\ Return(position + 1)
  BY Zenon DEF StringCloses, StringBreaks, InString, Running
<1>2. /\ Place = startPos /\ startPos \in 1 .. Len(code) /\ Len(code) \in Nat
      /\ T!Here = At(startPos) /\ position \in 1 .. Len(code) + 1 /\ TypeOK
  BY <1>1, InLoop
<1>3. escaped = FALSE
  BY <1>1, <1>2, Looks, Zenon
<1>4. StringRead
  BY DEF IInv
<1>5. /\ At(startPos) = "quote" /\ startPos < position /\ T!Open(startPos, position)
  BY <1>1, <1>4 DEF StringRead
<1>6. PICK j \in startPos + 1 .. position : BackslashRun(j) /\ (position - j) % 2 = 0
  BY <1>1, <1>3, <1>4 DEF StringRead
<1>7. ~T!Escaped(startPos, position)
  <2>1. startPos \in Nat /\ position \in Nat
    BY <1>2
  <2> QED
    BY <1>6, <2>1, EscapedOdd
<1>8. PICK q : q = position + 1
  OBVIOUS
<1>9. q \in startPos + 1 .. Len(code) + 1 /\ q > Place + 1 /\ q - 1 = position
  BY <1>1, <1>2, <1>5, <1>8
<1>10. /\ T!Here = "quote" /\ T!Open(Place, q - 1) /\ ~T!Escaped(Place, q - 1)
       /\ T!At(q - 1) = Here
  BY <1>2, <1>5, <1>7, <1>9, SameAt DEF Here
<1>11. CASE StringCloses
  <2>1. /\ Push("string_literal", startPos, startPos + 1, position - startPos - 1)
        /\ Here = "quote"
    BY <1>11 DEF StringCloses
  <2>2. q - Place - 2 = position - startPos - 1
    BY <1>2, <1>8
  <2>3. T!Becomes("string_literal", Place + 1, q - Place - 2)
    BY <1>2, <2>1, <2>2, SamePush
  <2>4. T!String(q)
    BY <1>9, <1>10, <2>1, <2>3 DEF T!String
  <2> QED
    BY <1>1, <1>8, <1>9, <2>4, TakesLexeme DEF Lexeme
<1>12. CASE StringBreaks
  <2>1. PushWrong("string_literal", startPos, startPos, 1) /\ Here = "newline"
    BY <1>12 DEF StringBreaks
  <2>2. T!IsWrong("string_literal", Place, 1)
    BY <1>2, <2>1, SamePush
  <2>3. T!OpenString(q)
    BY <1>9, <1>10, <2>1, <2>2 DEF T!OpenString
  <2> QED
    BY <1>1, <1>8, <1>9, <2>3, TakesLexeme DEF Lexeme
<1> QED
  BY <1>11, <1>12

LEMMA LineCommentTakes == ASSUME IInv, LineCommentEnds PROVE T!Next
<1>1. scanner = "inline_comment" /\ LineEnds
  BY DEF LineCommentEnds, Running
<1>2. /\ Place = startPos /\ startPos \in 1 .. Len(code) /\ Len(code) \in Nat
      /\ T!Here = At(startPos) /\ position \in 1 .. Len(code) + 1 /\ TypeOK
      /\ startPos <= position
  BY <1>1, InLoop
<1>3. /\ At(startPos) = "/" /\ At(startPos + 1) = "/"
      /\ \A k \in startPos .. position : At(k) # "newline"
  BY <1>1 DEF IInv, LineCommentRead
<1>4. position <= Len(code)
  <2>1. CASE position = Len(code) + 1
    <3>1. Len(code) \in startPos .. position
      BY <1>2, <2>1
    <3> QED
      BY <1>2, <1>3, <3>1, Looks
  <2> QED
    BY <1>2, <2>1
<1>5. /\ ~(position > Len(code)) /\ position \in Int /\ Len(code) \in Int
  BY <1>2, <1>4
<1>6. Ahead = "newline"
  BY <1>5 DEF LineCommentEnds, LineEnds
<1>7. PICK q : /\ q = IF position > Len(code) THEN position ELSE position + 1
               /\ Push("inline_comment", startPos, startPos, q - startPos) /\ Return(q)
  BY Zenon DEF LineCommentEnds
<1>8. q = position + 1 /\ q \in startPos + 1 .. Len(code) + 1 /\ q - 1 = position
  BY <1>2, <1>4, <1>5, <1>7
<1>9. T!Becomes("inline_comment", Place, q - Place)
  BY <1>2, <1>7, SamePush
<1>10. \A k \in Place .. q - 1 : T!At(k) # "newline"
  BY <1>2, <1>3, <1>8, SameAt
<1>11. T!At(q) = "newline" /\ T!Here = "/" /\ T!At(Place + 1) = "/"
  BY <1>2, <1>3, <1>6, <1>8, SameAt DEF Ahead
<1>12. T!LineComment(q)
  BY <1>9, <1>10, <1>11 DEF T!LineComment
<1> QED
  BY <1>1, <1>7, <1>8, <1>12, TakesLexeme DEF Lexeme

LEMMA CommentTakes == ASSUME IInv, CommentCloses \/ CommentAtEnd PROVE T!Next
<1>1. scanner = "interline_comment"
  BY DEF CommentCloses, CommentAtEnd, InComment, Running
<1>2. /\ Place = startPos /\ startPos \in 1 .. Len(code) /\ Len(code) \in Nat
      /\ T!Here = At(startPos) /\ position \in 1 .. Len(code) + 1 /\ TypeOK
  BY <1>1, InLoop
<1>3. /\ At(startPos) = "/" /\ At(startPos + 1) = "*"
      /\ startPos + 2 <= position /\ position <= Len(code)
      /\ T!Unclosed(startPos, position)
  BY <1>1 DEF IInv, CommentRead
<1>4. T!Here = "/" /\ T!At(Place + 1) = "*"
  BY <1>2, <1>3, SameAt
<1>5. CASE CommentCloses
  <2>1. /\ Push("interline_comment", startPos, startPos, position + 2 - startPos)
        /\ Return(position + 2) /\ Here = "*" /\ Ahead = "/" /\ position < Len(code)
    BY <1>5 DEF CommentCloses, InComment, Closes
  <2>2. PICK q : q = position + 2
    OBVIOUS
  <2>3. /\ q \in startPos + 1 .. Len(code) + 1 /\ q > Place + 3
        /\ q - 2 = position /\ q - 1 = position + 1
    BY <1>2, <1>3, <2>1, <2>2
  <2>4. T!At(q - 2) = "*" /\ T!At(q - 1) = "/"
    BY <2>1, <2>3, SameAt DEF Here, Ahead
  <2>5. T!Becomes("interline_comment", Place, q - Place)
    BY <1>2, <2>1, <2>2, SamePush
  <2>6. T!Unclosed(Place, q - 2)
    BY <1>2, <1>3, <2>3
  <2>7. T!Comment(q)
    BY <1>4, <2>3, <2>4, <2>5, <2>6 DEF T!Comment
  <2> QED
    BY <1>1, <2>1, <2>2, <2>3, <2>7, TakesLexeme DEF Lexeme
<1>6. CASE CommentAtEnd
  <2>1. /\ PushWrong("interline_comment", startPos, startPos, 2) /\ Return(position + 1)
        /\ position >= Len(code)
    BY <1>6 DEF CommentAtEnd
  <2>2. PICK q : q = position + 1
    OBVIOUS
  <2>3. /\ q = Len(code) + 1 /\ q \in startPos + 1 .. Len(code) + 1 /\ position = Len(code)
    BY <1>2, <1>3, <2>1, <2>2
  <2>4. T!IsWrong("interline_comment", Place, 2)
    BY <1>2, <2>1, SamePush
  <2>5. T!Unclosed(Place, q)
    <3>1. T!At(Len(code)) # "*"
      BY <1>2, Looks, SameAt
    <3>2. \A i \in startPos + 2 .. position - 1 : ~(T!At(i) = "*" /\ T!At(i + 1) = "/")
      BY <1>3 DEF T!Unclosed
    <3> QED
      BY <1>2, <2>3, <3>1, <3>2 DEF T!Unclosed
  <2>6. T!OpenComment(q)
    BY <1>4, <2>3, <2>4, <2>5 DEF T!OpenComment
  <2> QED
    BY <1>1, <2>1, <2>2, <2>3, <2>6, TakesLexeme DEF Lexeme
<1> QED
  BY <1>5, <1>6

-----------------------------------------------------------------------------
(* Steps of next() that take a lexeme at once *)

\* What Tokens sees between two calls.
LEMMA AtLexeme ==
    ASSUME IInv, Solid
    PROVE  /\ TypeOK /\ Place = position /\ T!Here = Here /\ T!At(Place + 1) = Ahead
           /\ position \in 1 .. Len(code) /\ Len(code) \in Nat /\ eof # TRUE
           /\ <<T!Here, T!At(Place + 1)>> \in T!Wide => Place = Len(code)
<1>1. TypeOK /\ position \in 1 .. Len(code) /\ Len(code) \in Nat
  BY SolidIn DEF IInv
<1>2. Place = position /\ eof # TRUE
  BY DEF Solid, InCode, AtNext, Running, Place
<1>3. T!Here = Here /\ T!At(Place + 1) = Ahead
  BY <1>2, SameAt DEF T!Here, Here, Ahead
<1>4. <<Here, Ahead>> \in Wide => ~(position < Len(code))
  BY Zenon DEF Solid, IsWide
<1>5. <<T!Here, T!At(Place + 1)>> \in T!Wide => Place = Len(code)
  BY <1>1, <1>2, <1>3, <1>4, SameChars
<1> QED
  BY <1>1, <1>2, <1>3, <1>5

LEMMA TakesAtOnce ==
    ASSUME IInv, Solid, NEW q \in position + 1 .. Len(code) + 1, Return(q), Lexeme(q)
    PROVE  T!Next
<1>1. /\ Place = position /\ position \in 1 .. Len(code) /\ Len(code) \in Nat
      /\ (<<T!Here, T!At(Place + 1)>> \in T!Wide => Place = Len(code))
  BY AtLexeme
<1>2. Place' = q /\ eof' = eof /\ code' = code
  BY DEF Return, Place
<1>3. T!Take
  BY <1>1, <1>2 DEF T!Take, Lexeme
<1>4. ~eof /\ code' = code
  BY <1>2 DEF Solid, InCode, AtNext
<1>5. Place <= Len(code)
  BY <1>1
<1> QED
  BY <1>3, <1>4, <1>5 DEF T!Next

LEMMA MarkTakes == ASSUME IInv, Punctuator \/ Operator PROVE T!Next
<1>1. Solid
  BY DEF Punctuator, Operator
<1>2. /\ TypeOK /\ Place = position /\ T!Here = Here /\ T!At(Place + 1) = Ahead
      /\ position \in 1 .. Len(code) /\ Len(code) \in Nat
  BY <1>1, AtLexeme
<1>3. PICK one : one = position + 1
  OBVIOUS
<1>4. one \in position + 1 .. Len(code) + 1 /\ one = Place + 1
  BY <1>2, <1>3
<1>5. CASE Punctuator
  <2>1. Here = "semi" /\ Push("punctuator", position, position, 1) /\ Return(position + 1)
    BY <1>5 DEF Punctuator
  <2>2. T!Mark(one)
    BY <1>2, <1>4, <2>1, SamePush DEF T!Mark
  <2> QED
    BY <1>1, <1>3, <1>4, <2>1, <2>2, TakesAtOnce DEF Lexeme
<1>6. CASE Operator /\ Pair \in Operators
  <2>1. Here \in Heads /\ Here # "newline"
    BY <1>6, NotInside DEF Operator
  <2>2. position < Len(code)
    <3>1. position # Len(code)
      BY <1>2, <2>1, Looks DEF Here
    <3> QED
      BY <1>2, <3>1
  <2>3. Pair = <<Here, Ahead>> /\ Len(Pair) = 2
    BY <2>2 DEF Pair
  <2>4. /\ Push(MarkType(Pair), position, position, Len(Pair)) /\ Return(position + 2)
    BY <1>6 DEF Operator
  <2>5. MarkType(Pair) = "operator"
    BY <1>6 DEF MarkType
  <2>6. PICK two : two = position + 2
    OBVIOUS
  <2>7. two \in position + 1 .. Len(code) + 1 /\ two = Place + 2
    BY <1>2, <2>2, <2>6
  <2>8. Push("operator", position, position, 2)
    BY <2>3, <2>4, <2>5
  <2>9. <<T!Here, T!At(Place + 1)>> \in T!Operators
    BY <1>2, <1>6, <2>3, SameChars
  <2>10. T!Mark(two)
    BY <1>2, <2>7, <2>8, <2>9, SamePush DEF T!Mark
  <2> QED
    BY <1>1, <2>4, <2>6, <2>7, <2>10, TakesAtOnce DEF Lexeme
<1>7. CASE Operator /\ Pair \notin Operators
  <2>1. /\ Here \in Heads /\ ~StartsComment /\ Return(position + 1)
        /\ Push(MarkType(<<Here>>), position, position, 1)
    BY <1>7 DEF Operator
  <2>2. <<Here, Ahead>> \notin Operators
    <3>1. CASE position < Len(code)
      BY <1>7, <3>1 DEF Pair
    <3>2. CASE position = Len(code)
      BY <1>2, <2>1, <3>2, Looks, NotInside DEF Here
    <3> QED
      BY <1>2, <3>1, <3>2
  <2>3. T!Here \in T!Heads /\ <<T!Here, T!At(Place + 1)>> \notin T!Operators
    BY <1>2, <2>1, <2>2, SameChars
  <2>4. T!Here = "/" => T!At(Place + 1) \notin {"/", "*"}
    BY <1>2, <2>1 DEF StartsComment
  <2>5. T!Becomes(T!MarkType(<<T!Here>>), Place, 1)
    BY <1>2, <2>1, SamePush, SameTokens
  <2>6. T!Mark(one)
    BY <1>4, <2>3, <2>4, <2>5 DEF T!Mark
  <2> QED
    BY <1>1, <1>3, <1>4, <2>1, <2>6, TakesAtOnce DEF Lexeme
<1> QED
  BY <1>5, <1>6, <1>7

LEMMA ZeroTakes == ASSUME IInv, ZeroAlone PROVE T!Next
<1>1. /\ Solid /\ Here = "0" /\ Ahead \notin {".", "x"} \cup Digit
      /\ Push("numeric_literal", position, position, 1) /\ Return(position + 1)
  BY DEF ZeroAlone, Zero
<1>2. /\ TypeOK /\ Place = position /\ T!Here = Here /\ T!At(Place + 1) = Ahead
      /\ position \in 1 .. Len(code) /\ Len(code) \in Nat
  BY <1>1, AtLexeme
<1>3. PICK q : q = position + 1
  OBVIOUS
<1>4. q \in position + 1 .. Len(code) + 1 /\ q = Place + 1 /\ q - Place = 1
  BY <1>2, <1>3
<1>5. "0" \in Digit
  BY DEF Digit, Octal
<1>6. T!Run(Place, q, T!Digit)
  <2>1. At(q) \notin Digit /\ \A k \in Place .. q - 1 : At(k) \in Digit
    BY <1>1, <1>2, <1>4, <1>5 DEF Here, Ahead
  <2> QED
    BY <1>2, <1>4, <2>1, Runs, SameChars
<1>7. /\ T!Here = "0" /\ T!Here \in T!Digit /\ T!At(Place + 1) \notin T!Digit \cup {"x"}
      /\ T!At(q) # "."
  BY <1>1, <1>2, <1>4, <1>5, SameChars
<1>8. q \in Place + 1 .. q
  BY <1>2, <1>4
<1>9. T!Decimal(q)
  BY <1>6, <1>7, <1>8 DEF T!Decimal
<1>10. T!Becomes("numeric_literal", Place, q - Place)
  BY <1>1, <1>2, <1>4, SamePush
<1>11. T!Number(q)
  BY <1>9, <1>10 DEF T!Number
<1> QED
  BY <1>1, <1>3, <1>4, <1>11, TakesAtOnce DEF Lexeme

LEMMA SpaceSkips == ASSUME IInv, SkipSpace PROVE T!Next
<1>1. /\ scanner = "next" /\ scanner' = "next" /\ Stays
      /\ position <= Len(code) /\ eof # TRUE
  BY DEF SkipSpace, InCode, AtNext, Running, Stays
<1>2. Place = position /\ Place' = position'
  BY <1>1 DEF Place
<1>3. T!Here = Here /\ T!At(Place + 1) = Ahead
  BY <1>2, SameAt DEF T!Here, Here, Ahead
<1>4. \/ IsSpace /\ position' = position + 1
      \/ IsWide /\ position' = position + 2
  BY DEF SkipSpace
<1>5. T!Skip
  BY <1>1, <1>2, <1>3, <1>4, SameChars DEF T!Skip, IsSpace, IsWide, Stays
<1> QED
  BY <1>1, <1>2, <1>5 DEF T!Next, Stays

LEMMA EndEnds == ASSUME IInv, EndOfCode PROVE T!Next
<1>1. /\ scanner = "next" /\ scanner' = "next" /\ eof # TRUE /\ eof' = TRUE
      /\ position = Len(code) + 1 /\ position' = position /\ code' = code
      /\ Push("eof", position, position, 0)
  BY DEF EndOfCode, AtNext, Running
<1>2. Place = position /\ Place' = position'
  BY <1>1 DEF Place
<1>3. T!Becomes("eof", Place, 0)
  BY <1>1, <1>2, SamePush
<1>4. T!End
  BY <1>1, <1>2, <1>3 DEF T!End
<1> QED
  BY <1>1, <1>4 DEF T!Next

-----------------------------------------------------------------------------
(* Steps that Tokens does not see *)

Unseen == UNCHANGED <<code, Place, tokens, diagnostics, eof>>

LEMMA StartUnseen ==
    ASSUME StartNumber \/ StartBadNumber \/ StartString \/ StartLineComment
           \/ StartComment \/ StartName \/ StartStray
    PROVE  Unseen
<1>1. /\ scanner = "next" /\ startPos' = position /\ scanner' # "next"
      /\ UNCHANGED <<code, eof, tokens, diagnostics>>
  BY DEF StartNumber, StartBadNumber, StartString, StartLineComment, StartComment,
         StartName, StartStray, Start, Solid, Zero, InCode, AtNext, Running
<1> QED
  BY <1>1 DEF Unseen, Place

LEMMA TurnUnseen ==
    ASSUME NumberDigit \/ NumberPoint \/ NumberExponent \/ BadNumberChar \/ StringChar
           \/ LineCommentChar \/ CommentChar \/ NameChar \/ StrayChar
    PROVE  Unseen
<1>1. /\ scanner # "next" /\ scanner' = scanner /\ startPos' = startPos
      /\ UNCHANGED <<code, eof, tokens, diagnostics>>
  BY DEF NumberDigit, NumberPoint, NumberExponent, BadNumberChar, StringChar,
         LineCommentChar, CommentChar, NameChar, StrayChar, Move, Stays, locals,
         Running, InString, InComment
<1> QED
  BY <1>1 DEF Unseen, Place

LEMMA StepImplements == ASSUME IInv, [Next]_vars PROVE [T!Next]_(T!vars)
<1> USE DEF Next
<1>1. CASE UNCHANGED vars
  BY <1>1 DEF vars, locals, T!vars, Place
<1>2. CASE EndOfCode \/ SkipSpace \/ Punctuator \/ Operator \/ ZeroAlone
  BY <1>2, EndEnds, SpaceSkips, MarkTakes, ZeroTakes
<1>3. CASE NumberEnds \/ BadNumberEnds \/ StringCloses \/ StringBreaks
           \/ LineCommentEnds \/ CommentCloses \/ CommentAtEnd \/ NameEnds \/ StrayEnds
  BY <1>3, NumberTakes, BadNumberTakes, StringTakes, LineCommentTakes, CommentTakes,
     NameTakes, StrayTakes
<1>4. CASE StartNumber \/ StartBadNumber \/ StartString \/ StartLineComment
           \/ StartComment \/ StartName \/ StartStray
  BY <1>4, StartUnseen DEF Unseen, T!vars
<1>5. CASE NumberDigit \/ NumberPoint \/ NumberExponent \/ BadNumberChar \/ StringChar
           \/ LineCommentChar \/ CommentChar \/ NameChar \/ StrayChar
  BY <1>5, TurnUnseen DEF Unseen, T!vars
<1> QED
  BY <1>1, <1>2, <1>3, <1>4, <1>5

\* For every source: read character by character, with one character of lookahead, the
\* text is cut into exactly the lexemes that Tokens describes, each with its type and its
\* diagnostic.
THEOREM Implements == Spec => ImplementsTokens
<1>1. Init => T!Init
  BY DEF Init, T!Init, Place
<1>2. IInv /\ [Next]_vars => [T!Next]_(T!vars)
  BY StepImplements
<1> QED
  BY <1>1, <1>2, Invariance, PTL DEF Spec, T!Spec, ImplementsTokens

-----------------------------------------------------------------------------
(* Every character once: what a step of Tokens adds is what it has passed *)

\* The last token lies before Place.
LastEnds == tokens # <<>> => LET t == tokens[Len(tokens)]
                             IN t.offset <= Place /\ t.raw[1] + t.raw[2] <= Place
Accounted(i) == InToken(i) \/ IsBlank(i) \/ IsDelimiter(i) \/ IsReported(i)

LEMMA TokenTypes ==
    ASSUME TypeOK
    PROVE  /\ Len(tokens) \in Nat /\ DOMAIN tokens = 1 .. Len(tokens)
           /\ diagnostics \subseteq DOMAIN tokens
           /\ \A k \in DOMAIN tokens : /\ tokens[k].offset \in Nat
                                       /\ tokens[k].raw[1] \in Nat
                                       /\ tokens[k].raw[2] \in Nat
           /\ Place \in 1 .. Len(code) + 1 /\ Len(code) \in Nat
<1>1. Place \in 1 .. Len(code) + 1 /\ Len(code) \in Nat
  BY Looks DEF Place
<1>2. tokens \in Seq([type : Kinds, offset : Nat, raw : Nat \X Nat])
  BY DEF TypeOK, TokensInText
<1>3. Len(tokens) \in Nat /\ DOMAIN tokens = 1 .. Len(tokens)
  BY <1>2
<1>4. ASSUME NEW k \in DOMAIN tokens
      PROVE  tokens[k] \in [type : Kinds, offset : Nat, raw : Nat \X Nat]
  <2> DEFINE S == [type : Kinds, offset : Nat, raw : Nat \X Nat]
  <2>1. tokens \in Seq(S)
    BY <1>2
  <2> HIDE DEF S
  <2>2. tokens[k] \in S
    BY <1>3, <1>4, <2>1
  <2> QED
    BY <2>2 DEF S
<1>5. diagnostics \subseteq DOMAIN tokens
  BY DEF TypeOK, TokensInText
<1> QED
  BY <1>1, <1>3, <1>4, <1>5

\* A token is added that starts at Place and ends before q; what was accounted for
\* still is.
Adds(kind, from, size, q) ==
    /\ tokens' = Append(tokens, Token(kind, Place, from, size))
    /\ diagnostics' \in {diagnostics, diagnostics \cup {Len(tokens) + 1}}
    /\ Place' = q /\ code' = code

LEMMA AddingKeeps ==
    ASSUME TypeOK, LastEnds, EveryCharOnce,
           NEW kind, NEW from \in Nat, NEW size \in Nat, NEW q \in Nat, NEW n,
           n = Len(tokens) + 1,
           from >= Place, from + size <= q, Adds(kind, from, size, q)
    PROVE  /\ LastEnds' /\ \A i \in 1 .. Place - 1 : Accounted(i)'
           /\ \A k \in 1 .. Len(tokens') - 1 :
                 tokens'[k].raw[1] + tokens'[k].raw[2] <= tokens'[k + 1].offset
           /\ n \in DOMAIN tokens'
           /\ tokens'[n].type = kind
           /\ Reach(n)' = Place .. q - 1
           /\ Viewed(n)' = from .. from + size - 1
<1> DEFINE t == Token(kind, Place, from, size)
<1>1. /\ Len(tokens) \in Nat /\ DOMAIN tokens = 1 .. Len(tokens)
      /\ diagnostics \subseteq DOMAIN tokens
      /\ \A k \in DOMAIN tokens : /\ tokens[k].offset \in Nat
                                  /\ tokens[k].raw[1] \in Nat
                                  /\ tokens[k].raw[2] \in Nat
      /\ Place \in Nat
  BY TokenTypes
<1>2. t.type = kind /\ t.offset = Place /\ t.raw[1] = from /\ t.raw[2] = size
  BY DEF Token
<1>3. tokens' = Append(tokens, t) /\ Place' = q /\ code' = code
  BY DEF Adds
<1> HIDE DEF t
<1>4. /\ Len(tokens') = n /\ DOMAIN tokens' = 1 .. n /\ tokens'[n] = t
      /\ \A k \in DOMAIN tokens : tokens'[k] = tokens[k]
      /\ n \in Nat /\ DOMAIN tokens \subseteq DOMAIN tokens'
  <2>1. tokens \in Seq([type : Kinds, offset : Nat, raw : Nat \X Nat])
    BY DEF TypeOK, TokensInText
  <2> QED
    BY <1>1, <1>3, <2>1
<1>5. LastEnds'
  <2>1. tokens'[Len(tokens')] = t /\ t.offset <= q /\ t.raw[1] + t.raw[2] <= q
    BY <1>1, <1>2, <1>4
  <2> QED
    BY <1>3, <2>1 DEF LastEnds
<1>6. Reach(n)' = Place .. q - 1 /\ Viewed(n)' = from .. from + size - 1
  BY <1>2, <1>3, <1>4 DEF Reach, Viewed
<1>7. ASSUME NEW k \in DOMAIN tokens
      PROVE  Reach(k)' = Reach(k) /\ Viewed(k)' = Viewed(k)
  <2>1. tokens'[k] = tokens[k] /\ k < Len(tokens')
    BY <1>1, <1>4, <1>7
  <2>2. Reach(k)' = tokens[k].offset .. tokens'[k + 1].offset - 1
    BY <2>1 DEF Reach
  <2>3. CASE k = Len(tokens)
    BY <1>1, <1>2, <1>4, <2>1, <2>2, <2>3 DEF Reach, Viewed
  <2>4. CASE k < Len(tokens)
    <3>1. k + 1 \in DOMAIN tokens
      BY <1>1, <1>7, <2>4
    <3> QED
      BY <1>4, <2>1, <2>2, <2>4, <3>1 DEF Reach, Viewed
  <2> QED
    BY <1>1, <1>7, <2>3, <2>4
<1>8. ASSUME NEW i \in 1 .. Place - 1 PROVE Accounted(i)'
  <2>1. Accounted(i)
    BY DEF EveryCharOnce, Accounted
  <2>2. InToken(i) => InToken(i)'
    BY <1>4, <1>7 DEF InToken
  <2>3. IsBlank(i) => IsBlank(i)'
    BY <1>3 DEF IsBlank, At
  <2>4. IsDelimiter(i) => IsDelimiter(i)'
    BY <1>3, <1>4, <1>7 DEF IsDelimiter
  <2>5. IsReported(i) => IsReported(i)'
    BY <1>1, <1>7 DEF IsReported, Adds
  <2> QED
    BY <2>1, <2>2, <2>3, <2>4, <2>5 DEF Accounted
<1>9. ASSUME NEW k \in 1 .. Len(tokens') - 1
      PROVE  tokens'[k].raw[1] + tokens'[k].raw[2] <= tokens'[k + 1].offset
  <2>1. k \in DOMAIN tokens /\ tokens'[k] = tokens[k]
    BY <1>1, <1>4
  <2>2. CASE k = Len(tokens)
    <3>1. tokens[k].raw[1] + tokens[k].raw[2] <= Place
      BY <1>1, <2>1, <2>2 DEF LastEnds
    <3> QED
      BY <1>2, <1>4, <2>1, <2>2, <3>1
  <2>3. CASE k < Len(tokens)
    <3>1. k \in 1 .. Len(tokens) - 1 /\ k + 1 \in DOMAIN tokens
      BY <1>1, <2>1, <2>3
    <3>2. tokens[k].raw[1] + tokens[k].raw[2] <= tokens[k + 1].offset
      BY <3>1 DEF EveryCharOnce
    <3> QED
      BY <1>4, <2>1, <3>1, <3>2
  <2> QED
    BY <1>1, <2>1, <2>2, <2>3
<1> QED
  BY <1>2, <1>4, <1>5, <1>6, <1>8, <1>9

\* What lies before q lies before p or between them.
LEMMA SplitAt ==
    \A p \in Nat, q \in Nat : \A i \in 1 .. q - 1 : i \in 1 .. p - 1 \/ i \in p .. q - 1
  OBVIOUS

\* Skip passes blanks only.
LEMMA SkipKeeps ==
    ASSUME TypeOK, LastEnds, EveryCharOnce, T!Skip, Place <= Len(code), code' = code
    PROVE  LastEnds' /\ EveryCharOnce'
<1>1. /\ Len(tokens) \in Nat /\ DOMAIN tokens = 1 .. Len(tokens)
      /\ diagnostics \subseteq DOMAIN tokens
      /\ \A k \in DOMAIN tokens : tokens[k].offset \in Nat /\ tokens[k].raw[1] \in Nat
                                  /\ tokens[k].raw[2] \in Nat
      /\ Place \in 1 .. Len(code) /\ Len(code) \in Nat
  BY TokenTypes
<1>2. /\ tokens' = tokens /\ diagnostics' = diagnostics
      /\ \/ T!Here \in T!Space /\ Place' = Place + 1
         \/ /\ <<T!Here, T!At(Place + 1)>> \in T!Wide /\ Place < Len(code)
            /\ Place' = Place + 2
  BY DEF T!Skip
<1>3. \A i \in 1 .. Len(code) : At(i) = code[i]
  BY DEF At, CharAt
<1>4. \/ code[Place] \in Space /\ Place' = Place + 1
      \/ /\ <<code[Place], code[Place + 1]>> \in Wide /\ Place < Len(code)
         /\ Place' = Place + 2
  BY <1>1, <1>2, <1>3, SameChars, SameAt DEF T!Here
<1>5. Place' >= Place /\ Place' \in Nat
  BY <1>1, <1>4
<1>6. LastEnds'
  BY <1>1, <1>2, <1>5 DEF LastEnds
<1>7. ASSUME NEW k \in DOMAIN tokens
      PROVE  Reach(k) \subseteq Reach(k)' /\ Viewed(k)' = Viewed(k)
  BY <1>1, <1>2, <1>5 DEF Reach, Viewed
<1>8. ASSUME NEW i \in 1 .. Place - 1 PROVE Accounted(i)'
  <2>1. Accounted(i)
    BY DEF EveryCharOnce, Accounted
  <2>2. InToken(i) => InToken(i)'
    BY <1>2, <1>7 DEF InToken
  <2>3. IsBlank(i) => IsBlank(i)'
    BY <1>2 DEF IsBlank, At
  <2>4. IsDelimiter(i) => IsDelimiter(i)'
    BY <1>2, <1>7 DEF IsDelimiter
  <2>5. IsReported(i) => IsReported(i)'
    BY <1>1, <1>2, <1>7 DEF IsReported
  <2> QED
    BY <2>1, <2>2, <2>3, <2>4, <2>5 DEF Accounted
<1>9. ASSUME NEW i \in Place .. Place' - 1 PROVE IsBlank(i)'
  <2>1. CASE i = Place
    <3>1. CASE code[Place] \in Space
      BY <2>1, <3>1 DEF IsBlank
    <3>2. CASE <<code[Place], code[Place + 1]>> \in Wide /\ Place < Len(code)
      <4>1. i + 1 \in 1 .. Len(code) /\ <<code[i], code[i + 1]>> \in Wide
        BY <1>1, <2>1, <3>2
      <4> QED
        BY <1>3, <4>1 DEF IsBlank, At
    <3> QED
      BY <1>4, <3>1, <3>2
  <2>2. CASE i = Place + 1
    <3>1. <<code[i - 1], code[i]>> \in Wide /\ i - 1 \in 1 .. Len(code)
      BY <1>1, <1>4, <2>2
    <3> QED
      BY <1>3, <3>1 DEF IsBlank, At
  <2> QED
    BY <1>1, <1>4, <2>1, <2>2
<1>10. \A i \in 1 .. Place' - 1 : Accounted(i)'
  <2> SUFFICES ASSUME NEW i \in 1 .. Place' - 1 PROVE Accounted(i)'
    OBVIOUS
  <2>1. i \in 1 .. Place - 1 \/ i \in Place .. Place' - 1
    <3>1. Place \in Nat /\ Place' \in Nat
      BY <1>1, <1>5
    <3> QED
      BY <3>1, SplitAt
  <2> QED
    BY <1>8, <1>9, <2>1 DEF Accounted
<1> QED
  BY <1>2, <1>6, <1>10 DEF EveryCharOnce, Accounted

\* A lexeme is its token, or it is reported, or it is a string with its quotation marks.
Whole(q) == \E kind : Push(kind, Place, Place, q - Place)
Wrong(q) == \E kind : \E size \in Nat :
    PushWrong(kind, Place, Place, size) /\ Place + size <= q
Quoted(q) == /\ Push("string_literal", Place, Place + 1, q - Place - 2)
             /\ At(Place) = "quote" /\ At(q - 1) = "quote" /\ q > Place + 1

LEMMA LexemeIs ==
    ASSUME TypeOK, NEW q \in Place + 1 .. Len(code) + 1, Lexeme(q)
    PROVE  Whole(q) \/ Wrong(q) \/ Quoted(q)
<1>1. Place \in 1 .. Len(code) + 1 /\ Len(code) \in Nat
  BY TokenTypes
<1>2. CASE T!Name(q) \/ T!Number(q) \/ T!LineComment(q) \/ T!Comment(q)
  BY <1>2, SamePush DEF T!Name, T!Number, T!LineComment, T!Comment, Whole
<1>3. CASE T!BadNumber(q) \/ T!Stray(q)
  <2>1. \E kind : T!IsWrong(kind, Place, q - Place)
    BY <1>3 DEF T!BadNumber, T!Stray
  <2>2. q - Place \in Nat /\ Place + (q - Place) <= q
    BY <1>1
  <2> QED
    BY <2>1, <2>2, SamePush DEF Wrong
<1>4. CASE T!OpenString(q)
  <2>1. T!IsWrong("string_literal", Place, 1) /\ q > Place + 1
    BY <1>4 DEF T!OpenString
  <2>2. 1 \in Nat /\ Place + 1 <= q
    BY <1>1
  <2> QED
    BY <2>1, <2>2, SamePush DEF Wrong
<1>5. CASE T!OpenComment(q)
  <2>1. /\ T!IsWrong("interline_comment", Place, 2)
        /\ q = Len(code) + 1 /\ T!At(Place + 1) = "*"
    BY <1>5 DEF T!OpenComment
  <2>2. At(Place + 1) # "nul" /\ Place + 1 \in Int
    BY <1>1, <2>1, SameAt
  <2>3. Place + 1 \in 1 .. Len(code)
    BY <2>2, Looks
  <2>4. 2 \in Nat /\ Place + 2 <= q
    BY <1>1, <2>1, <2>3
  <2> QED
    BY <2>1, <2>4, SamePush DEF Wrong
<1>6. CASE T!Mark(q)
  <2>1. \/ q = Place + 1 /\ \E kind : T!Becomes(kind, Place, 1)
        \/ q = Place + 2 /\ \E kind : T!Becomes(kind, Place, 2)
    BY <1>6 DEF T!Mark
  <2>2. /\ q = Place + 1 => q - Place = 1
        /\ q = Place + 2 => q - Place = 2
    BY <1>1
  <2> QED
    BY <2>1, <2>2, SamePush DEF Whole
<1>7. CASE T!String(q)
  BY <1>7, SamePush, SameAt DEF T!String, T!Here, Quoted
<1> QED
  BY <1>2, <1>3, <1>4, <1>5, <1>6, <1>7 DEF Lexeme

LEMMA TakeKeeps ==
    ASSUME TypeOK, LastEnds, EveryCharOnce, T!Take, code' = code
    PROVE  LastEnds' /\ EveryCharOnce'
<1>1. PICK q \in Place + 1 .. Len(code) + 1 : Place' = q /\ Lexeme(q)
  BY DEF T!Take, Lexeme
<1>2. /\ Place \in 1 .. Len(code) + 1 /\ Len(code) \in Nat /\ Len(tokens) \in Nat
  BY TokenTypes
<1>3. PICK n : n = Len(tokens) + 1
  OBVIOUS
<1>4. q \in Nat /\ Place \in Nat /\ Place >= Place
  BY <1>2
<1>5. ASSUME LastEnds', \A i \in 1 .. Place - 1 : Accounted(i)',
             \A k \in 1 .. Len(tokens') - 1 :
                tokens'[k].raw[1] + tokens'[k].raw[2] <= tokens'[k + 1].offset,
             \A i \in Place .. q - 1 : Accounted(i)'
      PROVE  LastEnds' /\ EveryCharOnce'
  <2>1. \A i \in 1 .. Place' - 1 : i \in 1 .. Place - 1 \/ i \in Place .. q - 1
    BY <1>1, <1>2, <1>4
  <2>2. \A i \in 1 .. Place' - 1 : Accounted(i)'
    BY <1>5, <2>1
  <2> QED
    BY <1>5, <2>2 DEF EveryCharOnce, Accounted
<1>6. CASE Whole(q)
  <2>1. PICK kind : Push(kind, Place, Place, q - Place)
    BY <1>6 DEF Whole
  <2>2. PICK size \in Nat : size = q - Place /\ Place + size <= q
    BY <1>2, <1>4
  <2>3. Adds(kind, Place, size, q)
    BY <1>1, <2>1, <2>2 DEF Push, Adds
  <2>4. /\ n \in DOMAIN tokens' /\ Viewed(n)' = Place .. Place + size - 1
        /\ LastEnds' /\ \A i \in 1 .. Place - 1 : Accounted(i)'
        /\ \A k \in 1 .. Len(tokens') - 1 :
              tokens'[k].raw[1] + tokens'[k].raw[2] <= tokens'[k + 1].offset
    BY <1>3, <1>4, <2>2, <2>3, AddingKeeps
  <2>5. Place + size - 1 = q - 1 /\ Viewed(n)' = Place .. q - 1
    BY <1>2, <2>2, <2>4
  <2>6. \A i \in Place .. q - 1 : InToken(i)'
    BY <2>4, <2>5 DEF InToken
  <2> QED
    BY <1>5, <2>4, <2>6 DEF Accounted
<1>7. CASE Wrong(q)
  <2>0. PICK kind : \E size \in Nat :
           PushWrong(kind, Place, Place, size) /\ Place + size <= q
    BY <1>7 DEF Wrong
  <2>1. PICK size \in Nat : PushWrong(kind, Place, Place, size) /\ Place + size <= q
    BY <2>0
  <2>2. Adds(kind, Place, size, q) /\ n \in diagnostics'
    BY <1>1, <1>3, <2>1 DEF PushWrong, Adds
  <2>3. /\ Reach(n)' = Place .. q - 1
        /\ LastEnds' /\ \A i \in 1 .. Place - 1 : Accounted(i)'
        /\ \A k \in 1 .. Len(tokens') - 1 :
              tokens'[k].raw[1] + tokens'[k].raw[2] <= tokens'[k + 1].offset
    BY <1>3, <1>4, <2>1, <2>2, AddingKeeps
  <2>4. \A i \in Place .. q - 1 : IsReported(i)'
    BY <2>2, <2>3 DEF IsReported
  <2> QED
    BY <1>5, <2>3, <2>4 DEF Accounted
<1>8. CASE Quoted(q)
  <2>1. /\ Push("string_literal", Place, Place + 1, q - Place - 2)
        /\ At(Place) = "quote" /\ At(q - 1) = "quote" /\ q > Place + 1
    BY <1>8 DEF Quoted
  <2>2. PICK size \in Nat : size = q - Place - 2
    BY <1>2, <1>4, <2>1
  <2>3. PICK from \in Nat : from = Place + 1
    BY <1>4
  <2>4. from >= Place /\ from + size <= q /\ from + size - 1 = q - 2
    BY <1>2, <2>2, <2>3
  <2>5. Adds("string_literal", from, size, q)
    BY <1>1, <2>1, <2>2, <2>3 DEF Push, Adds
  <2>6. /\ n \in DOMAIN tokens' /\ tokens'[n].type = "string_literal"
        /\ Viewed(n)' = from .. from + size - 1 /\ Reach(n)' = Place .. q - 1
        /\ LastEnds' /\ \A i \in 1 .. Place - 1 : Accounted(i)'
        /\ \A k \in 1 .. Len(tokens') - 1 :
              tokens'[k].raw[1] + tokens'[k].raw[2] <= tokens'[k + 1].offset
    BY <1>3, <1>4, <2>4, <2>5, AddingKeeps
  <2>7. \A i \in 1 .. Len(code) : At(i) = code[i]
    BY DEF At, CharAt
  <2>8. Place \in 1 .. Len(code) /\ q - 1 \in 1 .. Len(code)
    BY <1>2
  <2>9. ASSUME NEW i \in Place .. q - 1 PROVE InToken(i)' \/ IsDelimiter(i)'
    <3>1. CASE i \in from .. from + size - 1
      BY <2>6, <3>1 DEF InToken
    <3>2. CASE i = Place \/ i = q - 1
      BY <2>1, <2>6, <2>7, <2>8, <3>2 DEF IsDelimiter
    <3> QED
      BY <1>2, <2>3, <2>4, <3>1, <3>2
  <2> QED
    BY <1>5, <2>6, <2>9 DEF Accounted
<1> QED
  BY <1>1, <1>6, <1>7, <1>8, LexemeIs

LEMMA EndKeepsChars ==
    ASSUME TypeOK, LastEnds, EveryCharOnce, T!End, code' = code
    PROVE  LastEnds' /\ EveryCharOnce'
<1>1. Push("eof", Place, Place, 0) /\ Place' = Place
  BY SamePush DEF T!End
<1>2. PICK q \in Nat : q = Place
  BY TokenTypes
<1>3. Adds("eof", q, 0, q) /\ q >= Place /\ q + 0 <= q /\ 0 \in Nat
  BY <1>1, <1>2 DEF Push, Adds
<1>4. PICK n : n = Len(tokens) + 1
  OBVIOUS
<1>5. /\ LastEnds' /\ \A i \in 1 .. Place - 1 : Accounted(i)'
      /\ \A k \in 1 .. Len(tokens') - 1 :
            tokens'[k].raw[1] + tokens'[k].raw[2] <= tokens'[k + 1].offset
  BY <1>2, <1>3, <1>4, AddingKeeps
<1> QED
  BY <1>1, <1>5 DEF EveryCharOnce, Accounted

LEMMA UnseenKeeps ==
    ASSUME LastEnds, EveryCharOnce, UNCHANGED <<code, Place, tokens, diagnostics, eof>>
    PROVE  LastEnds' /\ EveryCharOnce'
  BY DEF LastEnds, EveryCharOnce, InToken, IsBlank, IsDelimiter, IsReported, Viewed,
         Reach, At

\* For every source: no character is lost, and none is in two tokens.
THEOREM CharsOnce == Spec => []EveryCharOnce
<1> DEFINE Once == IInv /\ LastEnds /\ EveryCharOnce
<1>1. Init => Once
  <2> SUFFICES ASSUME Init PROVE Once
    OBVIOUS
  <2>1. tokens = <<>> /\ Place = 1
    BY DEF Init, Place
  <2>2. LastEnds /\ EveryCharOnce
    BY <2>1 DEF LastEnds, EveryCharOnce
  <2> QED
    BY <2>2, InitIInv
<1>2. Once /\ [Next]_vars => Once'
  <2> SUFFICES ASSUME IInv, LastEnds, EveryCharOnce, [Next]_vars PROVE Once'
    OBVIOUS
  <2>1. TypeOK
    BY DEF IInv
  <2>2. [T!Next]_(T!vars)
    BY StepImplements
  <2>3. CASE T!Next
    <3>1. /\ code' = code
          /\ (Place <= Len(code) /\ T!Skip) \/ T!Take \/ T!End
      BY <2>3 DEF T!Next
    <3> QED
      BY <2>1, <3>1, SkipKeeps, TakeKeeps, EndKeepsChars, NextIInv
  <2>4. CASE UNCHANGED <<code, Place, tokens, diagnostics, eof>>
    BY <2>4, UnseenKeeps, NextIInv
  <2> QED
    BY <2>2, <2>3, <2>4 DEF T!vars
<1>3. Once => EveryCharOnce
  OBVIOUS
<1> QED
  BY <1>1, <1>2, <1>3, PTL DEF Spec

-----------------------------------------------------------------------------
(* The runtime behind the file: no lexeme runs over the newline before it *)

LEMMA LibraryBehind ==
    ASSUME TypeOK, Edge > 0
    PROVE  /\ Edge \in Nat /\ Len(code) \in Nat /\ Edge + 1 <= Len(code)
           /\ \A i \in Edge + 1 .. Len(code) : At(i) = Library[i - Edge] /\ At(i) # "quote"
           /\ \A i \in Edge + 1 .. Len(code) - 1 : At(i) = "*" => At(i + 1) # "/"
           /\ At(Edge + 1) \in Letter
<1> DEFINE m == Len(Library)
<1>1. PICK source \in Sources : code = source \o Library
  BY DEF TypeOK, Texts
<1>2. source \in Seq(Char) /\ Library \in Seq(Char) /\ m \in Nat /\ m > 1
  BY LexerAssumption
<1>3. /\ Len(code) = Len(source) + m /\ Len(source) \in Nat /\ Edge = Len(source)
      /\ \A i \in 1 .. Len(code) : i > Len(source) => code[i] = Library[i - Len(source)]
  BY <1>1, <1>2 DEF Edge
<1>4. \A i \in 1 .. Len(code) : At(i) = code[i]
  BY DEF At, CharAt
<1>5. ASSUME NEW i \in Edge + 1 .. Len(code)
      PROVE  At(i) = Library[i - Edge] /\ i - Edge \in 1 .. m
  <2>1. i \in 1 .. Len(code) /\ i > Len(source) /\ i - Edge \in 1 .. m
    BY <1>2, <1>3, <1>5
  <2> QED
    BY <1>3, <1>4, <2>1
<1>6. /\ Library[1] \in Letter
      /\ \A k \in 1 .. m : Library[k] # "quote"
      /\ \A k \in 1 .. m - 1 : Library[k] = "*" => Library[k + 1] # "/"
  BY LibraryAssumption
<1>7. /\ Edge \in Nat /\ Len(code) \in Nat /\ Edge + 1 <= Len(code)
      /\ Len(code) = Edge + m
  BY <1>2, <1>3
<1> HIDE DEF m
<1>8. ASSUME NEW i \in Edge + 1 .. Len(code) - 1, At(i) = "*" PROVE At(i + 1) # "/"
  <2> DEFINE k == i - Edge
  <2>1. /\ i \in Edge + 1 .. Len(code) /\ i + 1 \in Edge + 1 .. Len(code)
        /\ (i + 1) - Edge = k + 1 /\ k \in 1 .. m - 1
    BY <1>2, <1>7, <1>8
  <2> HIDE DEF k
  <2>2. At(i) = Library[k] /\ At(i + 1) = Library[k + 1]
    BY <1>5, <2>1 DEF k
  <2> QED
    BY <1>6, <1>8, <2>1, <2>2
<1>9. At(Edge + 1) = Library[1]
  <2>1. Edge + 1 \in Edge + 1 .. Len(code) /\ (Edge + 1) - Edge = 1
    BY <1>7
  <2> QED
    BY <1>5, <2>1
<1>10. \A i \in Edge + 1 .. Len(code) : At(i) # "quote"
  BY <1>5, <1>6
<1> QED
  BY <1>5, <1>6, <1>7, <1>8, <1>9, <1>10

\* A run of characters without newlines ends before one.
LEMMA RunStops ==
    ASSUME NEW e \in Int, At(e) = "newline", NEW p \in Int, p <= e, NEW q \in Int, NEW S,
           "newline" \notin S, T!Run(p, q, S)
    PROVE  q <= e
<1> SUFFICES ASSUME e < q PROVE FALSE
  OBVIOUS
<1>1. e \in p .. q - 1
  OBVIOUS
<1> QED
  BY <1>1, Runs

LEMMA NumberStops ==
    ASSUME NEW e \in Int, At(e) = "newline", Place \in Int, Place <= e, NEW q \in Int,
           T!Decimal(q) \/ T!Octals(q) \/ T!Hexes(q)
    PROVE  q <= e
<1>1. /\ "newline" \notin T!Digit /\ "newline" \notin T!Octal /\ "newline" \notin T!Hex
  BY DEF T!Digit, T!Octal, T!Hex
<1>2. T!Here = At(Place) /\ \A i : T!At(i) = At(i)
  BY SameAt DEF T!Here
<1>3. CASE T!Octals(q)
  BY <1>1, <1>3, RunStops DEF T!Octals
<1>4. CASE T!Hexes(q)
  <2>1. At(Place) = "0" /\ At(Place + 1) = "x" /\ T!Run(Place + 2, q, T!Hex)
    BY <1>2, <1>4 DEF T!Hexes
  <2>2. e # Place /\ e # Place + 1
    BY <2>1
  <2>3. Place + 2 \in Int /\ Place + 2 <= e
    BY <2>2
  <2> QED
    BY <1>1, <2>1, <2>3, RunStops
<1>5. ASSUME NEW p \in Int, p <= e, T!Exponent(p, q) PROVE q <= e
  <2>1. At(p) = "e"
    BY <1>2, <1>5 DEF T!Exponent
  <2>2. p # e
    BY <2>1
  <2>3. p + 1 \in Int /\ p + 1 <= e /\ p + 2 \in Int
    BY <1>5, <2>2
  <2>4. CASE At(p + 1) = "+"
    <3>1. p + 1 # e /\ T!Run(p + 2, q, T!Digit)
      BY <1>2, <1>5, <2>4 DEF T!Exponent
    <3>2. p + 2 <= e
      BY <1>5, <2>3, <3>1
    <3> QED
      BY <1>1, <2>3, <3>1, <3>2, RunStops
  <2>5. CASE At(p + 1) # "+"
    <3>1. T!Run(p + 1, q, T!Digit)
      BY <1>2, <1>5, <2>5 DEF T!Exponent
    <3> QED
      BY <1>1, <2>3, <3>1, RunStops
  <2> QED
    BY <2>4, <2>5
<1>6. ASSUME NEW p \in Int, p <= e, T!Fraction(p, q) PROVE q <= e
  <2>1. At(p) = "."
    BY <1>2, <1>6 DEF T!Fraction
  <2>2. p # e
    BY <2>1
  <2>3. p + 1 \in Int /\ p + 1 <= e
    BY <1>6, <2>2
  <2>4. PICK f \in p + 1 .. q : /\ T!Run(p + 1, f, T!Digit)
                                /\ IF At(f) = "e" THEN T!Exponent(f, q) ELSE f = q
    BY <1>2, <1>6 DEF T!Fraction
  <2>5. f \in Int /\ f <= e
    BY <1>1, <2>3, <2>4, RunStops
  <2> QED
    BY <1>5, <2>4, <2>5
<1>7. CASE T!Decimal(q)
  <2>1. PICK d \in Place + 1 .. q :
           /\ T!Run(Place, d, T!Digit)
           /\ T!Fraction(d, q) \/ T!Exponent(d, q) \/ d = q
    BY <1>7 DEF T!Decimal
  <2>2. d \in Int /\ d <= e
    BY <1>1, <2>1, RunStops
  <2> QED
    BY <1>5, <1>6, <2>1, <2>2
<1> QED
  BY <1>3, <1>4, <1>7

\* A lexeme that takes the newline before the runtime and more is reported.
LEMMA NoneRunsOver ==
    ASSUME TypeOK, Edge > 0, At(Edge) = "newline", Place <= Edge,
           NEW q \in Place + 1 .. Len(code) + 1, Lexeme(q), q > Edge + 1
    PROVE  diagnostics' = diagnostics \cup {Len(tokens) + 1}
<1>1. /\ Edge \in Nat /\ Len(code) \in Nat /\ Edge + 1 <= Len(code)
      /\ \A i \in Edge + 1 .. Len(code) : At(i) # "quote"
      /\ \A i \in Edge + 1 .. Len(code) - 1 : At(i) = "*" => At(i + 1) # "/"
  BY LibraryBehind
<1>2. /\ Place \in 1 .. Len(code) + 1 /\ Place \in Int /\ q \in Int
      /\ q - 1 \in Edge + 1 .. Len(code)
  BY <1>1, TokenTypes
<1>3. T!Here = At(Place) /\ \A i : T!At(i) = At(i)
  BY SameAt DEF T!Here
<1>4. CASE T!Name(q)
  <2>1. T!Run(Place, q, T!Word) /\ "newline" \notin T!Word
    BY <1>4 DEF T!Name, T!Word, T!Letter, T!Digit, T!Octal
  <2> QED
    BY <1>1, <1>2, <2>1, RunStops
<1>5. CASE T!Number(q)
  <2>1. T!Decimal(q) \/ T!Octals(q) \/ T!Hexes(q)
    BY <1>5 DEF T!Number
  <2> QED
    BY <1>1, <1>2, <2>1, NumberStops
<1>6. CASE T!BadNumber(q) \/ T!Stray(q) \/ T!OpenString(q) \/ T!OpenComment(q)
  BY <1>6 DEF T!BadNumber, T!Stray, T!OpenString, T!OpenComment, T!IsWrong
<1>7. CASE T!String(q)
  BY <1>1, <1>2, <1>3, <1>7 DEF T!String
<1>8. CASE T!LineComment(q)
  <2>1. \A k \in Place .. q - 1 : At(k) # "newline"
    BY <1>3, <1>8 DEF T!LineComment
  <2>2. Edge \in Place .. q - 1
    BY <1>1, <1>2
  <2> QED
    BY <2>1, <2>2
<1>9. CASE T!Comment(q)
  <2> DEFINE i == q - 2
  <2>1. At(i) = "*" /\ At(q - 1) = "/"
    BY <1>3, <1>9 DEF T!Comment
  <2>2. i + 1 = q - 1 /\ i \in Edge .. Len(code) - 1
    BY <1>1, <1>2
  <2> HIDE DEF i
  <2>3. i # Edge
    BY <2>1
  <2>4. i \in Edge + 1 .. Len(code) - 1
    BY <1>1, <2>2, <2>3
  <2> QED
    BY <1>1, <2>1, <2>2, <2>4
<1>10. CASE T!Mark(q)
  <2>1. q <= Place + 2
    BY <1>2, <1>10 DEF T!Mark
  <2>2. Place = Edge
    BY <1>1, <1>2, <2>1
  <2>3. At(Place) = "newline"
    BY <2>2
  <2>4. T!Here \in T!Heads \/ T!Here = "semi" \/ <<T!Here, T!At(Place + 1)>> \in T!Operators
    BY <1>10 DEF T!Mark
  <2>5. <<"newline", T!At(Place + 1)>> \notin T!Operators /\ "newline" \notin T!Heads
    BY DEF T!Operators, T!Heads
  <2> QED
    BY <1>3, <2>3, <2>4, <2>5
<1> QED
  BY <1>4, <1>5, <1>6, <1>7, <1>8, <1>9, <1>10 DEF Lexeme

\* The lexeme that starts where the runtime does is a word.
LEMMA FirstWord ==
    ASSUME TypeOK, Edge > 0, Place = Edge + 1,
           NEW q \in Place + 1 .. Len(code) + 1, Lexeme(q)
    PROVE  \/ \E kind : Push(kind, Place, Place, q - Place)
           \/ diagnostics' = diagnostics \cup {Len(tokens) + 1}
<1>1. At(Place) \in Letter
  BY LibraryBehind
<1>2. T!Here = At(Place) /\ \A i : T!At(i) = At(i)
  BY SameAt DEF T!Here
<1>3. /\ T!Here \in Letter /\ T!Here \notin T!Digit /\ T!Here \notin T!Heads
      /\ T!Here \notin {"0", "quote", "/", "semi"}
  BY <1>1, <1>2 DEF Letter, T!Digit, T!Octal, T!Heads
<1>4. <<T!Here, T!At(Place + 1)>> \notin T!Operators
  <2>1. \A c : <<T!Here, c>> \notin {<<"=", "=">>, <<"<", "=">>, <<"&", "&">>}
    BY <1>1, <1>2 DEF Letter
  <2>2. \A c, d : <<T!Here, c>> # <<d>>
    OBVIOUS
  <2> QED
    BY <2>1, <2>2 DEF T!Operators
<1>5. CASE T!Name(q)
  BY <1>5, SamePush DEF T!Name
<1>6. CASE T!Stray(q)
  BY <1>6 DEF T!Stray, T!IsWrong
<1>7. ~ T!Number(q)
  BY <1>3 DEF T!Number, T!Decimal, T!Octals, T!Hexes
<1>8. ~ T!BadNumber(q) /\ ~ T!String(q) /\ ~ T!OpenString(q) /\ ~ T!LineComment(q)
      /\ ~ T!Comment(q) /\ ~ T!OpenComment(q)
  BY <1>3 DEF T!BadNumber, T!String, T!OpenString, T!LineComment, T!Comment, T!OpenComment
<1>9. ~ T!Mark(q)
  BY <1>3, <1>4 DEF T!Mark
<1> QED
  BY <1>5, <1>6, <1>7, <1>8, <1>9 DEF Lexeme

Seen == \E k \in DOMAIN tokens : tokens[k].offset = Edge + 1 /\ tokens[k].raw[1] = Edge + 1

\* The scanner comes to the runtime, and behind it only with its first token or an error.
SeamInv == Edge > 0 /\ At(Edge) = "newline" =>
                Place <= Edge + 1 \/ diagnostics # {} \/ Seen
EndInv == eof = TRUE => Place = Len(code) + 1

\* Tokens and diagnostics stay.
Keeps == /\ code' = code /\ diagnostics \subseteq diagnostics'
         /\ DOMAIN tokens \subseteq DOMAIN tokens'
         /\ \A k \in DOMAIN tokens : tokens'[k] = tokens[k]

LEMMA StepAdds ==
    ASSUME TypeOK, T!Next
    PROVE  Keeps
<1>1. /\ Len(tokens) \in Nat /\ DOMAIN tokens = 1 .. Len(tokens) /\ code' = code
  BY TokenTypes DEF T!Next
<1>2. CASE tokens' = tokens /\ diagnostics' = diagnostics
  BY <1>1, <1>2 DEF Keeps
<1>3. ASSUME NEW token, tokens' = Append(tokens, token), diagnostics \subseteq diagnostics'
      PROVE  Keeps
  <2>1. tokens \in Seq([type : Kinds, offset : Nat, raw : Nat \X Nat])
    BY DEF TypeOK, TokensInText
  <2>2. /\ DOMAIN tokens' = 1 .. Len(tokens) + 1
        /\ \A k \in 1 .. Len(tokens) : tokens'[k] = tokens[k]
    BY <1>3, <2>1
  <2> QED
    BY <1>1, <1>3, <2>2 DEF Keeps
<1>4. ASSUME NEW kind, NEW from, NEW size,
             T!Becomes(kind, from, size) \/ T!IsWrong(kind, from, size)
      PROVE  Keeps
  BY <1>3, <1>4 DEF T!Becomes, T!IsWrong
<1>5. CASE T!Skip
  BY <1>2, <1>5 DEF T!Skip
<1>6. CASE T!Take
  <2>1. PICK q \in Place + 1 .. Len(code) + 1 : Lexeme(q)
    BY <1>6 DEF T!Take, Lexeme
  <2> QED
    BY <1>4, <2>1 DEF Lexeme, T!Name, T!Number, T!BadNumber, T!String, T!OpenString,
       T!LineComment, T!Comment, T!OpenComment, T!Mark, T!Stray
<1>7. CASE T!End
  BY <1>4, <1>7 DEF T!End
<1> QED
  BY <1>5, <1>6, <1>7 DEF T!Next

LEMMA SeamKeeps ==
    ASSUME TypeOK, SeamInv, T!Next
    PROVE  SeamInv'
<1>1. Keeps
  BY StepAdds
<1>2. Edge' = Edge /\ At(Edge)' = At(Edge) /\ Len(code)' = Len(code)
  BY <1>1 DEF Keeps, Edge, At
<1> SUFFICES ASSUME Edge > 0, At(Edge) = "newline"
             PROVE  Place' <= Edge + 1 \/ diagnostics' # {} \/ Seen'
  BY <1>2 DEF SeamInv
<1>3. /\ Edge \in Nat /\ Len(code) \in Nat /\ Edge + 1 <= Len(code)
      /\ At(Edge + 1) \in Letter
  BY LibraryBehind
<1>4. Place \in 1 .. Len(code) + 1
  BY TokenTypes
<1>5. Seen => Seen'
  BY <1>1, <1>2 DEF Seen, Keeps
<1>6. diagnostics # {} => diagnostics' # {}
  BY <1>1 DEF Keeps
<1>7. ASSUME diagnostics' = diagnostics \cup {Len(tokens) + 1} PROVE diagnostics' # {}
  BY <1>7
<1>8. T!Here = At(Place) /\ T!At(Place + 1) = At(Place + 1)
      /\ T!Space = Space /\ T!Wide = Wide
  BY SameAt, SameChars DEF T!Here
<1>9. CASE Place <= Edge /\ T!Skip
  <2>1. CASE Place' = Place + 1
    BY <1>3, <1>4, <1>9, <2>1
  <2>2. CASE <<At(Place), At(Place + 1)>> \in Wide /\ Place' = Place + 2
    <3>1. At(Place) # "newline" /\ At(Place + 1) # "newline"
      BY <2>2 DEF Wide
    <3>2. Place # Edge
      BY <3>1
    <3> QED
      BY <1>3, <1>4, <1>9, <2>2, <3>2
  <2> QED
    BY <1>8, <1>9, <2>1, <2>2 DEF T!Skip
<1>10. CASE Place <= Edge /\ T!Take
  <2>1. PICK q \in Place + 1 .. Len(code) + 1 : Place' = q /\ Lexeme(q)
    BY <1>10 DEF T!Take, Lexeme
  <2>2. CASE q <= Edge + 1
    BY <2>1, <2>2
  <2>3. CASE q > Edge + 1
    BY <1>7, <1>10, <2>1, <2>3, NoneRunsOver
  <2> QED
    BY <1>3, <1>4, <2>2, <2>3
<1>11. CASE Place = Edge + 1 /\ T!Skip
  <2>1. At(Place) \in Letter
    BY <1>3, <1>11
  <2>2. At(Place) \notin Space /\ \A c : <<At(Place), c>> \notin Wide
    BY <2>1 DEF Letter, Space, Wide
  <2> QED
    BY <1>8, <1>11, <2>2 DEF T!Skip
<1>12. CASE Place = Edge + 1 /\ T!Take
  <2>1. PICK q \in Place + 1 .. Len(code) + 1 : Place' = q /\ Lexeme(q)
    BY <1>12 DEF T!Take, Lexeme
  <2>2. \/ \E kind : Push(kind, Place, Place, q - Place)
        \/ diagnostics' = diagnostics \cup {Len(tokens) + 1}
    BY <1>12, <2>1, FirstWord
  <2>3. ASSUME NEW kind, Push(kind, Place, Place, q - Place) PROVE Seen'
    <3> DEFINE token == Token(kind, Place, Place, q - Place)
               n == Len(tokens) + 1
    <3>1. tokens' = Append(tokens, token)
      BY <2>3 DEF Push
    <3>2. token.offset = Edge + 1 /\ token.raw[1] = Edge + 1
      BY <1>12 DEF Token
    <3> HIDE DEF token
    <3>3. tokens \in Seq([type : Kinds, offset : Nat, raw : Nat \X Nat])
      BY DEF TypeOK, TokensInText
    <3>4. n \in DOMAIN tokens' /\ tokens'[n] = token
      BY <3>1, <3>3
    <3> QED
      BY <1>2, <3>2, <3>4 DEF Seen
  <2> QED
    BY <1>7, <2>2, <2>3
<1>13. CASE T!End
  <2>1. Place = Len(code) + 1
    BY <1>13 DEF T!End
  <2>2. ~(Place <= Edge + 1)
    BY <1>3, <2>1
  <2> QED
    BY <1>5, <1>6, <2>2 DEF SeamInv
<1>14. CASE Place > Edge + 1
  <2>1. ~(Place <= Edge + 1)
    BY <1>3, <1>4, <1>14
  <2> QED
    BY <1>5, <1>6, <2>1 DEF SeamInv
<1>15. Place <= Edge \/ Place = Edge + 1 \/ Place > Edge + 1
  BY <1>3, <1>4
<1>16. T!Skip \/ T!Take \/ T!End
  BY DEF T!Next
<1> QED
  BY <1>9, <1>10, <1>11, <1>12, <1>13, <1>14, <1>15, <1>16

LEMMA EofKeeps == ASSUME EndInv, T!Next PROVE EndInv'
<1>1. eof # TRUE /\ code' = code
  BY DEF T!Next
<1>2. CASE T!End
  BY <1>1, <1>2 DEF T!End, EndInv
<1>3. CASE T!Skip \/ T!Take
  <2>1. eof' = eof
    BY <1>3 DEF T!Skip, T!Take
  <2> QED
    BY <1>1, <2>1 DEF EndInv
<1> QED
  BY <1>2, <1>3 DEF T!Next

\* Whatever file ends with a newline and is scanned without an error, in whatever state it
\* leaves the scanner: the runtime's declarations are scanned from their first character
\* (ContextManager::load appends them to the text).
THEOREM LibraryFound == Spec => []LibraryIsSeen
<1> DEFINE Inv == IInv /\ SeamInv /\ EndInv
<1>1. Init => Inv
  <2> SUFFICES ASSUME Init PROVE Inv
    OBVIOUS
  <2>1. Place = 1 /\ eof = FALSE
    BY DEF Init, Place
  <2>2. IInv
    BY InitIInv
  <2>3. SeamInv
    <3> SUFFICES ASSUME Edge > 0 PROVE Place <= Edge + 1
      BY DEF SeamInv
    <3>1. Edge \in Nat
      BY <2>2, LibraryBehind DEF IInv
    <3> QED
      BY <2>1, <3>1
  <2> QED
    BY <2>1, <2>2, <2>3 DEF EndInv
<1>2. Inv /\ [Next]_vars => Inv'
  <2> SUFFICES ASSUME IInv, SeamInv, EndInv, [Next]_vars PROVE Inv'
    OBVIOUS
  <2>1. TypeOK /\ [T!Next]_(T!vars)
    BY StepImplements DEF IInv
  <2>2. CASE T!Next
    BY <2>1, <2>2, SeamKeeps, EofKeeps, NextIInv
  <2>3. CASE UNCHANGED <<code, Place, tokens, diagnostics, eof>>
    <3>1. SeamInv' /\ EndInv'
      BY <2>3 DEF SeamInv, EndInv, Seen, Edge, At
    <3> QED
      BY <3>1, NextIInv
  <2> QED
    BY <2>1, <2>2, <2>3 DEF T!vars
<1>3. Inv => LibraryIsSeen
  <2> SUFFICES ASSUME IInv, SeamInv, EndInv, eof, diagnostics = {}, Edge > 0,
                      code[Edge] = "newline"
               PROVE  Seen
    BY DEF LibraryIsSeen, Seen
  <2>1. TypeOK
    BY DEF IInv
  <2>2. Edge \in Nat /\ Len(code) \in Nat /\ Edge + 1 <= Len(code)
    BY <2>1, LibraryBehind
  <2>3. At(Edge) = code[Edge]
    BY <2>2 DEF At, CharAt
  <2>4. eof = TRUE
    BY <2>1 DEF TypeOK
  <2>5. ~(Place <= Edge + 1)
    BY <2>2, <2>4 DEF EndInv
  <2> QED
    BY <2>3, <2>5 DEF SeamInv
<1> QED
  BY <1>1, <1>2, <1>3, PTL DEF Spec

(* Where tokens begin *)

\* The last token, once the end is marked, is the only one of no character.
IsEnd(k) == eof = TRUE /\ k = Len(tokens)
Begins(k) == /\ tokens[k].offset \in 1 .. Len(code) /\ At(tokens[k].offset) # "newline"
             /\ tokens[k].raw[1] <= tokens[k].offset + 1
PlacesInv ==
    /\ \A k \in DOMAIN tokens : IsEnd(k) \/ Begins(k)
    /\ \A k \in DOMAIN tokens : tokens[k].offset <= Place
    /\ \A j, k \in DOMAIN tokens : j <= k => tokens[j].offset <= tokens[k].offset
    /\ eof = TRUE => tokens # <<>> /\ tokens[Len(tokens)].offset = Len(code) + 1

\* What a token that is added at Place leaves as it is.
LEMMA AddedLast ==
    ASSUME TypeOK, NEW token, tokens' = Append(tokens, token), NEW n, n = Len(tokens) + 1
    PROVE  /\ Len(tokens') = n /\ DOMAIN tokens' = 1 .. n /\ tokens'[n] = token
           /\ \A k \in 1 .. n : k # n => k \in DOMAIN tokens /\ tokens'[k] = tokens[k]
           /\ n \in Nat
<1> DEFINE S == [type : Kinds, offset : Nat, raw : Nat \X Nat]
<1>1. tokens \in Seq(S)
  BY DEF TypeOK, TokensInText
<1> HIDE DEF S
<1> QED
  BY <1>1

LEMMA AddingPlaces ==
    ASSUME TypeOK, PlacesInv, eof # TRUE, NEW token, tokens' = Append(tokens, token),
           token.offset = Place, Place' >= Place, Place' \in Nat, code' = code,
           \/ /\ eof' # TRUE /\ Place \in 1 .. Len(code) /\ At(Place) # "newline"
              /\ token.raw[1] <= Place + 1
           \/ eof' = TRUE /\ Place = Len(code) + 1
    PROVE  PlacesInv'
<1>0. PICK n : n = Len(tokens) + 1
  OBVIOUS
<1>1. /\ Len(tokens') = n /\ DOMAIN tokens' = 1 .. n /\ tokens'[n] = token
      /\ \A k \in 1 .. n : k # n => k \in DOMAIN tokens /\ tokens'[k] = tokens[k]
      /\ n \in Nat
  BY <1>0, AddedLast
<1>2. /\ \A k \in DOMAIN tokens : tokens[k].offset \in Nat
      /\ Place \in Nat /\ Len(code) \in Nat
  BY TokenTypes
<1>3. \A i : At(i)' = At(i)
  BY DEF At
<1>4. \A k \in DOMAIN tokens : Begins(k) /\ tokens[k].offset <= Place
  BY DEF PlacesInv, IsEnd
<1>5. ASSUME NEW k \in 1 .. n, k # n PROVE Begins(k)'
  <2>1. k \in DOMAIN tokens /\ tokens'[k] = tokens[k]
    BY <1>1, <1>5
  <2> QED
    BY <1>3, <1>4, <2>1 DEF Begins
<1>6. IsEnd(n)' \/ Begins(n)'
  BY <1>1, <1>2, <1>3 DEF IsEnd, Begins
<1>7. ASSUME NEW k \in 1 .. n PROVE tokens'[k].offset <= Place /\ tokens'[k].offset \in Nat
  BY <1>1, <1>2, <1>4
<1>8. ASSUME NEW j \in 1 .. n, NEW k \in 1 .. n, j <= k
      PROVE  tokens'[j].offset <= tokens'[k].offset
  <2>1. CASE k = n
    BY <1>1, <1>7, <2>1
  <2>2. CASE k # n
    <3>1. j # n
      BY <1>1, <1>8, <2>2
    <3>2. /\ j \in DOMAIN tokens /\ tokens'[j] = tokens[j]
          /\ k \in DOMAIN tokens /\ tokens'[k] = tokens[k]
      BY <1>1, <2>2, <3>1
    <3> QED
      BY <1>8, <3>2 DEF PlacesInv
  <2> QED
    BY <2>1, <2>2
<1>9. ASSUME NEW k \in 1 .. n PROVE tokens'[k].offset <= Place'
  <2>1. tokens'[k].offset <= Place /\ tokens'[k].offset \in Nat
    BY <1>7, <1>9
  <2>2. \A x, y, z \in Nat : x <= y /\ z >= y => x <= z
    OBVIOUS
  <2>3. Place \in Nat
    BY <1>2
  <2> QED
    BY <2>1, <2>2, <2>3
<1>10. ASSUME eof' = TRUE
       PROVE  tokens' # <<>> /\ tokens'[Len(tokens')].offset = Len(code') + 1
  <2>1. Place = Len(code) + 1
    BY <1>10
  <2>2. tokens'[Len(tokens')] = token /\ Len(tokens') # 0
    BY <1>0, <1>1, TokenTypes
  <2> QED
    BY <2>1, <2>2
<1>11. \A k \in DOMAIN tokens' : IsEnd(k)' \/ Begins(k)'
  BY <1>1, <1>5, <1>6
<1> QED
  BY <1>1, <1>8, <1>9, <1>10, <1>11 DEF PlacesInv

\* No lexeme begins with a newline.
LEMMA LexemeBegins == ASSUME TypeOK, NEW q, Lexeme(q) PROVE At(Place) # "newline"
<1>1. T!Here = At(Place)
  BY SameAt DEF T!Here
<1>2. "newline" \notin Letter \cup Digit \cup Octal \cup Heads \cup {"0", "quote", "/", "semi"}
      /\ "newline" \in Space
  BY DEF Letter, Digit, Octal, Heads, Space
<1>3. (T!Name(q) \/ T!Number(q)) => At(Place) # "newline"
  BY <1>1, <1>2, SameChars
     DEF T!Name, T!Number, T!Decimal, T!Octals, T!Hexes
<1>4. (T!BadNumber(q) \/ T!String(q) \/ T!OpenString(q)) => At(Place) # "newline"
  BY <1>1, <1>2 DEF T!BadNumber, T!String, T!OpenString
<1>5. (T!LineComment(q) \/ T!Comment(q) \/ T!OpenComment(q)) => At(Place) # "newline"
  BY <1>1, <1>2 DEF T!LineComment, T!Comment, T!OpenComment
<1>6. (T!Mark(q) \/ T!Stray(q)) => At(Place) # "newline"
  <2>1. \A c : <<"newline", c>> \notin Operators
    BY DEF Operators
  <2> QED
    BY <1>1, <1>2, <2>1, SameChars DEF T!Mark, T!Stray, T!Starts
<1> QED
  BY <1>3, <1>4, <1>5, <1>6 DEF Lexeme

LEMMA PlacesStep == ASSUME TypeOK, TypeOK', PlacesInv, T!Next PROVE PlacesInv'
<1>1. eof # TRUE /\ code' = code
  BY DEF T!Next
<1>2. Place \in 1 .. Len(code) + 1 /\ Len(code) \in Nat /\ Place' \in 1 .. Len(code) + 1
  <2>1. Place \in 1 .. Len(code) + 1 /\ Len(code) \in Nat
    BY TokenTypes
  <2>2. position' \in 1 .. Len(code) + 1 /\ startPos' \in 1 .. Len(code)
    BY <1>1 DEF TypeOK
  <2> QED
    BY <2>1, <2>2 DEF Place
<1>3. CASE T!Skip
  <2>1. UNCHANGED <<tokens, diagnostics, eof>> /\ Place' >= Place
    BY <1>2, <1>3 DEF T!Skip
  <2>2. \A k : (IsEnd(k)' <=> IsEnd(k)) /\ (Begins(k)' <=> Begins(k))
    BY <1>1, <2>1 DEF IsEnd, Begins, At
  <2>3. \A k \in DOMAIN tokens : tokens[k].offset \in Nat
    BY TokenTypes
  <2> QED
    BY <1>1, <1>2, <2>1, <2>2, <2>3 DEF PlacesInv
<1>4. CASE T!Take /\ Place <= Len(code)
  <2>1. PICK q \in Place + 1 .. Len(code) + 1 : Place' = q /\ Lexeme(q)
    BY <1>4 DEF T!Take, Lexeme
  <2>2. At(Place) # "newline"
    BY <2>1, LexemeBegins
  <2>3. eof' = eof
    BY <1>4 DEF T!Take
  <2>4. Whole(q) \/ Wrong(q) \/ Quoted(q)
    BY <2>1, LexemeIs
  <2>5. \E kind, size : \E from \in {Place, Place + 1} :
            tokens' = Append(tokens, Token(kind, Place, from, size))
    BY <2>4 DEF Whole, Wrong, Quoted, Push, PushWrong
  <2>6. PICK kind, size : \E from \in {Place, Place + 1} :
            tokens' = Append(tokens, Token(kind, Place, from, size))
    BY <2>5
  <2>7. PICK from \in {Place, Place + 1} :
            tokens' = Append(tokens, Token(kind, Place, from, size))
    BY <2>6
  <2> DEFINE token == Token(kind, Place, from, size)
  <2>8. token.offset = Place /\ token.raw[1] = from
    BY DEF Token
  <2> HIDE DEF token
  <2>9. tokens' = Append(tokens, token)
    BY <2>7 DEF token
  <2>10. token.raw[1] <= Place + 1 /\ Place' >= Place /\ Place \in 1 .. Len(code)
         /\ Place' \in Nat
    BY <1>2, <1>4, <2>1, <2>7, <2>8
  <2> QED
    BY <1>1, <2>2, <2>3, <2>8, <2>9, <2>10, AddingPlaces
<1>5. CASE T!End
  <2> DEFINE token == Token("eof", Place, Place, 0)
  <2>1. Place = Len(code) + 1 /\ eof' = TRUE /\ Place' = Place
        /\ T!Becomes("eof", Place, 0)
    BY <1>5 DEF T!End
  <2>2. tokens' = Append(tokens, token)
    BY <2>1, SamePush DEF Push
  <2>3. token.offset = Place
    BY DEF Token
  <2> HIDE DEF token
  <2>4. Place' >= Place /\ Place' \in Nat
    BY <1>2, <2>1
  <2> QED
    BY <1>1, <2>1, <2>2, <2>3, <2>4, AddingPlaces
<1> QED
  BY <1>3, <1>4, <1>5 DEF T!Next

\* Tokens are put in the order of the text, and none begins at the end of a line.
THEOREM Places == Spec => [](IInv /\ PlacesInv)
<1> DEFINE Inv == IInv /\ PlacesInv
<1>1. Init => Inv
  <2> SUFFICES ASSUME Init PROVE Inv
    OBVIOUS
  <2>1. tokens = <<>> /\ eof = FALSE
    BY DEF Init
  <2> QED
    BY <2>1, InitIInv DEF PlacesInv
<1>2. Inv /\ [Next]_vars => Inv'
  <2> SUFFICES ASSUME IInv, PlacesInv, [Next]_vars PROVE Inv'
    OBVIOUS
  <2>1. IInv' /\ TypeOK /\ TypeOK'
    BY NextIInv DEF IInv
  <2>2. [T!Next]_(T!vars)
    BY StepImplements
  <2>3. CASE T!Next
    BY <2>1, <2>3, PlacesStep
  <2>4. CASE UNCHANGED <<code, Place, tokens, diagnostics, eof>>
    <3>1. \A k : (IsEnd(k)' <=> IsEnd(k)) /\ (Begins(k)' <=> Begins(k))
      BY <2>4 DEF IsEnd, Begins, At
    <3> QED
      BY <2>1, <2>4, <3>1 DEF PlacesInv
  <2> QED
    BY <2>2, <2>3, <2>4 DEF T!vars
<1> QED
  BY <1>1, <1>2, PTL DEF Spec

-----------------------------------------------------------------------------
(* The table of lines *)

LEMMA MinIs ==
    ASSUME NEW S \in SUBSET Nat, S # {}
    PROVE  Min(S) \in S /\ \A x \in S : Min(S) <= x
<1> DEFINE less == OpToRel(<, Nat)
<1>1. \A m, n \in Nat : m < n => <<m, n>> \in less
  BY Zenon DEF OpToRel
<1>2. IsWellFoundedOn(less, Nat)
  BY NatLessThanWellFounded
<1> HIDE DEF less
<1>3. PICK m \in S : \A n \in S : ~(<<n, m>> \in less)
  BY <1>2, WFMin
<1>4. ASSUME NEW n \in S PROVE m <= n
  <2>1. m \in Nat /\ n \in Nat /\ ~(<<n, m>> \in less)
    BY <1>3, <1>4
  <2>2. ~(n < m)
    BY <1>1, <2>1
  <2> QED
    BY <2>1, <2>2
<1> QED
  BY <1>3, <1>4 DEF Min

\* The lines begin at places of the text, the first at its first character.
LEMMA LinesBegin ==
    ASSUME TypeOK
    PROVE  /\ LineBegins \subseteq 1 .. Len(code) /\ 1 \in LineBegins
           /\ LineBegins \subseteq Nat /\ Len(code) \in Nat /\ Len(code) > 1
           /\ code[Len(code)] = "newline"
           /\ \A i \in 1 .. Len(code) : At(i) = code[i]
           /\ \A i \in 1 .. Len(code) - 1 : code[i] = "newline" => i + 1 \in LineBegins
<1>1. Len(code) \in Nat /\ Len(code) > 1 /\ CharAt(code, Len(code)) = "newline"
  BY TextsEnd DEF TypeOK, TextOK
<1>2. \A i \in 1 .. Len(code) : At(i) = code[i]
  BY DEF At, CharAt
<1>3. code[Len(code)] = "newline"
  BY <1>1 DEF CharAt
<1> QED
  BY <1>1, <1>2, <1>3 DEF LineBegins

\* How many lines begin up to a place.
Upto(place) == {q \in LineBegins : q <= place}
Rank(place) == Cardinality(Upto(place))

LEMMA UptoGrows ==
    ASSUME TypeOK, NEW p \in Nat, NEW r \in Nat, p <= r PROVE Upto(p) \in SUBSET Upto(r)
<1>1. ASSUME NEW q \in Upto(p) PROVE q \in Upto(r)
  <2>1. q \in LineBegins /\ q <= p /\ q \in Nat
    BY <1>1, LinesBegin DEF Upto
  <2>2. q <= r
    BY <2>1
  <2> QED
    BY <2>1, <2>2 DEF Upto
<1> QED
  BY <1>1

LEMMA Ranks ==
    ASSUME TypeOK, NEW n, n = Cardinality(LineBegins)
    PROVE  /\ n \in Nat /\ IsFiniteSet(LineBegins)
           /\ \A p \in Nat : IsFiniteSet(Upto(p)) /\ Rank(p) \in 0 .. n
           /\ \A p \in Nat : p >= 1 => Rank(p) \in 1 .. n
           /\ \A p \in Nat, q \in LineBegins : p < q => Rank(p) < Rank(q)
<1>1. /\ LineBegins \subseteq 1 .. Len(code) /\ 1 \in LineBegins /\ Len(code) \in Nat
      /\ LineBegins \subseteq Nat
  BY LinesBegin
<1>2. IsFiniteSet(LineBegins)
  <2>1. IsFiniteSet(1 .. Len(code)) /\ LineBegins \in SUBSET (1 .. Len(code))
    BY <1>1, FS_Interval
  <2> QED
    BY <2>1, FS_Subset
<1>3. n \in Nat
  BY <1>2, FS_CardinalityType
<1>4. ASSUME NEW p \in Nat PROVE IsFiniteSet(Upto(p)) /\ Rank(p) \in 0 .. n
  <2>1. Upto(p) \in SUBSET LineBegins
    BY DEF Upto
  <2>2. IsFiniteSet(Upto(p)) /\ Cardinality(Upto(p)) <= Cardinality(LineBegins)
    BY <1>2, <2>1, FS_Subset
  <2>3. Cardinality(Upto(p)) \in Nat
    BY <2>2, FS_CardinalityType
  <2> QED
    BY <1>3, <2>2, <2>3 DEF Rank
<1>5. ASSUME NEW p \in Nat, p >= 1 PROVE Rank(p) # 0
  <2>1. 1 \in Upto(p)
    BY <1>1, <1>5 DEF Upto
  <2> QED
    BY <1>4, <2>1, FS_EmptySet DEF Rank
<1>6. ASSUME NEW p \in Nat, NEW q \in LineBegins, p < q PROVE Rank(p) < Rank(q)
  <2>1. q \in Nat
    BY <1>1
  <2>2. Upto(p) \in SUBSET Upto(q)
    BY <1>6, <2>1, UptoGrows
  <2>5. q \in Upto(q) /\ q \notin Upto(p)
    BY <1>6, <2>1 DEF Upto
  <2>3. IsFiniteSet(Upto(q)) /\ Rank(q) \in 0 .. n /\ Rank(p) \in 0 .. n
    BY <1>4, <2>1
  <2>4. Rank(p) <= Rank(q) /\ (Rank(q) = Rank(p) => Upto(q) = Upto(p))
    BY <2>2, <2>3, FS_Subset DEF Rank
  <2> QED
    BY <1>3, <2>3, <2>4, <2>5
<1> QED
  BY <1>2, <1>3, <1>4, <1>5, <1>6

\* The table holds the places where lines begin, in their order.
LEMMA Table ==
    ASSUME TypeOK, NEW n, n = Cardinality(LineBegins)
    PROVE  /\ n \in Nat /\ n >= 1 /\ Len(LineStarts) = n /\ DOMAIN LineStarts = 1 .. n
           /\ \A l \in 1 .. n : LineStarts[l] \in LineBegins /\ Rank(LineStarts[l]) = l
           /\ \A l, m \in 1 .. n : l < m => LineStarts[l] < LineStarts[m]
           /\ \A p \in LineBegins : Rank(p) \in 1 .. n /\ LineStarts[Rank(p)] = p
<1>1. /\ LineBegins \subseteq 1 .. Len(code) /\ 1 \in LineBegins /\ Len(code) \in Nat
      /\ LineBegins \subseteq Nat
  BY LinesBegin
<1>2. /\ n \in Nat /\ IsFiniteSet(LineBegins)
      /\ \A p \in Nat : p >= 1 => Rank(p) \in 1 .. n
      /\ \A p \in Nat, q \in LineBegins : p < q => Rank(p) < Rank(q)
  BY Ranks
<1>3. \A p \in LineBegins : p \in Nat /\ Rank(p) \in 1 .. n
  BY <1>1, <1>2
<1>4. \A p, q \in LineBegins : Rank(p) = Rank(q) => p = q
  <2> SUFFICES ASSUME NEW p \in LineBegins, NEW q \in LineBegins, p # q, Rank(p) = Rank(q)
               PROVE  FALSE
    OBVIOUS
  <2>1. p \in Nat /\ q \in Nat /\ Rank(p) \in 1 .. n /\ Rank(q) \in 1 .. n
    BY <1>3
  <2>2. p < q \/ q < p
    BY <2>1
  <2>3. Rank(p) < Rank(q) \/ Rank(q) < Rank(p)
    BY <1>2, <2>1, <2>2
  <2> QED
    BY <2>1, <2>3
<1>5. \A l \in 1 .. n : \E p \in LineBegins : Rank(p) = l
  <2> DEFINE f == [p \in LineBegins |-> Rank(p)]
  <2>1. f \in [LineBegins -> 1 .. n] /\ \A p \in LineBegins : f[p] = Rank(p)
    BY <1>3
  <2> HIDE DEF f
  <2>2. f \in Injection(LineBegins, 1 .. n)
    BY <1>4, <2>1 DEF Injection, IsInjective
  <2>3. IsFiniteSet(1 .. n) /\ Cardinality(1 .. n) = n
    BY <1>2, FS_Interval
  <2>4. f \in Surjection(LineBegins, 1 .. n)
    BY <2>2, <2>3, FS_Injection
  <2> QED
    BY <2>1, <2>4 DEF Surjection
<1>6. LineStarts = [l \in 1 .. n |-> CHOOSE p \in LineBegins : Rank(p) = l]
  BY DEF LineStarts, Rank, Upto
<1>7. \A l \in 1 .. n : LineStarts[l] \in LineBegins /\ Rank(LineStarts[l]) = l
  BY <1>5, <1>6
<1>8. DOMAIN LineStarts = 1 .. n
  BY <1>6
<1>9. Len(LineStarts) = n
  <2>1. LineStarts \in [1 .. n -> LineBegins]
    BY <1>6, <1>7, <1>8
  <2> QED
    BY <1>2, <1>8, <2>1
<1>10. ASSUME NEW l \in 1 .. n, NEW m \in 1 .. n, l < m
       PROVE  LineStarts[l] < LineStarts[m]
  <2>1. /\ LineStarts[l] \in LineBegins /\ Rank(LineStarts[l]) = l
        /\ LineStarts[m] \in LineBegins /\ Rank(LineStarts[m]) = m
    BY <1>7, <1>10
  <2>2. LineStarts[l] \in Nat /\ LineStarts[m] \in Nat
    BY <1>3, <2>1
  <2>3. l \in Nat /\ m \in Nat
    BY <1>2
  <2>4. CASE LineStarts[m] < LineStarts[l]
    BY <1>2, <1>10, <2>1, <2>2, <2>3, <2>4
  <2>5. CASE LineStarts[m] = LineStarts[l]
    BY <1>10, <2>1, <2>3, <2>5
  <2> QED
    BY <2>2, <2>4, <2>5
<1>11. \A p \in LineBegins : LineStarts[Rank(p)] = p
  BY <1>3, <1>4, <1>7
<1>12. n >= 1
  BY <1>1, <1>2, <1>3
<1> QED
  BY <1>2, <1>3, <1>7, <1>8, <1>9, <1>10, <1>11, <1>12

\* upper_bound in the table finds the line a place is on.
LEMMA LineOf ==
    ASSUME TypeOK, NEW n, n = Cardinality(LineBegins), NEW place \in Nat, place >= 1,
           NEW line, line = Cardinality(StartsUpTo(place))
    PROVE  /\ line \in 1 .. n /\ LineStarts[line] <= place
           /\ \A l \in 1 .. n : l > line => place < LineStarts[l]
<1>1. LineBegins \subseteq Nat
  BY LinesBegin
<1>2. /\ n \in Nat /\ IsFiniteSet(LineBegins)
      /\ \A p \in Nat : IsFiniteSet(Upto(p)) /\ Rank(p) \in 0 .. n
      /\ \A p \in Nat : p >= 1 => Rank(p) \in 1 .. n
      /\ \A p \in Nat, q \in LineBegins : p < q => Rank(p) < Rank(q)
  BY Ranks
<1>3. /\ DOMAIN LineStarts = 1 .. n
      /\ \A l \in 1 .. n : LineStarts[l] \in LineBegins /\ Rank(LineStarts[l]) = l
      /\ \A l, m \in 1 .. n : l < m => LineStarts[l] < LineStarts[m]
  BY Table
<1>4. PICK m \in 1 .. n : m = Rank(place)
  BY <1>2
<1>5. LineStarts[m] \in LineBegins /\ Rank(LineStarts[m]) = m /\ m \in Nat
  BY <1>2, <1>3
<1>11. LineStarts[m] \in Nat
  BY <1>1, <1>5
<1>12. ASSUME NEW l \in 1 .. n PROVE LineStarts[l] \in Nat /\ l \in Nat
  <2>1. LineStarts[l] \in LineBegins
    BY <1>3
  <2>2. LineStarts[l] \in Nat
    BY <1>1, <2>1
  <2>3. n \in Nat
    BY <1>2
  <2>4. l \in Nat
    BY <1>12, <2>3
  <2> QED
    BY <2>2, <2>4
<1>6. LineStarts[m] <= place
  <2> SUFFICES ASSUME place < LineStarts[m] PROVE FALSE
    BY <1>11
  <2>1. Rank(place) < Rank(LineStarts[m])
    BY <1>2, <1>5
  <2> QED
    BY <1>4, <1>5, <2>1
<1>7. Upto(place) = Upto(LineStarts[m])
  <2>1. Upto(LineStarts[m]) \in SUBSET Upto(place)
    BY <1>6, <1>11, UptoGrows
  <2>2. IsFiniteSet(Upto(place))
    BY <1>2
  <2>3. Cardinality(Upto(place)) = Cardinality(Upto(LineStarts[m]))
    BY <1>4, <1>5 DEF Rank
  <2> QED
    BY <2>1, <2>2, <2>3, FS_Subset
<1>8. \A l \in 1 .. n : l > m => place < LineStarts[l]
  <2> SUFFICES ASSUME NEW l \in 1 .. n, l > m, LineStarts[l] <= place PROVE FALSE
    BY <1>12
  <2>1. LineStarts[l] \in Upto(place)
    BY <1>3 DEF Upto
  <2>2. LineStarts[l] <= LineStarts[m]
    BY <1>7, <2>1 DEF Upto
  <2>3. LineStarts[m] < LineStarts[l]
    BY <1>3, <1>4
  <2> QED
    BY <1>11, <1>12, <2>2, <2>3
<1>9. StartsUpTo(place) = 1 .. m
  <2>1. ASSUME NEW k \in 1 .. n PROVE LineStarts[k] <= place <=> k <= m
    <3>1. LineStarts[k] \in Nat /\ k \in Nat
      BY <1>12
    <3>2. CASE k < m
      <4>1. LineStarts[k] < LineStarts[m]
        BY <1>3, <3>2
      <4> QED
        BY <1>6, <1>11, <3>1, <3>2, <4>1
    <3>3. CASE k = m
      BY <1>6, <3>3, <1>4
    <3>4. CASE k > m
      BY <1>4, <1>8, <3>1, <3>4
    <3> QED
      BY <1>4, <3>1, <3>2, <3>3, <3>4
  <2>2. n \in Nat /\ DOMAIN LineStarts = 1 .. n
    BY <1>2, <1>3
  <2>3. StartsUpTo(place) = {k \in 1 .. n : k <= m}
    BY <2>1, <2>2 DEF StartsUpTo
  <2> QED
    BY <1>4, <2>2, <2>3
<1>10. line = m
  <2> QED
    BY <1>4, <1>9, FS_Interval
<1> QED
  BY <1>4, <1>6, <1>8, <1>10

-----------------------------------------------------------------------------
(* A token and its line *)

\* What is known of the tokens once the end is marked.
LEMMA AtTheEnd ==
    ASSUME TypeOK, PlacesInv, eof = TRUE
    PROVE  /\ Len(tokens) \in Nat /\ Len(tokens) >= 1 /\ DOMAIN tokens = 1 .. Len(tokens)
           /\ \A k \in 1 .. Len(tokens) : tokens[k].offset \in Nat /\ tokens[k].offset >= 1
           /\ \A k \in 1 .. Len(tokens) - 1 : Begins(k)
           /\ tokens[Len(tokens)].offset = Len(code) + 1
<1>1. /\ Len(tokens) \in Nat /\ DOMAIN tokens = 1 .. Len(tokens) /\ Len(code) \in Nat
      /\ \A k \in DOMAIN tokens : tokens[k].offset \in Nat
  BY TokenTypes
<1>2. Len(tokens) >= 1 /\ tokens[Len(tokens)].offset = Len(code) + 1
  <2>1. tokens # <<>> /\ tokens[Len(tokens)].offset = Len(code) + 1
    BY DEF PlacesInv
  <2>2. tokens \in Seq([type : Kinds, offset : Nat, raw : Nat \X Nat])
    BY DEF TypeOK, TokensInText
  <2> QED
    BY <1>1, <2>1, <2>2
<1>3. ASSUME NEW k \in 1 .. Len(tokens) - 1 PROVE Begins(k)
  <2>1. k \in DOMAIN tokens /\ k # Len(tokens)
    BY <1>1, <1>3
  <2> QED
    BY <2>1 DEF PlacesInv, IsEnd
<1>4. ASSUME NEW k \in 1 .. Len(tokens) PROVE tokens[k].offset >= 1
  <2>1. CASE k = Len(tokens)
    BY <1>1, <1>2, <2>1
  <2>2. CASE k # Len(tokens)
    <3>0. \A n \in Nat : \A i \in 1 .. n : i # n => i \in 1 .. n - 1
      OBVIOUS
    <3>1. k \in 1 .. Len(tokens) - 1
      BY <1>1, <1>4, <2>2, <3>0
    <3>2. tokens[k].offset \in 1 .. Len(code)
      BY <1>3, <3>1 DEF Begins
    <3> QED
      BY <3>2
  <2> QED
    BY <2>1, <2>2
<1> QED
  BY <1>1, <1>2, <1>3, <1>4

\* Where a token is located: on the last line that begins before it.
LEMMA Located ==
    ASSUME TypeOK, PlacesInv, eof = TRUE, NEW n, n = Cardinality(LineBegins),
           NEW k \in 1 .. Len(tokens), NEW line, line = Locate(k).line
    PROVE  /\ line \in 1 .. n /\ LineStarts[line] <= tokens[k].offset
           /\ Locate(k).offset = tokens[k].offset - LineStarts[line]
           /\ \A l \in 1 .. n : l > line => tokens[k].offset < LineStarts[l]
<1>1. tokens[k].offset \in Nat /\ tokens[k].offset >= 1
  BY AtTheEnd
<1>2. line = Cardinality(StartsUpTo(tokens[k].offset))
      /\ Locate(k).offset = tokens[k].offset - LineStarts[line]
  BY DEF Locate
<1> QED
  BY <1>1, <1>2, LineOf

\* The first token of a line is on it, or there is none.
LEMMA FirstIs ==
    ASSUME TypeOK, PlacesInv, eof = TRUE, NEW n, n = Cardinality(LineBegins),
           NEW line \in 1 .. n, FirstOfLine(line) # Npos
    PROVE  /\ FirstOfLine(line) \in 1 .. Len(tokens)
           /\ Locate(FirstOfLine(line)).line = line
           /\ \A k \in 1 .. Len(tokens) :
                 tokens[k].offset < LineStarts[line] => k < FirstOfLine(line)
<1>1. /\ Len(tokens) \in Nat /\ Len(tokens) >= 1 /\ DOMAIN tokens = 1 .. Len(tokens)
      /\ \A k \in 1 .. Len(tokens) : tokens[k].offset \in Nat
      /\ tokens[Len(tokens)].offset = Len(code) + 1
  BY AtTheEnd
<1>2. LineStarts[line] \in Nat /\ LineStarts[line] <= Len(code) /\ Len(code) \in Nat
  <2>1. LineStarts[line] \in LineBegins
    BY Table
  <2> QED
    BY <2>1, LinesBegin
<1> DEFINE behind == {t \in DOMAIN tokens : tokens[t].offset >= LineStarts[line]}
<1>3. behind \in SUBSET Nat /\ Len(tokens) \in behind
  BY <1>1, <1>2
<1>4. PICK first : first = Min(behind)
  OBVIOUS
<1> HIDE DEF behind
<1>5. first \in behind /\ \A k \in behind : first <= k
  BY <1>3, <1>4, MinIs
<1>6. FirstOfLine(line) = IF Locate(first).line # line THEN Npos ELSE first
  BY <1>4 DEF FirstOfLine, behind
<1>7. FirstOfLine(line) = first /\ Locate(first).line = line
  BY <1>6
<1>8. first \in 1 .. Len(tokens) /\ tokens[first].offset >= LineStarts[line]
  BY <1>1, <1>5 DEF behind
<1>9. ASSUME NEW k \in 1 .. Len(tokens), tokens[k].offset < LineStarts[line]
      PROVE  k < first
  <2>1. k \in Nat /\ first \in Nat
    BY <1>1, <1>8, <1>9
  <2> SUFFICES ASSUME first <= k PROVE FALSE
    BY <2>1
  <2>2. tokens[first].offset <= tokens[k].offset
    BY <1>1, <1>8 DEF PlacesInv
  <2>3. tokens[first].offset \in Nat /\ tokens[k].offset \in Nat
    BY <1>1, <1>8
  <2> QED
    BY <1>2, <1>8, <1>9, <2>2, <2>3
<1> QED
  BY <1>7, <1>8, <1>9

\* What lastOfLine finds for the line of a token is not before the token; and if it is the
\* token, the next one is on another line.
LEMMA LastIs ==
    ASSUME TypeOK, PlacesInv, eof = TRUE, NEW t \in 1 .. Len(tokens) - 1,
           NEW line, line = Locate(t).line, NEW m, m = LastOfLine(line)
    PROVE  /\ m \in Nat /\ t <= m
           /\ m = t => Locate(t + 1).line # line
<1>1. PICK n : n = Cardinality(LineBegins)
  OBVIOUS
<1>2. /\ Len(tokens) \in Nat /\ t \in 1 .. Len(tokens) /\ t \in Nat /\ t < Len(tokens)
      /\ \A k \in 1 .. Len(tokens) : tokens[k].offset \in Nat
  BY AtTheEnd
<1>3. /\ line \in 1 .. n
      /\ \A l \in 1 .. n : l > line => tokens[t].offset < LineStarts[l]
  BY <1>1, <1>2, Located
<1>4. n \in Nat /\ Len(LineStarts) = n
  BY <1>1, Table
<1> DEFINE stops == {l \in line .. Len(LineStarts) :
                        l = Len(LineStarts) \/ FirstOfLine(l + 1) # Npos}
<1>5. stops \in SUBSET Nat /\ n \in stops
  BY <1>3, <1>4
<1>6. PICK stop : stop = Min(stops)
  OBVIOUS
<1>7. m = IF stop = n THEN Len(tokens)
          ELSE IF Locate(FirstOfLine(stop + 1) - 1).line = stop
               THEN FirstOfLine(stop + 1) - 1 ELSE Npos
  BY <1>4, <1>6 DEF LastOfLine
<1> HIDE DEF stops
<1>8. stop \in stops
  BY <1>5, <1>6, MinIs
<1>9. stop \in line .. n /\ (stop = n \/ FirstOfLine(stop + 1) # Npos)
  BY <1>4, <1>8 DEF stops
<1>10. CASE stop = n
  BY <1>2, <1>7, <1>10
<1>11. CASE stop # n
  <2>1. PICK next : next = FirstOfLine(stop + 1)
    OBVIOUS
  <2>2. stop + 1 \in 1 .. n /\ stop + 1 > line /\ stop \in Nat /\ line \in Nat
    BY <1>3, <1>4, <1>9, <1>11
  <2>3. /\ next \in 1 .. Len(tokens) /\ Locate(next).line = stop + 1 /\ t < next
    <3>1. FirstOfLine(stop + 1) # Npos
      BY <1>9, <1>11
    <3>2. tokens[t].offset < LineStarts[stop + 1]
      BY <1>3, <2>2
    <3> QED
      BY <1>1, <1>2, <2>1, <2>2, <3>1, <3>2, FirstIs
  <2>4. m = next - 1 \/ m = Npos
    BY <1>7, <1>11, <2>1
  <2>5. CASE m = next - 1
    <3>1. next \in Nat
      BY <1>2, <2>3
    <3>2. m \in Nat /\ t <= m /\ (m = t => t + 1 = next)
      BY <1>2, <2>3, <2>5, <3>1
    <3> QED
      BY <2>2, <2>3, <3>2
  <2>6. CASE m = Npos
    BY <1>2, <2>6 DEF Npos
  <2> QED
    BY <2>4, <2>5, <2>6
<1> QED
  BY <1>10, <1>11

\* A line reaches up to its newline.
LEMMA Sizes ==
    ASSUME TypeOK, NEW n, n = Cardinality(LineBegins), NEW line \in 1 .. n
    PROVE  \E e \in LineStarts[line] .. Len(code) :
              /\ code[e] = "newline" /\ LineSize(line) = e - LineStarts[line]
              /\ \A i \in LineStarts[line] .. e - 1 : code[i] # "newline"
<1>1. /\ Len(code) \in Nat /\ code[Len(code)] = "newline"
      /\ LineBegins \subseteq 1 .. Len(code)
  BY LinesBegin
<1>2. PICK start : start = LineStarts[line]
  OBVIOUS
<1>3. start \in LineBegins
  BY <1>2, Table
<1>4. start \in 1 .. Len(code) /\ start \in Nat
  BY <1>1, <1>3
<1> DEFINE ends == {i \in start .. Len(code) : code[i] = "newline"} \cup {Len(code) + 1}
<1>5. ends \in SUBSET Nat /\ Len(code) \in ends
  BY <1>1, <1>4
<1>6. PICK e : e = Min(ends)
  OBVIOUS
<1>7. LineSize(line) = e - start
  BY <1>2, <1>6 DEF LineSize
<1> HIDE DEF ends
<1>8. e \in ends /\ \A i \in ends : e <= i
  BY <1>5, <1>6, MinIs
<1>9. e \in Nat /\ e <= Len(code)
  BY <1>5, <1>8
<1>10. e \in start .. Len(code) /\ code[e] = "newline"
  BY <1>1, <1>8, <1>9 DEF ends
<1>11. ASSUME NEW i \in start .. e - 1, code[i] = "newline" PROVE FALSE
  <2>1. i \in Nat /\ i < e /\ i \in start .. Len(code)
    BY <1>1, <1>4, <1>9, <1>11
  <2>2. i \in ends
    BY <1>11, <2>1 DEF ends
  <2> QED
    BY <1>8, <1>9, <2>1, <2>2
<1> QED
  BY <1>2, <1>7, <1>10, <1>11

\* A token of one line ends before the newline of the line it is located on.
LEMMA TokenOnLine ==
    ASSUME TypeOK, PlacesInv, eof = TRUE, NEW t \in 1 .. Len(tokens) - 1, OneLine(t),
           NEW line, line = Locate(t).line
    PROVE  /\ LineStarts[line] \in Nat /\ LineSize(line) \in Nat
           /\ tokens[t].offset \in Nat /\ tokens[t].raw[2] \in Nat
           /\ LineStarts[line] <= tokens[t].offset
           /\ tokens[t].offset + tokens[t].raw[2] <= LineStarts[line] + LineSize(line)
           /\ \A i \in LineStarts[line] .. tokens[t].offset : code[i] # "newline"
<1>1. PICK n : n = Cardinality(LineBegins)
  OBVIOUS
<1>2. PICK place : place = tokens[t].offset
  OBVIOUS
<1>3. /\ Len(tokens) \in Nat /\ t \in 1 .. Len(tokens) /\ t \in DOMAIN tokens
      /\ Begins(t)
  BY AtTheEnd
<1>4. PICK from, size : from = tokens[t].raw[1] /\ size = tokens[t].raw[2]
  OBVIOUS
<1>5. /\ place \in Nat /\ from \in Nat /\ size \in Nat /\ Len(code) \in Nat
  BY <1>2, <1>3, <1>4, TokenTypes
<1>6. /\ place \in 1 .. Len(code) /\ At(place) # "newline" /\ from <= place + 1
      /\ from >= place /\ from + size <= Len(code) + 1
  BY <1>2, <1>3, <1>4 DEF Begins, TypeOK, TokensInText
<1>7. /\ line \in 1 .. n /\ LineStarts[line] <= place
      /\ \A l \in 1 .. n : l > line => place < LineStarts[l]
  BY <1>1, <1>2, <1>3, Located
<1>8. PICK start : start = LineStarts[line]
  OBVIOUS
<1>9. /\ LineBegins \subseteq Nat /\ code[place] # "newline"
      /\ \A i \in 1 .. Len(code) - 1 : code[i] = "newline" => i + 1 \in LineBegins
  BY <1>6, LinesBegin
<1>10. start \in LineBegins /\ start \in Nat /\ start >= 1
  <2>1. start \in LineBegins
    BY <1>1, <1>7, <1>8, Table
  <2>2. start \in 1 .. Len(code)
    BY <2>1, LinesBegin
  <2> QED
    BY <1>5, <2>1, <2>2
<1>11. PICK e \in start .. Len(code) :
          /\ code[e] = "newline" /\ LineSize(line) = e - start
          /\ \A i \in start .. e - 1 : code[i] # "newline"
  BY <1>1, <1>7, <1>8, Sizes
<1>12. e \in Nat /\ start <= e
  BY <1>5, <1>10, <1>11
<1>13. place < e
  <2> SUFFICES ASSUME e < place PROVE FALSE
    BY <1>5, <1>9, <1>11, <1>12
  <2>1. e \in 1 .. Len(code) - 1 /\ e + 1 <= place /\ e + 1 > start
    BY <1>5, <1>6, <1>10, <1>12
  <2>2. e + 1 \in LineBegins
    BY <1>9, <1>11, <2>1
  <2>3. PICK l : l = Rank(e + 1)
    OBVIOUS
  <2>4. l \in 1 .. n /\ LineStarts[l] = e + 1
    BY <1>1, <2>2, <2>3, Table
  <2>5. l > line
    <3>1. \A i, j \in 1 .. n : i < j => LineStarts[i] < LineStarts[j]
      BY <1>1, Table
    <3>2. n \in Nat
      BY <1>1, Table
    <3>3. l \in Nat /\ line \in Nat
      BY <1>7, <2>4, <3>2
    <3>4. CASE l < line
      <4>1. e + 1 < start
        BY <1>7, <1>8, <2>4, <3>1, <3>4
      <4> QED
        BY <1>10, <1>12, <2>1, <4>1
    <3>5. CASE l = line
      BY <1>8, <1>10, <1>12, <2>1, <2>4, <3>5
    <3> QED
      BY <3>3, <3>4, <3>5
  <2>6. place < e + 1
    BY <1>7, <2>4, <2>5
  <2> QED
    BY <1>5, <1>12, <2>1, <2>6
<1>14. from + size <= e
  <2> SUFFICES ASSUME e < from + size PROVE FALSE
    BY <1>5, <1>12
  <2>1. e \in from .. from + size - 1
    BY <1>5, <1>6, <1>12, <1>13
  <2>2. e \in Viewed(t)
    BY <1>4, <2>1 DEF Viewed
  <2> QED
    BY <1>11, <2>2 DEF OneLine
<1>15. place + size <= e
  BY <1>5, <1>6, <1>12, <1>14
<1>16. \A i \in start .. place : code[i] # "newline"
  <2>1. \A i \in start .. place : i \in start .. e - 1
    BY <1>5, <1>10, <1>12, <1>13
  <2> QED
    BY <1>11, <2>1
<1>17. LineSize(line) \in Nat /\ start + LineSize(line) = e
  BY <1>10, <1>11, <1>12
<1> QED
  BY <1>2, <1>4, <1>5, <1>7, <1>8, <1>10, <1>15, <1>16, <1>17

LEMMA Prints ==
    ASSUME TypeOK, PlacesInv, eof = TRUE, NEW t \in 1 .. Len(tokens) - 1, OneLine(t)
    PROVE  LET shown == Printed(t)
               start == LineStarts[shown.row]
           IN /\ shown # Throws /\ ~shown.more
              /\ start + shown.before = tokens[t].offset
              /\ shown.before + shown.underlined + shown.rest = LineSize(shown.row)
              /\ \A i \in start .. tokens[t].offset : code[i] # "newline"
<1>1. PICK line : line = Locate(t).line
  OBVIOUS
<1>2. PICK start : start = LineStarts[line]
  OBVIOUS
<1>3. PICK size : size = LineSize(line)
  OBVIOUS
<1>4. PICK place : place = tokens[t].offset
  OBVIOUS
<1>5. PICK long : long = tokens[t].raw[2]
  OBVIOUS
<1>6. /\ start \in Nat /\ size \in Nat /\ place \in Nat /\ long \in Nat
      /\ start <= place /\ place + long <= start + size
      /\ \A i \in start .. place : code[i] # "newline"
  BY <1>1, <1>2, <1>3, <1>4, <1>5, TokenOnLine
<1>7. PICK m : m = LastOfLine(line)
  OBVIOUS
<1>8. m \in Nat /\ t <= m /\ (m = t => Locate(t + 1).line # line) /\ t \in Nat
  BY <1>1, <1>7, LastIs, AtTheEnd
<1>9. Min({t, m}) = t
  <2>1. {t, m} \in SUBSET Nat /\ {t, m} # {}
    BY <1>8
  <2>2. Min({t, m}) \in {t, m} /\ Min({t, m}) <= t
    BY <2>1, MinIs
  <2> QED
    BY <1>8, <2>2
<1>10. Locate(t).offset = place - start
  BY <1>1, <1>2, <1>4 DEF Locate
<1> DEFINE at == place - start
           behind == at + long
           more == m <= t /\ t < Len(tokens) /\ Locate(t + 1).line = line
           whole == [row |-> line, before |-> at, underlined |-> behind - at,
                     rest |-> size - behind, more |-> more]
<1>11. Printed(t) = IF at > size \/ behind > size THEN Throws ELSE whole
  BY <1>1, <1>3, <1>5, <1>7, <1>9, <1>10 DEF Printed
<1>12. at \in Nat /\ behind \in Nat /\ at <= size /\ behind <= size
  BY <1>6
<1>13. ~more
  BY <1>8
<1>14. Printed(t) = whole
  <2> HIDE DEF whole, at, behind
  <2> QED
    BY <1>6, <1>11, <1>12
<1>15. /\ whole.row = line /\ whole.before = at /\ whole.underlined = behind - at
       /\ whole.rest = size - behind /\ whole.more = more
  BY Zenon
<1>16. whole # Throws
  BY SMT DEF Throws
<1>17. start + at = place /\ at + (behind - at) + (size - behind) = size
  BY <1>6
<1> HIDE DEF whole, at, behind, more
<1> QED
  BY <1>2, <1>3, <1>4, <1>6, <1>13, <1>14, <1>15, <1>16, <1>17

\* For every source: a diagnostic at any token but the last that lies within one line is
\* printed (no substr throws), with the line the token begins on, once, and the mark under
\* the token.
THEOREM DiagnosticsPrinted == Spec => []ReportsPrint
<1>1. IInv /\ PlacesInv => ReportsPrint
  <2> SUFFICES ASSUME IInv, PlacesInv, eof, NEW t \in 1 .. Len(tokens) - 1, OneLine(t)
               PROVE  LET shown == Printed(t)
                          start == LineStarts[shown.row]
                      IN /\ shown # Throws /\ ~shown.more
                         /\ start + shown.before = tokens[t].offset
                         /\ shown.before + shown.underlined + shown.rest
                               = LineSize(shown.row)
                         /\ \A i \in start .. tokens[t].offset : code[i] # "newline"
    BY DEF ReportsPrint
  <2>1. TypeOK
    BY DEF IInv
  <2>2. eof = TRUE
    BY <2>1 DEF TypeOK
  <2> QED
    BY <2>1, <2>2, Prints
<1> QED
  BY <1>1, Places, PTL
=============================================================================
