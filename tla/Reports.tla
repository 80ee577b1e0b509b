------------------------------- MODULE Reports -------------------------------
(***************************************************************************)
(* How a diagnostic at a token is printed: the lines of a text and the     *)
(* places of its tokens (src/src/context.cc), and writeTo for a diagnostic *)
(* with one location and no label, the only ones the program makes         *)
(* (src/src/diagnostic/diagnostic.cc).  Colours and the title are left     *)
(* out.  Lines are numbered from 1 as CodePosition does, columns from 0.   *)
(***************************************************************************)
EXTENDS Lexer, FiniteSets, FiniteSetsExt

\* A newline at the very end begins no line.
LineBegins ==
    ({1} \cup {i + 1 : i \in {j \in 1 .. Len(code) : code[j] = "newline"}}) \ {Len(code) + 1}
\* lineStartPos: the loop over the text finds them in their order.
LineStarts ==
    [l \in 1 .. Cardinality(LineBegins) |->
        CHOOSE p \in LineBegins : Cardinality({q \in LineBegins : q <= p}) = l]

\* lines[l - 1].size(): up to the newline or the end.
LineSize(l) ==
    Min({i \in LineStarts[l] .. Len(code) : code[i] = "newline"} \cup {Len(code) + 1})
        - LineStarts[l]

\* Mutant: lower_bound for upper_bound, but at the first line.
StartsBefore(place) == {k \in DOMAIN LineStarts : k = 1 \/ LineStarts[k] < place}
StartsUpTo(place) == {k \in DOMAIN LineStarts : LineStarts[k] <= place}
Locate(t) == LET line == Cardinality(StartsUpTo(tokens[t].offset))
             IN [line |-> line, offset |-> tokens[t].offset - LineStarts[line]]

Npos == Len(tokens) + 1   \* greater than every index

FirstOfLine(line) ==
    LET idx == Min({t \in DOMAIN tokens : tokens[t].offset >= LineStarts[line]})
    IN IF Locate(idx).line # line THEN Npos ELSE idx

\* line++ is on the parameter: when a line without a token has been passed, what the
\* token before the next line is compared with is not the line that was asked for.
LastOfLine(asked) ==
    LET final == Len(LineStarts)
        line  == Min({l \in asked .. final : l = final \/ FirstOfLine(l + 1) # Npos})
        next  == FirstOfLine(line + 1)
    IN IF line = final THEN Len(tokens)
       ELSE IF Locate(next - 1).line = line THEN next - 1 ELSE Npos

Throws == [row |-> 0]

\* writeTo: the line up to the token, the token, the rest of the line, and the
\* underline.  substr throws when it starts behind the end of the line.
Printed(caret) ==
    LET at     == Locate(caret)
        size   == LineSize(at.line)
        finish == Min({caret, LastOfLine(at.line)})
        behind == at.offset + tokens[finish].raw[2]
        more   == /\ LastOfLine(at.line) <= caret /\ finish < Len(tokens)
                  /\ Locate(finish + 1).line = at.line   \* prints on from finish + 1
    IN IF at.offset > size \/ behind > size THEN Throws
       ELSE [row |-> at.line, before |-> at.offset, underlined |-> behind - at.offset,
             rest |-> size - behind, more |-> more]

\* A diagnostic at any token but the last, on one line, is printed: its line once,
\* with the mark under the token.
OneLine(t) == \A i \in Viewed(t) : code[i] # "newline"
ReportsPrint ==
    eof => \A t \in 1 .. Len(tokens) - 1 : OneLine(t) =>
        LET shown == Printed(t)
            start == LineStarts[shown.row]
        IN /\ shown # Throws /\ ~shown.more
           /\ start + shown.before = tokens[t].offset
           /\ shown.before + shown.underlined + shown.rest = LineSize(shown.row)
           /\ \A i \in start .. tokens[t].offset : code[i] # "newline"
=============================================================================
