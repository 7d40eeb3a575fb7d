----------------------------- MODULE Expressions -----------------------------
(***************************************************************************)
(* Matching brackets over the elided lines (scripts/cpplint.py):           *)
(* CloseExpression and ReverseCloseExpression.  A line is a sequence of    *)
(* tokens; "<" and ">" may be brackets or operators, which the code tells  *)
(* apart as it scans.                                                      *)
(***************************************************************************)
EXTENDS Integers, Sequences, SequencesExt

Opening == {"(", "[", "{"}
Closing == {")", "]", "}"}

Matches(open, close) == <<open, close>> \in {<<"(", ")">>, <<"[", "]">>, <<"{", "}">>}

\* The token k places before i; "" before the beginning of the line.
Before(line, i, k) == IF i > k THEN line[i - k] ELSE ""

\* Do the first n tokens end with operator, blanks aside?
EndsWithOperator(line, n) ==
  \E k \in 1 .. n : line[k] = "operator" /\ \A j \in k + 1 .. n : line[j] = " "

Top(stack) == IF stack = <<>> THEN "" ELSE Last(stack)

KeepAngles(stack, angle) == stack       \* mutant: an operator < stays on the stack

\* The loops that take pending angles from the stack: they were operators.
RECURSIVE DropAngles(_, _)
DropAngles(stack, angle) ==
  IF Top(stack) = angle THEN DropAngles(Front(stack), angle) ELSE stack

\* Outcomes of a token: the stack with which to go on, the end of the expression, or no end.
GoOn(stack) == [is |-> "open", stack |-> stack]
Closed == [is |-> "closed", stack |-> <<>>]
Unclosed == [is |-> "unclosed", stack |-> <<>>]

\* The stack without its top: the search ends there if that was the last one.
Pop(stack, outcome) == IF Len(stack) = 1 THEN outcome ELSE GoOn(Front(stack))

-----------------------------------------------------------------------------
\* What FindEndOfExpressionInLine does with the token at i.
ForwardToken(line, i, stack) ==
  LET c == line[i]
      bare == DropAngles(stack, "<")
  IN CASE c \in Opening -> GoOn(Append(stack, c))
       [] c = "<" ->
            IF Before(line, i, 1) = "<"                 \* left shift
            THEN IF Top(stack) = "<" THEN Pop(stack, Unclosed) ELSE GoOn(stack)
            ELSE IF EndsWithOperator(line, i - 1) THEN GoOn(stack)
            ELSE GoOn(Append(stack, "<"))
       [] c \in Closing ->
            IF bare # <<>> /\ Matches(Last(bare), c) THEN Pop(bare, Closed) ELSE Unclosed
       [] c = ">" ->
            IF Before(line, i, 1) = "-" \/ EndsWithOperator(line, i - 2) \/ Top(stack) # "<"
            THEN GoOn(stack)
            ELSE Pop(stack, Closed)
       [] c = ";" -> IF bare = <<>> THEN Unclosed ELSE GoOn(bare)
       [] OTHER -> GoOn(stack)

\* The index just after the end of the expression, or -1 and the stack.
RECURSIVE FindEndOfExpressionInLine(_, _, _)
FindEndOfExpressionInLine(line, i, stack) ==
  LET r == ForwardToken(line, i, stack)
  IN IF i > Len(line) THEN [pos |-> -1, stack |-> stack]
     ELSE CASE r.is = "closed" -> [pos |-> i + 1, stack |-> <<>>]
            [] r.is = "unclosed" -> [pos |-> -1, stack |-> <<>>]
            [] OTHER -> FindEndOfExpressionInLine(line, i + 1, r.stack)

NotClosed(lines) == [line |-> Len(lines) + 1, pos |-> -1]

RECURSIVE ScanForward(_, _, _, _)
ScanForward(lines, num, pos, stack) ==
  LET r == FindEndOfExpressionInLine(lines[num], pos, stack)
  IN IF r.pos > -1 THEN [line |-> num, pos |-> r.pos]
     ELSE IF r.stack # <<>> /\ num < Len(lines) THEN ScanForward(lines, num + 1, 1, r.stack)
     ELSE NotClosed(lines)

\* The place just after the bracket that closes the one at pos.
CloseExpression(lines, num, pos) ==
  LET line == lines[num]
      operator == line[pos] = "<" /\ pos < Len(line) /\ line[pos + 1] \in {"<", "="}
  IN IF line[pos] \notin Opening \cup {"<"} \/ operator THEN NotClosed(lines)
     ELSE ScanForward(lines, num, pos, <<>>)

-----------------------------------------------------------------------------
\* The > of >= between blanks.
GreaterEqual(line, i) ==
  i > 1 /\ i + 2 <= Len(line) /\ SubSeq(line, i - 1, i + 2) = <<" ", ">", "=", " ">>

OneToken(line, i) == FALSE              \* mutant: operators with angles are taken for brackets

\* Operators that FindStartOfExpressionInLine passes over, with the token before:
\* << and, of the tokens with >, -> and >= and operator>.
TwoTokens(line, i) ==
  \/ line[i] = "<" /\ Before(line, i, 1) = "<"
  \/ line[i] = ">" /\ (Before(line, i, 1) = "-" \/ GreaterEqual(line, i) \/ EndsWithOperator(line, i - 1))

\* What FindStartOfExpressionInLine does with the token at i, scanning backwards.
BackwardToken(line, i, stack) ==
  LET c == line[i]
      bare == DropAngles(stack, ">")
  IN IF TwoTokens(line, i) THEN GoOn(stack) ELSE
     CASE c \in Closing \cup {">"} -> GoOn(Append(stack, c))
       [] c = "<" -> IF Top(stack) = ">" THEN Pop(stack, Closed) ELSE GoOn(stack)
       [] c \in Opening ->
            IF bare # <<>> /\ Matches(c, Last(bare)) THEN Pop(bare, Closed) ELSE Unclosed
       [] c = ";" -> IF bare = <<>> THEN Unclosed ELSE GoOn(bare)
       [] OTHER -> GoOn(stack)

RECURSIVE FindStartOfExpressionInLine(_, _, _)
FindStartOfExpressionInLine(line, i, stack) ==
  LET r == BackwardToken(line, i, stack)
  IN IF i < 1 THEN [pos |-> -1, stack |-> stack]
     ELSE CASE r.is = "closed" -> [pos |-> i, stack |-> <<>>]
            [] r.is = "unclosed" -> [pos |-> -1, stack |-> <<>>]
            [] OTHER -> FindStartOfExpressionInLine(line, i - (IF TwoTokens(line, i) THEN 2 ELSE 1), r.stack)

NotOpened == [line |-> 1, pos |-> -1]

RECURSIVE ScanBackward(_, _, _, _)
ScanBackward(lines, num, pos, stack) ==
  LET r == FindStartOfExpressionInLine(lines[num], pos, stack)
  IN IF r.pos > -1 THEN [line |-> num, pos |-> r.pos]
     ELSE IF r.stack # <<>> /\ num > 1
     THEN ScanBackward(lines, num - 1, Len(lines[num - 1]), r.stack)
     ELSE NotOpened

\* The place of the bracket that the one at pos closes.
ReverseCloseExpression(lines, num, pos) ==
  IF lines[num][pos] \notin Closing \cup {">"} THEN NotOpened
  ELSE ScanBackward(lines, num, pos, <<>>)

-----------------------------------------------------------------------------
\* Places of tokens; the second half of an operator is none.
Places(lines) ==
  UNION {{<<l, p>> : p \in {q \in DOMAIN lines[l] :
                              /\ ~TwoTokens(lines[l], q)
                              /\ lines[l][q] = "<" => ~EndsWithOperator(lines[l], q - 1)}} :
         l \in DOMAIN lines}

\* The brackets, without angles, from a place up to another one.
Brackets(lines, from, end) ==
  SelectSeq(FlattenSeq([l \in 1 .. (end.line - from[1] + 1) |->
              SubSeq(lines[from[1] + l - 1],
                     IF l = 1 THEN from[2] ELSE 1,
                     IF from[1] + l - 1 = end.line THEN end.pos - 1 ELSE Len(lines[from[1] + l - 1]))]),
            LAMBDA t : t \in Opening \cup Closing)

\* A word of brackets is nested properly if taking away neighbours that match leaves nothing.
RECURSIVE Nested(_)
Nested(word) ==
  LET pairs == {i \in 1 .. Len(word) - 1 : Matches(word[i], word[i + 1])}
      i == CHOOSE p \in pairs : TRUE
  IN word = <<>> \/ (pairs # {} /\ Nested(SubSeq(word, 1, i - 1) \o SubSeq(word, i + 2, Len(word))))

\* Places just after a token.
Ends(lines) == {[line |-> p[1], pos |-> p[2] + 1] : p \in Places(lines)}

AtOrAfter(end, from) == end.line > from[1] \/ (end.line = from[1] /\ end.pos > from[2])

(***************************************************************************)
(* CloseExpression finds the end of every ( [ or { expression that is      *)
(* nested properly, over any number of lines, and ends no other, whatever  *)
(* angles, shifts and semicolons are between.                              *)
(***************************************************************************)
ClosesNested(lines) ==
  \A from \in Places(lines) :
    lines[from[1]][from[2]] \in Opening =>
      LET end == CloseExpression(lines, from[1], from[2])
          nested == {e \in Ends(lines) : AtOrAfter(e, from) /\ Nested(Brackets(lines, from, e))}
      IN IF nested = {} THEN end = NotClosed(lines)
         ELSE end \in nested /\ \A e \in nested : ~AtOrAfter(end, <<e.line, e.pos>>)

\* Is there, from a place up to another one, an operator function or a >= between blanks?  Of
\* operator functions one scanner passes over operator<, the other over operator>; and only
\* the backward one knows that the > of >= closes nothing.
ReadDifferently(lines, from, end) ==
  \E l \in from[1] .. end.line : \E p \in DOMAIN lines[l] :
    /\ l = from[1] => p > from[2]
    /\ l = end.line => p < end.pos
    /\ lines[l][p] = "operator" \/ GreaterEqual(lines[l], p)

(***************************************************************************)
(* CloseExpression and ReverseCloseExpression agree: from the bracket that *)
(* closes an expression the way back leads to the bracket that opened it   *)
(* ("almost the reverse", FindStartOfExpressionInLine).  That is so for    *)
(* every expression in ( ) [ ] or { }, and for one in < > if it has no     *)
(* operator function and no >= between blanks in it: on a < b >= c the way *)
(* forward ends at the > of >=, where the way back does not begin.         *)
(***************************************************************************)
CloseIsReversed(lines) ==
  \A from \in Places(lines) :
    LET end == CloseExpression(lines, from[1], from[2])
    IN (end.pos > -1 /\ (lines[from[1]][from[2]] = "<" => ~ReadDifferently(lines, from, end)))
         => ReverseCloseExpression(lines, end.line, end.pos - 1) = [line |-> from[1], pos |-> from[2]]

=============================================================================
