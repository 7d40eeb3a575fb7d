---------------------------- MODULE CleansedLines ----------------------------
(***************************************************************************)
(* How the linter (scripts/cpplint.py) removes comments and strings before *)
(* it looks at a file: RemoveMultiLineComments, then, for every line, raw  *)
(* strings, the contents of strings, // comments and /* */ comments.       *)
(*                                                                         *)
(* A line is a sequence of lexemes that stand apart: the quote, //, /*,    *)
(* */, the beginning and the end of a raw string, and any other token.     *)
(* Blanks, escapes and character literals are left out.                    *)
(***************************************************************************)
EXTENDS Integers, Sequences, SequencesExt

Quote == "\""

\* Beginnings of raw strings, with the delimiter that ends each.
RawEnd == [open \in {"R\"(", "R\"d("} |-> IF open = "R\"(" THEN ")\"" ELSE ")d\""]

\* The quote and parenthesis in a raw string mark that is not one, as in a comment.
Spelled(t) ==
  CASE t \in DOMAIN RawEnd -> <<"R", Quote, "(">>
    [] t \in {RawEnd[o] : o \in DOMAIN RawEnd} -> <<")", Quote>>
    [] OTHER -> <<t>>

Spell(line) == FlattenSeq([i \in DOMAIN line |-> Spelled(line[i])])

\* The first index from which a line holds a token of S; 0 if there is none.
Find(line, S, from) == SelectInSubSeq(line, from, Len(line), LAMBDA t : t \in S)

Rest(line, i) == SubSeq(line, i, Len(line))

Count(line, S) == Len(SelectSeq(line, LAMBDA t : t \in S))

\* Does the line end inside a string constant?
IsCppString(line) == Count(Spell(line), {Quote}) % 2 = 1

-----------------------------------------------------------------------------
(* Raw strings.                                                            *)

NeverInLineComment(prefix) == FALSE      \* mutant: raw strings also begin in comments

\* Is there a // outside the strings of a line's beginning?
InLineComment(prefix) ==
  \E i \in DOMAIN prefix : prefix[i] = "//" /\ ~IsCppString(SubSeq(prefix, 1, i - 1))

NoDelimiter == ""

\* The loop that replaces the raw strings that begin on a line.
RECURSIVE ReplaceRawStrings(_)
ReplaceRawStrings(line) ==
  LET open == Find(line, DOMAIN RawEnd, 1)
      prefix == SubSeq(line, 1, open - 1)
      end == Find(line, {RawEnd[line[open]]}, open + 1)
  IN IF open = 0 \/ InLineComment(prefix)
     THEN [delimiter |-> NoDelimiter, line |-> line]
     ELSE IF end = 0
     THEN [delimiter |-> RawEnd[line[open]], line |-> prefix \o <<Quote, Quote>>]
     ELSE ReplaceRawStrings(prefix \o <<Quote, Quote>> \o Rest(line, end + 1))

\* One turn of the loop over the lines: acc holds the open delimiter and the result.
CleanseRawLine(acc, line) ==
  LET end == Find(line, {acc.delimiter}, 1)
      r == IF acc.delimiter = NoDelimiter THEN ReplaceRawStrings(line)
           ELSE IF end > 0 THEN ReplaceRawStrings(<<Quote, Quote>> \o Rest(line, end + 1))
           ELSE [delimiter |-> acc.delimiter, line |-> <<Quote, Quote>>]
  IN [delimiter |-> r.delimiter, lines |-> Append(acc.lines, r.line)]

CleanseRawStrings(raw_lines) ==
  FoldLeft(CleanseRawLine, [delimiter |-> NoDelimiter, lines |-> <<>>], raw_lines).lines

-----------------------------------------------------------------------------
(* Comments.  Line numbers are indices; 0 stands for len(lines), not found. *)

FindNextMultiLineCommentStart(lines, from) ==
  SelectInSubSeq(lines, from, Len(lines),
                 LAMBDA l : l # <<>> /\ l[1] = "/*" /\ Find(l, {"*/"}, 2) = 0)

FindNextMultiLineCommentEnd(lines, from) ==
  SelectInSubSeq(lines, from, Len(lines), LAMBDA l : l # <<>> /\ Last(l) = "*/")

RemoveMultiLineCommentsFromRange(lines, begin, end) ==
  [i \in DOMAIN lines |-> IF i \in begin .. end THEN <<"/*", "*/">> ELSE lines[i]]

\* The lines, and the beginning of a comment that has no end (0 if there is none).
RECURSIVE RemoveFrom(_, _)
RemoveFrom(lines, lineix) ==
  LET begin == FindNextMultiLineCommentStart(lines, lineix)
      end == FindNextMultiLineCommentEnd(lines, begin)
  IN IF begin = 0 THEN [lines |-> lines, unended |-> 0]
     ELSE IF end = 0 THEN [lines |-> lines, unended |-> begin]
     ELSE RemoveFrom(RemoveMultiLineCommentsFromRange(lines, begin, end), end + 1)

RemoveMultiLineComments(lines) == RemoveFrom(lines, 1)

\* The substitution that removes every /* ... */ of a line.
RECURSIVE RemoveCComments(_)
RemoveCComments(line) ==
  LET open == SelectInSeq(line, LAMBDA t : t = "/*")
      close == Find(line, {"*/"}, open + 1)
  IN IF open = 0 \/ close = 0 THEN line
     ELSE SubSeq(line, 1, open - 1) \o RemoveCComments(Rest(line, close + 1))

CleanseComments(line) ==
  LET commentpos == Find(line, {"//"}, 1)
      cut == commentpos # 0 /\ ~IsCppString(SubSeq(line, 1, commentpos - 1))
  IN RemoveCComments(IF cut THEN SubSeq(line, 1, commentpos - 1) ELSE line)

\* Strings become "": _CollapseStrings.  Lines with an #include are kept.
RECURSIVE CollapseStrings(_)
CollapseStrings(line) ==
  LET open == Find(line, {Quote}, 1)
      close == Find(line, {Quote}, open + 1)
  IN IF open = 0 \/ close = 0 THEN line
     ELSE SubSeq(line, 1, open - 1) \o <<Quote, Quote>> \o CollapseStrings(Rest(line, close + 1))

\* CleansedLines.__init__: the copies of the lines that the checks use.
Cleanse(raw_lines) ==
  LET unraw == CleanseRawStrings(raw_lines)
      Elide(line) == IF line # <<>> /\ line[1] = "#include" THEN CleanseComments(line)
                     ELSE CleanseComments(CollapseStrings(line))
  IN [raw_lines |-> raw_lines,
      lines_without_raw_strings |-> unraw,
      lines |-> [i \in DOMAIN unraw |-> CleanseComments(Spell(unraw[i]))],
      elided |-> [i \in DOMAIN unraw |-> Elide(Spell(unraw[i]))]]
-----------------------------------------------------------------------------
(* What C++ says of the same text: a scanner that reads the file once.     *)

RawMarks == DOMAIN RawEnd \cup {RawEnd[o] : o \in DOMAIN RawEnd}

\* acc: the mode, the code of the line so far, and whether it has marks that the
\* linter is known to misread: of strings or // in a comment, of a raw string in a string.
LexToken(acc, t) ==
  LET Emit(mode, tokens) == [acc EXCEPT !.mode = mode, !.code = @ \o tokens]
  IN CASE acc.mode = "code" ->
            (CASE t = Quote -> Emit("string", <<Quote, Quote>>)
               [] t \in DOMAIN RawEnd -> Emit(RawEnd[t], <<Quote, Quote>>)
               [] t \in RawMarks \ DOMAIN RawEnd -> Emit("string", <<")", Quote, Quote>>)
               [] t = "//" -> Emit("line comment", <<>>)
               [] t = "/*" -> Emit("comment", <<>>)
               [] OTHER -> Emit("code", <<t>>))
       [] acc.mode = "string" ->
            (CASE t \in DOMAIN RawEnd -> [Emit("code", <<"(">>) EXCEPT !.marks = TRUE]
               [] t \in RawMarks \ DOMAIN RawEnd \/ t = Quote -> Emit("code", <<>>)
               [] OTHER -> acc)
       [] acc.mode = "line comment" -> acc
       [] acc.mode = "comment" ->
            IF t = "*/" THEN Emit("code", <<>>)
            ELSE [acc EXCEPT !.marks = @ \/ t \in {Quote, "//"} \cup RawMarks]
       [] OTHER -> IF t = acc.mode THEN Emit("code", <<>>) ELSE acc

(***************************************************************************)
(* The text is within the limits of the linter ("ok") if no string runs    *)
(* over the end of a line, a comment of several lines has these lines to   *)
(* itself, other comments and strings hold no misread marks, and no line   *)
(* of a raw string looks like the beginning of a comment of several lines. *)
(***************************************************************************)
LexLine(acc, line) ==
  LET raw == acc.mode \in RawMarks
      r == FoldLeft(LexToken, [mode |-> acc.mode, marks |-> FALSE,
                               code |-> IF raw THEN <<Quote, Quote>> ELSE <<>>], line)
      close == Find(line, {"*/"}, 1)
      opens == line # <<>> /\ line[1] = "/*" /\ close = 0
  IN [mode |-> IF r.mode = "line comment" THEN "code" ELSE r.mode,
      lines |-> Append(acc.lines, r.code),
      ok |-> /\ acc.ok
             /\ r.mode # "string"
             /\ raw => ~opens
             /\ acc.mode = "comment" => close \in {0, Len(line)}
             /\ acc.mode # "comment" => IF r.mode = "comment" THEN opens ELSE ~r.marks]

Lex(raw_lines) ==
  FoldLeft(LexLine, [mode |-> "code", lines |-> <<>>, ok |-> TRUE], raw_lines)

(***************************************************************************)
(* The elided lines that all checks work on are the code of the file, with *)
(* "" for every string, as the docstrings of CleansedLines and             *)
(* CleanseRawStrings say, for every text within the limits of the linter.  *)
(***************************************************************************)
ElidesExactly(raw_lines) ==
  LET text == Lex(raw_lines)
  IN (text.ok /\ text.mode = "code")
       => Cleanse(RemoveMultiLineComments(raw_lines).lines).elided = text.lines
=============================================================================
