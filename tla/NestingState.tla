----------------------------- MODULE NestingState -----------------------------
(***************************************************************************)
(* How the linter follows classes, namespaces and blocks through a file    *)
(* (NestingState, scripts/cpplint.py): a stack that every elided line      *)
(* updates, with copies that are kept across #if, #else and #endif.        *)
(*                                                                         *)
(* A class or a namespace is one token with its name; "extern" is          *)
(* extern "C"; blanks matter only at the beginning of a line.  CheckBegin  *)
(* and CheckEnd, which only read lines and report, are among the checks    *)
(* that Cpplint!Flaw stands for.                                           *)
(***************************************************************************)
EXTENDS Expressions, LintState

Ifs == {"#if", "#ifdef", "#ifndef"}
Elses == {"#else", "#elif"}

NoAsm == "none"

Block(kind, linenum, seen) ==
  [kind |-> kind, line |-> linenum, seen_open_brace |-> seen, open_parentheses |-> 0,
   inline_asm |-> NoAsm, access |-> ""]

ClassInfo(token, linenum) ==
  [Block("class", linenum, FALSE) EXCEPT !.access = IF token = "struct" THEN "public:" ELSE "private:"]

EmptyNesting == [stack |-> <<>>, previous_stack_top |-> 0, pp_stack |-> <<>>]

SeenOpenBrace(stack) == stack = <<>> \/ Last(stack).seen_open_brace

TopIs(stack, kind) == stack # <<>> /\ Last(stack).kind = kind

InAsmBlock(stack) == stack # <<>> /\ Last(stack).inline_asm # NoAsm

ReplaceTop(stack, block) == Append(Front(stack), block)

\* The first token of a line that is not a blank; Len + 1 if there is none.
FirstCode(line) ==
  LET i == SelectInSeq(line, LAMBDA t : t # " ") IN IF i = 0 THEN Len(line) + 1 ELSE i

StartsWith(line, tokens) ==
  LET i == FirstCode(line) IN i <= Len(line) /\ line[i] \in tokens

MatchAsm(line) ==
  LET i == FirstCode(line) IN i < Len(line) /\ line[i] = "asm" /\ line[i + 1] \in {"{", "("}

Occurrences(line, t) == Len(SelectSeq(line, LAMBDA u : u = t))

-----------------------------------------------------------------------------
(* The preprocessor: the first branch of a conditional is followed.        *)

PreprocessorInfo(stack) == [stack_before_if |-> stack, stack_before_else |-> <<>>, seen_else |-> FALSE]

RestoreLastBranch(n) ==         \* mutant: every #else saves the stack, not only the first
  [n EXCEPT !.pp_stack = ReplaceTop(@, [Last(@) EXCEPT !.seen_else = TRUE, !.stack_before_else = n.stack]),
            !.stack = Last(n.pp_stack).stack_before_if]

SaveBeforeElse(n) ==
  LET info == Last(n.pp_stack)
      saved == IF info.seen_else THEN info
               ELSE [info EXCEPT !.seen_else = TRUE, !.stack_before_else = n.stack]
  IN [n EXCEPT !.pp_stack = ReplaceTop(@, saved), !.stack = info.stack_before_if]

UpdatePreprocessor(n, line) ==
  CASE StartsWith(line, Ifs) -> [n EXCEPT !.pp_stack = Append(@, PreprocessorInfo(n.stack))]
    [] StartsWith(line, Elses) /\ n.pp_stack # <<>> -> SaveBeforeElse(n)
    [] StartsWith(line, {"#endif"}) /\ n.pp_stack # <<>> ->
         [n EXCEPT !.pp_stack = Front(@),
                   !.stack = IF Last(n.pp_stack).seen_else THEN Last(n.pp_stack).stack_before_else ELSE @]
    [] OTHER -> n

-----------------------------------------------------------------------------
(* The parts of Update, in their order.  Each takes the stack and what is  *)
(* left of the line.                                                       *)

CountParentheses(stack, line) ==
  LET top == Last(stack)
      change == Occurrences(line, "(") - Occurrences(line, ")")
      open == top.open_parentheses + change
      asm == CASE top.inline_asm \in {NoAsm, "end"} ->
                    IF change # 0 /\ open = 1 /\ MatchAsm(line) THEN "inside" ELSE NoAsm
               [] top.inline_asm = "inside" /\ open = 0 -> "end"
               [] OTHER -> top.inline_asm
  IN IF stack = <<>> THEN stack
     ELSE ReplaceTop(stack, [top EXCEPT !.open_parentheses = open, !.inline_asm = asm])

RECURSIVE ConsumeNamespaces(_, _, _)
ConsumeNamespaces(stack, line, linenum) ==
  LET i == FirstCode(line)
      brace == SelectInSubSeq(line, i + 1, Len(line), LAMBDA t : t = "{")
      rest == SubSeq(line, IF brace = 0 THEN i + 1 ELSE brace + 1, Len(line))
  IN IF ~StartsWith(line, {"namespace"}) THEN [stack |-> stack, line |-> line]
     ELSE ConsumeNamespaces(Append(stack, Block("namespace", linenum, brace # 0)), rest, linenum)

\* Is the text that follows the first pos tokens in a template argument list?
RECURSIVE InTemplateArgumentList(_, _, _)
InTemplateArgumentList(lines, num, pos) ==
  LET line == lines[num]
      i == SelectInSubSeq(line, pos + 1, Len(line),
                          LAMBDA t : t \in {"{", "}", ";", "=", "[", "]", ".", "<", ">"})
      end == CloseExpression(lines, num, i)
  IN IF num > Len(lines) THEN FALSE
     ELSE CASE i = 0 -> InTemplateArgumentList(lines, num + 1, 0)
            [] i # 0 /\ line[i] \in {"{", "}", ";"} -> FALSE
            [] i # 0 /\ line[i] \in {">", "=", "[", "]", "."} -> TRUE
            [] OTHER -> end.pos > -1 /\ InTemplateArgumentList(lines, end.line, end.pos - 1)

\* The position is that in the rest of the line, but is used in the whole line.
ConsumeClass(stack, line, lines, linenum) ==
  LET i == FirstCode(line)
  IN IF /\ StartsWith(line, {"class", "struct"})
        /\ stack = <<>> \/ Last(stack).open_parentheses = 0
        /\ ~InTemplateArgumentList(lines, linenum, i)
     THEN [stack |-> Append(stack, ClassInfo(line[i], linenum)), line |-> SubSeq(line, i + 1, Len(line))]
     ELSE [stack |-> stack, line |-> line]

UpdateAccess(stack, line) ==
  LET i == SelectLastInSeq(line, LAMBDA t : t \in {"public:", "private:", "protected:"})
  IN IF TopIs(stack, "class") /\ i # 0 THEN ReplaceTop(stack, [Last(stack) EXCEPT !.access = line[i]])
     ELSE stack

\* The first brace, semicolon or closing parenthesis, at i, of what is left of the line.
OpenBrace(stack, line, i, linenum) ==
  IF ~SeenOpenBrace(stack) THEN ReplaceTop(stack, [Last(stack) EXCEPT !.seen_open_brace = TRUE])
  ELSE IF i = 2 /\ line[1] = "extern" THEN Append(stack, Block("extern", linenum, TRUE))
  ELSE Append(stack, [Block("block", linenum, TRUE) EXCEPT
                        !.inline_asm = IF MatchAsm(line) THEN "block" ELSE NoAsm])

KeepPending(stack) == stack     \* mutant: a forward declaration stays on the stack

DropPending(stack) == IF SeenOpenBrace(stack) THEN stack ELSE Front(stack)

RECURSIVE ConsumeBraces(_, _, _)
ConsumeBraces(stack, line, linenum) ==
  LET i == SelectInSeq(line, LAMBDA t : t \in {"{", ";", ")", "}"})
      next == CASE line[i] = "{" -> OpenBrace(stack, line, i, linenum)
                [] line[i] \in {";", ")"} -> DropPending(stack)
                [] OTHER -> IF stack = <<>> THEN stack ELSE Front(stack)
  IN IF i = 0 THEN stack ELSE ConsumeBraces(next, SubSeq(line, i + 1, Len(line)), linenum)

\* The part of Update that is about one line of code.
UpdateStack(stack, lines, linenum) ==
  LET names == ConsumeNamespaces(CountParentheses(stack, lines[linenum]), lines[linenum], linenum)
      class == ConsumeClass(names.stack, names.line, lines, linenum)
  IN ConsumeBraces(UpdateAccess(class.stack, class.line), class.line, linenum)

Update(n, lines, linenum) ==
  LET p == UpdatePreprocessor(n, lines[linenum])
  IN [p EXCEPT !.previous_stack_top = Len(n.stack), !.stack = UpdateStack(p.stack, lines, linenum)]

-----------------------------------------------------------------------------
(* Checks that read the stack.                                             *)

CheckCompletedBlocks(stack) ==
  LET open == SelectSeq(stack, LAMBDA b : b.kind \in {"class", "namespace"})
  IN [i \in DOMAIN open |->
        Error(open[i].line, <<"build", IF open[i].kind = "class" THEN "class" ELSE "namespaces">>, 5)]

IsForwardClassDeclaration(line) ==
  LET code == SelectSeq(line, LAMBDA t : t # " ")
  IN IsSuffix(<<"class", ";">>, code)

IsMacroDefinition(lines, linenum) ==
  \/ lines[linenum] # <<>> /\ lines[linenum][1] = "#define"
  \/ linenum > 1 /\ IsSuffix(<<"\\">>, lines[linenum - 1])

\* A class or namespace that the line put on the stack, directly in the namespace that was on
\* top before.  previous_stack_top is a height; at that height is still the same object if the
\* line put the one above it there, and not the one itself.
IsNamespaceIndentItem(n, linenum) ==
  LET depth == Len(n.stack)
  IN /\ depth > 1 /\ n.previous_stack_top = depth - 1
     /\ n.stack[depth].line = linenum /\ n.stack[depth - 1].line < linenum
     /\ n.stack[depth].kind \in {"class", "namespace"} /\ n.stack[depth - 1].kind = "namespace"

CheckForNamespaceIndentation(n, lines, linenum) ==
  ErrorIf(/\ IsNamespaceIndentItem(n, linenum) \/ IsForwardClassDeclaration(lines[linenum])
          /\ ~IsMacroDefinition(lines, linenum)
          /\ IF IsForwardClassDeclaration(lines[linenum]) THEN TopIs(n.stack, "namespace") ELSE TRUE
          /\ lines[linenum][1] = " ",
          linenum, <<"runtime", "indentation_namespace">>, 4)
-----------------------------------------------------------------------------
(* What the stack should be, without any copies of it.                     *)

\* The conditionals that are open at each line, with the number of the branch.
PathStep(path, line, i) ==
  CASE StartsWith(line, Ifs) -> Append(path, [open |-> i, branch |-> 1])
    [] StartsWith(line, Elses) /\ path # <<>> ->
         Append(Front(path), [Last(path) EXCEPT !.branch = @ + 1])
    [] StartsWith(line, {"#endif"}) /\ path # <<>> -> Front(path)
    [] OTHER -> path

Paths(lines) ==
  FoldLeft(LAMBDA paths, i : Append(paths, PathStep(IF paths = <<>> THEN <<>> ELSE Last(paths), lines[i], i)),
           <<>>, [i \in DOMAIN lines |-> i])

\* Lines up to n that count at line n: of an open conditional those of the branch that n
\* is in, of a closed one those of the first branch.
KeptLines(lines, n) ==
  LET paths == Paths(lines)
      now == ToSet(paths[n])
      Counts(i) == \A a \in ToSet(paths[i]) :
                     IF \E b \in now : b.open = a.open THEN a \in now ELSE a.branch = 1
  IN SelectSeq([i \in 1 .. n |-> i], Counts)

Replay(lines, n) ==
  FoldLeft(LAMBDA stack, i : UpdateStack(stack, lines, i), <<>>, KeptLines(lines, n))

(***************************************************************************)
(* "Preprocessor condition evaluates to true from #if up to first          *)
(* #else/#elif/#endif", and lines from #else to #endif "do not affect      *)
(* nesting stack" (UpdatePreprocessor): at every line the stack is the one *)
(* that the lines of the taken branches alone would give.                  *)
(***************************************************************************)
FollowsFirstBranch(n, lines, linenum) == n.stack = Replay(lines, linenum)

\* The braces that are open after a text.
BraceDepth(tokens) ==
  FoldLeft(LAMBDA d, t : CASE t = "{" -> d + 1
                           [] t = "}" /\ d > 0 -> d - 1
                           [] OTHER -> d, 0, tokens)

Heads == {"class", "struct", "namespace"}

\* Keywords that may be taken for heads: nothing is before them on the line but heads and {.
HeadPlaces(line) == {i \in DOMAIN line : ToSet(SubSeq(line, 1, i)) \subseteq Heads \cup {" ", "{"}
                                         /\ line[i] \in Heads}

\* Every head has its {, ; or ) before the next head and before any }, and between a namespace
\* and the next { of its line nothing ends (as it does in an alias with braces behind it).
HeadsComplete(lines) ==
  LET text == FlattenSeq(lines)
      heads == UNION {{Len(FlattenSeq(SubSeq(lines, 1, l - 1))) + i : i \in HeadPlaces(lines[l])} :
                      l \in DOMAIN lines}
  IN /\ \A i \in heads, j \in DOMAIN text :
          (i < j /\ (j \in heads \/ text[j] = "}")) => \E k \in i .. j : text[k] \in {"{", ";", ")"}
     /\ \A l \in DOMAIN lines : \A i, k \in DOMAIN lines[l] :
          (i < k /\ lines[l][i] = "namespace" /\ lines[l][k] = "{")
            => \E b \in i .. k : lines[l][b] = "{"
                                /\ ToSet(SubSeq(lines[l], i, b)) \cap {";", ")", "}"} = {}

(***************************************************************************)
(* The stack has one entry with an open brace for every open brace of the  *)
(* code, whatever forward declarations, template arguments and parameters  *)
(* with class in them come before ("pushed whenever we see a {, and popped *)
(* when we see a }"), in code whose heads are complete: a } takes the top  *)
(* entry away, also one that still waits for its brace.                    *)
(***************************************************************************)
OneEntryPerBrace(n, lines, linenum) ==
  LET kept == KeptLines(lines, linenum)
      code == [k \in DOMAIN kept |-> lines[kept[k]]]
  IN HeadsComplete(code)
       => Len(SelectSeq(n.stack, LAMBDA b : b.seen_open_brace)) = BraceDepth(FlattenSeq(code))
=============================================================================
