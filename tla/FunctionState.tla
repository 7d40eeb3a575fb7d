---------------------------- MODULE FunctionState ----------------------------
(***************************************************************************)
(* The length of functions (scripts/cpplint.py): _FunctionState and        *)
(* CheckForFunctionLengths, which begins to count at a name and a          *)
(* parenthesis in the first column and stops at a } alone on its line.     *)
(***************************************************************************)
EXTENDS NestingState, FiniteSets

CONSTANTS
  Words,            \* the tokens that are identifiers
  MacroNames,       \* identifiers of capitals and underscores
  TestNames,        \* TEST and TEST_F
  TestLikeNames,    \* identifiers that begin with TEST or Test
  NormalTrigger, TestTrigger    \* _NORMAL_TRIGGER, _TEST_TRIGGER

ASSUME TriggerAssumption ==
  /\ MacroNames \subseteq Words /\ TestLikeNames \subseteq Words
  /\ TestNames \subseteq MacroNames \cap TestLikeNames
  /\ {NormalTrigger, TestTrigger} \subseteq Nat \ {0}

FnSize == <<"readability", "fn_size">>

NoFunction == [in_a_function |-> FALSE, lines_in_function |-> 0, current_function |-> ""]

Begin(name) == [in_a_function |-> TRUE, lines_in_function |-> 0, current_function |-> name]

CountLine(f) == IF f.in_a_function THEN [f EXCEPT !.lines_in_function = @ + 1] ELSE f

BaseTrigger(name) == IF name \in TestLikeNames THEN TestTrigger ELSE NormalTrigger

\* The logarithm to the base 2, rounded down.
Log2(n) == CHOOSE k \in 0 .. n : 2 ^ k <= n /\ n < 2 ^ (k + 1)

LevelOverTrigger(f, verbose_level) ==   \* mutant: the level counts from the trigger, not from its base
  LET trigger == BaseTrigger(f.current_function) * 2 ^ verbose_level
  IN Min({5, Log2(f.lines_in_function \div trigger)})

ErrorLevel(f, verbose_level) == Min({5, Log2(f.lines_in_function \div BaseTrigger(f.current_function))})

Check(f, linenum, verbose_level) ==
  ErrorIf(f.in_a_function /\ f.lines_in_function > BaseTrigger(f.current_function) * 2 ^ verbose_level,
          linenum, FnSize, ErrorLevel(f, verbose_level))

-----------------------------------------------------------------------------
\* The name before a ( that only words precede, if the line begins a function; "" if not.
StartingFunc(line) ==
  LET open == SelectInSeq(line, LAMBDA t : t \notin Words)
      name == line[open - 1]
  IN IF open > 1 /\ line[open] = "(" /\ name \notin MacroNames \ TestNames THEN name ELSE ""

HasToken(line, tokens) == ToSet(line) \cap tokens # {}

Blank(line) == FirstCode(line) > Len(line)

FunctionEnd(line) == line # <<>> /\ line[1] = "}" /\ Blank(Tail(line))

\* The function state, and the errors, after the line.
CheckForFunctionLengths(f, lines, linenum, verbose_level) ==
  LET line == lines[linenum]
      name == StartingFunc(line)
      body == SelectInSubSeq(lines, linenum, Len(lines), LAMBDA l : HasToken(l, {";", "}", "{"}))
  IN CASE name # "" ->
            [state |-> IF body = 0 \/ HasToken(lines[body], {";", "}"}) THEN f ELSE Begin(name),
             errors |-> ErrorIf(body = 0, linenum, FnSize, 5)]
       [] name = "" /\ FunctionEnd(line) ->
            [state |-> [f EXCEPT !.in_a_function = FALSE], errors |-> Check(f, linenum, verbose_level)]
       [] OTHER ->
            [state |-> IF Blank(line) THEN f ELSE CountLine(f), errors |-> <<>>]

-----------------------------------------------------------------------------
\* Lines that begin a body, on their own or on a later line.
BeginsBody(lines, i) ==
  /\ StartingFunc(lines[i]) # ""
  /\ \E b \in i .. Len(lines) :
       /\ HasToken(lines[b], {"{"}) /\ ~HasToken(lines[b], {";", "}"})
       /\ \A k \in i .. b - 1 : ~HasToken(lines[k], {"{", ";", "}"})

\* The lines of the body that begins at i and ends at j.
BodyLines(lines, i, j) ==
  {k \in i + 1 .. j - 1 : ~Blank(lines[k]) /\ StartingFunc(lines[k]) = ""}

\* Ends of functions of more lines than verbosity allows.
LongFunctions(lines, verbose_level) ==
  {j \in DOMAIN lines :
     /\ FunctionEnd(lines[j])
     /\ \E i \in 1 .. j - 1 :
          /\ BeginsBody(lines, i)
          /\ \A k \in i + 1 .. j - 1 : ~FunctionEnd(lines[k]) /\ ~BeginsBody(lines, k)
          /\ Cardinality(BodyLines(lines, i, j))
               > BaseTrigger(StartingFunc(lines[i])) * 2 ^ verbose_level}
=============================================================================
