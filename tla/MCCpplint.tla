------------------------------ MODULE MCCpplint ------------------------------
(***************************************************************************)
(* Instances of Cpplint: families of small files, each with the tokens     *)
(* that one part of the linter tells apart, and a family of pairs of files *)
(* with configurations and NOLINT comments.                                *)
(***************************************************************************)
EXTENDS Cpplint, TLC

NL == "newline"

\* Is there a text of at most n tokens for which P holds?
SomeText(tokens, n, P(_)) == \E k \in 0 .. n : \E text \in [1 .. k -> tokens] : P(text)

\* The lines of a text, which ends with a newline.
SplitToken(lines, t) ==
  IF t = NL THEN Append(lines, <<>>) ELSE Append(Front(lines), Append(Last(lines), t))

Lines(text) == Append(FoldLeft(SplitToken, <<<<>>>>, text), <<>>)

-----------------------------------------------------------------------------
(* The tables of the linter, for the tokens in use.                        *)

MCErrorCategories == {<<"build", "include">>, <<"readability", "casting">>, <<"build", "header_guard">>}
MCLegacyCategories == {<<"readability", "streams">>}
MCGlobalSuppressions == ("LINT_C_FILE" :> {<<"readability", "casting">>})
MCNolint ==
  "NOLINT" :> [next |-> FALSE, category |-> AllCategories]
    @@ "NOLINTNEXTLINE" :> [next |-> TRUE, category |-> AllCategories]
    @@ "NOLINT(casting)" :> [next |-> FALSE, category |-> <<"readability", "casting">>]
    @@ "NOLINT(guard)" :> [next |-> FALSE, category |-> <<"build", "header_guard">>]
    @@ "NOLINT(streams)" :> [next |-> FALSE, category |-> <<"readability", "streams">>]
    @@ "NOLINT(unknown)" :> [next |-> FALSE, category |-> <<"unknown">>]
Filter(sign, prefix) == [sign |-> sign, prefix |-> prefix]
MCDefaultFilters == <<Filter("-", <<"build", "include", "_alpha">>)>>
MCFlaw ==
  "cast" :> [category |-> <<"readability", "casting">>, confidence |-> 4, checked_in_asm |-> FALSE]
    @@ "c++11" :> [category |-> <<"build", "c++11">>, confidence |-> 5, checked_in_asm |-> TRUE]

AHeader ==
  [dir |-> <<"b">>, base |-> "v", first |-> "v", ext |-> "h", system |-> FALSE, cpp |-> FALSE,
   third_party |-> FALSE, alpha |-> 1, readable |-> FALSE, includes |-> {}]
MCHeader ==
  "<c.h>" :> [AHeader EXCEPT !.dir = <<>>, !.base = "c", !.first = "c", !.system = TRUE, !.alpha = 2]
    @@ "<vector>" :> [AHeader EXCEPT !.dir = <<>>, !.base = "vector", !.first = "vector", !.system = TRUE,
                        !.cpp = TRUE, !.ext = "", !.alpha = 5]
    @@ "a/file.h" :> [AHeader EXCEPT !.dir = <<"a">>, !.base = "file", !.first = "file", !.alpha = 3,
                        !.readable = TRUE, !.includes = {"<vector>"}]
    @@ "b/file_x.h" :> [AHeader EXCEPT !.base = "file_x", !.first = "file", !.alpha = 4]
    @@ "b/v.h" :> AHeader
    @@ "b/u.cc" :> [AHeader EXCEPT !.base = "u", !.first = "u", !.ext = "cc"]
    @@ "Lua.h" :> [AHeader EXCEPT !.dir = <<>>, !.base = "Lua", !.first = "Lua", !.third_party = TRUE]
MCUses == ("vector" :> "<vector>")

MCWords == {"f", "x", "TEST", "Test", "MACRO", "vector", "cast"}
MCMacroNames == {"TEST", "MACRO"}
MCTestNames == {"TEST"}
MCTestLikeNames == {"TEST", "Test"}

-----------------------------------------------------------------------------
(* Files and command lines.                                                *)

Options ==
  [valid |-> TRUE, verbose |-> 1, filters |-> <<>>, counting |-> "toplevel", linelength |-> 0,
   extensions |-> {"cpp", "h", "cc"}]

AFile ==
  [dir |-> <<>>, name |-> "file.cpp", base |-> "file", first |-> "file", ext |-> "cpp", source |-> TRUE,
   test |-> FALSE, svn |-> {}, marked |-> {}, readable |-> TRUE, lines |-> <<<<>>>>, crlf |-> {},
   header |-> "none"]

NoConfigs == <<>>

OneFile(file) == [opts |-> Options, configs |-> NoConfigs, files |-> <<file>>]

Single(lines) == OneFile([AFile EXCEPT !.lines = lines])

\* Texts of lexemes that begin and end comments and strings.
CommentInput(in) ==
  LET P(text) == in = Single(Lines(text))
  IN SomeText({Quote, "//", "/*", "*/", "R\"(", ")\"", "x", NL}, 4, P)

\* Texts of brackets and of tokens that tell angles from operators.
BracketInput(in) ==
  LET P(text) == in = Single(Lines(text))
      Q(parts) == P(FlattenSeq(parts))
  IN \/ SomeText({"(", ")", "{", "<", ">", ";", "-", NL}, 4, P)
     \/ SomeText({<<"(">>, <<")">>, <<"<">>, <<">">>, <<"operator">>, <<" ", ">", "=", " ">>}, 4, Q)

\* Texts of heads of classes and namespaces.
ClassInput(in) ==
  LET P(text) == in = Single(Lines(text))
      Q(file) == in = Single(<<<<"{">>>> \o file \o <<<<>>>>)
  IN \/ SomeText({"class", "namespace", "{", "}", ";", "(", ")", "<", NL}, 4, P)
     \/ SomeText({<<"{">>, <<"{", "}", "}">>, <<")", "}">>, <<"class">>, <<"namespace">>, <<"class", ";">>,
                  <<"namespace", "{", "class", "{">>, <<"namespace", ";", "}", "{">>}, 3, Q)

\* The following are files of lines: with conditionals;
ConditionalInput(in) ==
  LET P(file) == in = Single(Append(file, <<>>))
  IN SomeText({<<"#if">>, <<"#else">>, <<"#endif">>, <<"class", "{">>, <<"}">>}, 5, P)

\* with includes, in a checkout whose root is the first directory;
IncludeLine(h) == <<"#include", h>>
Directives == {<<"#if">>, <<"#else">>, <<"#endif">>}

IncludeInput(in) ==
  LET P(file) == in = OneFile([AFile EXCEPT !.dir = <<"src", "a">>, !.marked = {1}, !.header = "a/file.h",
                                            !.lines = Append(file, <<>>)])
  IN \/ SomeText({IncludeLine(h) : h \in {"<c.h>", "<vector>", "a/file.h", "b/file_x.h", "b/v.h"}}
                   \cup Directives, 3, P)
     \/ SomeText({IncludeLine("<c.h>"), IncludeLine("b/v.h"), IncludeLine("a/file.h")} \cup Directives, 4, P)
     \/ SomeText({IncludeLine("b/v.h")} \cup Directives, 5, P)
     \/ SomeText({IncludeLine("Lua.h"), IncludeLine("b/u.cc"), IncludeLine("a/file.h"),
                  <<"vector">>, <<"#else">>}, 3, P)

\* with functions, and the verbosity that decides which are too long;
FunctionInput(in) ==
  LET P(file) == \E v \in 0 .. 2 : in = [Single(Append(file, <<>>)) EXCEPT !.opts.verbose = v]
      Function(name, n) == <<<<name, "(", ")", "{">>>> \o [i \in 1 .. n |-> <<" ", "x">>] \o <<<<"}">>>>
  IN \/ SomeText({<<"f", "(", ")", "{">>, <<"TEST", "(", ")", "{">>, <<"MACRO", "(", ")", "{">>,
                  <<"Test", "(", ")", "{">>, <<"f", "(", ")", ";">>, <<" ", "x">>, <<>>, <<"}">>}, 3, P)
     \/ SomeText({<<"f", "(", ")", "{">>, <<" ", "x">>, <<"}">>}, 5, P)
     \/ SomeText({<<"f", "(">>, <<" ", "x", ")", "{">>, <<"}">>, <<" ", "x">>}, 4, P)
     \/ \E name \in {"f", "TEST", "Test"}, n \in 0 .. 4 * TestTrigger + 1 :
          P(Function(name, n) \o Function("f", NormalTrigger + 1))

\* with header guards;
GuardInput(in) ==
  LET P(file) == in = [OneFile([AFile EXCEPT !.ext = "h", !.lines = Append(file, <<>>)])
                         EXCEPT !.opts.verbose = 0]
  IN SomeText({<<"#ifndef", Cppvar>>, <<"#ifndef", CppvarUnderscore>>, <<"#define", Cppvar>>,
               <<"#define", CppvarUnderscore, "NOLINT(guard)">>, <<"#endif", "//", Cppvar>>,
               <<"#endif", "/*", CppvarUnderscore, "*/">>, <<"#endif", "//", "x", "NOLINT">>,
               <<"#ifndef", CppvarUnderscore, "//", "NOLINT(unknown)">>}, 3, P)

\* with blocks of assembly and of namespaces, indented and not.
BlockInput(in) ==
  LET P(file) == in = Single(Append(file, <<>>))
  IN \/ SomeText({<<"asm", "(">>, <<"asm", "{">>, <<"{">>, <<"cast", "c++11">>, <<")", ";">>, <<"}">>,
                  <<"public:">>}, 3, P)
     \/ SomeText({<<"namespace", "{">>, <<" ", "class", ";">>, <<" ", "class", "{">>, <<"}">>,
                  <<"#define", "\\">>, <<"extern", "{">>}, 3, P)

\* Two files in nested directories with configurations and NOLINT comments.
Option(name) == [name |-> name, filters |-> <<>>, files |-> {}, length |-> 0]
FilterOption(filters) == [Option("filter") EXCEPT !.filters = filters]
LengthOption(n) == [Option("linelength") EXCEPT !.length = n]
ConfigFile(options) == [readable |-> TRUE, options |-> options]

Readability == <<"readability">>
Casting == <<"readability", "casting">>

MCConfigs ==
  {[readable |-> FALSE, options |-> <<>>],
   ConfigFile(<<FilterOption(<<Filter("-", Readability)>>)>>),
   ConfigFile(<<FilterOption(<<Filter("+", Casting)>>), Option("set noparent")>>),
   ConfigFile(<<FilterOption(<<Filter("+", Casting)>>), FilterOption(<<Filter("-", Readability)>>)>>),
   ConfigFile(<<[Option("exclude_files") EXCEPT !.files = {"b", "file.cpp"}], LengthOption(1)>>)}

Directories == {<<"a">>, <<"a", "b">>}

NolintFiles ==
  {<<<<"cast", "NOLINT">>, <<"cast", "NOLINT(casting)">>, <<"c++11", "NOLINT(casting)">>, <<>>>>,
   <<<<"NOLINTNEXTLINE">>, <<"cast">>, <<"cast">>, <<>>>>,
   <<<<"cast", "NOLINT(streams)">>, <<"LINT_C_FILE">>, <<>>>>,
   <<<<"cast", "NOLINT(unknown)">>, <<"cast">>, <<"Copyright">>>>}

ConfigInput(in) ==
  \E filters \in {<<>>, <<Filter("-", <<"build">>)>>},
     D \in SUBSET Directories, first \in NolintFiles, second \in NolintFiles, dir \in {<<>>, <<"a">>} :
    \E configs \in [D -> MCConfigs] :
      in = [opts |-> [Options EXCEPT !.filters = filters, !.counting = "detailed"],
            configs |-> configs,
            files |-> <<[AFile EXCEPT !.dir = <<"a", "b">>, !.lines = first],
                        [AFile EXCEPT !.dir = dir, !.name = "x.cpp", !.lines = second, !.crlf = {1}]>>]

\* Command lines and files that are refused.
RefusedInput(in) ==
  \/ in = [OneFile(AFile) EXCEPT !.opts.valid = FALSE]
  \/ in = [OneFile(AFile) EXCEPT !.files = <<>>]
  \/ in = [OneFile(AFile) EXCEPT !.opts.filters = <<Filter("", <<"build">>)>>]
  \/ in = [OneFile(AFile) EXCEPT
             !.configs = (<<>> :> ConfigFile(<<FilterOption(<<Filter("", <<"build">>)>>)>>))]
  \/ in = [OneFile(AFile) EXCEPT
             !.files = <<[AFile EXCEPT !.readable = FALSE], [AFile EXCEPT !.ext = "txt"], AFile>>]

MCIsInput(in) ==
  \/ CommentInput(in) \/ BracketInput(in) \/ ClassInput(in) \/ ConditionalInput(in)
  \/ IncludeInput(in) \/ FunctionInput(in) \/ GuardInput(in) \/ BlockInput(in)
  \/ ConfigInput(in) \/ RefusedInput(in)
=============================================================================
