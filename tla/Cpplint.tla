------------------------------- MODULE Cpplint -------------------------------
(***************************************************************************)
(* The linter of the repository (scripts/cpplint.py), from the command     *)
(* line to the exit status: for each file the CPPLINT.cfg files of its     *)
(* directories, the checks of the whole file, then line by line the        *)
(* NOLINT comments, the nesting, the function lengths and the includes.    *)
(*                                                                         *)
(* Checks that keep no state from one line to the next are tokens of a     *)
(* line (Flaw) for which an error is raised; a line is as wide as it has   *)
(* tokens.                                                                 *)
(***************************************************************************)
EXTENDS CleansedLines, FunctionState, IncludeState, HeaderGuard

CONSTANTS
  IsInput(_),   \* a command line with the files and configurations it is about
  Flaw,         \* what is wrong with a token: [category, confidence, checked_in_asm]
  DefaultLineLength     \* _line_length

VARIABLES
  pc,               \* what main is about to do
  input,            \* the command line and the files
  file_no,          \* index of the file in ProcessFile
  level,            \* directory in which ProcessConfigOverrides looks
  cfg_filters, line_length,
  log,              \* _cpplint_state, the suppressions and the output of the file
  clean_lines, linenum,
  include_state, function_state, nesting_state,
  exit_status

vars == <<pc, input, file_no, level, cfg_filters, line_length, log, clean_lines, linenum,
          include_state, function_state, nesting_state, exit_status>>

File == input.files[file_no]

Running == -1       \* exit_status before the end

NoLines == [raw_lines |-> <<>>, lines_without_raw_strings |-> <<>>, lines |-> <<>>, elided |-> <<>>]

Init ==
  /\ pc = "arguments"
  /\ IsInput(input)
  /\ file_no = 0 /\ level = 0 /\ cfg_filters = <<>>
  /\ line_length = DefaultLineLength
  /\ log = EmptyLog(InitialLintState)
  /\ clean_lines = NoLines /\ linenum = 0
  /\ include_state = NoIncludes /\ function_state = NoFunction /\ nesting_state = EmptyNesting
  /\ exit_status = Running

fileVars == <<clean_lines, linenum, include_state, function_state, nesting_state>>

-----------------------------------------------------------------------------
(* The command line.                                                       *)

PrintUsage ==
  /\ pc = "arguments" /\ (~input.opts.valid \/ input.files = <<>>)
  /\ pc' = "exit" /\ exit_status' = 1
  /\ UNCHANGED <<input, file_no, level, cfg_filters, line_length, log, fileVars>>

\* ParseArguments; a filter with no sign ends the program with a ValueError.
ParseArguments ==
  LET opts == input.opts
      lint == [SetFilters(log.lint, opts.filters) EXCEPT !.verbose_level = opts.verbose,
                                                         !.counting = opts.counting]
      dies == RaisesValueError(lint)
  IN /\ pc = "arguments" /\ opts.valid /\ input.files # <<>>
     /\ log' = [log EXCEPT !.lint = lint]
     /\ line_length' = IF opts.linelength > 0 THEN opts.linelength ELSE line_length
     /\ pc' = IF dies THEN "exit" ELSE "next"
     /\ exit_status' = IF dies THEN 1 ELSE exit_status
     /\ UNCHANGED <<input, file_no, level, cfg_filters, fileVars>>

-----------------------------------------------------------------------------
(* One file: its configuration.                                            *)

ProcessFile ==
  /\ pc = "next" /\ file_no < Len(input.files)
  /\ file_no' = file_no + 1
  /\ log' = [log EXCEPT !.lint = BackupFilters(@), !.stderr = {}, !.raised = {}, !.at = 0]
  /\ level' = Len(input.files[file_no + 1].dir)
  /\ cfg_filters' = <<>>
  /\ pc' = "config"
  /\ UNCHANGED <<input, line_length, fileVars, exit_status>>

Directory == SubSeq(File.dir, 1, level)

\* The name that exclude_files is matched with.
BaseName == IF level = Len(File.dir) THEN File.name ELSE File.dir[level + 1]

\* A line of a configuration file.
ConfigLine(acc, option) ==
  CASE acc.excluded -> acc
    [] option.name = "set noparent" /\ ~acc.excluded -> [acc EXCEPT !.keep_looking = FALSE]
    [] option.name = "filter" /\ ~acc.excluded -> [acc EXCEPT !.filters = Append(@, option.filters)]
    [] option.name = "exclude_files" /\ ~acc.excluded -> [acc EXCEPT !.excluded = BaseName \in option.files]
    [] option.name = "linelength" /\ ~acc.excluded -> [acc EXCEPT !.line_length = option.length]
    [] OTHER -> acc

Config ==
  LET none == [keep_looking |-> TRUE, filters |-> cfg_filters, line_length |-> line_length, excluded |-> FALSE]
      cfg == input.configs[Directory]
  IN IF Directory \notin DOMAIN input.configs THEN none
     ELSE IF ~cfg.readable THEN [none EXCEPT !.keep_looking = FALSE]
     ELSE FoldLeft(ConfigLine, none, cfg.options)

\* The loop of ProcessConfigOverrides goes up to the root directory.
ReadConfig ==
  /\ pc = "config" /\ ~Config.excluded
  /\ cfg_filters' = Config.filters
  /\ line_length' = Config.line_length
  /\ IF Config.keep_looking /\ level > 0
     THEN level' = level - 1 /\ pc' = pc
     ELSE level' = level /\ pc' = "read"
  /\ UNCHANGED <<input, file_no, log, fileVars, exit_status>>

ExcludeFile ==
  /\ pc = "config" /\ Config.excluded
  /\ line_length' = Config.line_length
  /\ log' = [log EXCEPT !.lint = RestoreFilters(@)]
  /\ pc' = "next"
  /\ UNCHANGED <<input, file_no, level, cfg_filters, fileVars, exit_status>>

OutermostFirst(filters) == FlattenSeq(Reverse(filters))

ReadFile ==
  LET lint == AddFilters(log.lint, OutermostFirst(cfg_filters))
      dies == RaisesValueError(lint)
      checked == File.readable /\ File.ext \in input.opts.extensions
  IN /\ pc = "read"
     /\ pc' = IF dies THEN "exit" ELSE IF checked THEN "data" ELSE "next"
     /\ exit_status' = IF dies THEN 1 ELSE exit_status
     /\ log' = [log EXCEPT !.lint = IF dies \/ checked THEN lint ELSE RestoreFilters(lint)]
     /\ UNCHANGED <<input, file_no, level, cfg_filters, line_length, fileVars>>

-----------------------------------------------------------------------------
(* One file: its lines.                                                    *)

CheckForCopyright(lines) ==
  ErrorIf(\A i \in DOMAIN lines : i <= 10 => ~Contains(lines[i], "Copyright"), 0, <<"legal", "copyright">>, 5)

\* ProcessFileData up to its loop over the lines.
BeginFile ==
  LET lines == File.lines
      removed == RemoveMultiLineComments(lines)
      clean == Cleanse(removed.lines)
      copyright == LogErrors([log EXCEPT !.suppressions = ResetNolintSuppressions], CheckForCopyright(lines))
      global == [copyright EXCEPT !.suppressions = ProcessGlobalSuppresions(@, lines)]
      comments == LogErrors(global, ErrorIf(removed.unended # 0, removed.unended + 1,
                                            <<"readability", "multiline_comment">>, 5))
  IN /\ pc = "data"
     /\ clean_lines' = clean
     /\ linenum' = 0
     /\ include_state' = NoIncludes /\ function_state' = NoFunction /\ nesting_state' = EmptyNesting
     /\ log' = IF File.ext = "h" THEN CheckForHeaderGuard(comments, clean.lines_without_raw_strings)
               ELSE comments
     /\ pc' = "line"
     /\ UNCHANGED <<input, file_no, level, cfg_filters, line_length, exit_status>>

CheckForMultilineCommentsAndStrings(line, n) ==
  ErrorIf(Count(line, {"/*"}) > Count(line, {"*/"}), n, <<"readability", "multiline_comment">>, 5)
  \o ErrorIf(Count(line, {Quote}) % 2 = 1, n, <<"readability", "multiline_string">>, 5)

\* Lines that CheckStyle allows to be long: #include, header guards and a comment of one word.
MayBeLong(line, ext) ==
  /\ line # <<>>
  /\ \/ line[1] = "#include"
     \/ ext = "h" /\ \E guard \in {<<"#ifndef", Cppvar>>, <<"#define", Cppvar>>, <<"#endif", "//", Cppvar>>} :
                      IsPrefix(guard, line)
     \/ StartsWith(line, {"//"}) /\ Len(line) = FirstCode(line) + 1

CheckLineLength(line, n) ==
  ErrorIf(~MayBeLong(line, File.ext) /\ Len(line) > line_length, n, <<"whitespace", "line_length">>, 2)

\* The checks that keep no state, in or out of a block of assembly.
CheckFlaws(line, n, in_asm) ==
  LET flaws == SelectSeq(line, LAMBDA t : t \in DOMAIN Flaw /\ (in_asm => Flaw[t].checked_in_asm))
  IN [i \in DOMAIN flaws |-> Error(n, Flaw[flaws[i]].category, Flaw[flaws[i]].confidence)]

IsInclude(line) ==
  LET i == FirstCode(line) IN StartsWith(line, {"#include"}) /\ i < Len(line) /\ line[i + 1] \in DOMAIN Header

\* The part of CheckLanguage that is about includes.
CheckIncludes(elided, n) ==
  LET line == elided[n]
  IN IF IsInclude(line) THEN CheckIncludeLine(include_state, File, elided, n)
     ELSE IF StartsWith(line, Ifs \cup Elses \cup {"#endif"})
     THEN [state |-> ResetSection(include_state, line[FirstCode(line)]), errors |-> <<>>]
     ELSE [state |-> include_state, errors |-> <<>>]

\* ProcessLine, and FlagCxx11Features, which looks at blocks of assembly too.
ProcessLine ==
  LET n == linenum + 1
      elided == clean_lines.elided
      nesting == Update(nesting_state, elided, n)
      in_asm == InAsmBlock(nesting.stack)
      parsed == ParseNolintSuppressions([log EXCEPT !.at = n], clean_lines.raw_lines[n], n)
      indented == LogErrors(parsed, CheckForNamespaceIndentation(nesting, elided, n))
      lengths == CheckForFunctionLengths(function_state, clean_lines.lines, n, log.lint.verbose_level)
      includes == CheckIncludes(elided, n)
  IN /\ pc = "line" /\ linenum < Len(clean_lines.elided)
     /\ linenum' = n
     /\ nesting_state' = nesting
     /\ function_state' = IF in_asm THEN function_state ELSE lengths.state
     /\ include_state' = IF in_asm THEN include_state ELSE includes.state
     /\ log' = LogErrors(IF in_asm THEN indented
                         ELSE LogErrors(indented,
                                lengths.errors \o CheckForMultilineCommentsAndStrings(elided[n], n)
                                \o CheckLineLength(clean_lines.lines_without_raw_strings[n], n)
                                \o includes.errors),
                         CheckFlaws(elided[n], n, in_asm))
     /\ UNCHANGED <<pc, input, file_no, level, cfg_filters, line_length, clean_lines, exit_status>>

CheckForNewlineAtEOF(lines) ==
  ErrorIf(lines = <<>> \/ Last(lines) # <<>>, Len(lines), <<"whitespace", "ending_newline">>, 5)

\* The warnings of ProcessFile on CR in a file that also has lines without.
CheckLineEnds(file) ==
  LET all == 1 .. Len(file.lines) - 1
  IN IF file.crlf = {} \/ file.crlf = all THEN <<>>
     ELSE [i \in 1 .. Cardinality(file.crlf) |-> Error(SetToSeq(file.crlf)[i], <<"whitespace", "newline">>, 1)]

\* The end of ProcessFileData and of ProcessFile.
EndFile ==
  LET errors == CheckCompletedBlocks(nesting_state.stack)
                \o CheckForIncludeWhatYouUse(include_state, File, clean_lines.elided)
                \o CheckHeaderFileIncluded(include_state, File)
                \o CheckForNewlineAtEOF(clean_lines.raw_lines)
                \o CheckLineEnds(File)
      done == LogErrors([log EXCEPT !.at = linenum + 1], errors)
  IN /\ pc = "line" /\ linenum = Len(clean_lines.elided)
     /\ log' = [done EXCEPT !.lint = RestoreFilters(@)]
     /\ pc' = "next"
     /\ UNCHANGED <<input, file_no, level, cfg_filters, line_length, fileVars, exit_status>>

Exit ==
  /\ pc = "next" /\ file_no = Len(input.files)
  /\ pc' = "exit"
  /\ exit_status' = IF log.lint.error_count > 0 THEN 1 ELSE 0
  /\ UNCHANGED <<input, file_no, level, cfg_filters, line_length, log, fileVars>>

Next ==
  \/ PrintUsage \/ ParseArguments \/ ProcessFile \/ ReadConfig \/ ExcludeFile
  \/ ReadFile \/ BeginFile \/ ProcessLine \/ EndFile \/ Exit

Spec == Init /\ [][Next]_vars

-----------------------------------------------------------------------------
(* What the rules of the linter say of a file, without its state.          *)

\* Levels of directories whose configuration counts for the file, up to the first with
\* "set noparent" or that cannot be read.
Stops(dir) ==
  dir \in DOMAIN input.configs
    /\ LET cfg == input.configs[dir]
       IN ~cfg.readable \/ \E i \in DOMAIN cfg.options : cfg.options[i].name = "set noparent"

ConfigLevels ==
  {l \in 0 .. Len(File.dir) : \A k \in l + 1 .. Len(File.dir) : ~Stops(SubSeq(File.dir, 1, k))}

\* The filters of a directory's configuration; the first line has the last word.
FiltersOf(dir) ==
  IF dir \notin DOMAIN input.configs \/ ~input.configs[dir].readable THEN <<>>
  ELSE FlattenSeq(Reverse([i \in DOMAIN input.configs[dir].options |-> input.configs[dir].options[i].filters]))

\* All filters of the file, a nearer directory after a farther one.
GoverningFilters ==
  DefaultFilters \o input.opts.filters
  \o FlattenSeq([l \in 1 .. Len(File.dir) + 1 |->
                   IF l - 1 \in ConfigLevels THEN FiltersOf(SubSeq(File.dir, 1, l - 1)) ELSE <<>>])

\* The last filter that a category matches is a negative one.
FilteredOut(category) ==
  \E i \in DOMAIN GoverningFilters :
    /\ GoverningFilters[i].sign = "-" /\ IsPrefix(GoverningFilters[i].prefix, category)
    /\ \A k \in i + 1 .. Len(GoverningFilters) : ~IsPrefix(GoverningFilters[k].prefix, category)

\* A NOLINT for the category on the line, or a NOLINTNEXTLINE on the one before.
SuppressedInText(category, n, nextline) ==
  \E l \in DOMAIN clean_lines.raw_lines :
    LET line == clean_lines.raw_lines[l]
        i == SelectInSeq(line, LAMBDA t : t \in DOMAIN Nolint)
    IN /\ i # 0
       /\ Nolint[line[i]].category \in {category, AllCategories}
       /\ IF Nolint[line[i]].next THEN nextline /\ n = l + 1 ELSE n = l

MarkedInText(category) ==
  \E l \in DOMAIN File.lines : \E t \in ToSet(File.lines[l]) \cap DOMAIN GlobalSuppressions :
    category \in GlobalSuppressions[t]

(***************************************************************************)
(* For every file, an error that a check of its lines or of its header     *)
(* guard raises is written exactly if its confidence reaches the           *)
(* verbosity, the last filter that matches it (defaults, command line,     *)
(* directories from the root down) does not turn it off, and no NOLINT of  *)
(* this file covers it.  Nothing of an earlier file, excluded, unreadable  *)
(* or checked, decides what is written of those raised (ProcessFile,       *)
(* _ShouldPrintError); it may decide which lines are too long, as          *)
(* linelength stays in force.  The header guard is checked before the      *)
(* lines, and knows no NOLINTNEXTLINE.                                     *)
(***************************************************************************)
ReportedExactly ==
  pc = "next" =>
    \A entry \in log.raised :
      LET e == entry[1]
      IN (entry[2] > 0 \/ e.category = Guard)
           => (entry \in log.stderr
                 <=> /\ e.confidence >= input.opts.verbose
                     /\ ~FilteredOut(e.category)
                     /\ ~SuppressedInText(e.category, e.line, entry[2] > 0)
                     /\ ~MarkedInText(e.category))

-----------------------------------------------------------------------------
AfterLine == pc = "line" /\ linenum > 0

(***************************************************************************)
(* The lines that all checks work on hold exactly the code of the file     *)
(* (CleansedLines, see ElidesExactly).                                     *)
(***************************************************************************)
CodeIsElided == (pc = "line" /\ linenum = 0) => ElidesExactly(File.lines)

(***************************************************************************)
(* CloseExpression finds the ends of bracketed expressions and no others   *)
(* (see ClosesNested).                                                     *)
(***************************************************************************)
ExpressionsClose == (pc = "line" /\ linenum = 0) => ClosesNested(clean_lines.elided)

(***************************************************************************)
(* ReverseCloseExpression is the inverse of CloseExpression (see           *)
(* CloseIsReversed).                                                       *)
(***************************************************************************)
ExpressionsReverse == (pc = "line" /\ linenum = 0) => CloseIsReversed(clean_lines.elided)

(***************************************************************************)
(* At every line the nesting stack is the one of the first branches of the *)
(* conditionals (NestingState.UpdatePreprocessor, see FollowsFirstBranch). *)
(***************************************************************************)
FirstBranchCounts == AfterLine => FollowsFirstBranch(nesting_state, clean_lines.elided, linenum)

(***************************************************************************)
(* At every line the nesting stack has an entry per open brace             *)
(* (NestingState.Update, see OneEntryPerBrace).                            *)
(***************************************************************************)
BracesCounted == AfterLine => OneEntryPerBrace(nesting_state, clean_lines.elided, linenum)

\* The includes that were listed since the last directive.
Listed ==
  LET lines == clean_lines.elided
      directives == {i \in 1 .. linenum : StartsWith(lines[i], Ifs \cup Elses \cup {"#endif"})}
  IN {f \in ToSet(Last(include_state.include_list)) : \A d \in directives : d < f.line}

Type(f) == ClassifyInclude(File, f.header)

Mine == {"likely my", "possible my"}

\* The types of the list in CheckIncludeLine: the file's own header (preferred location), C, C++,
\* the file's own header (deprecated location), other ones.
Place(f) ==
  CASE Type(f) \in Mine -> IF \A g \in Listed : g.line < f.line => Type(g) \in Mine THEN 1 ELSE 4
    [] Type(f) = "c" -> 2
    [] Type(f) = "cpp" -> 3
    [] Type(f) = "other" -> 5

(***************************************************************************)
(* "track of the highest type seen, and complains if we see a lower type   *)
(* after that" (CheckIncludeLine): between two directives an include is    *)
(* called out of order exactly if one before it belongs after it.  One     *)
(* kind never is: the file's own header after an other one.  The list has  *)
(* it before the other ones, but CheckNextIncludeOrder counts it as one of *)
(* them, and so does the message ("%s.h, c system, c++ system, other").    *)
(***************************************************************************)
IncludeOrderExact ==
  AfterLine =>
    \A f \in Listed :
      (\E entry \in log.raised : entry[1].line = f.line /\ entry[1].category = IncludeOrder)
        <=> (Type(f) \notin Mine /\ \E g \in Listed : g.line < f.line /\ Place(g) > Place(f))

\* May line i, as far as line n can tell, be compiled together with it: no conditional around i
\* has come to another branch?
Together(paths, i, n) ==
  \A k \in i .. n : \A a \in ToSet(paths[i]), b \in ToSet(paths[k]) : b.open = a.open => b = a

(***************************************************************************)
(* An include is remembered, so that a second one is reported and the      *)
(* header counts as included, as long as no other branch of a conditional  *)
(* around it has begun ("we never pop from the include list",              *)
(* _IncludeState.ResetSection).  The file has no #else without an #if.     *)
(***************************************************************************)
IncludesRemembered ==
  AfterLine =>
    LET lines == clean_lines.elided
        paths == Paths(lines)
    IN (\A k \in 1 .. linenum : StartsWith(lines[k], Elses) => paths[k] # <<>>) =>
    \A i \in 1 .. linenum :
      LET h == lines[i][FirstCode(lines[i]) + 1]
      IN (IsInclude(lines[i]) /\ Together(paths, i, linenum)
            /\ ~Header[h].third_party /\ Header[h].ext # "cc")
           => FindHeader(include_state, h) \in 1 .. i

(***************************************************************************)
(* An include of one branch is not held against another branch: at #else   *)
(* it is gone from the list (_IncludeState.ResetSection).  It stays only   *)
(* if a conditional began in its branch after it, whose own list, never    *)
(* popped, is then the one that #else empties.                             *)
(***************************************************************************)
BranchesForgotten ==
  AfterLine =>
    LET lines == clean_lines.elided
        paths == Paths(lines)
    IN \A f \in ToSet(FlattenSeq(include_state.include_list)) :
         \/ Together(paths, f.line, linenum)
         \/ \E k \in f.line + 1 .. linenum :
              StartsWith(lines[k], Ifs) /\ Together(paths, f.line, k)

(***************************************************************************)
(* The end of a function gets an error that is not below the verbosity     *)
(* exactly if the body has more lines than this verbosity allows           *)
(* (_FunctionState.Check): the level of the error is never too low.        *)
(***************************************************************************)
LongFunctionsReported ==
  AfterLine =>
    LET verbose == input.opts.verbose
        ends == {entry[1].line : entry \in {r \in log.raised : r[1].category = FnSize
                                              /\ r[1].confidence >= verbose
                                              /\ FunctionEnd(clean_lines.lines[r[1].line])}}
    IN ends = LongFunctions(clean_lines.lines, verbose) \cap 1 .. linenum
=============================================================================
