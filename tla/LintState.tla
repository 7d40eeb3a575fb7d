------------------------------ MODULE LintState ------------------------------
(***************************************************************************)
(* What the linter reports (scripts/cpplint.py): _CppLintState with its    *)
(* filters and counts, the NOLINT suppressions, and Error.  A category is  *)
(* a sequence of names, so that a prefix of its text is a prefix of it.    *)
(***************************************************************************)
EXTENDS Integers, Sequences, SequencesExt

CONSTANTS
  ErrorCategories,      \* _ERROR_CATEGORIES
  LegacyCategories,     \* _LEGACY_ERROR_CATEGORIES
  GlobalSuppressions,   \* categories that the mark of a C or a kernel file suppresses, by token
  Nolint,               \* what a NOLINT comment says, by token: [next, category]
  DefaultFilters        \* _DEFAULT_FILTERS: a sequence of [sign, prefix]

AllCategories == <<"*">>        \* NOLINT and NOLINT(*)

Error(linenum, category, confidence) ==
  [line |-> linenum, category |-> category, confidence |-> confidence]

ErrorIf(condition, linenum, category, confidence) ==
  IF condition THEN <<Error(linenum, category, confidence)>> ELSE <<>>

-----------------------------------------------------------------------------
(* Filters.                                                                *)

InitialLintState ==
  [verbose_level |-> 1, error_count |-> 0, filters |-> DefaultFilters,
   filters_backup |-> DefaultFilters, counting |-> "total", errors_by_category |-> <<>>]

AddFilters(s, filters) == [s EXCEPT !.filters = @ \o filters]

SetFilters(s, filters) == AddFilters([s EXCEPT !.filters = DefaultFilters], filters)

\* AddFilters raises a ValueError.
RaisesValueError(s) == \E i \in DOMAIN s.filters : s.filters[i].sign \notin {"+", "-"}

BackupFilters(s) == [s EXCEPT !.filters_backup = s.filters]

LeaveFilters(s) == s            \* mutant: the filters of a directory stay

RestoreFilters(s) == [s EXCEPT !.filters = s.filters_backup]

IsFiltered(s, category) ==
  FoldLeft(LAMBDA filtered, f : IF IsPrefix(f.prefix, category) THEN f.sign = "-" ELSE filtered,
           FALSE, s.filters)

-----------------------------------------------------------------------------
(* Suppressions: by_line is a set of categories with lines.                *)

ResetNolintSuppressions == [by_line |-> {}, global |-> {}]

ProcessGlobalSuppresions(suppressions, lines) ==
  [suppressions EXCEPT !.global = @ \cup
     UNION {GlobalSuppressions[t] : t \in UNION {ToSet(lines[i]) : i \in DOMAIN lines}
                                            \cap DOMAIN GlobalSuppressions}]

IsErrorSuppressedByNolint(suppressions, category, linenum) ==
  \/ category \in suppressions.global
  \/ {<<category, linenum>>, <<AllCategories, linenum>>} \cap suppressions.by_line # {}

-----------------------------------------------------------------------------
ShouldPrintError(s, suppressions, e) ==
  /\ ~IsErrorSuppressedByNolint(suppressions, e.category, e.line)
  /\ e.confidence >= s.verbose_level
  /\ ~IsFiltered(s, e.category)

IncrementErrorCount(s, category) ==
  LET key == IF s.counting = "detailed" THEN category ELSE SubSeq(category, 1, 1)
      n == IF key \in DOMAIN s.errors_by_category THEN s.errors_by_category[key] ELSE 0
  IN [s EXCEPT !.error_count = @ + 1,
               !.errors_by_category =
                  IF s.counting \in {"toplevel", "detailed"}
                  THEN [k \in DOMAIN @ \cup {key} |-> IF k = key THEN n + 1 ELSE @[k]]
                  ELSE @]

\* What a file's checks change: the linter's state, the suppressions, and what was written
\* to stderr.  For the properties, at is the line that is looked at (0 before the first), and
\* raised holds every call of Error.
LogError(log, e) ==
  LET print == ShouldPrintError(log.lint, log.suppressions, e)
      entry == <<e, log.at>>
  IN [log EXCEPT !.raised = @ \cup {entry},
                 !.stderr = IF print THEN @ \cup {entry} ELSE @,
                 !.lint = IF print THEN IncrementErrorCount(@, e.category) ELSE @]

EmptyLog(lint) ==
  [lint |-> lint, suppressions |-> ResetNolintSuppressions, stderr |-> {}, raised |-> {}, at |-> 0]

LogErrors(log, errors) == FoldLeft(LogError, log, errors)

SuppressedLine(linenum, next) == IF next THEN linenum + 1 ELSE linenum

ParseNolintSuppressions(log, raw_line, linenum) ==
  LET i == SelectInSeq(raw_line, LAMBDA t : t \in DOMAIN Nolint)
      category == Nolint[raw_line[i]].category
  IN IF i = 0 \/ category \in LegacyCategories THEN log
     ELSE IF category \in ErrorCategories \cup {AllCategories}
     THEN [log EXCEPT !.suppressions.by_line =
             @ \cup {<<category, SuppressedLine(linenum, Nolint[raw_line[i]].next)>>}]
     ELSE LogError(log, Error(linenum, <<"readability", "nolint">>, 5))
=============================================================================
