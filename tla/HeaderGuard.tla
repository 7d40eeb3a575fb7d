----------------------------- MODULE HeaderGuard -----------------------------
(***************************************************************************)
(* CheckForHeaderGuard (scripts/cpplint.py).  A guard is one token: the    *)
(* expected one (GetHeaderGuardCPPVariable), the same with one more        *)
(* underscore, or another.                                                 *)
(***************************************************************************)
EXTENDS LintState

Cppvar == "FILE_H_"
CppvarUnderscore == "FILE_H__"

Guard == <<"build", "header_guard">>

\* The second token of the first line that begins with the directive; line 0 if there is none.
FirstDirective(lines, directive) ==
  LET i == SelectInSeq(lines, LAMBDA l : Len(l) >= 2 /\ l[1] = directive)
  IN IF i = 0 THEN [line |-> 0, name |-> ""] ELSE [line |-> i, name |-> lines[i][2]]

LastEndif(lines) == SelectLastInSeq(lines, LAMBDA l : l # <<>> /\ l[1] = "#endif")

\* NOLINT(build/header_guard) anywhere in the file.
GuardDisabled(lines) ==
  \E i \in DOMAIN lines : \E t \in ToSet(lines[i]) \cap DOMAIN Nolint :
    ~Nolint[t].next /\ Nolint[t].category = Guard

\* What the comment of the last #endif should be: // when the file has such comments.
EndifComments(lines) ==
  {"//"} \cup (IF \E i \in DOMAIN lines : Contains(lines[i], "//") THEN {} ELSE {"/*"})

EndifError(lines, endif) ==
  LET line == IF endif = 0 THEN <<>> ELSE lines[endif]
      comment == IF Len(line) >= 3 /\ line[2] \in EndifComments(lines) THEN line[3] ELSE ""
  IN CASE comment = Cppvar -> <<>>
       [] comment = CppvarUnderscore -> <<Error(endif, Guard, 0)>>
       [] OTHER -> <<Error(endif, Guard, 5)>>

CheckForHeaderGuard(log, lines) ==
  LET ifndef == FirstDirective(lines, "#ifndef")
      define == FirstDirective(lines, "#define")
      endif == LastEndif(lines)
      Parse(l, i) == IF i = 0 THEN l ELSE ParseNolintSuppressions(l, lines[i], i)
      style == IF ifndef.name = Cppvar THEN log
               ELSE LogError(Parse(log, ifndef.line),
                             Error(ifndef.line, Guard, IF ifndef.name = CppvarUnderscore THEN 0 ELSE 5))
  IN IF GuardDisabled(lines) THEN log
     ELSE IF ifndef.line = 0 \/ ifndef.name # define.name THEN LogError(log, Error(0, Guard, 5))
     ELSE LogErrors(Parse(style, endif), EndifError(lines, endif))
=============================================================================
