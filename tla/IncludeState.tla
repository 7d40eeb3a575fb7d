----------------------------- MODULE IncludeState -----------------------------
(***************************************************************************)
(* Rules about #include (scripts/cpplint.py): _IncludeState, which follows *)
(* the order of the includes between preprocessor directives and remembers *)
(* what was included, CheckIncludeLine and CheckForIncludeWhatYouUse.      *)
(*                                                                         *)
(* An #include line is <<"#include", h>>.  A path is a sequence of names;  *)
(* Header gives what the code reads off the spelling of h.                 *)
(***************************************************************************)
EXTENDS NestingState

CONSTANTS
  Header,   \* what a header's spelling says, by token (see HeaderType)
  Uses      \* the header that a token of the standard library needs: [token |-> h]

\* dir, base: its directory and its name without the common suffixes (_DropCommonSuffixes);
\* first: the first component of the name; alpha: its place in the alphabetical order of
\* CanonicalizeAlphabeticalOrder, from 1; readable, includes: the file, as UpdateIncludeState
\* finds it on disk.
HeaderType ==
  [dir : Seq(STRING), base : STRING, first : STRING, ext : STRING, system : BOOLEAN,
   cpp : BOOLEAN, third_party : BOOLEAN, alpha : Nat \ {0}, readable : BOOLEAN,
   includes : SUBSET DOMAIN Header]

ASSUME HeaderAssumption ==
  /\ Header \in [DOMAIN Header -> HeaderType]
  /\ Uses \in [DOMAIN Uses -> DOMAIN Header]

\* The sections, in their order.
InitialSection == 0
MyHSection == 1
CSection == 2
CppSection == 3
OtherHSection == 4

-----------------------------------------------------------------------------
\* FileInfo.RepositoryName: how many of the directories above a file, outermost first, are
\* above its checkout.  svn, marked: the ones with .svn, and with .svn, .git or .hg.
RepositoryRoot(depth, svn, marked) ==
  IF depth \in svn THEN CHOOSE r \in 1 .. depth : r .. depth \subseteq svn /\ r - 1 \notin svn
  ELSE IF marked # {} THEN Min(marked)
  ELSE 0

RepositoryDir(file) ==
  LET root == RepositoryRoot(Len(file.dir), file.svn, file.marked)
  IN IF root = 0 THEN <<"/">> \o file.dir ELSE SubSeq(file.dir, root + 1, Len(file.dir))

ClassifyInclude(file, h) ==
  LET inc == Header[h]
      dir == RepositoryDir(file)
  IN IF inc.system THEN IF inc.cpp THEN "cpp" ELSE "c"
     ELSE IF /\ inc.base = file.base
             /\ inc.dir = dir \/ (dir # <<>> /\ inc.dir = Append(Front(dir), "public"))
     THEN "likely my"
     ELSE IF inc.first = file.first THEN "possible my"
     ELSE "other"

-----------------------------------------------------------------------------
NoHeader == 0

NoIncludes == [section |-> InitialSection, last_header |-> NoHeader, include_list |-> <<<<>>>>]

\* The line of the first include of a header, -1 if there is none.
FindHeader(s, h) ==
  LET all == SelectSeq(FlattenSeq(s.include_list), LAMBDA f : f.header = h)
  IN IF all = <<>> THEN -1 ELSE all[1].line

ResetSectionAtEndif(s, directive) ==    \* mutant: the list of a conditional is dropped at #endif
  [section |-> InitialSection, last_header |-> NoHeader,
   include_list |-> CASE directive \in Ifs -> Append(s.include_list, <<>>)
                      [] directive \in Elses -> ReplaceTop(s.include_list, <<>>)
                      [] OTHER -> IF Len(s.include_list) > 1 THEN Front(s.include_list)
                                  ELSE s.include_list]

ResetSectionOnly(s, directive) ==       \* mutant: the list of a branch is kept at #else
  [section |-> InitialSection, last_header |-> NoHeader,
   include_list |-> IF directive \in Ifs THEN Append(s.include_list, <<>>) ELSE s.include_list]

ResetSection(s, directive) ==
  [section |-> InitialSection, last_header |-> NoHeader,
   include_list |-> CASE directive \in Ifs -> Append(s.include_list, <<>>)
                      [] directive \in Elses -> ReplaceTop(s.include_list, <<>>)
                      [] OTHER -> s.include_list]

\* The section that a header moves to; out of order, there is none.
NoSection == -1

NextSectionOfMine(section, type) ==     \* mutant: a late header of the file's own moves nothing
  CASE type = "c" -> IF section <= CSection THEN CSection ELSE NoSection
    [] type = "cpp" -> IF section <= CppSection THEN CppSection ELSE NoSection
    [] type \in {"likely my", "possible my"} -> IF section <= MyHSection THEN MyHSection ELSE section
    [] OTHER -> OtherHSection

NextSection(section, type) ==
  CASE type = "c" -> IF section <= CSection THEN CSection ELSE NoSection
    [] type = "cpp" -> IF section <= CppSection THEN CppSection ELSE NoSection
    [] type \in {"likely my", "possible my"} -> IF section <= MyHSection THEN MyHSection ELSE OtherHSection
    [] OTHER -> OtherHSection

\* The state after a header of the type; the section is kept if it is out of order.
CheckNextIncludeOrder(s, type) ==
  LET next == NextSection(s.section, type)
  IN [s EXCEPT !.section = IF next = NoSection THEN @ ELSE next,
               !.last_header = IF next # s.section THEN NoHeader ELSE @]

IsInAlphabeticalOrder(s, elided, linenum, h) ==
  ~(s.last_header > Header[h].alpha /\ linenum > 1 /\ StartsWith(elided[linenum - 1], {"#include"}))

Include == <<"build", "include">>
IncludeOrder == <<"build", "include", "_order">>
IncludeAlpha == <<"build", "include", "_alpha">>
IncludeWhatYouUse == <<"build", "include", "_what_you_use">>

\* The include state, and the errors, after the line.
CheckIncludeLine(s, file, elided, linenum) ==
  LET h == elided[linenum][FirstCode(elided[linenum]) + 1]
      inc == Header[h]
      bare == ErrorIf(inc.dir = <<>> /\ inc.ext = "h" /\ ~inc.system /\ ~inc.third_party, linenum, Include, 4)
      type == ClassifyInclude(file, h)
      listed == [s EXCEPT !.include_list = ReplaceTop(@, Append(Last(@), [header |-> h, line |-> linenum]))]
      ordered == CheckNextIncludeOrder(listed, type)
      misplaced == NextSection(s.section, type) = NoSection
  IN IF FindHeader(s, h) >= 0 \/ (inc.ext = "cc" /\ RepositoryDir(file) # inc.dir)
     THEN [state |-> s, errors |-> Append(bare, Error(linenum, Include, 4))]
     ELSE IF inc.third_party THEN [state |-> s, errors |-> bare]
     ELSE [state |-> [ordered EXCEPT !.last_header = inc.alpha],
           errors |-> bare \o ErrorIf(misplaced, linenum, IncludeOrder, 4)
                           \o ErrorIf(~IsInAlphabeticalOrder(ordered, elided, linenum, h), linenum, IncludeAlpha, 4)]

-----------------------------------------------------------------------------
HeaderPath(h) == Append(Header[h].dir, Header[h].base)

IsPart(p, q) == \E i \in 0 .. Len(q) - Len(p) : SubSeq(q, i + 1, i + Len(p)) = p

\* Some include is a part of the path of the file's own header, or contains it.
CheckHeaderFileIncluded(s, file) ==
  LET listed == FlattenSeq(s.include_list)
      own == HeaderPath(file.header)
  IN ErrorIf(/\ file.source /\ ~file.test /\ file.header \in DOMAIN Header
             /\ \A i \in DOMAIN listed : LET p == HeaderPath(listed[i].header)
                                         IN ~IsPart(p, own) /\ ~IsPart(own, p),
             IF listed = <<>> THEN 0 ELSE listed[1].line, Include, 5)

\* A path without the directories public and internal, which the code only finds between slashes.
WithoutPublic(path, absolute) ==
  LET Stays(i) == path[i] \notin {"public", "internal"} \/ (i = 1 /\ ~absolute) \/ i = Len(path)
      kept == SelectSeq([i \in 1 .. Len(path) |-> i], Stays)
  IN [i \in 1 .. Len(kept) |-> path[kept[i]]]

FilesBelongToSameModule(file, h) ==
  LET inc == Header[h]
  IN /\ file.source /\ inc.ext = "h"
     /\ IsSuffix(WithoutPublic(HeaderPath(h), FALSE),
                 WithoutPublic(Append(file.dir, file.base), TRUE))

\* The headers of the files that the includes of the same module stand for, and whether one
\* could be read (UpdateIncludeState).
OwnHeaders(file, included) ==
  {h \in included : FilesBelongToSameModule(file, h) /\ Header[h].readable}

RequiredBy(line) ==
  IF line = <<>> \/ line[1] \in {"#include", "#define", "#endif"} \cup Ifs \cup Elses THEN {}
  ELSE {Uses[t] : t \in ToSet(line) \cap DOMAIN Uses}

CheckForIncludeWhatYouUse(s, file, elided) ==
  LET included == {f.header : f \in ToSet(FlattenSeq(s.include_list))}
      own == OwnHeaders(file, included)
      known == included \cup UNION {Header[h].includes : h \in own}
      missing == UNION {RequiredBy(elided[i]) : i \in DOMAIN elided} \ known
      LastUse(h) == Max({i \in DOMAIN elided : h \in RequiredBy(elided[i])})
  IN IF file.ext = "cc" /\ own = {} THEN <<>>
     ELSE SetToSeq({Error(LastUse(h), IncludeWhatYouUse, 4) : h \in missing})
=============================================================================
