-------------------------- MODULE VcfParserProofs --------------------------
(***************************************************************************)
(* Theorems about VcfParser, for files of any length and every set of      *)
(* configurations: the verdict agrees with the report, and without '\r'    *)
(* the numbers in the report are those of the lines at fault.              *)
(*                                                                         *)
(* Whatever the line, a step of the machine is a ParserStep: it finds      *)
(* something about the current line (Tagged), hands it to the error policy *)
(* (Outcome) and counts the line.  The invariant is proved for ParserStep  *)
(* once, and each action is shown to be one.                               *)
(*                                                                         *)
(* The second part is about which lines have errors.  What a line is due   *)
(* depends on its place, before or after the first header, and on nothing  *)
(* that the machine remembers: FirstHeader, Placed and Fits say so as      *)
(* operators of the lines alone.  SectionInv relates the state cs of the   *)
(* machine to that place, ChecksInv the checks of the meta section, and    *)
(* ErrorsInv says that the errors written or pending are those of the      *)
(* lines looked at, one each.                                              *)
(***************************************************************************)
EXTENDS VcfParser, NatLemmas, FiniteSetTheorems, TLAPS

Lines == Line \cup FirstLine

(* Findings about the line at hand. *)
Tagged(fs) ==
  /\ fs \in Found
  /\ \A k \in 1..Len(fs.errors) : fs.errors[k].line = n_lines /\ fs.errors[k].at = Here
  /\ \A k \in 1..Len(fs.warnings) : fs.warnings[k].line = n_lines /\ fs.warnings[k].at = Here

(* The line number is right when lines end in '\n' and none was ignored. *)
Counted ==
  eol = "LF" /\ ignored = {} /\ status \notin {"returned", "terminated"} => n_lines = Here

StartsEmpty == status = "start" => read = << >>

(* What validity means between the calls of the parser and the writer. *)
ValidMeaning ==
  /\ status \in {"start", "read"} => (m_is_valid <=> ~ReportsError)
  /\ status \in {"write", "write last"} =>
       (m_is_valid <=> ~ReportsError /\ found.errors = << >>)

(* What was found and not yet written is numbered right as well. *)
FoundNumbered ==
  eol = "LF" /\ ignored = {} =>
    /\ \A k \in 1..Len(found.errors) : found.errors[k].line = found.errors[k].at
    /\ \A k \in 1..Len(found.warnings) : found.warnings[k].line = found.warnings[k].at

ParserInv ==
  /\ ParserTypeOK
  /\ StartsEmpty
  /\ ValidMeaning
  /\ VerdictMatchesReport
  /\ Counted
  /\ FoundNumbered
  /\ LineNumbersRight
-----------------------------------------------------------------------------
(* A finding has the number of the line at hand. *)
LEMMA ErrTagged ==
  ASSUME ParserTypeOK, NEW type \in Types
  PROVE  Tagged(Err(type)) /\ Tagged(Warn(type)) /\ Tagged(Nothing)
<1>0. n_lines \in Nat /\ read \in Seq(Lines)
  BY DEF ParserTypeOK, Lines
<1>1. Here \in Nat /\ n_lines \in Nat
  <2>1. Len(read) \in Nat /\ (read # << >> => Len(read) > 0)
    BY <1>0
  <2> QED BY <1>0, <2>1 DEF Here
<1>2. [severity |-> "error", type |-> type, line |-> n_lines, at |-> Here] \in FoundErrors
  BY <1>1 DEF FoundErrors
<1>3. [severity |-> "warning", type |-> type, line |-> n_lines, at |-> Here] \in FoundWarnings
  BY <1>1 DEF FoundWarnings
<1>4. Tagged(Err(type))
  BY <1>2 DEF Tagged, Err, Found
<1>5. Tagged(Warn(type))
  BY <1>3 DEF Tagged, Warn, Found
<1>6. Tagged(Nothing)
  BY DEF Tagged, Nothing, Found
<1> QED BY <1>4, <1>5, <1>6

(* An element of a concatenation is one of either part, and conversely. *)
ConcatOf(c, s, t) ==
  /\ \A k \in 1..Len(c) : \/ \E i \in 1..Len(s) : c[k] = s[i]
                          \/ \E i \in 1..Len(t) : c[k] = t[i]
  /\ \A i \in 1..Len(s) : \E k \in 1..Len(c) : c[k] = s[i]
  /\ \A i \in 1..Len(t) : \E k \in 1..Len(c) : c[k] = t[i]

(* What a concatenation has at each index. *)
LEMMA InConcat ==
  ASSUME NEW S, NEW T, NEW s \in Seq(S), NEW t \in Seq(T)
  PROVE  ConcatOf(s \o t, s, t)
<1>1. s \in Seq(S \cup T) /\ t \in Seq(S \cup T)
  OBVIOUS
<1>2. /\ Len(s) \in Nat /\ Len(t) \in Nat
      /\ Len(s \o t) = Len(s) + Len(t)
      /\ \A k \in 1..Len(s) : (s \o t)[k] = s[k]
      /\ \A k \in (Len(s) + 1)..(Len(s) + Len(t)) : (s \o t)[k] = t[k - Len(s)]
  BY <1>1
<1>3. ASSUME NEW k \in 1..Len(s \o t)
      PROVE  \/ \E i \in 1..Len(s) : (s \o t)[k] = s[i]
             \/ \E i \in 1..Len(t) : (s \o t)[k] = t[i]
  <2>1. CASE k <= Len(s)
    BY <1>2, <2>1
  <2>2. CASE k > Len(s)
    <3>1. k - Len(s) \in 1..Len(t) /\ (s \o t)[k] = t[k - Len(s)]
      BY <1>2, <2>2
    <3> QED BY <3>1
  <2> QED BY <1>2, <2>1, <2>2
<1>4. ASSUME NEW i \in 1..Len(t)
      PROVE  \E k \in 1..Len(s \o t) : (s \o t)[k] = t[i]
  <2>1. Len(s) + i \in 1..Len(s \o t) /\ (s \o t)[Len(s) + i] = t[i]
    BY <1>2
  <2> QED BY <2>1
<1>5. \A i \in 1..Len(s) : \E k \in 1..Len(s \o t) : (s \o t)[k] = s[i]
  BY <1>2
<1> QED BY <1>3, <1>4, <1>5 DEF ConcatOf

(* Two findings about the line at hand. *)
LEMMA BothTagged ==
  ASSUME NEW a, NEW b, Tagged(a), Tagged(b)
  PROVE  Tagged(Both(a, b))
<1>1. /\ a.errors \in Seq(FoundErrors) /\ a.warnings \in Seq(FoundWarnings)
      /\ b.errors \in Seq(FoundErrors) /\ b.warnings \in Seq(FoundWarnings)
  BY DEF Tagged, Found
<1>2. Both(a, b) \in Found
  BY <1>1 DEF Both, Found
<1>3. \A k \in 1..Len(Both(a, b).errors) :
        Both(a, b).errors[k].line = n_lines /\ Both(a, b).errors[k].at = Here
  <2>1. ConcatOf(a.errors \o b.errors, a.errors, b.errors)
    BY <1>1, InConcat
  <2>2. ConcatOf(Both(a, b).errors, a.errors, b.errors)
    BY <2>1 DEF Both
  <2>3. ASSUME NEW k \in 1..Len(Both(a, b).errors)
        PROVE  Both(a, b).errors[k].line = n_lines /\ Both(a, b).errors[k].at = Here
    <3>1. \/ \E i \in 1..Len(a.errors) : Both(a, b).errors[k] = a.errors[i]
          \/ \E i \in 1..Len(b.errors) : Both(a, b).errors[k] = b.errors[i]
      BY <2>2, Zenon DEF ConcatOf
    <3> QED BY <3>1 DEF Tagged
  <2> QED BY <2>3
<1>4. \A k \in 1..Len(Both(a, b).warnings) :
        Both(a, b).warnings[k].line = n_lines /\ Both(a, b).warnings[k].at = Here
  <2>1. ConcatOf(a.warnings \o b.warnings, a.warnings, b.warnings)
    BY <1>1, InConcat
  <2>2. ConcatOf(Both(a, b).warnings, a.warnings, b.warnings)
    BY <2>1 DEF Both
  <2>3. ASSUME NEW k \in 1..Len(Both(a, b).warnings)
        PROVE  Both(a, b).warnings[k].line = n_lines /\ Both(a, b).warnings[k].at = Here
    <3>1. \/ \E i \in 1..Len(a.warnings) : Both(a, b).warnings[k] = a.warnings[i]
          \/ \E i \in 1..Len(b.warnings) : Both(a, b).warnings[k] = b.warnings[i]
      BY <2>2, Zenon DEF ConcatOf
    <3> QED BY <3>1 DEF Tagged
  <2> QED BY <2>3
<1> QED BY <1>2, <1>3, <1>4 DEF Tagged

(* Everything the machine may find is about the line at hand. *)
LEMMA FindingsTagged ==
  ASSUME ParserTypeOK, NEW kind
  PROVE  /\ Tagged(MetaCheck) /\ Tagged(MetaEntryFound(kind)) /\ Tagged(RecordFound(kind))
         /\ Tagged(Entering) /\ Tagged(AtEnd)
<1>1. \A type \in Types : Tagged(Err(type)) /\ Tagged(Warn(type)) /\ Tagged(Nothing)
  BY ErrTagged
<1>2. Tagged(Nothing)
  BY <1>1 DEF Types
<1>3. /\ Tagged(Err("FileformatError")) /\ Tagged(Err("MetaSectionError"))
      /\ Tagged(Err("HeaderSectionError")) /\ Tagged(Err("BodyError"))
      /\ Tagged(Warn("MetaSectionError")) /\ Tagged(Warn("RecordWarning"))
  BY <1>1 DEF Types
<1>4. Tagged(MetaCheck)
  BY <1>2, <1>3 DEF MetaCheck
<1>5. Tagged(MetaEntryFound(kind))
  BY <1>2, <1>3 DEF MetaEntryFound
<1>6. \A x : Tagged(RecordFound(x))
  BY <1>2, <1>3 DEF RecordFound
<1>7. Tagged(Entering)
  BY <1>2, <1>4 DEF Entering
<1>8. Tagged(Both(Err("HeaderSectionError"), MetaCheck))
  BY <1>3, <1>4, BothTagged
<1>9. Tagged(AtEnd)
  BY <1>2, <1>3, <1>4, <1>6, <1>8 DEF AtEnd
<1> QED BY <1>4, <1>5, <1>6, <1>7, <1>9
-----------------------------------------------------------------------------
(* A call of parse (with the line l) or of end (without one), whatever the *)
(* machine makes of it.                                                    *)
ParserStep ==
  \E fs, s, next :
    /\ Tagged(fs) /\ s \in States /\ next \in {"write", "write last"}
    /\ status \in {"start", "read"}
    /\ Outcome(fs, s, next)
    /\ read' \in Seq(Lines)
    /\ n_lines' \in Nat
    /\ ignored \subseteq ignored' /\ ignored' \subseteq 1..Len(read')
    /\ reference' \in BOOLEAN
    /\ meta_checks' \in Nat
    /\ eol = "LF" /\ ignored' = {} /\ n_lines = Here => n_lines' = Here'

(* A line appended to the ones read is whole or not, and Here follows. *)
LEMMA HereMoves ==
  ASSUME ParserTypeOK, NEW l \in Lines, read' = Append(read, l),
         read = << >> \/ read[Len(read)].whole
  PROVE  /\ read' \in Seq(Lines) /\ Len(read') = Len(read) + 1
         /\ Here = Len(read) + 1
         /\ Here' = IF l.whole THEN Here + 1 ELSE Here
<1>1. read \in Seq(Lines)
  BY DEF ParserTypeOK, Lines
<1>2. /\ read' \in Seq(Lines) /\ Len(read') = Len(read) + 1 /\ Len(read) \in Nat
      /\ read'[Len(read')] = l /\ read' # << >>
  BY <1>1
<1>3. Here = Len(read) + 1
  BY <1>1 DEF Here
<1>4. Here' = IF l.whole THEN Here + 1 ELSE Here
  BY <1>2, <1>3 DEF Here
<1> QED BY <1>2, <1>3, <1>4

(* No finding at all. *)
LEMMA TaggedNothing ==
  ASSUME ParserTypeOK
  PROVE  Tagged(Nothing)
BY ErrTagged DEF Types

(* The four ways in which the machine goes through a line. *)
LEMMA WaysAreSteps ==
  ASSUME ParserTypeOK, NEW l \in Line, NEW fs, NEW s \in States, Tagged(fs)
  PROVE  /\ Follow(l, fs, s) /\ reference' \in BOOLEAN /\ meta_checks' \in Nat => ParserStep
         /\ Skip(l, fs, s) /\ reference' \in BOOLEAN /\ meta_checks' \in Nat => ParserStep
         /\ BreakOff(l, fs, s) /\ reference' \in BOOLEAN /\ meta_checks' \in Nat => ParserStep
         /\ Ignore(l, s) => ParserStep
<1>0. l \in Lines /\ l.whole \in BOOLEAN /\ n_lines \in Nat /\ read \in Seq(Lines)
      /\ ignored \subseteq 1..Len(read) /\ Len(read) \in Nat /\ "skipping" \in States
  <2>1. n_lines \in Nat /\ read \in Seq(Lines) /\ ignored \subseteq 1..Len(read)
    BY DEF ParserTypeOK, Lines
  <2>2. Len(read) \in Nat
    BY <2>1
  <2>3. l \in Lines /\ l.whole \in BOOLEAN
    BY DEF Lines, Line
  <2>4. "skipping" \in States
    BY DEF States
  <2> QED BY <2>1, <2>2, <2>3, <2>4
<1>1. ASSUME NextLine(l)
      PROVE  /\ read' \in Seq(Lines) /\ Len(read') = Len(read) + 1
             /\ Here = Len(read) + 1 /\ Here' = (IF l.whole THEN Here + 1 ELSE Here)
             /\ status \in {"start", "read"}
             /\ ignored \subseteq 1..Len(read') /\ Here \in 1..Len(read')
  <2>1. /\ status = "read" /\ read' = Append(read, l)
        /\ read = << >> \/ read[Len(read)].whole
    BY <1>1 DEF NextLine
  <2>2. /\ read' \in Seq(Lines) /\ Len(read') = Len(read) + 1
        /\ Here = Len(read) + 1 /\ Here' = IF l.whole THEN Here + 1 ELSE Here
    BY <1>0, <2>1, HereMoves
  <2> QED BY <1>0, <2>1, <2>2
<1>2. ASSUME Follow(l, fs, s), reference' \in BOOLEAN, meta_checks' \in Nat
      PROVE  ParserStep
  <2>1. /\ NextLine(l) /\ l.whole /\ Outcome(fs, s, "write")
        /\ n_lines' = n_lines + 1 /\ ignored' = ignored
    BY <1>2 DEF Follow
  <2>2. n_lines' \in Nat /\ (n_lines = Here => n_lines' = Here')
    BY <1>0, <1>1, <2>1
  <2> QED BY <1>1, <1>2, <2>1, <2>2 DEF ParserStep
<1>3. ASSUME Skip(l, fs, s), reference' \in BOOLEAN, meta_checks' \in Nat
      PROVE  ParserStep
  <2>1. /\ NextLine(l) /\ Outcome(fs, IF l.whole THEN s ELSE "skipping", "write")
        /\ n_lines' = n_lines + (CASE ~l.whole -> 0 [] eol = "CRLF" -> 2 [] OTHER -> 1)
        /\ ignored' = ignored
    BY <1>3 DEF Skip
  <2>2. n_lines' \in Nat /\ (eol = "LF" /\ n_lines = Here => n_lines' = Here')
    BY <1>0, <1>1, <2>1
  <2>3. (IF l.whole THEN s ELSE "skipping") \in States
    BY <1>0
  <2> QED BY <1>1, <1>3, <2>1, <2>2, <2>3 DEF ParserStep
<1>4. ASSUME BreakOff(l, fs, s), reference' \in BOOLEAN, meta_checks' \in Nat
      PROVE  ParserStep
  <2>1. /\ NextLine(l) /\ ~l.whole /\ Outcome(fs, s, "write")
        /\ n_lines' = n_lines /\ ignored' = ignored
    BY <1>4 DEF BreakOff
  <2>2. n_lines' \in Nat /\ (n_lines = Here => n_lines' = Here')
    BY <1>0, <1>1, <2>1
  <2> QED BY <1>1, <1>4, <2>1, <2>2 DEF ParserStep
<1>5. ASSUME Ignore(l, s)
      PROVE  ParserStep
  <2>1. /\ NextLine(l) /\ Outcome(Nothing, s, "write")
        /\ ignored' = ignored \cup {Here}
        /\ n_lines' = n_lines /\ reference' = reference /\ meta_checks' = meta_checks
    BY <1>5 DEF Ignore
  <2>2. /\ ignored' # {} /\ ignored \subseteq ignored' /\ ignored' \subseteq 1..Len(read')
    BY <1>1, <2>1
  <2>3. n_lines' \in Nat /\ reference' \in BOOLEAN /\ meta_checks' \in Nat
    BY <2>1 DEF ParserTypeOK
  <2> QED BY <1>1, <2>1, <2>2, <2>3, TaggedNothing DEF ParserStep
<1> QED BY <1>2, <1>3, <1>4, <1>5

(* Whatever the line is and wherever it comes. *)
LEMMA LinesAreSteps ==
  ASSUME ParserTypeOK, NEW l \in Line, ParseLine(l)
  PROVE  ParserStep
<1>0. /\ \A type \in Types : Tagged(Err(type))
      /\ Tagged(Nothing) /\ Tagged(MetaCheck) /\ Tagged(Entering)
      /\ Tagged(MetaEntryFound(l.kind)) /\ Tagged(RecordFound(l.kind))
  BY ErrTagged, TaggedNothing, FindingsTagged
<1>1. /\ Tagged(Err("FileformatError")) /\ Tagged(Err("MetaSectionError"))
      /\ Tagged(Err("HeaderSectionError")) /\ Tagged(Err("BodyError"))
  BY <1>0 DEF Types
<1>2. /\ Tagged(Both(Err("HeaderSectionError"), MetaCheck))
      /\ Tagged(Both(Entering, RecordFound(l.kind)))
      /\ Tagged(Both(Entering, Err("BodyError")))
  BY <1>0, <1>1, BothTagged
<1>3. reference \in BOOLEAN /\ meta_checks \in Nat
  BY DEF ParserTypeOK
<1>4. CountEntering => meta_checks' \in Nat
  BY <1>3 DEF CountEntering
<1>5. \A s \in {"meta", "header", "body", "trailing", "dead", "restart",
                "in meta", "in header", "in record", "in broken"} : s \in States
  BY DEF States
<1>6. CASE MetaLine(l)
  <2>1. reference' \in BOOLEAN /\ meta_checks' \in Nat
    BY <1>3, <1>6 DEF MetaLine
  <2>2. Follow(l, MetaEntryFound(l.kind), "meta") \/ BreakOff(l, Nothing, "in meta")
    BY <1>6 DEF MetaLine
  <2> QED BY <1>0, <1>5, <2>1, <2>2, WaysAreSteps
<1>7. CASE MetaError(l)
  <2>1. reference' \in BOOLEAN /\ meta_checks' \in Nat
    BY <1>3, <1>7 DEF MetaError
  <2>2. \/ Skip(l, Err(IF cs = "fileformat" /\ l.kind \notin HashKinds
                          THEN "FileformatError" ELSE "MetaSectionError"), "meta")
        \/ BreakOff(l, Nothing, "in meta")
    BY <1>7 DEF MetaError
  <2>3. Tagged(Err(IF cs = "fileformat" /\ l.kind \notin HashKinds
                     THEN "FileformatError" ELSE "MetaSectionError"))
    BY <1>0 DEF Types
  <2> QED BY <1>0, <1>5, <2>1, <2>2, <2>3, WaysAreSteps
<1>8. CASE HeaderLine(l)
  <2>1. reference' \in BOOLEAN /\ meta_checks' \in Nat
    BY <1>3, <1>8 DEF HeaderLine
  <2>2. Follow(l, Nothing, "header") \/ BreakOff(l, Nothing, "in header")
    BY <1>8 DEF HeaderLine
  <2> QED BY <1>0, <1>5, <2>1, <2>2, WaysAreSteps
<1>9. CASE HeaderError(l)
  <2>0. /\ reference' = reference
        /\ meta_checks' = meta_checks \/ meta_checks' = meta_checks + 1
    BY <1>9 DEF HeaderError
  <2>1. reference' \in BOOLEAN /\ meta_checks' \in Nat
    BY <1>3, <2>0
  <2>2. \/ Skip(l, Both(Err("HeaderSectionError"), MetaCheck), "body")
        \/ BreakOff(l, Nothing, "in header")
    BY <1>9 DEF HeaderError
  <2> QED BY <1>0, <1>2, <1>5, <2>1, <2>2, WaysAreSteps
<1>10. CASE RecordLine(l)
  <2>1. reference' \in BOOLEAN /\ meta_checks' \in Nat
    BY <1>3, <1>4, <1>10 DEF RecordLine
  <2>2. \/ Follow(l, Both(Entering, RecordFound(l.kind)), "body")
        \/ BreakOff(l, Entering, "in record")
    BY <1>10 DEF RecordLine
  <2> QED BY <1>0, <1>2, <1>5, <2>1, <2>2, WaysAreSteps
<1>11. CASE RecordError(l)
  <2>1. reference' \in BOOLEAN /\ meta_checks' \in Nat
    BY <1>3, <1>4, <1>11 DEF RecordError
  <2>2. \/ Skip(l, Both(Entering, Err("BodyError")), "body")
        \/ BreakOff(l, Entering, "in broken")
        \/ Skip(l, Both(Err("HeaderSectionError"), MetaCheck), "body")
        \/ Skip(l, Err("BodyError"), "body")
    BY <1>11 DEF RecordError
  <2> QED BY <1>0, <1>1, <1>2, <1>5, <2>1, <2>2, WaysAreSteps
<1>12. CASE BlankLine(l)
  <2>1. reference' \in BOOLEAN /\ meta_checks' \in Nat
    BY <1>3, <1>4, <1>12 DEF BlankLine
  <2>2. Follow(l, Entering, "trailing")
    BY <1>12 DEF BlankLine
  <2> QED BY <1>0, <1>5, <2>1, <2>2, WaysAreSteps
<1>13. CASE TextAfterBlank(l) \/ DeadLine(l)
  BY <1>0, <1>5, <1>13, WaysAreSteps DEF TextAfterBlank, DeadLine
<1>14. CASE RestartLine(l)
  <2>1. reference' \in BOOLEAN /\ meta_checks' \in Nat
    BY <1>3, <1>14 DEF RestartLine
  <2>2. Skip(l, Err("FileformatError"), "meta")
    BY <1>14 DEF RestartLine
  <2> QED BY <1>1, <1>5, <2>1, <2>2, WaysAreSteps
<1> QED
  BY <1>6, <1>7, <1>8, <1>9, <1>10, <1>11, <1>12, <1>13, <1>14 DEF ParseLine

(* The end of the file is a ParserStep. *)
LEMMA EndIsStep ==
  ASSUME ParserTypeOK, End
  PROVE  ParserStep
<1>1. /\ status = "read" /\ Outcome(AtEnd, cs, "write last")
      /\ n_lines' = n_lines /\ reference' = reference /\ read' = read /\ ignored' = ignored
  BY DEF End
<1>2. Tagged(AtEnd) /\ cs \in States
  BY FindingsTagged DEF ParserTypeOK
<1>3. meta_checks' \in Nat
  <2>1. meta_checks \in Nat
    BY DEF ParserTypeOK
  <2>2. meta_checks' = meta_checks + 0 \/ meta_checks' = meta_checks + 1
    BY DEF End
  <2> QED BY <2>1, <2>2
<1>4. Here' = Here
  BY <1>1 DEF Here
<1>5. /\ read' \in Seq(Lines) /\ n_lines' \in Nat /\ ignored' \subseteq 1..Len(read')
      /\ reference' \in BOOLEAN
  BY <1>1 DEF ParserTypeOK, Lines
<1> QED BY <1>1, <1>2, <1>3, <1>4, <1>5 DEF ParserStep

(* A fileformat line is a ParserStep. *)
LEMMA KnownVersionIsStep ==
  ASSUME ParserTypeOK, status = "start" => read = << >>, NEW l \in FirstLine, KnownVersion(l)
  PROVE  ParserStep
<1>1. /\ status = "start" /\ read' = Append(read, l) /\ read = << >>
      /\ Outcome(Nothing, IF l.whole THEN "fileformat" ELSE "in fileformat", "write")
      /\ n_lines' = (IF l.whole THEN n_lines + 1 ELSE n_lines)
      /\ ignored' = ignored /\ reference' = reference /\ meta_checks' = meta_checks
  BY DEF KnownVersion
<1>2. l \in Lines /\ l.whole \in BOOLEAN
  BY DEF Lines, FirstLine
<1>4. /\ read' \in Seq(Lines) /\ Len(read') = Len(read) + 1
      /\ Here = Len(read) + 1 /\ Here' = IF l.whole THEN Here + 1 ELSE Here
  BY <1>1, <1>2, HereMoves
<1>5. n_lines \in Nat /\ reference \in BOOLEAN /\ meta_checks \in Nat
      /\ ignored \subseteq 1..Len(read)
  BY DEF ParserTypeOK
<1>50. Len(read) = 0
  BY <1>1
<1>51. n_lines' = (IF l.whole THEN n_lines + 1 ELSE n_lines) /\ ignored' = ignored
  BY <1>1
<1>6. n_lines' \in Nat /\ (n_lines = Here => n_lines' = Here')
  BY <1>2, <1>4, <1>5, <1>50, <1>51
<1>7. (IF l.whole THEN "fileformat" ELSE "in fileformat") \in States
  BY DEF States
<1>8. ignored' \subseteq 1..Len(read')
  BY <1>4, <1>5, <1>50, <1>51
<1> QED BY <1>1, <1>4, <1>5, <1>6, <1>7, <1>8, TaggedNothing DEF ParserStep
-----------------------------------------------------------------------------
(* A ParserStep keeps the invariant. *)
LEMMA StepKeepsInv ==
  ASSUME ParserInv, ParserStep
  PROVE  ParserInv'
<1>0. PICK fs, s, next :
        /\ Tagged(fs) /\ s \in States /\ next \in {"write", "write last"}
        /\ status \in {"start", "read"}
        /\ Outcome(fs, s, next)
        /\ read' \in Seq(Lines)
        /\ n_lines' \in Nat
        /\ ignored \subseteq ignored' /\ ignored' \subseteq 1..Len(read')
        /\ reference' \in BOOLEAN
        /\ meta_checks' \in Nat
        /\ eol = "LF" /\ ignored' = {} /\ n_lines = Here => n_lines' = Here'
  BY DEF ParserStep
<1>1. /\ cs' = s /\ m_is_valid' = (m_is_valid /\ (fs.errors = << >>))
      /\ config' = config /\ report' = report /\ verdict' = verdict
      /\ \/ found' = Nothing /\ status' = "terminated"
         \/ found' = fs /\ status' = next
  BY <1>0 DEF Outcome
<1>2. fs \in Found /\ Nothing \in Found
  BY <1>0, TaggedNothing DEF Tagged, ParserInv
<1>3. ParserTypeOK'
  <2>1. found' \in Found
    BY <1>1, <1>2
  <2>2. /\ cs' \in States /\ config' \in Configs /\ verdict' \in {"none", "valid", "invalid"}
        /\ report' \in Seq(Finding) /\ m_is_valid' \in BOOLEAN
    BY <1>0, <1>1 DEF ParserInv, ParserTypeOK
  <2>3. status' \in {"start", "read", "write", "write last", "returned", "terminated"}
    BY <1>0, <1>1
  <2> QED BY <1>0, <2>1, <2>2, <2>3 DEF ParserTypeOK, Lines
<1>4. status' \in {"write", "write last", "terminated"}
  BY <1>0, <1>1
<1>5. StartsEmpty' /\ VerdictMatchesReport'
  BY <1>4 DEF StartsEmpty, VerdictMatchesReport
<1>6. ValidMeaning'
  <2>1. m_is_valid <=> ~ReportsError
    BY <1>0 DEF ParserInv, ValidMeaning
  <2>2. ReportsError' <=> ReportsError
    BY <1>1 DEF ReportsError
  <2>3. CASE status' = "terminated"
    BY <2>3 DEF ValidMeaning
  <2>4. CASE found' = fs /\ status' = next
    <3>1. m_is_valid' <=> m_is_valid /\ found'.errors = << >>
      BY <1>1, <2>4
    <3> QED BY <1>0, <2>1, <2>2, <2>4, <3>1 DEF ValidMeaning
  <2> QED BY <1>1, <2>3, <2>4
<1>7. eol' = eol
  BY <1>1 DEF eol
<1>8. ASSUME eol = "LF", ignored' = {}
      PROVE  ignored = {} /\ n_lines = Here
  BY <1>0, <1>8 DEF ParserInv, Counted
<1>9. Counted'
  <2> SUFFICES ASSUME eol = "LF", ignored' = {}
               PROVE  n_lines' = Here'
    BY <1>7 DEF Counted
  <2>1. n_lines = Here
    BY <1>8
  <2> QED BY <1>0, <2>1
<1>10. FoundNumbered'
  <2> SUFFICES ASSUME eol = "LF", ignored' = {}
      PROVE /\ \A k \in 1..Len(found'.errors) : found'.errors[k].line = found'.errors[k].at
            /\ \A k \in 1..Len(found'.warnings) : found'.warnings[k].line = found'.warnings[k].at
    BY <1>7 DEF FoundNumbered
  <2>1. n_lines = Here
    BY <1>8
  <2>2. Tagged(found')
    <3>1. Tagged(Nothing)
      BY TaggedNothing DEF ParserInv
    <3> QED BY <1>0, <1>1, <3>1
  <2> QED BY <2>1, <2>2 DEF Tagged
<1>11. LineNumbersRight'
  <2> SUFFICES ASSUME eol = "LF", ignored' = {}
               PROVE  \A k \in 1..Len(report') : report'[k].line = report'[k].at
    BY <1>7 DEF LineNumbersRight
  <2> QED BY <1>1, <1>8 DEF ParserInv, LineNumbersRight
<1> QED BY <1>3, <1>5, <1>6, <1>9, <1>10, <1>11 DEF ParserInv

(* A file without a fileformat line: the only error is written at once. *)
LEMMA UnknownVersionKeepsInv ==
  ASSUME ParserInv, NEW l \in FirstLine, UnknownVersion(l)
  PROVE  ParserInv'
<1>1. /\ read' = Append(read, l) /\ report' = Err("FileformatError").errors
      /\ status' = "returned" /\ verdict' = "invalid" /\ config' = config /\ cs' = cs
      /\ n_lines' = n_lines /\ m_is_valid' = m_is_valid /\ reference' = reference
      /\ found' = found /\ ignored' = ignored /\ meta_checks' = meta_checks
      /\ status = "start" /\ read = << >>
  BY DEF UnknownVersion, ParserInv, StartsEmpty
<1>2. Tagged(Err("FileformatError"))
  BY ErrTagged DEF Types, ParserInv
<1>3. /\ report' \in Seq(FoundErrors) /\ Len(report') = 1
      /\ report'[1].severity = "error" /\ report'[1].line = n_lines /\ report'[1].at = Here
  BY <1>1, <1>2 DEF Err, Tagged, Found
<1>4. report' \in Seq(Finding)
  <2>1. FoundErrors \subseteq Finding
    BY DEF FoundErrors, Finding
  <2> QED BY <1>3, <2>1
<1>5. read' \in Seq(Lines) /\ Len(read') = Len(read) + 1 /\ Len(read) \in Nat
  BY <1>1 DEF ParserInv, ParserTypeOK, Lines
<1>6. ignored' \subseteq 1..Len(read')
  BY <1>1, <1>5 DEF ParserInv, ParserTypeOK
<1>7. ParserTypeOK'
  BY <1>1, <1>4, <1>5, <1>6 DEF ParserInv, ParserTypeOK, Lines
<1>8. StartsEmpty' /\ ValidMeaning' /\ Counted'
  BY <1>1 DEF StartsEmpty, ValidMeaning, Counted
<1>9. VerdictMatchesReport'
  BY <1>1, <1>3 DEF VerdictMatchesReport, ReportsError
<1>10. FoundNumbered'
  BY <1>1 DEF ParserInv, FoundNumbered, eol
<1>11. LineNumbersRight'
  BY <1>1, <1>3 DEF ParserInv, Counted, LineNumbersRight, eol
<1> QED BY <1>7, <1>8, <1>9, <1>10, <1>11 DEF ParserInv

(* The run ends in the middle of a record: nothing is written any more. *)
LEMMA RecordEscapesKeepsInv ==
  ASSUME ParserInv, RecordEscapes
  PROVE  ParserInv'
<1>1. /\ found' = Nothing /\ status' = "terminated" /\ config' = config /\ cs' = cs
      /\ n_lines' = n_lines /\ m_is_valid' = m_is_valid /\ reference' = reference
      /\ report' = report /\ ignored' = ignored /\ verdict' = verdict
  BY DEF RecordEscapes
<1>2. /\ read \in Seq(Lines) /\ ignored \subseteq 1..Len(read) /\ meta_checks \in Nat
  BY DEF ParserInv, ParserTypeOK, Lines
<1>3. read' = read \/ \E l \in Lines : read' = Append(read, l)
  BY DEF RecordEscapes, NextLine, Lines
<1>4. read' \in Seq(Lines) /\ 1..Len(read) \subseteq 1..Len(read')
  BY <1>2, <1>3
<1>5. meta_checks' \in Nat
  <2>1. meta_checks' = meta_checks \/ CountEntering
    BY DEF RecordEscapes
  <2> QED BY <1>2, <2>1 DEF CountEntering
<1>6. Nothing \in Found /\ Len(Nothing.errors) = 0 /\ Len(Nothing.warnings) = 0
  BY DEF Nothing, Found
<1>7. ParserTypeOK'
  BY <1>1, <1>2, <1>4, <1>5, <1>6 DEF ParserInv, ParserTypeOK, Lines
<1>8. StartsEmpty' /\ ValidMeaning' /\ VerdictMatchesReport' /\ Counted'
  BY <1>1 DEF StartsEmpty, ValidMeaning, VerdictMatchesReport, Counted
<1>9. FoundNumbered' /\ LineNumbersRight'
  BY <1>1, <1>6 DEF ParserInv, FoundNumbered, LineNumbersRight, eol
<1> QED BY <1>7, <1>8, <1>9 DEF ParserInv

(* What write_errors makes of a report. *)
WrittenFrom(new, old, es, ws) ==
  /\ new \in Seq(Finding)
  /\ (\E k \in 1..Len(new) : new[k].severity = "error") <=>
       (\E k \in 1..Len(old) : old[k].severity = "error") \/ es # << >>
  /\ \A k \in 1..Len(new) :
       \/ \E i \in 1..Len(old) : new[k] = old[i]
       \/ \E i \in 1..Len(es) : new[k] = es[i]
       \/ \E i \in 1..Len(ws) : new[k] = ws[i]

(* The report after write_errors, index by index. *)
LEMMA Written ==
  ASSUME NEW old \in Seq(Finding), NEW es \in Seq(FoundErrors), NEW ws \in Seq(FoundWarnings)
  PROVE  WrittenFrom((old \o es) \o ws, old, es, ws)
<1>1. FoundErrors \subseteq Finding /\ FoundWarnings \subseteq Finding
  BY DEF FoundErrors, FoundWarnings, Finding
<1>2. es \in Seq(Finding) /\ ws \in Seq(Finding)
  BY <1>1
<1> DEFINE mid == old \o es
           new == mid \o ws
<1>3. mid \in Seq(Finding) /\ new = mid \o ws
  BY <1>2
<1>4. ConcatOf(mid, old, es)
  BY InConcat
<1>5. ConcatOf(new, mid, ws)
  BY <1>2, <1>3, InConcat
<1> HIDE DEF mid, new
<1>6. new \in Seq(Finding)
  BY <1>2, <1>3
<1>7. ASSUME NEW k \in 1..Len(new)
      PROVE  \/ \E i \in 1..Len(old) : new[k] = old[i]
             \/ \E i \in 1..Len(es) : new[k] = es[i]
             \/ \E i \in 1..Len(ws) : new[k] = ws[i]
  <2>1. (\E i \in 1..Len(mid) : new[k] = mid[i]) \/ (\E i \in 1..Len(ws) : new[k] = ws[i])
    BY <1>5, Zenon DEF ConcatOf
  <2>2. ASSUME NEW i \in 1..Len(mid), new[k] = mid[i]
        PROVE  (\E h \in 1..Len(old) : new[k] = old[h]) \/ (\E h \in 1..Len(es) : new[k] = es[h])
    <3>1. (\E h \in 1..Len(old) : mid[i] = old[h]) \/ (\E h \in 1..Len(es) : mid[i] = es[h])
      BY <1>4, Zenon DEF ConcatOf
    <3> QED BY <2>2, <3>1
  <2> QED BY <2>1, <2>2, Zenon
<1>8. /\ \A i \in 1..Len(old) : \E k \in 1..Len(new) : new[k] = old[i]
      /\ \A i \in 1..Len(es) : \E k \in 1..Len(new) : new[k] = es[i]
  <2>1. \A i \in 1..Len(mid) : \E k \in 1..Len(new) : new[k] = mid[i]
    BY <1>5, Zenon DEF ConcatOf
  <2>2. /\ \A i \in 1..Len(old) : \E k \in 1..Len(mid) : mid[k] = old[i]
        /\ \A i \in 1..Len(es) : \E k \in 1..Len(mid) : mid[k] = es[i]
    BY <1>4, Zenon DEF ConcatOf
  <2> QED BY <2>1, <2>2, ZenonT(40)
<1>9. /\ \A i \in 1..Len(es) : es[i].severity = "error"
      /\ \A i \in 1..Len(ws) : ws[i].severity = "warning"
  <2>1. /\ \A i \in 1..Len(es) : es[i] \in FoundErrors
        /\ \A i \in 1..Len(ws) : ws[i] \in FoundWarnings
    OBVIOUS
  <2> QED BY <2>1 DEF FoundErrors, FoundWarnings
<1>10. es # << >> => 1 \in 1..Len(es)
  OBVIOUS
<1>11. (\E k \in 1..Len(old) : old[k].severity = "error") \/ es # << >>
         => \E k \in 1..Len(new) : new[k].severity = "error"
  <2>1. CASE \E k \in 1..Len(old) : old[k].severity = "error"
    BY <1>8, <2>1
  <2>2. CASE es # << >>
    BY <1>8, <1>9, <1>10, <2>2
  <2> QED BY <2>1, <2>2
<1>12. ASSUME NEW k \in 1..Len(new), new[k].severity = "error"
       PROVE  (\E i \in 1..Len(old) : old[i].severity = "error") \/ es # << >>
  <2>1. CASE \E i \in 1..Len(old) : new[k] = old[i]
    BY <1>12, <2>1
  <2>2. CASE \E i \in 1..Len(es) : new[k] = es[i]
    BY <2>2
  <2>3. CASE \E i \in 1..Len(ws) : new[k] = ws[i]
    BY <1>9, <1>12, <2>3
  <2> QED BY <1>7, <2>1, <2>2, <2>3
<1>13. WrittenFrom(new, old, es, ws)
  BY <1>6, <1>7, <1>11, <1>12 DEF WrittenFrom
<1> QED BY <1>13 DEF new, mid

(* write_errors keeps the invariant. *)
LEMMA WriteErrorsKeepsInv ==
  ASSUME ParserInv, WriteErrors
  PROVE  ParserInv'
<1>1. /\ status \in {"write", "write last"}
      /\ report' = (report \o found.errors) \o found.warnings
      /\ config' = config /\ cs' = cs /\ n_lines' = n_lines /\ m_is_valid' = m_is_valid
      /\ reference' = reference /\ found' = found /\ read' = read /\ ignored' = ignored
      /\ meta_checks' = meta_checks
      /\ \/ status' = "read" /\ verdict' = verdict
         \/ /\ status' = "returned"
            /\ verdict' = (IF m_is_valid THEN "valid" ELSE "invalid")
  BY DEF WriteErrors
<1>2. /\ report \in Seq(Finding) /\ found.errors \in Seq(FoundErrors)
      /\ found.warnings \in Seq(FoundWarnings)
  BY DEF ParserInv, ParserTypeOK, Found
<1> DEFINE es == found.errors
           ws == found.warnings
<1>3. WrittenFrom(report', report, es, ws)
  BY <1>1, <1>2, Written
<1>4. ReportsError' <=> ReportsError \/ found.errors # << >>
  BY <1>3 DEF ReportsError, WrittenFrom
<1>5. m_is_valid' <=> ~ReportsError'
  BY <1>1, <1>4 DEF ParserInv, ValidMeaning
<1>6. ParserTypeOK'
  <2>1. report' \in Seq(Finding)
    BY <1>3 DEF WrittenFrom
  <2> QED BY <1>1, <2>1 DEF ParserInv, ParserTypeOK
<1>7. StartsEmpty' /\ Counted' /\ FoundNumbered'
  <2>1. Here' = Here /\ eol' = eol
    BY <1>1 DEF Here, eol
  <2> QED BY <1>1, <2>1 DEF ParserInv, StartsEmpty, Counted, FoundNumbered
<1>8. ValidMeaning'
  BY <1>1, <1>5 DEF ValidMeaning
<1>9. VerdictMatchesReport'
  <2>1. status' = "returned" => verdict' = (IF m_is_valid' THEN "valid" ELSE "invalid")
    BY <1>1
  <2>2. status' = "returned" => (verdict' = "invalid" <=> ~m_is_valid')
    BY <2>1
  <2> QED BY <1>5, <2>2 DEF VerdictMatchesReport
<1>10. LineNumbersRight'
  <2> SUFFICES ASSUME eol = "LF", ignored = {}, NEW k \in 1..Len(report')
               PROVE  report'[k].line = report'[k].at
    BY <1>1 DEF LineNumbersRight, eol
  <2>1. /\ \A i \in 1..Len(report) : report[i].line = report[i].at
        /\ \A i \in 1..Len(es) : es[i].line = es[i].at
        /\ \A i \in 1..Len(ws) : ws[i].line = ws[i].at
    BY DEF ParserInv, LineNumbersRight, FoundNumbered
  <2> HIDE DEF es, ws
  <2> QED BY <1>3, <2>1 DEF WrittenFrom
<1> QED BY <1>6, <1>7, <1>8, <1>9, <1>10 DEF ParserInv

(***************************************************************************)
(* ParserInv is an invariant of the validation of any file, at every       *)
(* level, for every version and line end (is_valid_vcf_file, validate,     *)
(* write_errors and the state machine).                                    *)
(***************************************************************************)
THEOREM ParserInvariant == ParserSpec => []ParserInv
<1>1. ParserInit => ParserInv
  <2> SUFFICES ASSUME ParserInit
               PROVE  ParserInv
    OBVIOUS
  <2>1. Nothing \in Found
    BY DEF Nothing, Found
  <2>2. ParserTypeOK
    <3>1. << >> \in Seq(Finding) /\ << >> \in Seq(Line \cup FirstLine)
      OBVIOUS
    <3>2. report \in Seq(Finding) /\ read \in Seq(Line \cup FirstLine)
      BY <3>1 DEF ParserInit
    <3>3. cs \in States
      BY DEF ParserInit, States
    <3>4. m_is_valid \in BOOLEAN /\ reference \in BOOLEAN
      BY DEF ParserInit
    <3> QED BY <2>1, <3>2, <3>3, <3>4 DEF ParserInit, ParserTypeOK
  <2>3. Here = 1
    BY DEF ParserInit, Here
  <2>4. Counted /\ StartsEmpty
    BY <2>3 DEF ParserInit, Counted, StartsEmpty
  <2>5. ~ReportsError
    BY DEF ParserInit, ReportsError
  <2>6. ValidMeaning /\ VerdictMatchesReport
    BY <2>5 DEF ParserInit, ValidMeaning, VerdictMatchesReport
  <2>7. FoundNumbered /\ LineNumbersRight
    BY DEF ParserInit, FoundNumbered, LineNumbersRight, Nothing
  <2> QED BY <2>2, <2>4, <2>6, <2>7 DEF ParserInv
<1>2. ParserInv /\ [ParserNext]_parserVars => ParserInv'
  <2> SUFFICES ASSUME ParserInv, [ParserNext]_parserVars
               PROVE  ParserInv'
    OBVIOUS
  <2>0. ParserTypeOK /\ (status = "start" => read = << >>)
    BY DEF ParserInv, StartsEmpty
  <2>1. ASSUME NEW l \in FirstLine, UnknownVersion(l)
        PROVE  ParserInv'
    BY <2>1, UnknownVersionKeepsInv
  <2>2. ASSUME NEW l \in FirstLine, KnownVersion(l)
        PROVE  ParserInv'
    BY <2>0, <2>2, KnownVersionIsStep, StepKeepsInv
  <2>3. ASSUME NEW l \in Line, ParseLine(l)
        PROVE  ParserInv'
    BY <2>0, <2>3, LinesAreSteps, StepKeepsInv
  <2>4. CASE WriteErrors
    BY <2>4, WriteErrorsKeepsInv
  <2>7. CASE RecordEscapes
    BY <2>7, RecordEscapesKeepsInv
  <2>5. CASE End
    BY <2>0, <2>5, EndIsStep, StepKeepsInv
  <2>6. CASE Finished \/ UNCHANGED parserVars
    <3>1. UNCHANGED parserVars
      BY <2>6 DEF Finished
    <3> QED
      BY <3>1, ZenonT(40) DEF parserVars, ParserInv, ParserTypeOK, StartsEmpty, ValidMeaning,
                  VerdictMatchesReport, ReportsError, Counted, Here, FoundNumbered,
                  LineNumbersRight, eol
  <2> QED BY <2>1, <2>2, <2>3, <2>4, <2>5, <2>6, <2>7 DEF ParserNext
<1> QED BY <1>1, <1>2, PTL DEF ParserSpec

(* The state of the parser has its type in files of any length. *)
THEOREM ParserTypeCorrect == ParserSpec => []ParserTypeOK
<1>1. ParserInv => ParserTypeOK
  BY DEF ParserInv
<1> QED BY <1>1, ParserInvariant, PTL

(***************************************************************************)
(* A file of any length is returned invalid exactly when an error was      *)
(* written to its report: no path through the machine, the error policies  *)
(* and write_errors loses an error, also where lines were ignored.         *)
(***************************************************************************)
THEOREM VerdictAgreesWithReport == ParserSpec => []VerdictMatchesReport
<1>1. ParserInv => VerdictMatchesReport
  BY DEF ParserInv
<1> QED BY <1>1, ParserInvariant, PTL

(***************************************************************************)
(* In a file of any length whose lines end in '\n', and of which no line   *)
(* was ignored, each error and warning carries the number of its line      *)
(* (action line_break, through all recoveries).                            *)
(***************************************************************************)
THEOREM LineNumbersCorrect == ParserSpec => []LineNumbersRight
<1>1. ParserInv => LineNumbersRight
  BY DEF ParserInv
<1> QED BY <1>1, ParserInvariant, PTL
-----------------------------------------------------------------------------
(***************************************************************************)
(* The place of lines in a file, as operators of the lines r, the line h   *)
(* of the first header and the configuration c.                            *)
(***************************************************************************)
HeaderKinds == {"header", "header broken"}

FirstHeader(h, r) ==
  /\ h \in 2..(Len(r) + 1)
  /\ h <= Len(r) => r[h].kind \in HeaderKinds
  /\ \A i \in 2..(h - 1) : r[i].kind \notin HeaderKinds

Placed(c, r, h, i) ==
  /\ r[i].kind \notin {"meta fails", "fails"} \/ c.level = "error"
  /\ \/ i = 1 /\ r[i].kind = "fileformat" /\ r[i].whole
     \/ i \in 2..(h - 1) /\ r[i].kind \in MetaKinds \cup {"meta fails"} /\ r[i].whole
     \/ i > 1 /\ i = h /\ r[i].kind = "header" /\ r[i].whole
     \/ i > h /\ r[i].kind = "blank"
     \/ /\ i > h /\ r[i].kind \in RecordKinds
        /\ r[i].whole \/ ~c.v43
        /\ \A k \in h..i : r[k].kind # "blank"

(* The states of the machine inside a line that broke off. *)
InsideLine == {"in fileformat", "in meta", "in header", "in record", "in broken", "skipping"}

(* What the state s of the machine says of the lines read. *)
Fits(s, r, h) ==
  /\ r[1].kind = "fileformat"
  /\ s \in {"fileformat", "in fileformat"} => Len(r) = 1
  /\ s \in {"meta", "in meta"} => Len(r) > 1 /\ h = Len(r) + 1
  /\ s \in {"header", "in header"} => Len(r) > 1 /\ h = Len(r)
  /\ s \in {"body", "in record", "in broken", "trailing"} => h <= Len(r)
  /\ s \in {"header", "body", "in record", "in broken"} =>
       \A k \in h..Len(r) : r[k].kind # "blank"
  /\ s = "in record" => h < Len(r) /\ r[Len(r)].kind \in RecordKinds
  /\ s = "in broken" => h < Len(r) /\ r[Len(r)].kind = "broken"
  /\ s = "trailing" => h < Len(r)
  /\ s \in InsideLine <=> ~r[Len(r)].whole
  /\ s \notin {"start", "dead", "restart"}

(* Files of which no line was ignored. *)
Clean == ignored = {} /\ status # "terminated"

(* end() was called, or no parser was built. *)
Ended == status \in {"write last", "returned"}

SectionInv ==
  Clean =>
    /\ status = "start" => cs = "start"
    /\ status # "start" => read # << >>
    /\ \A i \in 1..(Len(read) - 1) : read[i].whole
    /\ cs # "start" => Fits(cs, read, HeaderAt)
    /\ cs = "start" /\ status # "start" =>
         status = "returned" /\ Len(read) = 1 /\ read[1].kind = "other"

(* How often the meta section was checked, by the state of the machine. *)
ChecksDone(s, r, h, c, ended) ==
  CASE s \in {"start", "fileformat", "in fileformat", "meta", "in meta"} -> 0
    [] s = "header"    -> IF ended THEN 1 ELSE 0
    [] s = "in header" -> IF ended /\ ~c.v43 THEN 1 ELSE 0
    [] s = "skipping"  -> IF h <= Len(r) THEN 1 ELSE 0
    [] OTHER           -> 1

ChecksInv ==
  ignored = {} =>
    /\ meta_checks <= 1
    /\ status # "terminated" => meta_checks = ChecksDone(cs, read, HeaderAt, config, Ended)

(* Errors of the last call that are still to be written. *)
Pending == IF status \in {"write", "write last"} THEN found.errors ELSE << >>

(* An error about line i was written, or is about to be. *)
ErrorIn(rep, i) == \E k \in 1..Len(rep) : rep[k].severity = "error" /\ rep[k].at = i
Blamed(rep, pending, i) == ErrorIn(rep, i) \/ \E k \in 1..Len(pending) : pending[k].at = i

Once(rep, pending) ==
  /\ \A j, k \in 1..Len(rep) :
       rep[j].severity = "error" /\ rep[k].severity = "error" /\ rep[j].at = rep[k].at => j = k
  /\ Len(pending) <= 1
  /\ \A k \in 1..Len(pending) : ~ErrorIn(rep, pending[k].at)

ErrorsInv ==
  Clean =>
    /\ Once(report, Pending)
    /\ \A i : Blamed(report, Pending, i) => i \in 1..(Len(read) + (IF Ended THEN 1 ELSE 0))
    /\ \A i \in 1..Len(read) :
         read[i].whole \/ Ended => (Blamed(report, Pending, i) <=> ~WellPlaced(i))
    /\ read # << >> /\ ~Ended /\ ~read[Len(read)].whole =>
         (Blamed(report, Pending, Len(read)) <=> cs = "skipping")
    /\ cs = "skipping" => ~WellPlaced(Len(read))
    /\ Ended =>
         (Blamed(report, Pending, Len(read) + 1) <=> cs \in {"fileformat", "meta"})
    /\ status = "returned" => verdict # "none"
-----------------------------------------------------------------------------
(* HeaderAt as a function of the lines. *)
HeaderOf(r) ==
  LET headers == {i \in 2..Len(r) : r[i].kind \in HeaderKinds}
  IN  IF headers = {} THEN Len(r) + 1 ELSE CHOOSE i \in headers : \A k \in headers : i <= k

(* HeaderAt as an operator of the lines. *)
LEMMA HeaderAtForm == HeaderAt = HeaderOf(read) /\ HeaderAt' = HeaderOf(read')
  BY DEF HeaderAt, HeaderOf, HeaderKinds

(* HeaderAt is the first header, and there is only one first. *)
LEMMA HeaderOfIsFirst ==
  ASSUME NEW r \in Seq(Lines), Len(r) > 0
  PROVE  FirstHeader(HeaderOf(r), r)
<1> DEFINE H == {i \in 2..Len(r) : r[i].kind \in HeaderKinds}
<1>1. HeaderOf(r) = IF H = {} THEN Len(r) + 1 ELSE CHOOSE i \in H : \A k \in H : i <= k
  BY DEF HeaderOf
<1>2. Len(r) \in Nat
  OBVIOUS
<1>3. \A i \in 2..Len(r) : r[i].kind \in HeaderKinds => i \in H
  OBVIOUS
<1>4. H \subseteq 2..Len(r) /\ \A i \in H : r[i].kind \in HeaderKinds
  OBVIOUS
<1> HIDE DEF H
<1>5. CASE H = {}
  BY <1>1, <1>2, <1>3, <1>5 DEF FirstHeader
<1>6. CASE H # {}
  <2>1. H \subseteq Nat
    BY <1>2, <1>4
  <2>2. \E i \in H : \A k \in H : i <= k
    BY <1>6, <2>1, LeastNat
  <2>3. PICK h \in H : h = HeaderOf(r) /\ \A k \in H : h <= k
    BY <1>1, <1>6, <2>2
  <2>4. h \in 2..Len(r) /\ r[h].kind \in HeaderKinds
    BY <1>4
  <2>5. \A i \in 2..(h - 1) : i \in 2..Len(r) /\ i \notin H
    BY <1>2, <2>3, <2>4
  <2>6. h \in 2..(Len(r) + 1)
    BY <1>2, <2>4
  <2> QED
    BY <1>3, <2>3, <2>4, <2>5, <2>6 DEF FirstHeader
<1> QED
  BY <1>5, <1>6

(* Two first headers are the same line. *)
LEMMA FirstHeaderUnique ==
  ASSUME NEW r \in Seq(Lines), NEW g, NEW h, FirstHeader(g, r), FirstHeader(h, r)
  PROVE  g = h
<1>1. Len(r) \in Nat
  OBVIOUS
<1>2. g \in 2..(Len(r) + 1) /\ h \in 2..(Len(r) + 1)
  BY DEF FirstHeader
<1>3. ~(g < h)
  <2> SUFFICES ASSUME g < h PROVE FALSE
    OBVIOUS
  <2>1. g \in 2..(h - 1) /\ g <= Len(r)
    BY <1>1, <1>2
  <2> QED
    BY <2>1 DEF FirstHeader
<1>4. ~(h < g)
  <2> SUFFICES ASSUME h < g PROVE FALSE
    OBVIOUS
  <2>1. h \in 2..(g - 1) /\ h <= Len(r)
    BY <1>1, <1>2
  <2> QED
    BY <2>1 DEF FirstHeader
<1> QED
  BY <1>1, <1>2, <1>3, <1>4

(* The first header after one more line. *)
NextHeader(h, r, l) ==
  IF h <= Len(r) THEN h ELSE IF l.kind \in HeaderKinds THEN Len(r) + 1 ELSE Len(r) + 2

(* One more line on a list of lines. *)
LEMMA AppendLine ==
  ASSUME NEW r \in Seq(Lines), NEW l \in Lines
  PROVE  /\ Append(r, l) \in Seq(Lines) /\ Len(r) \in Nat /\ Len(Append(r, l)) = Len(r) + 1
         /\ Append(r, l)[Len(r) + 1] = l
         /\ \A i \in 1..Len(r) : Append(r, l)[i] = r[i]
  OBVIOUS

(* The first header, when a line is read. *)
LEMMA HeaderAppend ==
  ASSUME NEW r \in Seq(Lines), NEW l \in Lines, Len(r) > 0, NEW h, FirstHeader(h, r)
  PROVE  FirstHeader(NextHeader(h, r, l), Append(r, l))
<1>1. PICK q : q = Append(r, l)
  OBVIOUS
<1>2. PICK n \in Nat : n = Len(r)
  OBVIOUS
<1>3. Len(q) = n + 1 /\ q[n + 1] = l /\ \A i \in 1..n : q[i] = r[i]
  BY <1>1, <1>2, AppendLine
<1>4. /\ h \in 2..(n + 1) /\ (h <= n => r[h].kind \in HeaderKinds)
      /\ \A i \in 2..(h - 1) : r[i].kind \notin HeaderKinds
  BY <1>2 DEF FirstHeader
<1>5. PICK g : g = NextHeader(h, r, l)
  OBVIOUS
<1>6. CASE h <= n
  <2>1. g = h /\ h \in 2..(n + 2) /\ h \in 1..n
    BY <1>2, <1>4, <1>5, <1>6 DEF NextHeader
  <2>2. \A i \in 2..(h - 1) : i \in 1..n
    BY <1>4, <1>6
  <2>3. FirstHeader(g, q)
    BY <1>3, <1>4, <1>6, <2>1, <2>2 DEF FirstHeader
  <2> QED
    BY <1>1, <1>5, <2>3
<1>7. CASE h = n + 1
  <2>1. g = IF l.kind \in HeaderKinds THEN n + 1 ELSE n + 2
    BY <1>2, <1>5, <1>7 DEF NextHeader
  <2>2. \A i \in 2..n : q[i].kind \notin HeaderKinds
    <3>1. \A i \in 2..n : i \in 2..(h - 1) /\ i \in 1..n
      BY <1>7
    <3> QED
      BY <1>3, <1>4, <3>1
  <2>3. \A i \in 2..(n + 1) : i \in 2..n \/ i = n + 1
    OBVIOUS
  <2>4. FirstHeader(g, q)
    <3>1. CASE l.kind \in HeaderKinds
      BY <1>3, <2>1, <2>2, <3>1, <1>4, <1>7 DEF FirstHeader
    <3>2. CASE l.kind \notin HeaderKinds
      BY <1>3, <2>1, <2>2, <2>3, <3>2, <1>4, <1>7 DEF FirstHeader
    <3> QED
      BY <3>1, <3>2
  <2> QED
    BY <1>1, <1>5, <2>4
<1> QED
  BY <1>4, <1>6, <1>7

(* Whether a line is well placed does not depend on the lines after it. *)
LEMMA PlacedAppend ==
  ASSUME NEW c, NEW r \in Seq(Lines), NEW l \in Lines, Len(r) > 0,
         NEW h, FirstHeader(h, r), NEW i \in 1..Len(r)
  PROVE  Placed(c, Append(r, l), NextHeader(h, r, l), i) <=> Placed(c, r, h, i)
<1>1. PICK q : q = Append(r, l)
  OBVIOUS
<1>2. PICK n \in Nat : n = Len(r)
  OBVIOUS
<1>3. Len(q) = n + 1 /\ \A k \in 1..n : q[k] = r[k]
  BY <1>1, <1>2, AppendLine
<1>4. h \in 2..(n + 1)
  BY <1>2 DEF FirstHeader
<1>5. PICK g : g = NextHeader(h, r, l)
  OBVIOUS
<1>6. q[i] = r[i] /\ i \in 1..n
  BY <1>2, <1>3
<1>7. CASE h <= n
  <2>1. g = h
    BY <1>2, <1>5, <1>7 DEF NextHeader
  <2>2. \A k \in h..i : q[k] = r[k]
    BY <1>3, <1>4, <1>6
  <2>3. Placed(c, q, g, i) <=> Placed(c, r, h, i)
    BY <1>6, <2>1, <2>2 DEF Placed
  <2> QED
    BY <1>1, <1>5, <2>3
<1>8. CASE h = n + 1
  <2>1. g = n + 1 \/ g = n + 2
    BY <1>2, <1>5, <1>8 DEF NextHeader
  <2>2. /\ ~(i > g) /\ ~(i > h) /\ i # g /\ i # h
        /\ i \in 2..(g - 1) <=> i \in 2..(h - 1)
    BY <1>6, <1>8, <2>1
  <2>3. Placed(c, q, g, i) <=> Placed(c, r, h, i)
    BY <1>6, <2>2 DEF Placed
  <2> QED
    BY <1>1, <1>5, <2>3
<1> QED
  BY <1>4, <1>7, <1>8

(* WellPlaced as an operator of the lines. *)
LEMMA PlacedForm ==
  ASSUME NEW i
  PROVE  /\ WellPlaced(i) <=> Placed(config, read, HeaderAt, i)
         /\ WellPlaced(i)' <=> Placed(config', read', HeaderAt', i)
  BY DEF WellPlaced, Placed, PassesChecks, Semantic, level, v43

(* A line of the meta section: no header was read before it.  The states   *)
(* that fit it, and whether it is well placed.                             *)
LEMMA MetaPlace ==
  ASSUME NEW c, NEW r \in Seq(Lines), NEW l \in Lines, Len(r) > 0, r[1].kind = "fileformat",
         FirstHeader(Len(r) + 1, r), NEW q, q = Append(r, l), NEW g, FirstHeader(g, q),
         l.kind \notin HeaderKinds
  PROVE  /\ l.whole => Fits("meta", q, g)
         /\ ~l.whole => Fits("in meta", q, g) /\ Fits("skipping", q, g)
         /\ g = Len(q) + 1
         /\ Placed(c, q, g, Len(q)) <=>
              /\ l.kind \in MetaKinds \cup {"meta fails"} /\ l.whole
              /\ l.kind # "meta fails" \/ c.level = "error"
<1>1. PICK n \in Nat : n = Len(r)
  OBVIOUS
<1>2. Len(q) = n + 1 /\ q[n + 1] = l /\ q[1].kind = "fileformat" /\ q \in Seq(Lines)
  BY <1>1, AppendLine
<1>3. g = n + 2
  <2>1. FirstHeader(NextHeader(Len(r) + 1, r, l), q)
    BY HeaderAppend
  <2>2. NextHeader(Len(r) + 1, r, l) = n + 2
    BY <1>1 DEF NextHeader
  <2> QED
    BY <1>2, <2>1, <2>2, FirstHeaderUnique
<1>4. n + 1 > 1 /\ n + 1 # 1 /\ n + 1 \in 2..(g - 1) /\ n + 1 # g /\ ~(n + 1 > g)
  BY <1>1, <1>3
<1>5. Placed(c, q, g, n + 1) <=>
              /\ l.kind \in MetaKinds \cup {"meta fails"} /\ l.whole
              /\ l.kind # "meta fails" \/ c.level = "error"
  BY <1>2, <1>4 DEF Placed, MetaKinds
<1>6. /\ l.whole => Fits("meta", q, g)
      /\ ~l.whole => Fits("in meta", q, g) /\ Fits("skipping", q, g)
  BY <1>2, <1>3, <1>4 DEF Fits, InsideLine
<1>7. Len(q) = n + 1 /\ g = Len(q) + 1
  BY <1>2, <1>3
<1>8. Placed(c, q, g, Len(q)) <=> Placed(c, q, g, n + 1)
  BY <1>7
<1> QED
  BY <1>5, <1>6, <1>7, <1>8, Zenon

(* The header. *)
LEMMA HeaderPlace ==
  ASSUME NEW c, NEW r \in Seq(Lines), NEW l \in Lines, Len(r) > 0, r[1].kind = "fileformat",
         FirstHeader(Len(r) + 1, r), NEW q, q = Append(r, l), NEW g, FirstHeader(g, q),
         l.kind \in HeaderKinds
  PROVE  /\ l.whole => Fits("header", q, g) /\ Fits("body", q, g)
         /\ ~l.whole => Fits("in header", q, g) /\ Fits("skipping", q, g)
         /\ g = Len(q)
         /\ Placed(c, q, g, Len(q)) <=> l.kind = "header" /\ l.whole
<1>1. PICK n \in Nat : n = Len(r)
  OBVIOUS
<1>2. Len(q) = n + 1 /\ q[n + 1] = l /\ q[1].kind = "fileformat" /\ q \in Seq(Lines)
  BY <1>1, AppendLine
<1>3. g = n + 1
  <2>1. FirstHeader(NextHeader(Len(r) + 1, r, l), q)
    BY HeaderAppend
  <2>2. NextHeader(Len(r) + 1, r, l) = n + 1
    BY <1>1 DEF NextHeader
  <2> QED
    BY <1>2, <2>1, <2>2, FirstHeaderUnique
<1>4. n + 1 > 1 /\ n + 1 # 1 /\ n + 1 \notin 2..(g - 1) /\ n + 1 = g /\ ~(n + 1 > g)
  BY <1>1, <1>3
<1>5. l.kind \notin {"meta fails", "fails", "blank"}
  BY DEF HeaderKinds
<1>6. Placed(c, q, g, n + 1) <=> l.kind = "header" /\ l.whole
  BY <1>2, <1>4, <1>5 DEF Placed
<1>7. \A k \in g..Len(q) : q[k].kind # "blank"
  <2>1. \A k \in g..Len(q) : k = n + 1
    BY <1>2, <1>3
  <2> QED
    BY <1>2, <1>5, <2>1
<1>8. /\ l.whole => Fits("header", q, g) /\ Fits("body", q, g)
      /\ ~l.whole => Fits("in header", q, g) /\ Fits("skipping", q, g)
  BY <1>2, <1>3, <1>4, <1>7 DEF Fits, InsideLine
<1> QED
  BY <1>2, <1>3, <1>6, <1>8

(* A line after the header, before any blank line. *)
LEMMA BodyPlace ==
  ASSUME NEW c, NEW r \in Seq(Lines), NEW l \in Lines, Len(r) > 0, r[1].kind = "fileformat",
         NEW h, FirstHeader(h, r), h <= Len(r), \A k \in h..Len(r) : r[k].kind # "blank",
         NEW q, q = Append(r, l), NEW g, FirstHeader(g, q), l.kind # "blank"
  PROVE  /\ l.whole => Fits("body", q, g)
         /\ ~l.whole /\ l.kind \in RecordKinds => Fits("in record", q, g)
         /\ ~l.whole /\ l.kind = "broken" => Fits("in broken", q, g)
         /\ ~l.whole => Fits("skipping", q, g)
         /\ g <= Len(q)
         /\ Placed(c, q, g, Len(q)) <=>
              /\ l.kind \in RecordKinds /\ (l.whole \/ ~c.v43)
              /\ l.kind # "fails" \/ c.level = "error"
<1>1. PICK n \in Nat : n = Len(r)
  OBVIOUS
<1>2. /\ Len(q) = n + 1 /\ q[n + 1] = l /\ q[1].kind = "fileformat" /\ q \in Seq(Lines)
      /\ \A i \in 1..n : q[i] = r[i]
  BY <1>1, AppendLine
<1>3. g = h /\ g \in 2..n
  <2>1. FirstHeader(NextHeader(h, r, l), q)
    BY HeaderAppend
  <2>2. NextHeader(h, r, l) = h
    BY DEF NextHeader
  <2>3. h \in 2..n
    BY <1>1 DEF FirstHeader
  <2> QED
    BY <1>2, <2>1, <2>2, <2>3, FirstHeaderUnique
<1>4. n + 1 # 1 /\ n + 1 \notin 2..(g - 1) /\ n + 1 # g /\ n + 1 > g
  BY <1>1, <1>3
<1>5. \A k \in g..(n + 1) : q[k].kind # "blank"
  <2>1. \A k \in g..(n + 1) : k = n + 1 \/ (k \in 1..n /\ k \in h..n)
    BY <1>1, <1>3
  <2> QED
    BY <1>1, <1>2, <2>1
<1>6. Placed(c, q, g, n + 1) <=>
              /\ l.kind \in RecordKinds /\ (l.whole \/ ~c.v43)
              /\ l.kind # "fails" \/ c.level = "error"
  BY <1>2, <1>4, <1>5 DEF Placed, RecordKinds
<1>7. /\ l.whole => Fits("body", q, g)
      /\ ~l.whole /\ l.kind \in RecordKinds => Fits("in record", q, g)
      /\ ~l.whole /\ l.kind = "broken" => Fits("in broken", q, g)
      /\ ~l.whole => Fits("skipping", q, g)
  BY <1>2, <1>3, <1>4, <1>5 DEF Fits, InsideLine
<1>8. Len(q) = n + 1 /\ g <= Len(q)
  BY <1>2, <1>3
<1>9. Placed(c, q, g, Len(q)) <=> Placed(c, q, g, n + 1)
  BY <1>8
<1> QED
  BY <1>6, <1>7, <1>8, <1>9, Zenon

(* A blank line after the header. *)
LEMMA BlankPlace ==
  ASSUME NEW c, NEW r \in Seq(Lines), NEW l \in Lines, Len(r) > 0, r[1].kind = "fileformat",
         NEW h, FirstHeader(h, r), h <= Len(r),
         NEW q, q = Append(r, l), NEW g, FirstHeader(g, q), l.kind = "blank", l.whole
  PROVE  Fits("trailing", q, g) /\ Placed(c, q, g, Len(q))
<1>1. PICK n \in Nat : n = Len(r)
  OBVIOUS
<1>2. Len(q) = n + 1 /\ q[n + 1] = l /\ q[1].kind = "fileformat" /\ q \in Seq(Lines)
  BY <1>1, AppendLine
<1>3. g = h /\ g \in 2..n
  <2>1. FirstHeader(NextHeader(h, r, l), q)
    BY HeaderAppend
  <2>2. NextHeader(h, r, l) = h
    BY DEF NextHeader
  <2>3. h \in 2..n
    BY <1>1 DEF FirstHeader
  <2> QED
    BY <1>2, <2>1, <2>2, <2>3, FirstHeaderUnique
<1>4. n + 1 > g /\ g <= n + 1 /\ g < n + 1
  BY <1>1, <1>3
<1>5. Placed(c, q, g, n + 1)
  BY <1>2, <1>4 DEF Placed
<1>6. Fits("trailing", q, g)
  BY <1>2, <1>4 DEF Fits, InsideLine
<1> QED
  BY <1>2, <1>5, <1>6
-----------------------------------------------------------------------------
(* How many errors the machine finds at once: one, or none. *)
OneError(fs) == fs.errors # << >> /\ Len(fs.errors) = 1
NoError(fs) == fs.errors = << >>

(* The errors in what each part of the machine finds. *)
LEMMA HowManyErrors ==
  ASSUME ParserTypeOK
  PROVE  /\ \A type : OneError(Err(type)) /\ NoError(Warn(type))
         /\ NoError(Nothing) /\ NoError(MetaCheck) /\ NoError(Entering)
         /\ \A kind : IF Semantic /\ kind = "meta fails" THEN OneError(MetaEntryFound(kind))
                                                         ELSE NoError(MetaEntryFound(kind))
         /\ \A kind : IF Semantic /\ kind = "fails" THEN OneError(RecordFound(kind))
                                                    ELSE NoError(RecordFound(kind))
<1>1. \A type : OneError(Err(type)) /\ NoError(Warn(type))
  BY DEF Err, Warn, OneError, NoError
<1>2. NoError(Nothing)
  BY DEF Nothing, NoError
<1>3. NoError(MetaCheck)
  BY <1>1, <1>2 DEF MetaCheck
<1>4. NoError(Entering)
  BY <1>2, <1>3 DEF Entering
<1>5. \A kind : IF Semantic /\ kind = "meta fails" THEN OneError(MetaEntryFound(kind))
                                                   ELSE NoError(MetaEntryFound(kind))
  BY <1>1, <1>2 DEF MetaEntryFound
<1>6. \A kind : IF Semantic /\ kind = "fails" THEN OneError(RecordFound(kind))
                                              ELSE NoError(RecordFound(kind))
  BY <1>1, <1>2 DEF RecordFound
<1> QED
  BY <1>1, <1>2, <1>3, <1>4, <1>5, <1>6

(* The errors in two findings together. *)
LEMMA BothErrors ==
  ASSUME NEW a \in Found, NEW b \in Found
  PROVE  /\ NoError(a) /\ NoError(b) => NoError(Both(a, b))
         /\ NoError(a) /\ OneError(b) => OneError(Both(a, b))
         /\ OneError(a) /\ NoError(b) => OneError(Both(a, b))
<1>1. PICK s, t : s = a.errors /\ t = b.errors
  OBVIOUS
<1>2. s \in Seq(FoundErrors) /\ t \in Seq(FoundErrors)
  BY <1>1 DEF Found
<1>3. Both(a, b).errors = s \o t
  BY <1>1 DEF Both
<1>4. /\ Len(s \o t) = Len(s) + Len(t) /\ Len(s) \in Nat /\ Len(t) \in Nat
      /\ s \o t \in Seq(FoundErrors)
  BY <1>2
<1>5. \A x \in Seq(FoundErrors) : x = << >> <=> Len(x) = 0
  OBVIOUS
<1>6. /\ NoError(a) <=> Len(s) = 0
      /\ NoError(b) <=> Len(t) = 0
      /\ NoError(Both(a, b)) <=> Len(s \o t) = 0
  BY <1>1, <1>2, <1>3, <1>4, <1>5 DEF NoError
<1>7. (OneError(a) => Len(s) = 1) /\ (OneError(b) => Len(t) = 1)
  BY <1>1 DEF OneError
<1>8. Len(s \o t) = 1 => OneError(Both(a, b))
  <2>1. Len(s \o t) = 1 => s \o t # << >>
    BY <1>4, <1>5
  <2> QED
    BY <1>3, <2>1 DEF OneError
<1>9. PICK m, n \in Nat : m = Len(s) /\ n = Len(t) /\ Len(s \o t) = m + n
  BY <1>4
<1>10. (m = 0 /\ n = 0 => m + n = 0) /\ (m = 0 /\ n = 1 => m + n = 1)
       /\ (m = 1 /\ n = 0 => m + n = 1)
  OBVIOUS
<1> QED
  BY <1>6, <1>7, <1>8, <1>9, <1>10, Zenon

-----------------------------------------------------------------------------
(* A line was read, the machine found fs in it and is in state s now.  A   *)
(* whole line has an error exactly if it is not well placed, one that      *)
(* breaks off has one exactly if it is skipped, and s fits the lines read. *)
JudgedLine(l, fs, s) ==
  /\ status \in {"start", "read"}
  /\ read = << >> \/ read[Len(read)].whole
  /\ read' = Append(read, l)
  /\ Outcome(fs, s, "write")
  /\ ignored' = ignored
  /\ Tagged(fs) /\ (NoError(fs) \/ OneError(fs))
  /\ l.whole => (OneError(fs) <=> ~Placed(config, read', HeaderAt', Len(read')))
  /\ ~l.whole => (OneError(fs) <=> s = "skipping")
  /\ s = "skipping" => ~Placed(config, read', HeaderAt', Len(read'))
  /\ Fits(s, read', HeaderAt')
  /\ meta_checks' = ChecksDone(s, read', HeaderAt', config, FALSE)

(* A finding has no error or one. *)
LEMMA NotBoth ==
  ASSUME NEW fs
  PROVE  ~(NoError(fs) /\ OneError(fs))
  BY DEF NoError, OneError

(* The three ways through a line that the machine looks at. *)
LEMMA FollowJudged ==
  ASSUME NEW l, NEW fs, NEW s, Follow(l, fs, s), Tagged(fs), s # "skipping",
         Fits(s, read', HeaderAt'),
         IF Placed(config, read', HeaderAt', Len(read')) THEN NoError(fs) ELSE OneError(fs),
         meta_checks' = ChecksDone(s, read', HeaderAt', config, FALSE)
  PROVE  JudgedLine(l, fs, s)
  BY NotBoth DEF Follow, NextLine, JudgedLine

(* A line that is skipped is out of place and has its error. *)
LEMMA SkipJudged ==
  ASSUME NEW l \in Line, NEW fs, NEW s, Skip(l, fs, s), Tagged(fs), OneError(fs),
         ~Placed(config, read', HeaderAt', Len(read')),
         l.whole => Fits(s, read', HeaderAt'), ~l.whole => Fits("skipping", read', HeaderAt'),
         l.whole => meta_checks' = ChecksDone(s, read', HeaderAt', config, FALSE),
         ~l.whole => meta_checks' = ChecksDone("skipping", read', HeaderAt', config, FALSE)
  PROVE  \E t : JudgedLine(l, fs, t)
<1>0. l.whole \in BOOLEAN
  BY DEF Line
<1>1. PICK t : t = IF l.whole THEN s ELSE "skipping"
  OBVIOUS
<1>2. /\ Fits(t, read', HeaderAt') /\ (~l.whole => t = "skipping")
      /\ meta_checks' = ChecksDone(t, read', HeaderAt', config, FALSE)
  BY <1>0, <1>1
<1>3. JudgedLine(l, fs, t)
  BY <1>0, <1>1, <1>2 DEF Skip, NextLine, JudgedLine
<1> QED
  BY <1>3

(* An unfinished line is judged at the end of the file. *)
LEMMA BreakOffJudged ==
  ASSUME NEW l, NEW fs, NEW s, BreakOff(l, fs, s), Tagged(fs), NoError(fs), s # "skipping",
         Fits(s, read', HeaderAt'),
         meta_checks' = ChecksDone(s, read', HeaderAt', config, FALSE)
  PROVE  JudgedLine(l, fs, s)
  BY NotBoth DEF BreakOff, NextLine, JudgedLine

(* The machine is between two lines of a file of which none was ignored. *)
Reading == status = "read" /\ ignored = {} /\ ParserInv /\ SectionInv /\ ChecksInv

(* What holds when a line is read. *)
LEMMA ReadingLine ==
  ASSUME Reading, NEW l \in Line, NextLine(l)
  PROVE  /\ read \in Seq(Lines) /\ Len(read) > 0 /\ l \in Lines /\ l.whole \in BOOLEAN
         /\ read' = Append(read, l)
         /\ read[1].kind = "fileformat" /\ Fits(cs, read, HeaderAt)
         /\ FirstHeader(HeaderAt, read) /\ FirstHeader(HeaderAt', read')
         /\ meta_checks = ChecksDone(cs, read, HeaderAt, config, FALSE)
<1>1. read \in Seq(Lines) /\ l \in Lines /\ l.whole \in BOOLEAN /\ read' = Append(read, l)
  BY DEF Reading, ParserInv, ParserTypeOK, Lines, Line, NextLine
<1>2. Clean /\ ~Ended
  BY DEF Reading, Clean, Ended
<1>3. Fits(cs, read, HeaderAt) /\ read # << >>
  BY <1>2 DEF Reading, SectionInv
<1>4. Len(read) > 0 /\ Len(read) \in Nat
  BY <1>1, <1>3
<1>5. FirstHeader(HeaderAt, read)
  BY <1>1, <1>4, HeaderOfIsFirst, HeaderAtForm
<1>6. FirstHeader(HeaderAt', read')
  <2>1. read' \in Seq(Lines) /\ Len(read') > 0
    BY <1>1, <1>4, AppendLine
  <2> QED
    BY <2>1, HeaderOfIsFirst, HeaderAtForm
<1>7. meta_checks = ChecksDone(cs, read, HeaderAt, config, Ended)
  BY DEF Reading, ChecksInv
<1>8. ChecksDone(cs, read, HeaderAt, config, Ended) = ChecksDone(cs, read, HeaderAt, config, FALSE)
  BY <1>2 DEF ChecksDone
<1>9. read[1].kind = "fileformat"
  BY <1>3 DEF Fits
<1> QED
  BY <1>1, <1>3, <1>4, <1>5, <1>6, <1>7, <1>8, <1>9

(* In the meta section no header was read and nothing checked. *)
LEMMA ReadingMeta ==
  ASSUME Reading, NEW l \in Line, NextLine(l), InMeta
  PROVE  FirstHeader(Len(read) + 1, read) /\ meta_checks = 0
<1>1. /\ read \in Seq(Lines) /\ FirstHeader(HeaderAt, read) /\ Fits(cs, read, HeaderAt)
      /\ meta_checks = ChecksDone(cs, read, HeaderAt, config, FALSE)
  BY ReadingLine
<1>2. Len(read) \in Nat /\ HeaderAt \in 2..(Len(read) + 1)
  BY <1>1 DEF FirstHeader
<1>3. HeaderAt = Len(read) + 1
  <2>1. Len(read) = 1 \/ HeaderAt = Len(read) + 1
    BY <1>1, Zenon DEF InMeta, Fits
  <2>2. Len(read) = 1 => HeaderAt = Len(read) + 1
    BY <1>2
  <2> QED
    BY <2>1, <2>2
<1>4. meta_checks = 0
  BY <1>1 DEF InMeta, ChecksDone
<1> QED
  BY <1>1, <1>3, <1>4

(* After the header and before any blank line: the meta section was        *)
(* checked unless the header was the last line.                            *)
LEMMA ReadingBody ==
  ASSUME Reading, NEW l \in Line, NextLine(l), InBody, CountEntering
  PROVE  /\ HeaderAt <= Len(read) /\ \A k \in HeaderAt..Len(read) : read[k].kind # "blank"
         /\ meta_checks' = 1
<1>1. /\ read \in Seq(Lines) /\ FirstHeader(HeaderAt, read) /\ Fits(cs, read, HeaderAt)
      /\ meta_checks = ChecksDone(cs, read, HeaderAt, config, FALSE)
  BY ReadingLine
<1>2. Len(read) \in Nat /\ HeaderAt \in 2..(Len(read) + 1)
  BY <1>1 DEF FirstHeader
<1>3. HeaderAt <= Len(read) /\ \A k \in HeaderAt..Len(read) : read[k].kind # "blank"
  <2>1. HeaderAt = Len(read) \/ HeaderAt <= Len(read)
    BY <1>1, Zenon DEF InBody, Fits
  <2>2. \A k \in HeaderAt..Len(read) : read[k].kind # "blank"
    BY <1>1, Zenon DEF InBody, Fits
  <2> QED
    BY <1>2, <2>1, <2>2
<1>4. meta_checks = IF cs = "header" THEN 0 ELSE 1
  BY <1>1 DEF InBody, ChecksDone
<1>5. meta_checks' = 1
  BY <1>4 DEF CountEntering, InBody
<1> QED
  BY <1>3, <1>5

(* Entries, and other lines, of the meta section. *)
LEMMA MetaLinesJudged ==
  ASSUME Reading, NEW l \in Line, MetaLine(l) \/ MetaError(l)
  PROVE  \E fs, s : JudgedLine(l, fs, s)
<1>1. NextLine(l) /\ InMeta /\ meta_checks' = meta_checks /\ l.kind \notin HeaderKinds
  BY DEF MetaLine, MetaError, Follow, Skip, BreakOff, MetaKinds, RecordKinds, HeaderKinds
<1>2. /\ read \in Seq(Lines) /\ Len(read) > 0 /\ l \in Lines /\ l.whole \in BOOLEAN
      /\ read' = Append(read, l) /\ read[1].kind = "fileformat"
      /\ FirstHeader(HeaderAt', read')
  BY <1>1, ReadingLine
<1>3. FirstHeader(Len(read) + 1, read) /\ meta_checks' = 0
  BY <1>1, ReadingMeta
<1>4. /\ l.whole => Fits("meta", read', HeaderAt')
      /\ ~l.whole => Fits("in meta", read', HeaderAt') /\ Fits("skipping", read', HeaderAt')
      /\ HeaderAt' = Len(read') + 1
      /\ Placed(config, read', HeaderAt', Len(read')) <=>
           /\ l.kind \in MetaKinds \cup {"meta fails"} /\ l.whole
           /\ l.kind # "meta fails" \/ config.level = "error"
  BY <1>1, <1>2, <1>3, MetaPlace
<1>5. /\ ChecksDone("meta", read', HeaderAt', config, FALSE) = 0
      /\ ChecksDone("in meta", read', HeaderAt', config, FALSE) = 0
      /\ ChecksDone("skipping", read', HeaderAt', config, FALSE) = 0
  <2>1. Len(read') \in Nat
    BY <1>2, AppendLine
  <2>2. PICK h : h = HeaderAt'
    OBVIOUS
  <2>3. h = Len(read') + 1
    BY <1>4, <2>2, Zenon
  <2>4. ~(HeaderAt' <= Len(read'))
    BY <2>1, <2>2, <2>3
  <2> QED
    BY <2>4 DEF ChecksDone
<1>6. ParserTypeOK
  BY DEF Reading, ParserInv
<1>7. CASE MetaLine(l)
  <2>1. l.kind \in MetaKinds \cup {"meta fails"}
    BY <1>7 DEF MetaLine
  <2>2. CASE Follow(l, MetaEntryFound(l.kind), "meta")
    <3>1. l.whole
      BY <2>2 DEF Follow
    <3>2. IF Placed(config, read', HeaderAt', Len(read'))
            THEN NoError(MetaEntryFound(l.kind)) ELSE OneError(MetaEntryFound(l.kind))
      BY <1>4, <1>6, <2>1, <3>1, HowManyErrors DEF Semantic, level
    <3>3. Tagged(MetaEntryFound(l.kind))
      BY <1>6, FindingsTagged
    <3> QED
      BY <1>3, <1>4, <1>5, <2>2, <3>1, <3>2, <3>3, FollowJudged
  <2>3. CASE BreakOff(l, Nothing, "in meta")
    <3>1. ~l.whole
      BY <2>3 DEF BreakOff
    <3>2. Tagged(Nothing) /\ NoError(Nothing)
      BY <1>6, TaggedNothing, HowManyErrors
    <3> QED
      BY <1>3, <1>4, <1>5, <2>3, <3>1, <3>2, BreakOffJudged
  <2> QED
    BY <1>7, <2>2, <2>3 DEF MetaLine
<1>8. CASE MetaError(l)
  <2>1. PICK type \in Types :
          Skip(l, Err(type), "meta") \/ BreakOff(l, Nothing, "in meta")
    BY <1>8 DEF MetaError, Types
  <2>2. CASE Skip(l, Err(type), "meta")
    <3>1. l.kind \notin MetaKinds \cup {"meta fails"}
      BY <1>8 DEF MetaError, MetaKinds, RecordKinds
    <3>2. Tagged(Err(type)) /\ OneError(Err(type))
      BY <1>6, ErrTagged, HowManyErrors
    <3>3. ~Placed(config, read', HeaderAt', Len(read'))
      BY <1>4, <3>1, Zenon
    <3>4. /\ l.whole => Fits("meta", read', HeaderAt')
          /\ ~l.whole => Fits("skipping", read', HeaderAt')
          /\ l.whole => meta_checks' = ChecksDone("meta", read', HeaderAt', config, FALSE)
          /\ ~l.whole => meta_checks' = ChecksDone("skipping", read', HeaderAt', config, FALSE)
      BY <1>3, <1>4, <1>5, Zenon
    <3>6. \E t : JudgedLine(l, Err(type), t)
      BY <2>2, <3>2, <3>3, <3>4, SkipJudged, Zenon
    <3> QED
      BY <3>6, Zenon
  <2>3. CASE BreakOff(l, Nothing, "in meta")
    <3>1. ~l.whole
      BY <2>3 DEF BreakOff
    <3>2. Tagged(Nothing) /\ NoError(Nothing)
      BY <1>6, TaggedNothing, HowManyErrors
    <3> QED
      BY <1>3, <1>4, <1>5, <2>3, <3>1, <3>2, BreakOffJudged
  <2> QED
    BY <2>1, <2>2, <2>3
<1> QED
  BY <1>7, <1>8

(* The header, right or broken. *)
LEMMA HeaderLinesJudged ==
  ASSUME Reading, NEW l \in Line, HeaderLine(l) \/ HeaderError(l)
  PROVE  \E fs, s : JudgedLine(l, fs, s)
<1>1. NextLine(l) /\ InMeta /\ l.kind \in HeaderKinds
  BY DEF HeaderLine, HeaderError, Follow, Skip, BreakOff, HeaderKinds
<1>2. /\ read \in Seq(Lines) /\ Len(read) > 0 /\ l \in Lines /\ l.whole \in BOOLEAN
      /\ read' = Append(read, l) /\ read[1].kind = "fileformat"
      /\ FirstHeader(HeaderAt', read')
  BY <1>1, ReadingLine
<1>3. FirstHeader(Len(read) + 1, read) /\ meta_checks = 0
  BY <1>1, ReadingMeta
<1>4. /\ l.whole => Fits("header", read', HeaderAt') /\ Fits("body", read', HeaderAt')
      /\ ~l.whole => Fits("in header", read', HeaderAt') /\ Fits("skipping", read', HeaderAt')
      /\ HeaderAt' = Len(read')
      /\ Placed(config, read', HeaderAt', Len(read')) <=> l.kind = "header" /\ l.whole
  BY <1>1, <1>2, <1>3, HeaderPlace
<1>5. /\ ChecksDone("header", read', HeaderAt', config, FALSE) = 0
      /\ ChecksDone("in header", read', HeaderAt', config, FALSE) = 0
      /\ ChecksDone("body", read', HeaderAt', config, FALSE) = 1
      /\ ChecksDone("skipping", read', HeaderAt', config, FALSE) = 1
  <2>1. Len(read') \in Nat
    BY <1>2, AppendLine
  <2>2. PICK h : h = HeaderAt'
    OBVIOUS
  <2>3. h = Len(read')
    BY <1>4, <2>2, Zenon
  <2>4. HeaderAt' <= Len(read')
    BY <2>1, <2>2, <2>3
  <2> QED
    BY <2>4 DEF ChecksDone
<1>6. ParserTypeOK /\ Tagged(Nothing) /\ NoError(Nothing)
  BY TaggedNothing, HowManyErrors DEF Reading, ParserInv
<1>7. CASE BreakOff(l, Nothing, "in header") /\ meta_checks' = meta_checks
  <2>1. ~l.whole
    BY <1>7 DEF BreakOff
  <2> QED
    BY <1>3, <1>4, <1>5, <1>6, <1>7, <2>1, BreakOffJudged
<1>8. CASE Follow(l, Nothing, "header") /\ meta_checks' = meta_checks /\ l.kind = "header"
  <2>1. l.whole
    BY <1>8 DEF Follow
  <2> QED
    BY <1>3, <1>4, <1>5, <1>6, <1>8, <2>1, FollowJudged
<1>9. CASE /\ Skip(l, Both(Err("HeaderSectionError"), MetaCheck), "body")
           /\ meta_checks' = meta_checks + 1 /\ l.kind = "header broken"
  <2>1. Tagged(Err("HeaderSectionError")) /\ Tagged(MetaCheck)
    BY <1>6, ErrTagged, FindingsTagged DEF Types
  <2>2. OneError(Err("HeaderSectionError")) /\ NoError(MetaCheck)
    BY <1>6, HowManyErrors
  <2>3. Tagged(Both(Err("HeaderSectionError"), MetaCheck))
    BY <2>1, BothTagged
  <2>4. OneError(Both(Err("HeaderSectionError"), MetaCheck))
    BY <2>1, <2>2, BothErrors DEF Tagged
  <2>5. meta_checks' = 1
    <3>1. meta_checks = 0 /\ meta_checks' = meta_checks + 1
      BY <1>3, <1>9, Zenon
    <3> QED
      BY <3>1
  <2>6. ~Placed(config, read', HeaderAt', Len(read'))
    BY <1>4, <1>9
  <2>7. /\ l.whole => Fits("body", read', HeaderAt')
        /\ ~l.whole => Fits("skipping", read', HeaderAt')
        /\ l.whole => meta_checks' = ChecksDone("body", read', HeaderAt', config, FALSE)
        /\ ~l.whole => meta_checks' = ChecksDone("skipping", read', HeaderAt', config, FALSE)
    BY <1>4, <1>5, <2>5, Zenon
  <2>9. \E t : JudgedLine(l, Both(Err("HeaderSectionError"), MetaCheck), t)
    BY <1>9, <2>3, <2>4, <2>6, <2>7, SkipJudged, Zenon
  <2> QED
    BY <2>9, Zenon
<1> QED
  BY <1>7, <1>8, <1>9, Zenon DEF HeaderLine, HeaderError

(* Lines of the body section. *)
LEMMA RecordLinesJudged ==
  ASSUME Reading, NEW l \in Line, RecordLine(l) \/ RecordError(l)
  PROVE  \E fs, s : JudgedLine(l, fs, s)
<1>1. NextLine(l) /\ InBody /\ CountEntering /\ l.kind # "blank"
  BY DEF RecordLine, RecordError, Follow, Skip, BreakOff, RecordKinds, HashKinds, MetaKinds
<1>2. /\ read \in Seq(Lines) /\ Len(read) > 0 /\ l \in Lines /\ l.whole \in BOOLEAN
      /\ read' = Append(read, l) /\ read[1].kind = "fileformat"
      /\ FirstHeader(HeaderAt, read) /\ FirstHeader(HeaderAt', read')
  BY <1>1, ReadingLine
<1>3. /\ HeaderAt <= Len(read) /\ \A k \in HeaderAt..Len(read) : read[k].kind # "blank"
      /\ meta_checks' = 1
  BY <1>1, ReadingBody
<1>4. /\ l.whole => Fits("body", read', HeaderAt')
      /\ ~l.whole /\ l.kind \in RecordKinds => Fits("in record", read', HeaderAt')
      /\ ~l.whole /\ l.kind = "broken" => Fits("in broken", read', HeaderAt')
      /\ ~l.whole => Fits("skipping", read', HeaderAt')
      /\ HeaderAt' <= Len(read')
      /\ Placed(config, read', HeaderAt', Len(read')) <=>
           /\ l.kind \in RecordKinds /\ (l.whole \/ ~config.v43)
           /\ l.kind # "fails" \/ config.level = "error"
  BY <1>1, <1>2, <1>3, BodyPlace
<1>5. /\ ChecksDone("body", read', HeaderAt', config, FALSE) = 1
      /\ ChecksDone("in record", read', HeaderAt', config, FALSE) = 1
      /\ ChecksDone("in broken", read', HeaderAt', config, FALSE) = 1
      /\ ChecksDone("skipping", read', HeaderAt', config, FALSE) = 1
  BY <1>4 DEF ChecksDone
<1>6. /\ ParserTypeOK /\ Tagged(Entering) /\ NoError(Entering)
      /\ Tagged(RecordFound(l.kind)) /\ Tagged(MetaCheck) /\ NoError(MetaCheck)
  BY FindingsTagged, HowManyErrors DEF Reading, ParserInv
<1>7. CASE Follow(l, Both(Entering, RecordFound(l.kind)), "body") /\ l.kind \in RecordKinds
  <2>1. l.whole
    BY <1>7 DEF Follow
  <2>2. IF Placed(config, read', HeaderAt', Len(read'))
          THEN NoError(RecordFound(l.kind)) ELSE OneError(RecordFound(l.kind))
    BY <1>4, <1>6, <1>7, <2>1, HowManyErrors DEF Semantic, level
  <2>3. IF Placed(config, read', HeaderAt', Len(read'))
          THEN NoError(Both(Entering, RecordFound(l.kind)))
          ELSE OneError(Both(Entering, RecordFound(l.kind)))
    BY <1>6, <2>2, BothErrors DEF Tagged
  <2>4. Tagged(Both(Entering, RecordFound(l.kind)))
    BY <1>6, BothTagged
  <2> QED
    BY <1>3, <1>4, <1>5, <1>7, <2>1, <2>3, <2>4, FollowJudged
<1>8. CASE BreakOff(l, Entering, "in record") /\ l.kind \in RecordKinds
  <2>1. ~l.whole
    BY <1>8 DEF BreakOff
  <2> QED
    BY <1>3, <1>4, <1>5, <1>6, <1>8, <2>1, BreakOffJudged
<1>9. CASE BreakOff(l, Entering, "in broken") /\ l.kind = "broken"
  <2>1. ~l.whole
    BY <1>9 DEF BreakOff
  <2> QED
    BY <1>3, <1>4, <1>5, <1>6, <1>9, <2>1, BreakOffJudged
<1>10. ASSUME NEW fs, Skip(l, fs, "body"), Tagged(fs), OneError(fs), l.kind \notin RecordKinds
       PROVE  \E f, s : JudgedLine(l, f, s)
  <2>1. ~Placed(config, read', HeaderAt', Len(read'))
    BY <1>4, <1>10, Zenon
  <2>2. /\ l.whole => Fits("body", read', HeaderAt')
        /\ ~l.whole => Fits("skipping", read', HeaderAt')
        /\ l.whole => meta_checks' = ChecksDone("body", read', HeaderAt', config, FALSE)
        /\ ~l.whole => meta_checks' = ChecksDone("skipping", read', HeaderAt', config, FALSE)
    BY <1>3, <1>4, <1>5, Zenon
  <2>4. \E t : JudgedLine(l, fs, t)
    BY <1>10, <2>1, <2>2, SkipJudged, Zenon
  <2> QED
    BY <2>4, Zenon
<1>11. CASE RecordError(l)
  <2>1. /\ Tagged(Err("BodyError")) /\ OneError(Err("BodyError"))
        /\ Tagged(Err("HeaderSectionError")) /\ OneError(Err("HeaderSectionError"))
    BY <1>6, ErrTagged, HowManyErrors DEF Types
  <2>2. /\ Tagged(Both(Entering, Err("BodyError")))
        /\ Tagged(Both(Err("HeaderSectionError"), MetaCheck))
    BY <1>6, <2>1, BothTagged
  <2>3. /\ OneError(Both(Entering, Err("BodyError")))
        /\ OneError(Both(Err("HeaderSectionError"), MetaCheck))
    BY <1>6, <2>1, BothErrors DEF Tagged
  <2>4. l.kind \notin RecordKinds
    BY <1>11 DEF RecordError, RecordKinds, HashKinds, MetaKinds
  <2>5. \/ Skip(l, Both(Entering, Err("BodyError")), "body")
        \/ BreakOff(l, Entering, "in broken") /\ l.kind = "broken"
        \/ Skip(l, Both(Err("HeaderSectionError"), MetaCheck), "body")
        \/ Skip(l, Err("BodyError"), "body")
    BY <1>11 DEF RecordError
  <2> QED
    BY <1>9, <1>10, <2>1, <2>2, <2>3, <2>4, <2>5
<1> QED
  BY <1>7, <1>8, <1>11, Zenon DEF RecordLine

(* Blank lines after the header. *)
LEMMA BlankLineJudged ==
  ASSUME Reading, NEW l \in Line, BlankLine(l)
  PROVE  \E fs, s : JudgedLine(l, fs, s)
<1>1. /\ NextLine(l) /\ (InBody \/ cs = "trailing") /\ CountEntering /\ l.kind = "blank"
      /\ l.whole /\ Follow(l, Entering, "trailing")
  BY DEF BlankLine, Follow
<1>2. /\ read \in Seq(Lines) /\ Len(read) > 0 /\ l \in Lines
      /\ read' = Append(read, l) /\ read[1].kind = "fileformat" /\ Fits(cs, read, HeaderAt)
      /\ FirstHeader(HeaderAt, read) /\ FirstHeader(HeaderAt', read')
      /\ meta_checks = ChecksDone(cs, read, HeaderAt, config, FALSE)
  BY <1>1, ReadingLine
<1>3. HeaderAt <= Len(read) /\ meta_checks' = 1
  <2>1. CASE InBody
    BY <1>1, <2>1, ReadingBody
  <2>2. CASE cs = "trailing"
    <3>1. HeaderAt <= Len(read)
      BY <1>2, <2>2, Zenon DEF Fits
    <3>2. meta_checks = 1
      BY <1>2, <2>2 DEF ChecksDone
    <3> QED
      BY <1>1, <2>2, <3>1, <3>2 DEF CountEntering
  <2> QED
    BY <1>1, <2>1, <2>2
<1>4. Fits("trailing", read', HeaderAt') /\ Placed(config, read', HeaderAt', Len(read'))
  BY <1>1, <1>2, <1>3, BlankPlace
<1>5. ChecksDone("trailing", read', HeaderAt', config, FALSE) = 1
  BY DEF ChecksDone
<1>6. Tagged(Entering) /\ NoError(Entering)
  BY FindingsTagged, HowManyErrors DEF Reading, ParserInv
<1> QED
  BY <1>1, <1>3, <1>4, <1>5, <1>6, FollowJudged

(* Every line that the machine looks at is judged. *)
LEMMA LinesJudged ==
  ASSUME Reading, NEW l \in Line, ParseLine(l)
  PROVE  ignored' # {} \/ \E fs, s : JudgedLine(l, fs, s)
<1>1. CASE TextAfterBlank(l) \/ DeadLine(l)
  BY <1>1 DEF TextAfterBlank, DeadLine, Ignore
<1>2. cs # "restart"
  <2>1. Clean /\ cs # "start" => Fits(cs, read, HeaderAt)
    BY DEF Reading, SectionInv
  <2> QED
    BY <2>1, Zenon DEF Reading, Clean, Fits
<1>3. ~RestartLine(l)
  BY <1>2 DEF RestartLine
<1> QED
  BY <1>1, <1>3, MetaLinesJudged, HeaderLinesJudged, RecordLinesJudged, BlankLineJudged
  DEF ParseLine

-----------------------------------------------------------------------------
(* Lines keep their place when one more is read. *)
LEMMA PlaceKept ==
  ASSUME read \in Seq(Lines), NEW l \in Lines, read' = Append(read, l), config' = config,
         NEW i \in 1..Len(read)
  PROVE  WellPlaced(i)' <=> WellPlaced(i)
<1>1. Len(read) > 0
  OBVIOUS
<1>2. FirstHeader(HeaderAt, read)
  BY <1>1, HeaderOfIsFirst, HeaderAtForm
<1>3. read' \in Seq(Lines) /\ Len(read') > 0
  BY <1>1, AppendLine
<1>4. FirstHeader(HeaderAt', read')
  BY <1>3, HeaderOfIsFirst, HeaderAtForm
<1>5. FirstHeader(NextHeader(HeaderAt, read, l), read')
  BY <1>1, <1>2, HeaderAppend
<1>6. HeaderAt' = NextHeader(HeaderAt, read, l)
  BY <1>3, <1>4, <1>5, FirstHeaderUnique
<1>7. Placed(config, Append(read, l), NextHeader(HeaderAt, read, l), i) <=>
        Placed(config, read, HeaderAt, i)
  BY <1>1, <1>2, PlacedAppend
<1>8. /\ WellPlaced(i) <=> Placed(config, read, HeaderAt, i)
      /\ WellPlaced(i)' <=> Placed(config', read', HeaderAt', i)
  BY PlacedForm
<1>9. Placed(config', read', HeaderAt', i) <=>
        Placed(config, Append(read, l), NextHeader(HeaderAt, read, l), i)
  BY <1>6
<1> QED
  BY <1>7, <1>8, <1>9, Zenon

(* The meta section is checked at most once. *)
LEMMA ChecksAtMostOne ==
  ASSUME NEW s, NEW r, NEW h, NEW c, NEW ended
  PROVE  ChecksDone(s, r, h, c, ended) \in {0, 1}
  BY DEF ChecksDone

(* The state of the machine fits the lines after one more was judged. *)
LEMMA SectionAfterLine ==
  ASSUME ParserInv, SectionInv, ignored = {}, NEW l \in Lines, NEW fs, NEW s,
         JudgedLine(l, fs, s)
  PROVE  SectionInv' /\ ChecksInv'
<1>1. /\ read \in Seq(Lines) /\ status \in {"start", "read"} /\ read' = Append(read, l)
      /\ read = << >> \/ read[Len(read)].whole
      /\ cs' = s /\ config' = config /\ Fits(s, read', HeaderAt')
      /\ status' \in {"write", "terminated"}
      /\ meta_checks' = ChecksDone(s, read', HeaderAt', config, FALSE)
  BY DEF JudgedLine, Outcome, ParserInv, ParserTypeOK, Lines
<1>2. /\ Len(read) \in Nat /\ Len(read') = Len(read) + 1 /\ read' \in Seq(Lines)
      /\ \A i \in 1..Len(read) : read'[i] = read[i]
  BY <1>1, AppendLine
<1>3. \A i \in 1..(Len(read) - 1) : read[i].whole
  BY <1>1 DEF SectionInv, Clean
<1>4. \A i \in 1..(Len(read') - 1) : read'[i].whole
  <2> SUFFICES ASSUME NEW i \in 1..(Len(read') - 1)
               PROVE  read'[i].whole
    OBVIOUS
  <2>1. i \in 1..Len(read) /\ (i \in 1..(Len(read) - 1) \/ i = Len(read)) /\ Len(read) # 0
    BY <1>2
  <2>2. read # << >>
    BY <2>1
  <2> QED
    BY <1>1, <1>2, <1>3, <2>1, <2>2
<1>5. s # "start" /\ read' # << >>
  <2>1. s # "start"
    BY <1>1, Zenon DEF Fits
  <2>2. Len(read') > 0
    BY <1>2
  <2> QED
    BY <1>2, <2>1, <2>2
<1>6. SectionInv'
  BY <1>1, <1>4, <1>5 DEF SectionInv
<1>7. meta_checks' <= 1
  <2>1. meta_checks' \in {0, 1}
    BY <1>1, ChecksAtMostOne
  <2> QED
    BY <2>1
<1>8. status' # "terminated" =>
        meta_checks' = ChecksDone(cs', read', HeaderAt', config', Ended')
  <2> SUFFICES ASSUME status' # "terminated"
               PROVE  meta_checks' = ChecksDone(cs', read', HeaderAt', config', Ended')
    OBVIOUS
  <2>1. ~Ended'
    BY <1>1 DEF Ended
  <2>2. ChecksDone(s, read', HeaderAt', config, Ended') =
          ChecksDone(s, read', HeaderAt', config, FALSE)
    BY <2>1 DEF ChecksDone
  <2> QED
    BY <1>1, <2>2
<1>9. ChecksInv'
  BY <1>7, <1>8 DEF ChecksInv
<1> QED
  BY <1>6, <1>9

(* Errors found about one line, and those written before. *)
LEMMA BlamedNow ==
  ASSUME NEW rep, NEW es \in Seq(FoundErrors), NEW n, \A k \in 1..Len(es) : es[k].at = n, NEW i
  PROVE  /\ Blamed(rep, es, i) <=> ErrorIn(rep, i) \/ (i = n /\ es # << >>)
         /\ Blamed(rep, << >>, i) <=> ErrorIn(rep, i)
<1>1. es # << >> <=> 1 \in 1..Len(es)
  OBVIOUS
<1>2. (\E k \in 1..Len(es) : es[k].at = i) <=> i = n /\ es # << >>
  <2>1. ASSUME NEW k \in 1..Len(es), es[k].at = i
        PROVE  i = n /\ es # << >>
    BY <2>1
  <2>2. i = n /\ es # << >> => \E k \in 1..Len(es) : es[k].at = i
    BY <1>1
  <2> QED
    BY <2>1, <2>2
<1>3. ~ \E k \in 1..Len(<< >>) : << >>[k].at = i
  OBVIOUS
<1> QED
  BY <1>2, <1>3 DEF Blamed

(* Every line has its error after one more was judged. *)
LEMMA ErrorsAfterLine ==
  ASSUME ParserInv, SectionInv, ErrorsInv, ignored = {}, NEW l \in Lines, NEW fs, NEW s,
         JudgedLine(l, fs, s)
  PROVE  ErrorsInv'
<1> SUFFICES ASSUME Clean'
             PROVE  ErrorsInv'
  BY DEF ErrorsInv
<1>1. /\ read \in Seq(Lines) /\ status \in {"start", "read"} /\ read' = Append(read, l)
      /\ read = << >> \/ read[Len(read)].whole
      /\ cs' = s /\ config' = config /\ report' = report
      /\ status' = "write" /\ found' = fs /\ Tagged(fs)
  BY DEF JudgedLine, Outcome, ParserInv, ParserTypeOK, Lines, Clean
<1>2. PICK n \in Nat : n = Len(read) /\ Len(read') = n + 1 /\ read'[n + 1] = l
  BY <1>1, AppendLine
<1>3. Here = n + 1
  BY <1>1, <1>2, HereMoves DEF ParserInv
<1>4. Pending = << >> /\ Pending' = fs.errors /\ ~Ended /\ ~Ended' /\ Clean
  BY <1>1 DEF Pending, Ended, Clean
<1>5. PICK es \in Seq(FoundErrors) : es = fs.errors /\ \A k \in 1..Len(es) : es[k].at = n + 1
  BY <1>1, <1>3 DEF Tagged, Found
<1>6. \A i : /\ Blamed(report, es, i) <=> ErrorIn(report, i) \/ (i = n + 1 /\ es # << >>)
             /\ Blamed(report, << >>, i) <=> ErrorIn(report, i)
  BY <1>5, BlamedNow
<1>7. es # << >> <=> OneError(fs)
  BY <1>5, NotBoth DEF JudgedLine, NoError
<1>8. /\ Once(report, << >>)
      /\ \A i : Blamed(report, << >>, i) => i \in 1..(Len(read) + (IF Ended THEN 1 ELSE 0))
      /\ \A i \in 1..Len(read) :
           read[i].whole \/ Ended => (Blamed(report, << >>, i) <=> ~WellPlaced(i))
  BY <1>4, Zenon DEF ErrorsInv
<1>9. \A i : ErrorIn(report, i) => i \in 1..n
  <2>1. \A i : Blamed(report, << >>, i) => i \in 1..n
    <3>1. \A i : Blamed(report, << >>, i) => i \in 1..(n + 0)
      BY <1>2, <1>4, <1>8
    <3> QED
      BY <3>1
  <2> QED
    BY <1>6, <2>1, Zenon
<1>10. ~ErrorIn(report, n + 1)
  BY <1>9
<1>11. Once(report, es)
  <2>1. Len(es) <= 1
    <3>1. CASE es = << >>
      <4>1. Len(es) = 0
        BY <3>1
      <4> QED
        BY <4>1
    <3>2. CASE es # << >>
      <4>1. Len(es) = 1
        BY <1>5, <1>7, <3>2 DEF OneError
      <4> QED
        BY <4>1
    <3> QED
      BY <3>1, <3>2
  <2> QED
    BY <1>5, <1>8, <1>10, <2>1 DEF Once
<1>12. \A i : Blamed(report, es, i) => i \in 1..(n + 1)
  BY <1>6, <1>9
<1>13. \A i \in 1..n : read[i].whole
  <2>1. \A i \in 1..(n - 1) : read[i].whole
    BY <1>2, <1>4 DEF SectionInv
  <2>2. \A i \in 1..n : (i \in 1..(n - 1) \/ i = n) /\ n # 0
    OBVIOUS
  <2> QED
    BY <1>1, <1>2, <2>1, <2>2
<1>14. ASSUME NEW i \in 1..n
       PROVE  Blamed(report, es, i) <=> ~WellPlaced(i)'
  <2>1. i # n + 1 /\ i \in 1..Len(read)
    BY <1>2
  <2>2. WellPlaced(i)' <=> WellPlaced(i)
    BY <1>1, <2>1, PlaceKept
  <2>3. Blamed(report, << >>, i) <=> ~WellPlaced(i)
    BY <1>8, <1>13, <2>1
  <2> QED
    BY <1>6, <2>1, <2>2, <2>3, Zenon
<1>15. Blamed(report, es, n + 1) <=> OneError(fs)
  BY <1>6, <1>7, <1>10, Zenon
<1>16. /\ l.whole => (OneError(fs) <=> ~WellPlaced(n + 1)')
       /\ ~l.whole => (OneError(fs) <=> s = "skipping")
       /\ s = "skipping" => ~WellPlaced(n + 1)'
  <2>1. WellPlaced(n + 1)' <=> Placed(config', read', HeaderAt', n + 1)
    BY PlacedForm
  <2>2. WellPlaced(n + 1)' <=> Placed(config, read', HeaderAt', Len(read'))
    BY <1>1, <1>2, <2>1
  <2> QED
    BY <2>2, Zenon DEF JudgedLine
<1>17. \A i \in 1..(n + 1) :
         read'[i].whole => (Blamed(report, es, i) <=> ~WellPlaced(i)')
  <2> SUFFICES ASSUME NEW i \in 1..(n + 1), read'[i].whole
               PROVE  Blamed(report, es, i) <=> ~WellPlaced(i)'
    OBVIOUS
  <2>1. i \in 1..n \/ i = n + 1
    OBVIOUS
  <2>2. CASE i = n + 1
    <3>1. l.whole
      BY <1>2, <2>2
    <3> QED
      BY <1>15, <1>16, <2>2, <3>1, Zenon
  <2> QED
    BY <1>14, <2>1, <2>2
<1> QED
  BY <1>1, <1>2, <1>4, <1>5, <1>11, <1>12, <1>15, <1>16, <1>17 DEF ErrorsInv

(* The place of the first line. *)
LEMMA FirstPlace ==
  ASSUME NEW c, NEW r, NEW k, k = r[1].kind, k = "fileformat" \/ k = "other"
  PROVE  Placed(c, r, 2, 1) <=> k = "fileformat" /\ r[1].whole
<1>1. k \notin {"meta fails", "fails"}
  BY Zenon
<1>2. 1 \notin 2..(2 - 1) /\ ~(1 > 2) /\ ~(1 > 1)
  OBVIOUS
<1> QED
  BY <1>1, <1>2, Zenon DEF Placed

(* The first line is judged as well. *)
LEMMA FirstLineJudged ==
  ASSUME ParserInv, NEW l \in FirstLine, KnownVersion(l), ChecksInv, SectionInv, ignored = {}
  PROVE  l \in Lines /\ \E fs, s : JudgedLine(l, fs, s)
<1>1. /\ read = << >> /\ status = "start" /\ l.kind = "fileformat" /\ l.whole \in BOOLEAN
      /\ l \in Lines /\ read' = Append(read, l) /\ ignored' = ignored
      /\ meta_checks' = meta_checks
  BY DEF ParserInv, StartsEmpty, KnownVersion, FirstLine, Lines
<1>2. PICK s : /\ s = IF l.whole THEN "fileformat" ELSE "in fileformat"
               /\ Outcome(Nothing, s, "write")
  BY DEF KnownVersion
<1>3. read' \in Seq(Lines) /\ Len(read') = 1 /\ read'[1] = l
  BY <1>1
<1>4. HeaderAt' = 2
  <2>1. FirstHeader(HeaderAt', read')
    BY <1>3, HeaderOfIsFirst, HeaderAtForm
  <2>2. HeaderAt' \in 2..2
    BY <1>3, <2>1 DEF FirstHeader
  <2> QED
    BY <2>2
<1>5. PICK h : h = HeaderAt'
  OBVIOUS
<1>6. Placed(config, read', h, 1) <=> l.whole
  <2>1. Placed(config, read', 2, 1) <=> l.kind = "fileformat" /\ read'[1].whole
    BY <1>1, <1>3, FirstPlace
  <2> QED
    BY <1>1, <1>3, <1>4, <1>5, <2>1
<1>7. Fits(s, read', h)
  BY <1>1, <1>2, <1>3, <1>4, <1>5 DEF Fits, InsideLine
<1>8. meta_checks' = ChecksDone(s, read', h, config, FALSE)
  <2>1. cs = "start"
    BY <1>1 DEF SectionInv, Clean
  <2>2. meta_checks = ChecksDone(cs, read, HeaderAt, config, Ended)
    BY <1>1 DEF ChecksInv
  <2>3. meta_checks = 0
    BY <2>1, <2>2 DEF ChecksDone
  <2>4. ChecksDone(s, read', h, config, FALSE) = 0
    BY <1>2 DEF ChecksDone
  <2> QED
    BY <1>1, <2>3, <2>4
<1>9. Tagged(Nothing) /\ NoError(Nothing) /\ ~OneError(Nothing)
  BY TaggedNothing, HowManyErrors, NotBoth DEF ParserInv
<1>10. s # "skipping"
  BY <1>2
<1>11. JudgedLine(l, Nothing, s)
  BY <1>1, <1>2, <1>3, <1>5, <1>6, <1>7, <1>8, <1>9, <1>10 DEF JudgedLine
<1> QED
  BY <1>1, <1>11

(* Once a line was ignored, nothing is claimed any more. *)
LEMMA IgnoredStays ==
  ASSUME [ParserNext]_parserVars, ignored # {}
  PROVE  ignored' # {}
<1>1. \A l \in Line : ParseLine(l) => ignored' = ignored \/ ignored' = ignored \cup {Here}
  BY DEF ParseLine, MetaLine, MetaError, HeaderLine, HeaderError, RecordLine, RecordError,
         BlankLine, TextAfterBlank, DeadLine, RestartLine, Follow, Skip, BreakOff, Ignore
<1>2. \A l \in FirstLine : UnknownVersion(l) \/ KnownVersion(l) => ignored' = ignored
  BY DEF UnknownVersion, KnownVersion
<1>3. RecordEscapes \/ WriteErrors \/ End \/ Finished \/ UNCHANGED parserVars
        => ignored' = ignored
  BY DEF RecordEscapes, WriteErrors, End, Finished, parserVars
<1> QED
  BY <1>1, <1>2, <1>3 DEF ParserNext

(* Once a line is ignored or the process ended, nothing is claimed. *)
LEMMA NothingClaimed ==
  /\ ignored' # {} => SectionInv' /\ ChecksInv' /\ ErrorsInv'
  /\ status' = "terminated" => SectionInv' /\ ErrorsInv'
  BY DEF SectionInv, ChecksInv, ErrorsInv, Clean

(* A record that ends the run: the meta section was checked at most once. *)
LEMMA EscapeChecksOnce ==
  ASSUME ParserInv, SectionInv, ChecksInv, ignored = {}, RecordEscapes
  PROVE  SectionInv' /\ ChecksInv' /\ ErrorsInv'
<1>1. status = "read" /\ status' = "terminated" /\ ignored' = {}
  BY DEF RecordEscapes
<1>2. meta_checks = ChecksDone(cs, read, HeaderAt, config, Ended)
  BY <1>1 DEF ChecksInv
<1>3. meta_checks' <= 1
  <2>1. CASE InBody /\ CountEntering
    <3>1. meta_checks = IF cs = "header" THEN 0 ELSE 1
      BY <1>1, <1>2, <2>1 DEF InBody, ChecksDone, Ended
    <3>2. meta_checks' = 1
      BY <2>1, <3>1 DEF CountEntering, InBody
    <3> QED
      BY <3>2
  <2>2. CASE meta_checks' = meta_checks
    BY <2>2 DEF ChecksInv
  <2> QED
    BY <2>1, <2>2 DEF RecordEscapes
<1> QED
  BY <1>1, <1>3, NothingClaimed DEF ChecksInv

(* No parser was built: one error, about the first line. *)
LEMMA UnknownVersionJudged ==
  ASSUME ParserInv, SectionInv, ChecksInv, ErrorsInv, ignored = {},
         NEW l \in FirstLine, UnknownVersion(l)
  PROVE  SectionInv' /\ ChecksInv' /\ ErrorsInv'
<1>1. /\ read = << >> /\ status = "start" /\ l.kind = "other" /\ l \in Lines
      /\ read' = Append(read, l) /\ ignored' = {} /\ meta_checks' = meta_checks /\ cs' = cs
      /\ status' = "returned" /\ verdict' = "invalid" /\ config' = config
      /\ report' = Err("FileformatError").errors
  BY DEF ParserInv, StartsEmpty, UnknownVersion, Lines
<1>2. read' \in Seq(Lines) /\ Len(read') = 1 /\ read'[1] = l /\ read' # << >>
  BY <1>1
<1>3. cs = "start"
  BY <1>1 DEF SectionInv, Clean
<1>4. SectionInv'
  <2>1. \A i \in 1..(Len(read') - 1) : read'[i].whole
    BY <1>2
  <2> QED
    BY <1>1, <1>2, <1>3, <2>1 DEF SectionInv
<1>5. ChecksInv'
  <2>1. meta_checks = ChecksDone(cs, read, HeaderAt, config, Ended)
    BY <1>1 DEF ChecksInv
  <2>2. meta_checks = 0
    BY <1>3, <2>1 DEF ChecksDone
  <2>3. ChecksDone(cs', read', HeaderAt', config', Ended') = 0
    BY <1>1, <1>3 DEF ChecksDone
  <2> QED
    BY <1>1, <2>2, <2>3 DEF ChecksInv
<1>6. Here = 1
  BY <1>1 DEF Here
<1>7. Len(report') = 1 /\ report'[1].severity = "error" /\ report'[1].at = 1
  BY <1>1, <1>6 DEF Err
<1>8. Pending' = << >> /\ Ended'
  BY <1>1 DEF Pending, Ended
<1>9. \A i : Blamed(report', << >>, i) <=> i = 1
  <2>1. \A i : ErrorIn(report', i) <=> i = 1
    BY <1>7 DEF ErrorIn
  <2> QED
    BY <2>1 DEF Blamed
<1>10. Once(report', << >>)
  BY <1>7 DEF Once
<1>11. ~WellPlaced(1)'
  <2>1. HeaderAt' = 2
    <3>1. FirstHeader(HeaderAt', read')
      BY <1>2, HeaderOfIsFirst, HeaderAtForm
    <3>2. HeaderAt' \in 2..2
      BY <1>2, <3>1 DEF FirstHeader
    <3> QED
      BY <3>2
  <2>2. PICK h : h = HeaderAt'
    OBVIOUS
  <2>3. ~Placed(config', read', h, 1)
    <3>1. Placed(config', read', 2, 1) <=> l.kind = "fileformat" /\ read'[1].whole
      BY <1>1, <1>2, FirstPlace
    <3> QED
      BY <1>1, <2>1, <2>2, <3>1
  <2> QED
    BY <2>2, <2>3, PlacedForm
<1>12. ErrorsInv'
  BY <1>1, <1>2, <1>3, <1>8, <1>9, <1>10, <1>11 DEF ErrorsInv
<1> QED
  BY <1>4, <1>5, <1>12

-----------------------------------------------------------------------------
(* The sequence c is s followed by t. *)
Joined(c, s, t) ==
  /\ Len(s) \in Nat /\ Len(t) \in Nat /\ Len(c) = Len(s) + Len(t)
  /\ \A k \in 1..Len(s) : c[k] = s[k]
  /\ \A k \in 1..Len(t) : c[Len(s) + k] = t[k]

(* A concatenation, index by index. *)
LEMMA JoinedConcat ==
  ASSUME NEW S, NEW s \in Seq(S), NEW t \in Seq(S)
  PROVE  Joined(s \o t, s, t) /\ s \o t \in Seq(S)
<1>1. /\ Len(s) \in Nat /\ Len(t) \in Nat /\ Len(s \o t) = Len(s) + Len(t)
      /\ s \o t \in Seq(S)
  OBVIOUS
<1>2. \A k \in 1..Len(s) : (s \o t)[k] = s[k]
  OBVIOUS
<1>3. \A k \in 1..Len(t) : (s \o t)[Len(s) + k] = t[k]
  OBVIOUS
<1> QED
  BY <1>1, <1>2, <1>3 DEF Joined

(* write_errors adds no error twice and loses none. *)
LEMMA WrittenOnce ==
  ASSUME NEW old, NEW es, NEW ws, NEW mid, NEW new, Joined(mid, old, es), Joined(new, mid, ws),
         \A k \in 1..Len(es) : es[k].severity = "error",
         \A k \in 1..Len(ws) : ws[k].severity = "warning", Once(old, es)
  PROVE  /\ Once(new, << >>)
         /\ \A i : ErrorIn(new, i) <=> Blamed(old, es, i)
<1>1. PICK a, b, d \in Nat : a = Len(old) /\ b = Len(es) /\ d = Len(ws)
  BY DEF Joined
<1>2. PICK m \in Nat : m = a + b
  OBVIOUS
<1>3. /\ Len(mid) = m
      /\ \A k \in 1..a : mid[k] = old[k]
      /\ \A k \in 1..b : mid[a + k] = es[k]
  BY <1>1, <1>2 DEF Joined
<1>4. /\ Len(new) = m + d
      /\ \A k \in 1..m : new[k] = mid[k]
      /\ \A k \in 1..d : new[m + k] = ws[k]
  BY <1>1, <1>3 DEF Joined
<1>5. /\ \A k \in 1..b : es[k].severity = "error"
      /\ \A k \in 1..d : ws[k].severity = "warning"
  BY <1>1
<1>6. \A k \in 1..a : k \in 1..Len(new) /\ new[k] = old[k]
  BY <1>3, <1>2, <1>4
<1>7. \A j \in 1..b : a + j \in 1..Len(new) /\ new[a + j] = es[j]
  <2> SUFFICES ASSUME NEW j \in 1..b
               PROVE  a + j \in 1..Len(new) /\ new[a + j] = es[j]
    OBVIOUS
  <2>1. a + j \in 1..Len(new) /\ a + j \in 1..m
    BY <1>4, <1>2
  <2> QED
    BY <1>3, <1>4, <1>2, <2>1
<1>8. ASSUME NEW k \in 1..Len(new), new[k].severity = "error"
      PROVE  k \in 1..a \/ \E j \in 1..b : k = a + j
  <2>1. k \in 1..a \/ k \in (a + 1)..(a + b) \/ k \in (m + 1)..(m + d)
    BY <1>4, <1>2
  <2>2. CASE k \in (a + 1)..(a + b)
    <3>1. k - a \in 1..b /\ k = a + (k - a)
      BY <2>2
    <3> QED
      BY <3>1
  <2>3. CASE k \in (m + 1)..(m + d)
    <3>1. PICK j \in 1..d : k = m + j
      <4>1. k - m \in 1..d /\ k = m + (k - m)
        BY <2>3
      <4> QED
        BY <4>1
    <3>2. new[k].severity = "warning"
      BY <1>4, <1>5, <3>1
    <3> QED
      BY <1>8, <3>2
  <2> QED
    BY <2>1, <2>2, <2>3
<1>9. /\ \A j, k \in 1..a : old[j].severity = "error" /\ old[k].severity = "error"
                              /\ old[j].at = old[k].at => j = k
      /\ b <= 1
      /\ \A k \in 1..b : ~ErrorIn(old, es[k].at)
  BY <1>1 DEF Once
<1>10. ASSUME NEW j \in 1..Len(new), NEW k \in 1..Len(new), new[j].severity = "error",
              new[k].severity = "error", new[j].at = new[k].at
       PROVE  j = k
  <2>1. CASE j \in 1..a /\ k \in 1..a
    BY <1>6, <1>9, <1>10, <2>1
  <2>2. ASSUME NEW p \in 1..a, NEW q \in 1..b, new[p].severity = "error",
               new[p].at = new[a + q].at
        PROVE  FALSE
    <3>1. old[p].severity = "error" /\ old[p].at = es[q].at
      BY <1>6, <1>7, <2>2
    <3>2. ErrorIn(old, es[q].at)
      BY <1>1, <3>1 DEF ErrorIn
    <3> QED
      BY <1>9, <3>2
  <2>3. ASSUME NEW p \in 1..b, NEW q \in 1..b
        PROVE  p = q
    BY <1>9
  <2>4. /\ j \in 1..a \/ \E q \in 1..b : j = a + q
        /\ k \in 1..a \/ \E q \in 1..b : k = a + q
    BY <1>8, <1>10
  <2>5. CASE j \in 1..a /\ k \notin 1..a
    BY <1>10, <2>2, <2>4, <2>5
  <2>6. CASE j \notin 1..a /\ k \in 1..a
    BY <1>10, <2>2, <2>4, <2>6
  <2>7. CASE j \notin 1..a /\ k \notin 1..a
    BY <2>3, <2>4, <2>7
  <2> QED
    BY <2>1, <2>5, <2>6, <2>7
<1>11. Once(new, << >>)
  <2>1. Len(<< >>) <= 1 /\ \A k \in 1..Len(<< >>) : FALSE
    OBVIOUS
  <2> QED
    BY <1>10, <2>1, Zenon DEF Once
<1>12. ASSUME NEW i, ErrorIn(new, i)
       PROVE  Blamed(old, es, i)
  <2>1. PICK k \in 1..Len(new) : new[k].severity = "error" /\ new[k].at = i
    BY <1>12 DEF ErrorIn
  <2>2. CASE k \in 1..a
    BY <1>1, <1>6, <2>1, <2>2 DEF Blamed, ErrorIn
  <2>3. ASSUME NEW j \in 1..b, k = a + j
        PROVE  Blamed(old, es, i)
    <3>1. es[j].at = i
      BY <1>7, <2>1, <2>3
    <3> QED
      BY <1>1, <3>1 DEF Blamed
  <2> QED
    BY <1>8, <2>1, <2>2, <2>3
<1>13. ASSUME NEW i, Blamed(old, es, i)
       PROVE  ErrorIn(new, i)
  <2>1. CASE ErrorIn(old, i)
    BY <1>1, <1>6, <2>1 DEF ErrorIn
  <2>2. ASSUME NEW j \in 1..b, es[j].at = i
        PROVE  ErrorIn(new, i)
    BY <1>5, <1>7, <2>2 DEF ErrorIn
  <2> QED
    BY <1>1, <1>13, <2>1, <2>2 DEF Blamed
<1> QED
  BY <1>11, <1>12, <1>13

(* write_errors moves the pending errors to the report. *)
LEMMA WriteErrorsJudged ==
  ASSUME ParserInv, SectionInv, ChecksInv, ErrorsInv, ignored = {}, WriteErrors
  PROVE  SectionInv' /\ ChecksInv' /\ ErrorsInv'
<1>1. /\ status \in {"write", "write last"}
      /\ report' = (report \o found.errors) \o found.warnings
      /\ config' = config /\ cs' = cs /\ read' = read /\ ignored' = ignored
      /\ meta_checks' = meta_checks
      /\ status' = IF status = "write" THEN "read" ELSE "returned"
      /\ status' = "returned" => verdict' # "none"
  BY DEF WriteErrors
<1>2. /\ report \in Seq(Finding) /\ found.errors \in Seq(FoundErrors)
      /\ found.warnings \in Seq(FoundWarnings)
  BY DEF ParserInv, ParserTypeOK, Found
<1>3. HeaderAt' = HeaderAt /\ (Ended' <=> Ended) /\ Clean /\ Clean'
  <2>1. HeaderAt' = HeaderAt
    BY <1>1, HeaderAtForm
  <2>2. (Ended' <=> Ended) /\ Clean /\ Clean'
    BY <1>1 DEF Ended, Clean
  <2> QED
    BY <2>1, <2>2
<1>4. Pending = found.errors /\ Pending' = << >>
  BY <1>1 DEF Pending
<1>5. SectionInv'
  BY <1>1, <1>3 DEF SectionInv
<1>6. ChecksInv'
  <2>1. ChecksDone(cs, read, HeaderAt, config, Ended') =
          ChecksDone(cs, read, HeaderAt, config, Ended)
    BY <1>3 DEF ChecksDone
  <2> QED
    BY <1>1, <1>3, <2>1 DEF ChecksInv
<1>7. Once(report, found.errors)
  BY <1>3, <1>4 DEF ErrorsInv
<1>8. Once(report', << >>) /\ \A i : ErrorIn(report', i) <=> Blamed(report, found.errors, i)
  <2>1. PICK es, ws, old, new :
          es = found.errors /\ ws = found.warnings /\ old = report /\ new = report'
    OBVIOUS
  <2>2. /\ old \in Seq(Finding) /\ es \in Seq(FoundErrors) /\ ws \in Seq(FoundWarnings)
    BY <1>2, <2>1
  <2>5. es \in Seq(Finding) /\ ws \in Seq(Finding)
    <3>1. FoundErrors \subseteq Finding /\ FoundWarnings \subseteq Finding
      BY DEF FoundErrors, FoundWarnings, Finding
    <3> QED
      BY <2>2, <3>1
  <2>6. /\ \A k \in 1..Len(es) : es[k].severity = "error"
        /\ \A k \in 1..Len(ws) : ws[k].severity = "warning"
    <3>1. /\ \A k \in 1..Len(es) : es[k] \in FoundErrors
          /\ \A k \in 1..Len(ws) : ws[k] \in FoundWarnings
      BY <2>2
    <3> QED
      BY <3>1 DEF FoundErrors, FoundWarnings
  <2>7. PICK mid : mid = old \o es /\ new = mid \o ws
    BY <1>1, <2>1
  <2>8. Joined(mid, old, es) /\ mid \in Seq(Finding)
    BY <2>2, <2>5, <2>7, JoinedConcat
  <2>9. Joined(new, mid, ws)
    BY <2>5, <2>7, <2>8, JoinedConcat
  <2>3. Once(old, es)
    BY <1>7, <2>1
  <2>4. Once(new, << >>) /\ \A i : ErrorIn(new, i) <=> Blamed(old, es, i)
    BY <2>3, <2>6, <2>8, <2>9, WrittenOnce
  <2> QED
    BY <2>1, <2>4
<1>9. \A i : Blamed(report', << >>, i) <=> Blamed(report, found.errors, i)
  <2>1. << >> \in Seq(FoundErrors) /\ \A k \in 1..Len(<< >>) : << >>[k].at = 0
    OBVIOUS
  <2>2. \A i : Blamed(report', << >>, i) <=> ErrorIn(report', i)
    BY <2>1, BlamedNow
  <2> QED
    BY <1>8, <2>2, Zenon
<1>10. \A i : WellPlaced(i)' <=> WellPlaced(i)
  BY <1>1, <1>3, PlacedForm
<1>11. ErrorsInv'
  BY <1>1, <1>3, <1>4, <1>8, <1>9, <1>10 DEF ErrorsInv
<1> QED
  BY <1>5, <1>6, <1>11

-----------------------------------------------------------------------------
(* The end of the file is an error between lines before the header, and in *)
(* a line that broke off unless it is a record that passes, before 4.3.    *)
WrongEnd(s, c, kind) ==
  \/ s \in {"fileformat", "meta", "in fileformat", "in meta", "in header", "in broken"}
  \/ s = "in record" /\ (c.v43 \/ (c.level # "error" /\ kind = "fails"))

(* The error that the end of the file has, if any. *)
LEMMA EndErrors ==
  ASSUME ParserTypeOK, cs # "restart"
  PROVE  IF WrongEnd(cs, config, read[Len(read)].kind) THEN OneError(AtEnd) ELSE NoError(AtEnd)
<1>1. \A type : OneError(Err(type))
  BY HowManyErrors
<1>2. NoError(Nothing) /\ NoError(MetaCheck)
  BY HowManyErrors
<1>3. \A kind : IF level # "error" /\ kind = "fails" THEN OneError(RecordFound(kind))
                                                     ELSE NoError(RecordFound(kind))
  BY HowManyErrors DEF Semantic
<1>4. OneError(Both(Err("HeaderSectionError"), MetaCheck))
  <2>1. Err("HeaderSectionError") \in Found /\ MetaCheck \in Found
    BY ErrTagged, FindingsTagged DEF Types, Tagged
  <2> QED
    BY <1>1, <1>2, <2>1, BothErrors
<1>5. config.v43 \in BOOLEAN
  BY ParserConstants DEF ParserTypeOK, Config
<1>6. CASE cs \in {"fileformat", "meta", "in fileformat", "in meta", "in broken"}
  BY <1>1, <1>6 DEF AtEnd, WrongEnd
<1>7. CASE cs = "in header"
  BY <1>1, <1>4, <1>5, <1>7 DEF AtEnd, WrongEnd, v43
<1>8. CASE cs = "in record"
  BY <1>1, <1>3, <1>5, <1>8 DEF AtEnd, WrongEnd, v43, level
<1>9. CASE cs \notin {"fileformat", "meta", "in fileformat", "in meta", "in broken",
                      "in header", "in record"}
  BY <1>2, <1>9 DEF AtEnd, WrongEnd
<1> QED
  BY <1>6, <1>7, <1>8, <1>9

(* A line that broke off is well placed only as such a record. *)
LEMMA BrokenOffPlace ==
  ASSUME NEW c, NEW r \in Seq(Lines), NEW n \in Nat, n = Len(r), n > 0, NEW h, FirstHeader(h, r),
         NEW s, s \in InsideLine, s # "skipping", Fits(s, r, h), c.v43 \in BOOLEAN
  PROVE  Placed(c, r, h, n) <=> ~WrongEnd(s, c, r[n].kind)
<1>1. h \in 2..(n + 1)
  BY DEF FirstHeader
<1>2. ~r[n].whole
  BY Zenon DEF Fits
<1>3. /\ s = "in fileformat" => n = 1
      /\ s = "in meta" => n > 1 /\ h = n + 1
      /\ s = "in header" => n > 1 /\ h = n
      /\ s = "in record" => h < n /\ r[n].kind \in RecordKinds
      /\ s = "in broken" => h < n /\ r[n].kind = "broken"
      /\ s = "in record" => \A k \in h..n : r[k].kind # "blank"
  BY Zenon DEF Fits
<1>4. s \in {"in fileformat", "in meta", "in header", "in record", "in broken"}
  BY DEF InsideLine
<1>5. CASE s \in {"in fileformat", "in meta", "in header"}
  <2>0. n = 1 \/ h = n + 1 \/ h = n
    BY <1>3, <1>5, Zenon
  <2>1. ~(n > h)
    BY <1>1, <2>0
  <2>2. ~Placed(c, r, h, n)
    BY <1>2, <2>1, Zenon DEF Placed
  <2> QED
    BY <1>5, <2>2 DEF WrongEnd
<1>6. CASE s = "in broken"
  <2>1. r[n].kind = "broken"
    BY <1>3, <1>6
  <2>2. ~Placed(c, r, h, n)
    BY <1>2, <2>1 DEF Placed, RecordKinds
  <2> QED
    BY <1>6, <2>2 DEF WrongEnd
<1>7. CASE s = "in record"
  <2>1. n > h /\ r[n].kind \in RecordKinds /\ \A k \in h..n : r[k].kind # "blank"
    BY <1>1, <1>3, <1>7
  <2>2. r[n].kind # "blank" /\ r[n].kind # "meta fails"
    BY <2>1 DEF RecordKinds
  <2>3. Placed(c, r, h, n) <=> ~c.v43 /\ (r[n].kind # "fails" \/ c.level = "error")
    BY <1>2, <2>1, <2>2, Zenon DEF Placed
  <2> QED
    BY <1>7, <2>3, Zenon DEF WrongEnd
<1> QED
  BY <1>4, <1>5, <1>6, <1>7

(* What is known when end() is called. *)
LEMMA EndOfLines ==
  ASSUME ParserInv, SectionInv, ErrorsInv, ignored = {}, status = "read"
  PROVE  /\ read \in Seq(Lines) /\ Len(read) > 0 /\ FirstHeader(HeaderAt, read)
         /\ Fits(cs, read, HeaderAt) /\ config.v43 \in BOOLEAN
         /\ \A i \in 1..(Len(read) - 1) : read[i].whole
         /\ Once(report, << >>)
         /\ \A i : ErrorIn(report, i) => i \in 1..Len(read)
         /\ \A i \in 1..Len(read) : read[i].whole => (ErrorIn(report, i) <=> ~WellPlaced(i))
         /\ ~read[Len(read)].whole => (ErrorIn(report, Len(read)) <=> cs = "skipping")
         /\ cs = "skipping" => ~WellPlaced(Len(read))
<1>1. Clean /\ ~Ended /\ Pending = << >>
  BY DEF Clean, Ended, Pending
<1>2. read \in Seq(Lines) /\ read # << >> /\ \A i \in 1..(Len(read) - 1) : read[i].whole
  BY <1>1 DEF ParserInv, ParserTypeOK, Lines, SectionInv
<1>3. Len(read) > 0 /\ Len(read) \in Nat
  BY <1>2
<1>4. FirstHeader(HeaderAt, read)
  BY <1>2, <1>3, HeaderOfIsFirst, HeaderAtForm
<1>5. Fits(cs, read, HeaderAt)
  BY <1>1 DEF SectionInv
<1>6. config.v43 \in BOOLEAN
  BY ParserConstants DEF ParserInv, ParserTypeOK, Config
<1>7. \A i : Blamed(report, << >>, i) <=> ErrorIn(report, i)
  <2>1. << >> \in Seq(FoundErrors) /\ \A k \in 1..Len(<< >>) : << >>[k].at = 0
    OBVIOUS
  <2> QED
    BY <2>1, BlamedNow
<1>8. /\ Once(report, << >>)
      /\ \A i : Blamed(report, << >>, i) => i \in 1..(Len(read) + (IF Ended THEN 1 ELSE 0))
      /\ \A i \in 1..Len(read) :
           read[i].whole \/ Ended => (Blamed(report, << >>, i) <=> ~WellPlaced(i))
      /\ ~read[Len(read)].whole => (Blamed(report, << >>, Len(read)) <=> cs = "skipping")
      /\ cs = "skipping" => ~WellPlaced(Len(read))
  BY <1>1, <1>2, Zenon DEF ErrorsInv
<1>9. \A i : ErrorIn(report, i) => i \in 1..Len(read)
  <2>1. \A i : Blamed(report, << >>, i) => i \in 1..(Len(read) + 0)
    BY <1>1, <1>8
  <2>2. 1..(Len(read) + 0) = 1..Len(read)
    BY <1>3
  <2> QED
    BY <1>7, <2>1, <2>2, Zenon
<1>10. /\ \A i \in 1..Len(read) : read[i].whole => (ErrorIn(report, i) <=> ~WellPlaced(i))
       /\ ~read[Len(read)].whole => (ErrorIn(report, Len(read)) <=> cs = "skipping")
  BY <1>7, <1>8, Zenon
<1> QED
  BY <1>2, <1>3, <1>4, <1>5, <1>6, <1>8, <1>9, <1>10, Zenon

(* The end of the file and the checks of the meta section. *)
LEMMA EndChecked ==
  ASSUME ParserInv, SectionInv, ChecksInv, ErrorsInv, ignored = {}, End
  PROVE  SectionInv' /\ ChecksInv'
<1>1. /\ status = "read" /\ read' = read /\ cs' = cs /\ ignored' = ignored /\ config' = config
      /\ status' \in {"write last", "terminated"}
  BY DEF End, Outcome
<1>10. /\ cs = "header" \/ (cs = "in header" /\ ~config.v43) => meta_checks' = meta_checks + 1
       /\ ~(cs = "header" \/ (cs = "in header" /\ ~config.v43)) => meta_checks' = meta_checks + 0
  BY DEF End, v43
<1>11. meta_checks \in Nat
  BY DEF ParserInv, ParserTypeOK
<1>2. HeaderAt' = HeaderAt
  BY <1>1, HeaderAtForm
<1>3. cs # "start" /\ Clean
  BY <1>1 DEF SectionInv, Clean
<1>4. SectionInv'
  BY <1>1, <1>2, <1>3 DEF SectionInv
<1>5. meta_checks = ChecksDone(cs, read, HeaderAt, config, Ended) /\ ~Ended
  BY <1>1 DEF ChecksInv, Ended
<1>6. meta_checks' = ChecksDone(cs, read, HeaderAt, config, TRUE)
  <2>1. CASE cs = "header"
    <3>1. meta_checks = 0 /\ ChecksDone(cs, read, HeaderAt, config, TRUE) = 1
      BY <1>5, <2>1 DEF ChecksDone
    <3>2. meta_checks' = meta_checks + 1
      BY <1>10, <2>1
    <3>3. meta_checks' = 1
      <4>1. meta_checks = 0
        BY <3>1
      <4> QED
        BY <3>2, <4>1
    <3> QED
      BY <3>1, <3>3, Zenon
  <2>2. CASE cs = "in header"
    <3>1. /\ meta_checks = 0
          /\ ChecksDone(cs, read, HeaderAt, config, TRUE) = IF config.v43 THEN 0 ELSE 1
      BY <1>5, <2>2 DEF ChecksDone
    <3>2. meta_checks' = IF config.v43 THEN meta_checks + 0 ELSE meta_checks + 1
      BY <1>10, <2>2
    <3>3. meta_checks' = IF config.v43 THEN 0 ELSE 1
      <4>1. meta_checks = 0
        BY <3>1
      <4> QED
        BY <3>2, <4>1
    <3> QED
      BY <3>1, <3>3, Zenon
  <2>3. CASE cs \notin {"header", "in header"}
    <3>0. meta_checks' = meta_checks + 0
      BY <1>10, <2>3
    <3>1. meta_checks' = meta_checks
      BY <1>11, <3>0
    <3>2. ChecksDone(cs, read, HeaderAt, config, TRUE) =
            ChecksDone(cs, read, HeaderAt, config, Ended)
      BY <2>3 DEF ChecksDone
    <3> QED
      BY <1>5, <3>1, <3>2
  <2> QED
    BY <2>1, <2>2, <2>3
<1>7. meta_checks' <= 1
  <2>1. meta_checks' \in {0, 1}
    BY <1>6, ChecksAtMostOne
  <2> QED
    BY <2>1
<1>8. status' # "terminated" =>
        meta_checks' = ChecksDone(cs', read', HeaderAt', config', Ended')
  <2> SUFFICES ASSUME status' # "terminated"
               PROVE  meta_checks' = ChecksDone(cs', read', HeaderAt', config', Ended')
    OBVIOUS
  <2>1. Ended'
    BY <1>1 DEF Ended
  <2>2. ChecksDone(cs, read, HeaderAt, config, Ended') =
          ChecksDone(cs, read, HeaderAt, config, TRUE)
    BY <2>1 DEF ChecksDone
  <2> QED
    BY <1>1, <1>2, <1>6, <2>2
<1> QED
  BY <1>4, <1>7, <1>8 DEF ChecksInv

(* After end(), every line has its error, and a file without a header has  *)
(* one after its last line or in it.                                       *)
LEMMA EndJudged ==
  ASSUME ParserInv, SectionInv, ErrorsInv, ignored = {}, End
  PROVE  ErrorsInv'
<1> SUFFICES ASSUME Clean'
             PROVE  ErrorsInv'
  BY DEF ErrorsInv
<1>1. /\ status = "read" /\ read' = read /\ cs' = cs /\ config' = config
      /\ status' = "write last" /\ report' = report /\ found' = AtEnd
  BY DEF End, Outcome, Clean
<1>2. /\ read \in Seq(Lines) /\ Len(read) > 0 /\ FirstHeader(HeaderAt, read)
      /\ Fits(cs, read, HeaderAt) /\ config.v43 \in BOOLEAN
      /\ \A i \in 1..(Len(read) - 1) : read[i].whole
      /\ Once(report, << >>)
      /\ \A i : ErrorIn(report, i) => i \in 1..Len(read)
      /\ \A i \in 1..Len(read) : read[i].whole => (ErrorIn(report, i) <=> ~WellPlaced(i))
      /\ ~read[Len(read)].whole => (ErrorIn(report, Len(read)) <=> cs = "skipping")
      /\ cs = "skipping" => ~WellPlaced(Len(read))
  BY <1>1, EndOfLines
<1>3. PICK n \in Nat : n = Len(read) /\ n > 0
  BY <1>2
<1>4. cs # "restart" /\ (cs \in InsideLine <=> ~read[n].whole)
  BY <1>2, <1>3, Zenon DEF Fits
<1>5. IF WrongEnd(cs, config, read[n].kind) THEN OneError(AtEnd) ELSE NoError(AtEnd)
  BY <1>3, <1>4, EndErrors DEF ParserInv
<1>6. Tagged(AtEnd)
  BY FindingsTagged DEF ParserInv
<1>7. PICK es \in Seq(FoundErrors) :
        es = AtEnd.errors /\ \A k \in 1..Len(es) : es[k].at = Here
  BY <1>6 DEF Tagged, Found
<1>8. /\ WrongEnd(cs, config, read[n].kind) => es # << >> /\ Len(es) = 1
      /\ ~WrongEnd(cs, config, read[n].kind) => es = << >>
  BY <1>5, <1>7 DEF OneError, NoError
<1>9. Len(es) <= 1
  <2>1. PICK b \in Nat : b = Len(es) /\ (b = 0 \/ b = 1)
    BY <1>8
  <2>2. b <= 1
    BY <2>1
  <2> QED
    BY <2>1, <2>2
<1>10. Pending' = es /\ Ended'
  BY <1>1, <1>7 DEF Pending, Ended
<1>11. \A i : WellPlaced(i)' <=> WellPlaced(i)
  <2>1. HeaderAt' = HeaderAt
    BY <1>1, HeaderAtForm
  <2> QED
    BY <1>1, <2>1, PlacedForm
<1>12. Here = IF read[n].whole THEN n + 1 ELSE n
  <2>1. read # << >>
    BY <1>2
  <2> QED
    BY <1>3, <2>1 DEF Here
<1>13. \A i : Blamed(report, es, i) <=> ErrorIn(report, i) \/ (i = Here /\ es # << >>)
  <2>1. PICK rep, p : rep = report /\ p = Here
    OBVIOUS
  <2>2. \A k \in 1..Len(es) : es[k].at = p
    BY <1>7, <2>1
  <2>3. \A i : Blamed(rep, es, i) <=> ErrorIn(rep, i) \/ (i = p /\ es # << >>)
    BY <2>2, BlamedNow
  <2> QED
    BY <2>1, <2>3
<1>14. /\ Once(report, es)
       /\ \A i \in 1..n : Blamed(report, es, i) <=> ~WellPlaced(i)
       /\ Blamed(report, es, n + 1) <=> cs \in {"fileformat", "meta"}
  <2>1. ~ErrorIn(report, n + 1)
    BY <1>2, <1>3
  <2>2. \A i \in 1..n : (i \in 1..(n - 1) \/ i = n) /\ i # n + 1 /\ n # n + 1
    OBVIOUS
  <2>3. \A i \in 1..(n - 1) : i # n /\ (ErrorIn(report, i) <=> ~WellPlaced(i))
    <3>1. \A i \in 1..(n - 1) : read[i].whole /\ i \in 1..n /\ i # n
      BY <1>2, <1>3
    <3> QED
      BY <1>2, <1>3, <3>1
  <2>4. (\A k \in 1..Len(es) : ~ErrorIn(report, es[k].at)) => Once(report, es)
    BY <1>2, <1>9 DEF Once
  <2>5. CASE read[n].whole
    <3>1. cs \notin InsideLine /\ Here = n + 1
      BY <1>4, <1>12, <2>5
    <3>2. Once(report, es)
      BY <1>7, <2>1, <2>4, <3>1
    <3>3. ErrorIn(report, n) <=> ~WellPlaced(n)
      BY <1>2, <1>3, <2>5
    <3>4. \A i \in 1..n : Blamed(report, es, i) <=> ~WellPlaced(i)
      BY <1>13, <2>2, <2>3, <3>1, <3>3, Zenon
    <3>5. es # << >> <=> cs \in {"fileformat", "meta"}
      BY <1>8, <3>1 DEF WrongEnd, InsideLine
    <3> QED
      BY <1>13, <2>1, <3>1, <3>2, <3>4, <3>5, Zenon
  <2>6. CASE ~read[n].whole
    <3>1. cs \in InsideLine /\ Here = n /\ (ErrorIn(report, n) <=> cs = "skipping")
      BY <1>2, <1>3, <1>4, <1>12, <2>6
    <3>2. cs \notin {"fileformat", "meta"}
      BY <3>1 DEF InsideLine
    <3>3. cs = "skipping" => es = << >>
      BY <1>8 DEF WrongEnd
    <3>4. Once(report, es)
      <4>1. \A k \in 1..Len(es) : es # << >>
        OBVIOUS
      <4> QED
        BY <1>7, <2>4, <3>1, <3>3, <4>1
    <3>5. cs # "skipping" => (es # << >> <=> ~WellPlaced(n))
      <4> SUFFICES ASSUME cs # "skipping"
                   PROVE  es # << >> <=> ~WellPlaced(n)
        OBVIOUS
      <4>1. PICK c, r, h, s : c = config /\ r = read /\ h = HeaderAt /\ s = cs
        OBVIOUS
      <4>2. Placed(c, r, h, n) <=> ~WrongEnd(s, c, r[n].kind)
        BY <1>2, <1>3, <3>1, <4>1, BrokenOffPlace
      <4>3. Placed(config, read, HeaderAt, n) <=> ~WrongEnd(cs, config, read[n].kind)
        BY <4>1, <4>2
      <4> QED
        BY <1>8, <4>3, PlacedForm
    <3>6. Blamed(report, es, n) <=> ~WellPlaced(n)
      <4>1. CASE cs = "skipping"
        BY <1>2, <1>3, <1>13, <3>1, <4>1
      <4>2. CASE cs # "skipping"
        BY <1>13, <3>1, <3>5, <4>2, Zenon
      <4> QED
        BY <4>1, <4>2
    <3>7. \A i \in 1..n : Blamed(report, es, i) <=> ~WellPlaced(i)
      BY <1>13, <2>2, <2>3, <3>1, <3>6, Zenon
    <3>8. ~Blamed(report, es, n + 1)
      BY <1>13, <2>1, <3>1
    <3> QED
      BY <3>2, <3>4, <3>7, <3>8, Zenon
  <2> QED
    BY <2>5, <2>6
<1>15. \A i : Blamed(report, es, i) => i \in 1..(n + 1)
  <2>1. \A i : ErrorIn(report, i) => i \in 1..(n + 1)
    BY <1>2, <1>3
  <2>2. Here \in 1..(n + 1)
    BY <1>3, <1>12
  <2> QED
    BY <1>13, <2>1, <2>2, Zenon
<1> QED
  BY <1>1, <1>2, <1>3, <1>10, <1>11, <1>14, <1>15 DEF ErrorsInv

-----------------------------------------------------------------------------
(* The invariants hold before the first line. *)
LEMMA SectionsInit ==
  ASSUME ParserInit
  PROVE  SectionInv /\ ChecksInv /\ ErrorsInv
<1>1. /\ status = "start" /\ cs = "start" /\ read = << >> /\ report = << >>
      /\ meta_checks = 0 /\ Len(read) = 0
  BY DEF ParserInit
<1>2. SectionInv
  <2>1. \A i \in 1..(Len(read) - 1) : FALSE
    BY <1>1
  <2> QED
    BY <1>1, <2>1 DEF SectionInv
<1>3. ChecksInv
  <2>1. ChecksDone(cs, read, HeaderAt, config, Ended) = 0
    BY <1>1 DEF ChecksDone
  <2> QED
    BY <1>1, <2>1 DEF ChecksInv
<1>4. Pending = << >> /\ ~Ended
  BY <1>1 DEF Pending, Ended
<1>5. \A k \in 1..Len(<< >>) : FALSE
  OBVIOUS
<1>6. Once(report, << >>)
  <2>1. Len(<< >>) <= 1
    OBVIOUS
  <2> QED
    BY <1>1, <1>5, <2>1, Zenon DEF Once
<1>7. \A i : ~Blamed(report, << >>, i)
  BY <1>1, <1>5, Zenon DEF Blamed, ErrorIn
<1>8. \A i \in 1..Len(read) : FALSE
  BY <1>1
<1>9. ErrorsInv
  BY <1>1, <1>4, <1>6, <1>7, <1>8 DEF ErrorsInv
<1> QED
  BY <1>2, <1>3, <1>9

(* Every step keeps the invariants. *)
LEMMA SectionsStep ==
  ASSUME ParserInv, SectionInv, ChecksInv, ErrorsInv, [ParserNext]_parserVars
  PROVE  SectionInv' /\ ChecksInv' /\ ErrorsInv'
<1>1. CASE ignored' # {}
  BY <1>1, NothingClaimed
<1>2. CASE ignored' = {}
  <2>1. ignored = {}
    BY <1>2, IgnoredStays
  <2>2. ASSUME NEW l \in FirstLine, UnknownVersion(l)
        PROVE  SectionInv' /\ ChecksInv' /\ ErrorsInv'
    BY <2>1, <2>2, UnknownVersionJudged
  <2>3. ASSUME NEW l \in FirstLine, KnownVersion(l)
        PROVE  SectionInv' /\ ChecksInv' /\ ErrorsInv'
    <3>1. l \in Lines
      BY DEF Lines
    <3>2. PICK fs, s : JudgedLine(l, fs, s)
      BY <2>1, <2>3, FirstLineJudged
    <3> QED
      BY <2>1, <3>1, <3>2, SectionAfterLine, ErrorsAfterLine
  <2>4. ASSUME NEW l \in Line, ParseLine(l)
        PROVE  SectionInv' /\ ChecksInv' /\ ErrorsInv'
    <3>1. l \in Lines
      BY DEF Lines
    <3>2. status = "read"
      BY <2>4 DEF ParseLine, MetaLine, MetaError, HeaderLine, HeaderError, RecordLine,
                  RecordError, BlankLine, TextAfterBlank, DeadLine, RestartLine,
                  Follow, Skip, BreakOff, Ignore, NextLine
    <3>3. Reading
      BY <2>1, <3>2 DEF Reading
    <3>4. PICK fs, s : JudgedLine(l, fs, s)
      BY <1>2, <2>4, <3>3, LinesJudged
    <3> QED
      BY <2>1, <3>1, <3>4, SectionAfterLine, ErrorsAfterLine
  <2>5. CASE RecordEscapes
    BY <2>1, <2>5, EscapeChecksOnce
  <2>6. CASE WriteErrors
    BY <2>1, <2>6, WriteErrorsJudged
  <2>7. CASE End
    BY <2>1, <2>7, EndChecked, EndJudged
  <2>8. CASE Finished \/ UNCHANGED parserVars
    <3>1. UNCHANGED parserVars
      BY <2>8 DEF Finished
    <3>2. /\ config' = config /\ status' = status /\ cs' = cs /\ found' = found
          /\ report' = report /\ read' = read /\ ignored' = ignored
          /\ meta_checks' = meta_checks /\ verdict' = verdict
      BY <3>1 DEF parserVars
    <3>3. HeaderAt' = HeaderAt
      BY <3>2, HeaderAtForm
    <3>4. (Clean' <=> Clean) /\ Ended' = Ended /\ Pending' = Pending
      BY <3>2 DEF Clean, Ended, Pending
    <3>5. \A i : WellPlaced(i)' <=> WellPlaced(i)
      BY <3>2, <3>3, PlacedForm
    <3>6. SectionInv'
      BY <3>2, <3>3, <3>4 DEF SectionInv
    <3>7. ChecksInv'
      BY <3>2, <3>3, <3>4 DEF ChecksInv
    <3>8. ErrorsInv'
      BY <3>2, <3>4, <3>5 DEF ErrorsInv
    <3> QED
      BY <3>6, <3>7, <3>8
  <2> QED
    BY <2>2, <2>3, <2>4, <2>5, <2>6, <2>7, <2>8 DEF ParserNext
<1> QED
  BY <1>1, <1>2

(***************************************************************************)
(* As long as no line was ignored, the state of the machine fits the lines *)
(* read, the meta section is checked when it is to be, and the errors that *)
(* were written or are about to be are those of the lines, each once       *)
(* (vcf.ragel, vcf_v4x.ragel, validate and write_errors).                  *)
(***************************************************************************)
THEOREM SectionsInvariant == ParserSpec => [](SectionInv /\ ChecksInv /\ ErrorsInv)
<1>1. ParserInit => SectionInv /\ ChecksInv /\ ErrorsInv
  BY SectionsInit
<1>2. ParserInv /\ (SectionInv /\ ChecksInv /\ ErrorsInv) /\ [ParserNext]_parserVars
        => (SectionInv /\ ChecksInv /\ ErrorsInv)'
  BY SectionsStep
<1> QED
  BY <1>1, <1>2, ParserInvariant, PTL DEF ParserSpec

(***************************************************************************)
(* In files of any length: every line that is not well placed has exactly  *)
(* one error, and every other line none, whatever came before it (the      *)
(* recovery after errors, fgoto meta_section_skip and body_section_skip).  *)
(***************************************************************************)
THEOREM BadLinesHaveOneError == ParserSpec => []OneErrorPerBadLine
<1>1. ParserInv /\ SectionInv /\ ErrorsInv => OneErrorPerBadLine
  <2> SUFFICES ASSUME ParserInv, ErrorsInv, ignored = {}, NEW i \in Settled
               PROVE  Cardinality(ErrorsAt(i)) = IF WellPlaced(i) THEN 0 ELSE 1
    BY DEF OneErrorPerBadLine
  <2>1. /\ i \in 1..Len(read) /\ status \in {"returned", "read"}
        /\ read[i].whole \/ Ended
    BY DEF Settled, Ended
  <2>2. Clean /\ Pending = << >>
    BY <2>1 DEF Clean, Pending
  <2>3. Once(report, << >>) /\ (Blamed(report, << >>, i) <=> ~WellPlaced(i))
    BY <2>1, <2>2 DEF ErrorsInv
  <2>4. Blamed(report, << >>, i) <=> ErrorIn(report, i)
    <3>1. << >> \in Seq(FoundErrors) /\ \A k \in 1..Len(<< >>) : << >>[k].at = 0
      OBVIOUS
    <3> QED
      BY <3>1, BlamedNow
  <2>5. PICK S : S = ErrorsAt(i)
    OBVIOUS
  <2>6. S = {} <=> ~ErrorIn(report, i)
    BY <2>5 DEF ErrorsAt, ErrorIn
  <2>7. \A j, k \in S : j = k
    BY <2>3, <2>5 DEF ErrorsAt, Once
  <2>8. CASE WellPlaced(i)
    <3>1. S = {}
      BY <2>3, <2>4, <2>6, <2>8
    <3> QED
      BY <2>5, <2>8, <3>1, FS_EmptySet
  <2>9. CASE ~WellPlaced(i)
    <3>1. PICK k : k \in S
      BY <2>3, <2>4, <2>6, <2>9
    <3>2. S = {k}
      BY <2>7, <3>1
    <3>3. Cardinality(S) = 1
      BY <3>2, FS_Singleton
    <3> QED
      BY <2>5, <2>9, <3>3
  <2> QED
    BY <2>8, <2>9
<1> QED
  BY <1>1, ParserInvariant, SectionsInvariant, PTL

(***************************************************************************)
(* A file of any length, of which no line was ignored, is found valid      *)
(* exactly if it is well formed, at every level and for every version      *)
(* (is_valid_vcf_file).                                                    *)
(***************************************************************************)
THEOREM VerdictIsRight == ParserSpec => []VerdictRight
<1>1. ParserInv /\ SectionInv /\ ErrorsInv => VerdictRight
  <2> SUFFICES ASSUME ParserInv, SectionInv, ErrorsInv, status = "returned", ignored = {}
               PROVE  verdict = "valid" <=> WellFormed
    BY DEF VerdictRight
  <2>1. Clean /\ Pending = << >> /\ Ended
    BY DEF Clean, Pending, Ended
  <2>2. /\ read \in Seq(Lines) /\ read # << >> /\ cs \in States
        /\ cs # "start" => Fits(cs, read, HeaderAt)
        /\ cs = "start" => Len(read) = 1 /\ read[1].kind = "other"
    BY <2>1 DEF ParserInv, ParserTypeOK, Lines, SectionInv
  <2>3. PICK n \in Nat : n = Len(read) /\ n > 0
    BY <2>2
  <2>4. PICK h : h = HeaderAt /\ FirstHeader(h, read) /\ h \in 2..(n + 1)
    <3>1. FirstHeader(HeaderAt, read)
      BY <2>2, <2>3, HeaderOfIsFirst, HeaderAtForm
    <3> QED
      BY <2>3, <3>1 DEF FirstHeader
  <2>5. \A i : Blamed(report, << >>, i) <=> ErrorIn(report, i)
    <3>1. << >> \in Seq(FoundErrors) /\ \A k \in 1..Len(<< >>) : << >>[k].at = 0
      OBVIOUS
    <3> QED
      BY <3>1, BlamedNow
  <2>6. /\ \A i : ErrorIn(report, i) => i \in 1..(n + 1)
        /\ \A i \in 1..n : ErrorIn(report, i) <=> ~WellPlaced(i)
        /\ cs = "skipping" => ~WellPlaced(n)
        /\ ErrorIn(report, n + 1) <=> cs \in {"fileformat", "meta"}
        /\ verdict # "none"
    BY <2>1, <2>3, <2>5 DEF ErrorsInv
  <2>7. ReportsError <=> \E i : ErrorIn(report, i)
    BY DEF ReportsError, ErrorIn
  <2>8. verdict = "valid" <=> ~ReportsError
    <3>1. verdict \in {"valid", "invalid"} /\ (verdict = "invalid" <=> ReportsError)
      BY <2>6 DEF ParserInv, ParserTypeOK, VerdictMatchesReport
    <3> QED
      BY <3>1
  <2>9. cs \in {"fileformat", "meta"} => h = n + 1
    <3>1. cs \in {"fileformat", "meta"} => n = 1 \/ h = n + 1
      BY <2>2, <2>3, <2>4, Zenon DEF Fits
    <3> QED
      BY <2>4, <3>1
  <2>10. ASSUME WellFormed
         PROVE  ~ReportsError
    <3>1. h <= n /\ \A i \in 1..n : WellPlaced(i)
      BY <2>3, <2>4, <2>10 DEF WellFormed
    <3>2. cs \notin {"fileformat", "meta"}
      <4>1. h # n + 1
        BY <2>4, <3>1
      <4> QED
        BY <2>9, <4>1
    <3>3. \A i : i \in 1..(n + 1) => i \in 1..n \/ i = n + 1
      OBVIOUS
    <3> QED
      BY <2>6, <2>7, <3>1, <3>2, <3>3, Zenon
  <2>11. ASSUME ~ReportsError
         PROVE  WellFormed
    <3>1. \A i \in 1..n : WellPlaced(i)
      BY <2>6, <2>7, <2>11, Zenon
    <3>2. cs \notin {"fileformat", "meta", "skipping"}
      <4>1. n \in 1..n
        BY <2>3
      <4> QED
        BY <2>6, <2>7, <2>11, <3>1, <4>1, Zenon
    <3>3. cs # "start"
      <4> SUFFICES ASSUME cs = "start"
                   PROVE  FALSE
        OBVIOUS
      <4>0. n = 1 /\ read[1].kind = "other"
        BY <2>2, <2>3
      <4>1. n = 1 /\ h = 2 /\ read[1].kind = "other"
        BY <2>4, <4>0
      <4>2. PICK c, r, k : c = config /\ r = read /\ k = r[1].kind /\ k = "other"
        BY <4>1
      <4>3. Placed(c, r, 2, 1) <=> k = "fileformat" /\ r[1].whole
        BY <4>2, FirstPlace
      <4>4. ~Placed(config, read, HeaderAt, 1)
        BY <2>4, <4>1, <4>2, <4>3
      <4>5. 1 \in 1..n
        BY <4>1
      <4> QED
        BY <3>1, <4>4, <4>5, PlacedForm
    <3>4. Fits(cs, read, h)
      BY <2>2, <2>4, <3>3
    <3>5. h # n + 1
      <4> SUFFICES ASSUME h = n + 1
                   PROVE  FALSE
        OBVIOUS
      <4>1. Placed(config, read, h, n)
        <5>1. n \in 1..n
          BY <2>3
        <5> QED
          BY <2>4, <3>1, <5>1, PlacedForm
      <4>2. ~(n > h)
        OBVIOUS
      <4>3. read[n].whole
        BY <4>1, <4>2, Zenon DEF Placed
      <4>4. cs \notin InsideLine /\ cs \notin {"dead", "restart"}
        BY <2>3, <3>4, <4>3, Zenon DEF Fits
      <4>5. cs \in {"header", "body", "trailing"}
        BY <2>2, <3>2, <3>3, <4>4 DEF States, InsideLine
      <4>6. h = n \/ h <= n
        BY <2>3, <3>4, <4>5, Zenon DEF Fits
      <4> QED
        BY <4>6
    <3>6. h <= n
      BY <2>4, <3>5
    <3> QED
      BY <2>3, <2>4, <3>1, <3>6 DEF WellFormed
  <2> QED
    BY <2>8, <2>10, <2>11
<1> QED
  BY <1>1, ParserInvariant, SectionsInvariant, PTL

(***************************************************************************)
(* In files of any length, the checks of the meta section run at most      *)
(* once, and once in a file that has a header, but for the case named in   *)
(* MetaCheckedOnce (optional_check_meta_section).                          *)
(***************************************************************************)
THEOREM MetaIsCheckedOnce == ParserSpec => []MetaCheckedOnce
<1>1. ParserInv /\ SectionInv /\ ChecksInv => MetaCheckedOnce
  <2> SUFFICES ASSUME ParserInv, SectionInv, ChecksInv, ignored = {}
               PROVE  /\ meta_checks <= 1
                      /\ status = "returned" /\ HeaderAt <= Len(read) =>
                           (meta_checks = 0 <=> v43 /\ cs = "in header")
    BY DEF MetaCheckedOnce
  <2>1. meta_checks <= 1
    BY DEF ChecksInv
  <2>2. ASSUME status = "returned", HeaderAt <= Len(read)
        PROVE  meta_checks = 0 <=> v43 /\ cs = "in header"
    <3>1. Clean /\ Ended
      BY <2>2 DEF Clean, Ended
    <3>2. /\ read \in Seq(Lines) /\ read # << >> /\ config.v43 \in BOOLEAN
          /\ cs # "start" => Fits(cs, read, HeaderAt)
          /\ cs = "start" => Len(read) = 1
      BY <2>2, <3>1, ParserConstants DEF ParserInv, ParserTypeOK, Lines, SectionInv, Config
    <3>3. PICK n \in Nat : n = Len(read) /\ n > 0
      BY <3>2
    <3>4. PICK h : h = HeaderAt /\ h \in 2..(n + 1) /\ h <= n
      <4>1. FirstHeader(HeaderAt, read)
        BY <3>2, <3>3, HeaderOfIsFirst, HeaderAtForm
      <4> QED
        BY <2>2, <3>3, <4>1 DEF FirstHeader
    <3>5. n # 1 /\ h # n + 1
      BY <3>4
    <3>6. cs \notin {"start", "fileformat", "in fileformat", "meta", "in meta"}
      BY <3>2, <3>3, <3>4, <3>5, Zenon DEF Fits
    <3>7. meta_checks = ChecksDone(cs, read, h, config, Ended)
      BY <2>2, <3>4 DEF ChecksInv
    <3>8. ChecksDone(cs, read, h, config, Ended) =
            IF cs = "in header" /\ config.v43 THEN 0 ELSE 1
      BY <3>1, <3>2, <3>3, <3>4, <3>6 DEF ChecksDone
    <3>9. meta_checks = IF cs = "in header" /\ config.v43 THEN 0 ELSE 1
      BY <3>7, <3>8, Zenon
    <3>10. 1 # 0
      OBVIOUS
    <3>11. CASE cs = "in header" /\ config.v43
      BY <3>9, <3>11, Zenon DEF v43
    <3>12. CASE ~(cs = "in header" /\ config.v43)
      <4>1. meta_checks = 1
        BY <3>9, <3>12, Zenon
      <4> QED
        BY <3>10, <3>12, <4>1, Zenon DEF v43
    <3> QED
      BY <3>11, <3>12
  <2> QED
    BY <2>1, <2>2
<1> QED
  BY <1>1, ParserInvariant, SectionsInvariant, PTL
=============================================================================
