----------------------------- MODULE VcfParser -----------------------------
(***************************************************************************)
(* The validation of a file, one line at a time (validator.cpp): the       *)
(* version is detected on the first line, every line is parsed by the      *)
(* state machine of vcf.ragel and vcf_v4x.ragel, and after each line the   *)
(* errors and warnings found in it are handed to the report writers.       *)
(*                                                                         *)
(* A line is its kind; `cs' is the state of the machine between lines.     *)
(* What a record contains, and how records relate, is BodyEntry's subject: *)
(* here a record is well formed or not, and if it is, it passes the        *)
(* semantic checks, warns or fails them.  DuplicationErrors, which may be  *)
(* about an earlier line, are not among the errors here.                   *)
(***************************************************************************)
EXTENDS Integers, Sequences, FiniteSets

CONSTANTS
  Configs,   (* levels of validation, versions and line ends to explore    *)
  MaxLines   (* bound: how many lines a file has, see NextLine             *)

Config == [level : {"error", "warning", "stop"}, v43 : BOOLEAN, eol : {"LF", "CRLF"}]

ASSUME ParserConstants == Configs \subseteq Config /\ MaxLines \in Nat

MetaKinds == {"meta", "reference"}
RecordKinds == {"record", "warns", "fails"}

(* Lines that start with '#': metadata (complete, rejected by MetaEntry's  *)
(* constructor, malformed) and headers (complete, malformed).              *)
HashKinds == MetaKinds \cup {"meta fails", "meta broken", "header", "header broken"}

(* "broken": starts like a record and is not one. *)
BrokenKinds == {"meta broken", "header broken", "broken"}
Kinds == HashKinds \cup RecordKinds \cup {"broken", "blank"}

(* `whole': the line ends with a newline; only the last one may not, and   *)
(* a blank line always does.  `late': an unfinished line has nothing wrong *)
(* in it but that it breaks off.                                           *)
Line == {l \in [kind : Kinds, whole : BOOLEAN, late : BOOLEAN] :
           /\ l.kind = "blank" => l.whole
           /\ l.late => ~l.whole /\ l.kind \in BrokenKinds}
FirstLine == [kind : {"fileformat", "other"}, whole : BOOLEAN, late : {FALSE}]

VARIABLES
  config,        (* the level, the version and how whole lines end         *)
  status,        (* what validate() does next                              *)
  cs,            (* state of the machine                                   *)
  n_lines,       (* line number in the ParsingState                        *)
  m_is_valid,
  reference,     (* a `reference' entry was stored                         *)
  found,         (* errors and warnings of the last call of parse or end   *)
  report,        (* what was written so far                                *)
  read,          (* history: the lines read                                *)
  ignored,       (* history: lines that the machine did not look at        *)
  meta_checks,   (* history: calls of optional_check_meta_section (and the *)
                 (* call that a terminated run did not get to)             *)
  verdict        (* what is_valid_vcf_file returned                        *)

level == config.level
v43 == config.v43
eol == config.eol

parserVars == <<config, status, cs, n_lines, m_is_valid, reference, found,
                report, read, ignored, meta_checks, verdict>>

(* Between lines; inside an unfinished last line; skipping to its end.     *)
(* "dead" is the error state of the machine, and "restart" the state that  *)
(* the generated code falls into when it is called in the error state.     *)
States == {"start", "fileformat", "meta", "header", "body", "trailing", "dead", "restart",
           "in fileformat", "in meta", "in header", "in record", "in broken", "skipping"}

Types == {"FileformatError", "MetaSectionError", "HeaderSectionError", "BodyError", "RecordWarning"}

(* `line' is the number reported, `at' the number of the line at fault.    *)
Finding == [severity : {"error", "warning"}, type : Types, line : Nat, at : Nat]
FoundErrors == [severity : {"error"}, type : Types, line : Nat, at : Nat]
FoundWarnings == [severity : {"warning"}, type : Types, line : Nat, at : Nat]

(* The vectors `errors' and `warnings' of the ParsingState. *)
Found == [errors : Seq(FoundErrors), warnings : Seq(FoundWarnings)]
Nothing == [errors |-> << >>, warnings |-> << >>]
Both(a, b) == [errors |-> a.errors \o b.errors, warnings |-> a.warnings \o b.warnings]
-----------------------------------------------------------------------------
(* The line being parsed, or the one after the last one at the end. *)
Here == IF read # << >> /\ ~read[Len(read)].whole THEN Len(read) ELSE Len(read) + 1

(* Errors numbered as if n_lines were the number of the next line. *)
MutantErr(type) ==
  [errors |-> <<[severity |-> "error", type |-> type, line |-> n_lines - 2, at |-> Here]>>,
   warnings |-> << >>]

(* handle_error and handle_warning of ReportErrorPolicy. *)
Err(type) ==
  [errors |-> <<[severity |-> "error", type |-> type, line |-> n_lines, at |-> Here]>>,
   warnings |-> << >>]
Warn(type) ==
  [errors |-> << >>,
   warnings |-> <<[severity |-> "warning", type |-> type, line |-> n_lines, at |-> Here]>>]

Semantic == level # "error"

(* optional_check_meta_section, and the warning it may throw. *)
MetaCheck == IF Semantic /\ ~reference THEN Warn("MetaSectionError") ELSE Nothing

(* meta_entry_end: a MetaEntry is built and stored. *)
MetaEntryFound(kind) ==
  IF Semantic /\ kind = "meta fails" THEN Err("MetaSectionError") ELSE Nothing

(* record_end, see BodyEntry. *)
RecordFound(kind) ==
  CASE Semantic /\ kind = "fails" -> Err("BodyError")
    [] Semantic /\ kind = "warns" -> Warn("RecordWarning")
    [] OTHER -> Nothing

(* A parser that is valid when its last call found no error. *)
MutantOutcome(fs, s, next) ==
  /\ cs' = s
  /\ m_is_valid' = (fs.errors = << >>)
  /\ IF level = "stop" /\ fs.errors # << >>
       THEN found' = Nothing /\ status' = "terminated"
       ELSE found' = fs /\ status' = next
  /\ UNCHANGED <<config, report, verdict>>

(* The machine found fs and is in state s now.  The error policy decides:  *)
(* AbortErrorPolicy throws where nothing catches, before any of it is      *)
(* written.  clear() has emptied what the previous call found.             *)
Outcome(fs, s, next) ==
  /\ cs' = s
  /\ m_is_valid' = (m_is_valid /\ (fs.errors = << >>))
  /\ IF level = "stop" /\ fs.errors # << >>
       THEN found' = Nothing /\ status' = "terminated"
       ELSE found' = fs /\ status' = next
  /\ UNCHANGED <<config, report, verdict>>

(* A line is read by readline and parsed to its end.  Two more lines than  *)
(* MaxLines may come when they are needed to get out of the error state.   *)
NextLine(l) ==
  /\ status = "read"
  /\ Len(read) < MaxLines + (IF cs \in {"dead", "restart"} THEN 2 ELSE 0)
  /\ read[Len(read)].whole
  /\ read' = Append(read, l)

(* A whole line that the machine follows to its end.  action line_break. *)
Follow(l, fs, s) ==
  /\ NextLine(l) /\ l.whole
  /\ Outcome(fs, s, "write")
  /\ n_lines' = n_lines + 1
  /\ UNCHANGED ignored

(* A skip that does not count the line it skips. *)
MutantSkipUncounted(l, fs, s) ==
  /\ NextLine(l) /\ ~l.late
  /\ Outcome(fs, IF l.whole THEN s ELSE "skipping", "write")
  /\ UNCHANGED <<n_lines, ignored>>

(* A skip that always resumes in the meta section. *)
MutantSkipToMeta(l, fs, s) ==
  /\ NextLine(l) /\ ~l.late
  /\ Outcome(fs, IF l.whole THEN "meta" ELSE "skipping", "write")
  /\ n_lines' = n_lines + (CASE ~l.whole -> 0 [] eol = "CRLF" -> 2 [] OTHER -> 1)
  /\ UNCHANGED ignored

(* A line with an error in it: fgoto to a machine that skips to the next   *)
(* line and resumes in state s.  In the skip, NL may start at the '\r' and *)
(* again at the '\n', so that a line ending in both is counted twice.      *)
Skip(l, fs, s) ==
  /\ NextLine(l) /\ ~l.late
  /\ Outcome(fs, IF l.whole THEN s ELSE "skipping", "write")
  /\ n_lines' = n_lines + (CASE ~l.whole -> 0 [] eol = "CRLF" -> 2 [] OTHER -> 1)
  /\ UNCHANGED ignored

(* The last line of the file, unfinished but with nothing wrong so far. *)
BreakOff(l, fs, s) ==
  /\ NextLine(l) /\ ~l.whole
  /\ Outcome(fs, s, "write")
  /\ UNCHANGED <<n_lines, ignored>>

(* A line that the machine does not look at, nor count. *)
Ignore(l, s) ==
  /\ NextLine(l)
  /\ Outcome(Nothing, s, "write")
  /\ ignored' = ignored \cup {Here}
  /\ UNCHANGED <<n_lines, reference, meta_checks>>
-----------------------------------------------------------------------------
ParserInit ==
  /\ config \in Configs
  /\ status = "start"
  /\ cs = "start"
  /\ n_lines = 1
  /\ m_is_valid = TRUE
  /\ reference = FALSE
  /\ found = Nothing /\ report = << >> /\ read = << >>
  /\ ignored = {}
  /\ meta_checks = 0
  /\ verdict = "none"

(* is_valid_vcf_file: detect_version throws and no parser is built. *)
UnknownVersion(l) ==
  /\ status = "start" /\ l.kind = "other"
  /\ read' = Append(read, l)
  /\ report' = Err("FileformatError").errors
  /\ status' = "returned" /\ verdict' = "invalid"
  /\ UNCHANGED <<config, cs, n_lines, m_is_valid, reference, found, ignored, meta_checks>>

(* The parser is built for the version found and parses the first line. *)
KnownVersion(l) ==
  /\ status = "start" /\ l.kind = "fileformat"
  /\ read' = Append(read, l)
  /\ Outcome(Nothing, IF l.whole THEN "fileformat" ELSE "in fileformat", "write")
  /\ n_lines' = IF l.whole THEN n_lines + 1 ELSE n_lines
  /\ UNCHANGED <<ignored, reference, meta_checks>>

(* A loop that goes on reading after the end of the file. *)
MutantWriteErrors ==
  /\ status \in {"write", "write last"}
  /\ report' = report \o found.errors \o found.warnings
  /\ status' = "read"
  /\ UNCHANGED <<config, cs, n_lines, m_is_valid, reference, found, read, ignored,
                 meta_checks, verdict>>

(* write_errors, called after every call of the parser. *)
WriteErrors ==
  /\ status \in {"write", "write last"}
  /\ report' = report \o found.errors \o found.warnings
  /\ IF status = "write"
       THEN status' = "read" /\ UNCHANGED verdict
       ELSE /\ status' = "returned"
            /\ verdict' = IF m_is_valid THEN "valid" ELSE "invalid"
  /\ UNCHANGED <<config, cs, n_lines, m_is_valid, reference, found, read, ignored, meta_checks>>

InMeta == cs \in {"fileformat", "meta"}

(* A complete entry of the meta section. *)
MetaLine(l) ==
  /\ InMeta /\ l.kind \in MetaKinds \cup {"meta fails"}
  /\ \/ /\ Follow(l, MetaEntryFound(l.kind), "meta")
        /\ reference' = (reference \/ (Semantic /\ l.kind = "reference"))
     \/ BreakOff(l, Nothing, "in meta") /\ UNCHANGED reference
  /\ UNCHANGED meta_checks

(* Anything in the meta section but an entry or a header.  The fileformat  *)
(* section is still open until a line starts with '#'.                     *)
MetaError(l) ==
  /\ InMeta /\ l.kind \in RecordKinds \cup {"meta broken", "broken", "blank"}
  /\ \/ Skip(l, Err(IF cs = "fileformat" /\ l.kind \notin HashKinds
                      THEN "FileformatError" ELSE "MetaSectionError"), "meta")
     \/ l.kind = "meta broken" /\ l.late /\ BreakOff(l, Nothing, "in meta")
  /\ UNCHANGED <<reference, meta_checks>>

HeaderLine(l) ==
  /\ InMeta /\ l.kind = "header"
  /\ Follow(l, Nothing, "header") \/ BreakOff(l, Nothing, "in header")
  /\ UNCHANGED <<reference, meta_checks>>

(* The header is broken, so that meta_section_end is not going to run. *)
HeaderError(l) ==
  /\ InMeta /\ l.kind = "header broken"
  /\ \/ /\ Skip(l, Both(Err("HeaderSectionError"), MetaCheck), "body")
        /\ meta_checks' = meta_checks + 1
     \/ l.late /\ BreakOff(l, Nothing, "in header") /\ UNCHANGED meta_checks
  /\ UNCHANGED reference

(* meta_section_end runs when the body section is entered. *)
InBody == cs \in {"header", "body"}
Entering == IF cs = "header" THEN MetaCheck ELSE Nothing
CountEntering == meta_checks' = meta_checks + (IF cs = "header" THEN 1 ELSE 0)

RecordLine(l) ==
  /\ InBody /\ l.kind \in RecordKinds
  /\ \/ Follow(l, Both(Entering, RecordFound(l.kind)), "body")
     \/ BreakOff(l, Entering, "in record")
  /\ CountEntering
  /\ UNCHANGED reference

(* The checks of the meta section are forgotten when it ends in a line     *)
(* that starts with '#'.                                                   *)
MutantRecordError(l) ==
  /\ InBody /\ l.kind \in HashKinds \cup {"broken"}
  /\ Skip(l, Err("BodyError"), IF cs = "header" THEN "header" ELSE "body")
  /\ CountEntering
  /\ UNCHANGED reference

(* A record whose checks fail may throw what is no Error, see BodyEntry:   *)
(* that gets to main.                                                      *)
RecordEscapes ==
  /\ status = "read" /\ Semantic
  /\ \/ /\ InBody
        /\ \E l \in Line : l.kind = "fails" /\ l.whole /\ NextLine(l)
        /\ CountEntering
     \/ /\ cs = "in record" /\ ~v43 /\ read[Len(read)].kind = "fails"
        /\ UNCHANGED <<read, meta_checks>>
  /\ found' = Nothing /\ status' = "terminated"
  /\ UNCHANGED <<config, cs, n_lines, m_is_valid, reference, report, ignored, verdict>>

(* A line that is no record.  Right after the header, a line that cannot   *)
(* even start one is an error of the header section.                       *)
RecordError(l) ==
  /\ InBody /\ l.kind \in HashKinds \cup {"broken"}
  /\ \/ l.kind = "broken" /\ Skip(l, Both(Entering, Err("BodyError")), "body")
     \/ l.kind = "broken" /\ l.late /\ BreakOff(l, Entering, "in broken")
     \/ /\ l.kind \in HashKinds
        /\ Skip(l, IF cs = "header" THEN Both(Err("HeaderSectionError"), MetaCheck)
                                    ELSE Err("BodyError"), "body")
  /\ CountEntering
  /\ UNCHANGED reference

BlankLine(l) ==
  /\ InBody \/ cs = "trailing"
  /\ l.kind = "blank"
  /\ Follow(l, Entering, "trailing")
  /\ CountEntering
  /\ UNCHANGED reference

(* Only newlines may follow a blank line: the machine has no transition    *)
(* and, in this place, no error action either.                             *)
TextAfterBlank(l) ==
  /\ cs = "trailing" /\ l.kind # "blank"
  /\ Ignore(l, "dead")

(* The generated code has no case for the error state. *)
DeadLine(l) == cs = "dead" /\ Ignore(l, "restart")

(* It then expects the rest of a fileformat line. *)
RestartLine(l) ==
  /\ cs = "restart"
  /\ Skip(l, Err("FileformatError"), "meta")
  /\ UNCHANGED <<reference, meta_checks>>

ParseLine(l) ==
  \/ MetaLine(l) \/ MetaError(l) \/ HeaderLine(l) \/ HeaderError(l)
  \/ RecordLine(l) \/ RecordError(l) \/ BlankLine(l)
  \/ TextAfterBlank(l) \/ DeadLine(l) \/ RestartLine(l)

(* A file may end before its header. *)
MutantAtEnd ==
  CASE cs = "header"             -> MetaCheck
    [] cs = "in header" /\ ~v43  -> Both(Err("HeaderSectionError"), MetaCheck)
    [] cs \in {"in header", "in record"} /\ v43 -> Err("BodyError")
    [] cs = "in broken"          -> Err("BodyError")
    [] OTHER                     -> Nothing

(* What the machine finds at the end of the file.  Only the machine of     *)
(* version 4.3 has an error action for a missing last newline.             *)
AtEnd ==
  CASE cs \in {"fileformat", "in fileformat", "restart"} -> Err("FileformatError")
    [] cs \in {"meta", "in meta"}    -> Err("MetaSectionError")
    [] cs = "header"                 -> MetaCheck
    [] cs = "in header" /\ ~v43      -> Both(Err("HeaderSectionError"), MetaCheck)
    [] cs = "in record" /\ ~v43      -> RecordFound(read[Len(read)].kind)
    [] cs \in {"in header", "in record"} /\ v43 -> Err("BodyError")
    [] cs = "in broken"              -> Err("BodyError")
    [] OTHER                         -> Nothing

(* end(), after which validate returns. *)
End ==
  /\ status = "read"
  /\ Outcome(AtEnd, cs, "write last")
  /\ meta_checks' = meta_checks +
       (IF cs = "header" \/ (cs = "in header" /\ ~v43) THEN 1 ELSE 0)
  /\ UNCHANGED <<n_lines, reference, read, ignored>>

Finished == status \in {"returned", "terminated"} /\ UNCHANGED parserVars

ParserNext ==
  \/ \E l \in FirstLine : UnknownVersion(l) \/ KnownVersion(l)
  \/ \E l \in Line : ParseLine(l)
  \/ RecordEscapes
  \/ WriteErrors
  \/ End
  \/ Finished

(* One thread runs the loop of validate and never waits but for input. *)
ParserSpec == ParserInit /\ [][ParserNext]_parserVars /\ WF_parserVars(ParserNext)
-----------------------------------------------------------------------------
ParserTypeOK ==
  /\ config \in Configs
  /\ status \in {"start", "read", "write", "write last", "returned", "terminated"}
  /\ cs \in States
  /\ n_lines \in Nat
  /\ m_is_valid \in BOOLEAN /\ reference \in BOOLEAN
  /\ found \in Found /\ report \in Seq(Finding)
  /\ read \in Seq(Line \cup FirstLine)
  /\ ignored \subseteq 1..Len(read)
  /\ meta_checks \in Nat
  /\ verdict \in {"none", "valid", "invalid"}

(***************************************************************************)
(* The shape of a VCF file, written down without a machine: a fileformat   *)
(* line, meta entries up to a header, records, and blank lines at the end. *)
(***************************************************************************)
HeaderAt ==
  LET headers == {i \in 2..Len(read) : read[i].kind \in {"header", "header broken"}}
  IN  IF headers = {} THEN Len(read) + 1 ELSE CHOOSE i \in headers : \A k \in headers : i <= k

PassesChecks(kind) == kind \notin {"meta fails", "fails"} \/ ~Semantic

WellPlaced(i) ==
  LET l == read[i]
  IN  /\ PassesChecks(l.kind)
      /\ \/ i = 1 /\ l.kind = "fileformat" /\ l.whole
         \/ i \in 2..(HeaderAt - 1) /\ l.kind \in MetaKinds \cup {"meta fails"} /\ l.whole
         \/ i > 1 /\ i = HeaderAt /\ l.kind = "header" /\ l.whole
         \/ i > HeaderAt /\ l.kind = "blank"
         \/ /\ i > HeaderAt /\ l.kind \in RecordKinds
            /\ l.whole \/ ~v43
            /\ \A k \in HeaderAt..i : read[k].kind # "blank"

WellFormed ==
  /\ HeaderAt <= Len(read)
  /\ \A i \in 1..Len(read) : WellPlaced(i)

ReportsError == \E k \in 1..Len(report) : report[k].severity = "error"

ErrorsAt(i) == {k \in 1..Len(report) : report[k].severity = "error" /\ report[k].at = i}

(* The lines that the machine is done with. *)
Settled == {i \in 1..Len(read) : status = "returned" \/ (status = "read" /\ read[i].whole)}

(***************************************************************************)
(* The recovery after errors is right: as long as no line was ignored,     *)
(* every line has exactly one error if it is not well placed and none if   *)
(* it is, whatever came before it.  A broken line neither hides the errors *)
(* of the next ones nor makes good ones look bad, at every level that      *)
(* reports errors (fgoto meta_section_skip and body_section_skip).         *)
(***************************************************************************)
OneErrorPerBadLine ==
  ignored = {} /\ level # "stop" =>
    \A i \in Settled : Cardinality(ErrorsAt(i)) = IF WellPlaced(i) THEN 0 ELSE 1

(***************************************************************************)
(* The verdict of is_valid_vcf_file is right, at every level and for every *)
(* version: as long as no line was ignored, a file is found valid exactly  *)
(* when it is well formed.                                                 *)
(***************************************************************************)
VerdictRight ==
  status = "returned" /\ ignored = {} => (verdict = "valid" <=> WellFormed)

(***************************************************************************)
(* The verdict and the report agree, also where lines were ignored: a file *)
(* is invalid exactly when an error was written to the report.             *)
(***************************************************************************)
VerdictMatchesReport ==
  status = "returned" => (verdict = "invalid" <=> ReportsError)

(***************************************************************************)
(* The number reported with an error or warning is the number of its line, *)
(* in files whose lines end in '\n' and as long as no line was ignored.    *)
(***************************************************************************)
LineNumbersRight ==
  eol = "LF" /\ ignored = {} =>
    \A k \in 1..Len(report) : report[k].line = report[k].at

(***************************************************************************)
(* The checks of the meta section run once for a file that has a header,   *)
(* wherever the meta section ends: before the first record, blank line or  *)
(* end of file, or in a broken header ("meta_section_end won't be          *)
(* triggered" there).  A header that breaks off in a file of version 4.3   *)
(* is the exception.                                                       *)
(***************************************************************************)
MetaCheckedOnce ==
  ignored = {} =>
    /\ meta_checks <= 1
    /\ status = "returned" /\ HeaderAt <= Len(read) =>
         (meta_checks = 0 <=> v43 /\ cs = "in header")

(***************************************************************************)
(* The loop of validate ends, for every file, whatever it finds in it.     *)
(***************************************************************************)
Terminates == <>(status \in {"returned", "terminated"})

(***************************************************************************)
(* debugulator.cpp finds the lines to fix by the numbers in the report:    *)
(* "the first line is the number 1, ParsingState takes this convention     *)
(* too".                                                                   *)
(***************************************************************************)
LineNumbersFindLines ==
  \A k \in 1..Len(report) : report[k].line = report[k].at

(***************************************************************************)
(* README.md: "If any inconsistencies are found" they are reported, errors *)
(* being "violations of the VCF specification".                            *)
(***************************************************************************)
ValidIsWellFormed ==
  status = "returned" /\ verdict = "valid" => WellFormed
=============================================================================
