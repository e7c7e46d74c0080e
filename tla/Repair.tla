------------------------------- MODULE Repair -------------------------------
(***************************************************************************)
(* The two programs together, as debugulator_integration_test.cpp runs     *)
(* them: vcf_validator writes a report, vcf_debugulator fixes the file     *)
(* with it, and the fixed file is validated again, until it is valid or no *)
(* longer changes.                                                         *)
(***************************************************************************)
EXTENDS RecordChecks, Debugulator

CONSTANT Files  (* files to begin with: their version and lines            *)

ASSUME FilesAssumption ==
  \A f \in Files : f.version \in {"v41", "v42", "v43"} /\ f.lines \in Seq(Lines)

OfKindAt(lines, kind) == {at \in 1..Len(lines) : lines[at].kind = kind}

(* Meta entries, a header, records. *)
InSections(lines) ==
  /\ Cardinality(OfKindAt(lines, "header")) <= 1
  /\ OfKindAt(lines, "body") # {} => OfKindAt(lines, "header") # {}
  /\ \A h \in OfKindAt(lines, "header") :
       /\ \A at \in OfKindAt(lines, "meta") : at < h
       /\ \A at \in OfKindAt(lines, "body") : at > h

(* The records of a contig in one piece and by position. *)
RecordsInOrder(lines) ==
  \A i, k \in OfKindAt(lines, "body") :
    (i < k /\ lines[i].chromosome = lines[k].chromosome) =>
      /\ lines[i].position <= lines[k].position
      /\ \A m \in i..k : lines[m].chromosome = lines[i].chromosome

(***************************************************************************)
(* Which files the report below is right for: those without an error of    *)
(* the sections (VcfParser has these), of check_sorted (ContigOrder has    *)
(* them) or of a value in a sample that is empty text.  No fix moves a     *)
(* line, changes its place or writes such a value, so it stays like that.  *)
(***************************************************************************)
ASSUME FilesInScope ==
  \A f \in Files :
    /\ InSections(f.lines) /\ RecordsInOrder(f.lines)
    /\ \A at \in OfKindAt(f.lines, "body") : \A s \in 1..Len(f.lines[at].samples) :
         ~Contains(f.lines[at].samples[s], << >>)

VARIABLES
  version,
  file,     (* the lines of the file as it is now                          *)
  stage     (* "validate", "fix", or how it ended: "valid", "unchanged",   *)
            (* "escaped" (from the validator), "stopped" (the debugulator) *)

repairVars == <<version, file, stage, debugulatorVars>>
-----------------------------------------------------------------------------
OfKind(lines, kind) == SelectSeq(lines, LAMBDA line : line.kind = kind)

(* An entry with an error is not stored. *)
SourceOf(v, lines) ==
  [version |-> v,
   meta_entries |-> FieldsAt(lines, LAMBDA at : lines[at].kind = "meta"
                                                  /\ MetaError(v, lines[at]) = Nothing),
   samples_names |-> IF OfKind(lines, "header") = << >> THEN 0 ELSE OfKind(lines, "header")[1].samples]

LineError(v, lines, at) ==
  CASE lines[at].kind = "meta"   -> MetaError(v, lines[at])
    [] lines[at].kind = "header" -> Nothing
    [] OTHER                     -> BodyError(SourceOf(v, lines), lines[at])

(* The alleles of the lines without an error, as normalize gives them. *)
Cores(lines, thrown) ==
  UNION {{<<at, i>> : i \in 1..Len(lines[at].alternates)} :
           at \in {x \in 1..Len(lines) : lines[x].kind = "body" /\ thrown[x] = Nothing}}

CoreOf(lines, core) ==
  LET line == lines[core[1]]
  IN  <<line.chromosome, line.position, line.reference, line.alternates[core[2]]>>

(* Each occurrence of a variant that has more than one is reported once,   *)
(* the first too (RecordCache!EachOccurrenceOnce).                         *)
DuplicatesIn(lines, cores) ==
  {core \in cores : \E other \in cores \ {core} : CoreOf(lines, other) = CoreOf(lines, core)}

Reported(at, thrown) == [k \in 1..Len(thrown) |-> [line |-> at, error |-> thrown[k]]]

(* The errors in the order of their lines.  Without a header the end of    *)
(* the file is one more error, on the line after the last.                 *)
ReportOf(v, lines) ==
  LET thrown     == [at \in 1..Len(lines) |-> LineError(v, lines, at)]
      duplicates == DuplicatesIn(lines, Cores(lines, thrown))
      NumberOf(at) == Cardinality({core \in duplicates : core[1] = at})
  IN  FlattenSeq([at \in 1..Len(lines) |->
        Reported(at, thrown[at] \o [k \in 1..NumberOf(at) |->
                                     Irrecoverable("DuplicationError", "")])])
        \o (IF OfKind(lines, "header") = << >>
              THEN Reported(Len(lines) + 1, <<Irrecoverable("HeaderSectionError", "")>>) ELSE << >>)

Escapes(v, lines) == \E at \in 1..Len(lines) : LineError(v, lines, at) = <<Escape>>
-----------------------------------------------------------------------------
RepairInit ==
  /\ \E f \in Files : version = f.version /\ file = f.lines
  /\ stage = "validate"
  /\ input = << >> /\ errors = << >> /\ errors_fixed = 0 /\ current_line = 0
  /\ output = << >> /\ ignored_errors = 0 /\ status = "returned"

(* is_valid_vcf_file with the report of a database, then fix_vcf_file. *)
Validate ==
  /\ stage = "validate"
  /\ ~Escapes(version, file)
  /\ Start(file, ReportOf(version, file))
  /\ stage' = "fix"
  /\ UNCHANGED <<version, file>>

ValidatorFails ==
  /\ stage = "validate"
  /\ Escapes(version, file)
  /\ stage' = "escaped"
  /\ UNCHANGED <<version, file, debugulatorVars>>

DebugulatorStep ==
  /\ stage = "fix"
  /\ FixVcfFile
  /\ UNCHANGED <<version, file, stage>>

DebugulatorFails ==
  /\ stage = "fix"
  /\ status \in {"throws", "crashes"}
  /\ stage' = "stopped"
  /\ UNCHANGED <<version, file, debugulatorVars>>

OutputLines == [k \in 1..Len(output) |-> output[k].line]

(* A valid file is kept: the debugulator writes nothing for it. *)
NextRound ==
  /\ stage = "fix"
  /\ status = "returned"
  /\ IF errors = << >> \/ OutputLines = input
       THEN stage' = (IF errors = << >> THEN "valid" ELSE "unchanged") /\ UNCHANGED file
       ELSE stage' = "validate" /\ file' = OutputLines
  /\ UNCHANGED <<version, debugulatorVars>>

RepairNext ==
  Validate \/ ValidatorFails \/ DebugulatorStep \/ DebugulatorFails \/ NextRound

RepairSpec == RepairInit /\ [][RepairNext]_repairVars
-----------------------------------------------------------------------------
RepairTypeOK ==
  /\ DebugulatorTypeOK
  /\ version \in {"v41", "v42", "v43"}
  /\ file \in Seq(Lines)
  /\ stage \in {"validate", "fix", "valid", "unchanged", "escaped", "stopped"}

(***************************************************************************)
(* How much there is to take away or to put right: lines, their fields,    *)
(* less for the field that stands for an empty column, more for an INFO    *)
(* field that is not just what a recoverable error would put there, and    *)
(* the values of samples that are not missing.                             *)
(***************************************************************************)
Total(weights) ==
  LET sum[i \in 0..Len(weights)] == IF i = 0 THEN 0 ELSE sum[i - 1] + weights[i]
  IN  sum[Len(weights)]

ExpectedTokens(line, key) ==
  CASE key = "END"   -> {ExpectedEnd(line)}
    [] key = "SVLEN" -> {line.alternates[i].size - line.reference : i \in 1..Len(line.alternates)}
    [] OTHER         -> {}

InfoWeight(line, field) ==
  IF field.key = "." THEN 1
  ELSE IF \E token \in ExpectedTokens(line, field.key) : field.parts = << <<token>> >> THEN 2
  ELSE 3

IsGiven(value) == \E t \in 1..Len(value) : value[t] # Missing

FilterWeight(filter) ==
  Total([i \in 1..Len(filter) |-> IF filter[i] = "." THEN 1 ELSE 2])
InfoColumnWeight(line, info) ==
  IF info = << >> THEN 2 ELSE Total([i \in 1..Len(info) |-> InfoWeight(line, info[i])])
FormatWeight(format) ==
  Total([i \in 1..Len(format) |-> IF format[i] = "" THEN 1 ELSE 2])
SampleWeight(sample) ==
  Total([j \in 1..Len(sample) |-> IF IsGiven(sample[j]) THEN 1 ELSE 0])
SamplesWeight(samples) ==
  Total([s \in 1..Len(samples) |-> SampleWeight(samples[s])])

BodyWeight(line) ==
  Len(line.ids) + FilterWeight(line.filter) + InfoColumnWeight(line, line.info)
    + FormatWeight(line.format) + SamplesWeight(line.samples)

(* A predefined Number or Type that is not the one of the tag. *)
MetaWeight(v, line) ==
  LET source == [version |-> v]
      tags   == IF line.column = "INFO" THEN InfoTags(source) ELSE FormatTags(source)
  IN  IF line.id \notin DOMAIN tags THEN 0
      ELSE (IF line.Number = tags[line.id].Number THEN 0 ELSE 1)
             + (IF line.Type = tags[line.id].Type THEN 0 ELSE 1)

LineWeight(v, line) ==
  CASE line.kind = "body" -> 1 + BodyWeight(line)
    [] line.kind = "meta" -> 1 + MetaWeight(v, line)
    [] OTHER              -> 1

Weight(v, lines) == Total([at \in 1..Len(lines) |-> LineWeight(v, lines[at])])

(***************************************************************************)
(* No fix undoes another one: a round that changes the file leaves less to *)
(* fix, so that repeating the two programs comes to an end with every file.*)
(***************************************************************************)
EachRoundLightens == [][file' # file => Weight(version, file') < Weight(version, file)]_repairVars

Fixed == stage = "fix" /\ status = "returned" /\ errors # << >>

(* The error that line k of the output was fixed for, and those it has now.*)
ErrorOf(k) == ErrorsAt(output[k].at)
ErrorNow(k) == LineError(version, OutputLines, k)
SameError(e, f) == e.type = f.type /\ e.error_fix = f.error_fix /\ e.field = f.field

(* The error was one of the grammar, in INFO. *)
SyntacticInfo(k) ==
  /\ ErrorOf(k)[1].error.type = "InfoBodyError"
  /\ ErrorOf(k)[1].error.error_fix = "IRRECOVERABLE_VALUE"
  /\ ErrorOf(k)[1].error.field = ""

StillThere == {k \in 1..Len(output) :
                 ErrorOf(k) # << >> /\ ErrorNow(k) # Nothing
                   /\ SameError(ErrorNow(k)[1], ErrorOf(k)[1].error)}

(***************************************************************************)
(* fix_vcf_file returns how many errors it could not fix: every other      *)
(* error of the report is not found again in the fixed file.  The errors   *)
(* of the grammar in INFO are left out: they have no field, at most a last *)
(* semicolon is fixed, and they are not counted.                           *)
(***************************************************************************)
IgnoredCounted ==
  Fixed => Cardinality({k \in StillThere : ~SyntacticInfo(k)}) <= ignored_errors

(* The value of a key in a sample, as a sequence with it or without. *)
ValueOf(line, s, key) ==
  LET index == Min(IndexesOf(line.format, key))
  IN  IF index <= Len(line.samples[s]) THEN <<line.samples[s][index]>> ELSE << >>

NoShortSamples(line) == \A s \in 1..Len(line.samples) : Len(line.samples[s]) >= Len(line.format)

KeptKeys(before, after, e) == ToSet(after.format) \ {"", e.field}

SamplesKept(before, after, e) ==
  /\ Len(after.samples) = Len(before.samples)
  /\ \A key \in KeptKeys(before, after, e), s \in 1..Len(before.samples) :
       ValueOf(after, s, key) = ValueOf(before, s, key)
  /\ e.type = "SamplesFieldBodyError" =>
       ToSet(after.format) \in {ToSet(before.format), (ToSet(before.format) \ {e.field})
                                   \cup (IF Len(before.format) = 1 THEN {""} ELSE {})}

InfoKept(before, after, e) ==
  \A i \in 1..Len(before.info) :
    before.info[i].key = e.field
      \/ (e.error_fix = "DUPLICATE_VALUES" /\ \E k \in 1..Len(before.info) :
            k # i /\ before.info[k].key = before.info[i].key)
      \/ Contains(after.info, before.info[i])

(***************************************************************************)
(* A fix changes nothing but what its error is about: samples and FORMAT   *)
(* keep the values of all other keys in step, INFO keeps the fields of all *)
(* other keys.  Not so for a sample that left out its last fields (next    *)
(* property), a key that FORMAT has twice in versions 4.1 and 4.2, and a   *)
(* flag or a field with two '=' in an INFO with duplicates.                *)
(***************************************************************************)
NothingElseLost ==
  Fixed => \A k \in 1..Len(output) :
    ErrorOf(k) # << >> =>
      LET before == input[output[k].at]
          after  == output[k].line
          e      == ErrorOf(k)[1].error
      IN  before.kind = "body" =>
            /\ ToSet(after.ids) = ToSet(before.ids)
            /\ ToSet(after.filter) \ {"0", "."} = ToSet(before.filter) \ {"0", "."}
            /\ (NoShortSamples(before) /\ (e.type = "SamplesFieldBodyError" => ~HasDuplicates(before.format)))
                 => SamplesKept(before, after, e)
            /\ (e.error_fix = "DUPLICATE_VALUES"
                  => \A i \in 1..Len(before.info) : Len(before.info[i].parts) = 1)
                 => InfoKept(before, after, e)

(***************************************************************************)
(* No fix writes a value on which the validator then fails: where the      *)
(* fixed line has one (std::stold of a missing AF or GP, std::stoi for     *)
(* SVLEN), it was in the line before, hidden by the error that was fixed.  *)
(* The removal of a samples field may bring the value of another key under *)
(* GP where a sample left out its last fields or FORMAT repeats the key.   *)
(***************************************************************************)
NoEscapeWritten ==
  Fixed => \A k \in 1..Len(output) :
    LET before == input[output[k].at]
    IN  (/\ ErrorOf(k) # << >> /\ ErrorNow(k) = <<Escape>>
         /\ ErrorOf(k)[1].error.type = "SamplesFieldBodyError"
              => NoShortSamples(before) /\ ~HasDuplicates(before.format))
        => Contains(Record(SourceOf(version, input), before), Escape)

(***************************************************************************)
(* fixer.hpp on the fix of a samples field: "For each sample column ...    *)
(* Remove it from the FORMAT and samples columns".  A sample may leave out *)
(* its last fields; the keys that stay must keep their values all the same.*)
(***************************************************************************)
EachSampleFixed ==
  Fixed => \A k \in 1..Len(output) :
    (ErrorOf(k) # << >> /\ ErrorOf(k)[1].error.type = "SamplesFieldBodyError"
       /\ ~HasDuplicates(input[output[k].at].format))
      => SamplesKept(input[output[k].at], output[k].line, ErrorOf(k)[1].error)

RepeatedKeys(line) == {key \in ToSet(line.format) : Cardinality(IndexesOf(line.format, key)) > 1}

(***************************************************************************)
(* The fix of a FORMAT with one repeated key: it stays, once, exactly if   *)
(* its values are the same in every sample.  With more than one repeated   *)
(* key the loop of get_format_fields_to_remove misses some.                *)
(***************************************************************************)
FormatDuplicatesFixed ==
  Fixed => \A k \in 1..Len(output) :
    (ErrorOf(k) # << >> /\ ErrorOf(k)[1].error = Duplicated("FormatBodyError")
       /\ Cardinality(RepeatedKeys(input[output[k].at])) = 1)
      => LET before == input[output[k].at]
             after  == output[k].line
         IN  /\ ~HasDuplicates(after.format)
             /\ \A key \in ToSet(before.format) :
                  key \in ToSet(after.format) <=>
                    ~\E s \in 1..Len(before.samples) : Differ(before.format, before.samples[s], key)

(***************************************************************************)
(* The fix of an INFO with duplicate keys, if each field has one value: a  *)
(* key stays, once, exactly if all its values are the same.                *)
(***************************************************************************)
InfoDuplicatesFixed ==
  Fixed => \A k \in 1..Len(output) :
    (ErrorOf(k) # << >> /\ ErrorOf(k)[1].error = Duplicated("InfoBodyError"))
      => LET before == input[output[k].at].info
             after  == output[k].line.info
         IN  (\A i \in 1..Len(before) : Len(before[i].parts) = 1) =>
               /\ ~HasDuplicates(KeysOf(after))
               /\ \A i \in 1..Len(before) :
                    Contains(after, before[i]) <=>
                      \A n \in 1..Len(before) : before[n].key = before[i].key => before[n] = before[i]

(***************************************************************************)
(* check_body_entry_info_confidence_interval reads values[1] of CIPOS with *)
(* no look at the size: the checks that a record and a meta entry have     *)
(* passed before must leave two values in it.                              *)
(***************************************************************************)
OptionalReadsSafe ==
  stage = "fix" =>
    \A at \in 1..Len(input) :
      (input[at].kind = "body" /\ LineError(version, input, at) = Nothing) =>
        \A i \in 1..Len(input[at].info) :
          input[at].info[i].key = "CIPOS" => Len(InfoValue(input[at].info[i])) = 2
=============================================================================
