---------------------------- MODULE RecordChecks ----------------------------
(***************************************************************************)
(* Which error, if any, a line of a file is given: by the grammar, by the  *)
(* constructor of Record (record.cpp) and by the check of a meta entry     *)
(* (meta_entry.cpp).                                                       *)
(*                                                                         *)
(* A check is the sequence of the errors that it finds, in the order of    *)
(* the code.  Of all the checks of a line the first error is thrown, which *)
(* ends the others.  `source' is the Source of the code: the version, the  *)
(* meta entries and the number of samples named in the header.             *)
(***************************************************************************)
EXTENDS Columns, Combinatorics

CONSTANTS
  DefaultPloidy,
  ContigPloidies  (* the exceptions, a function on some of the contigs     *)

ASSUME PloidyConstants ==
  /\ DefaultPloidy \in Nat \ {0}
  /\ \A contig \in DOMAIN ContigPloidies : ContigPloidies[contig] \in Nat \ {0}

Nothing == << >>

(* The error that is thrown. *)
FirstThrown(checks) == IF checks = Nothing THEN Nothing ELSE <<checks[1]>>

(* The checks of a loop. *)
Each(n, Check(_)) == FlattenSeq([i \in 1..n |-> Check(i)])

Throw(condition, error) == IF condition THEN <<error>> ELSE Nothing

(* An exception of the standard library, which nobody turns into an Error. *)
Escape == Error("std::exception", "IRRECOVERABLE_VALUE", "")

Irrecoverable(type, field) == Error(type, "IRRECOVERABLE_VALUE", field)
Duplicated(type) == Error(type, "DUPLICATE_VALUES", "")
Genotype(cardinality) ==
  [Irrecoverable("SamplesFieldBodyError", "GT") EXCEPT !.field_cardinality = cardinality]
-----------------------------------------------------------------------------
(* The predefined tags: one or more of each kind that the checks tell      *)
(* apart.                                                                  *)
Tag(type, number) == [Type |-> type, Number |-> number]

info_v41_v42 ==
  [AF |-> Tag("Float", A), CICNADJ |-> Tag("Integer", Missing), CIPOS |-> Tag("Integer", 2),
   DB |-> Tag("Flag", 0), DP |-> Tag("Integer", 1), END |-> Tag("Integer", 1),
   IMPRECISE |-> Tag("Flag", 0), SVLEN |-> Tag("Integer", Missing)]
info_v43 ==
  [AD |-> Tag("Integer", R), AF |-> Tag("Float", A), CICNADJ |-> Tag("Integer", Missing),
   CIPOS |-> Tag("Integer", 2), DB |-> Tag("Flag", 0), DP |-> Tag("Integer", 1),
   END |-> Tag("Integer", 1), IMPRECISE |-> Tag("Flag", 0), SVLEN |-> Tag("Integer", Missing)]

format_v41_v42 ==
  [DP |-> Tag("Integer", 1), GP |-> Tag("Float", G), GT |-> Tag("String", 1)]
format_v43 ==
  [AD |-> Tag("Integer", R), CNP |-> Tag("Float", G), DP |-> Tag("Integer", 1),
   GP |-> Tag("Float", G), GT |-> Tag("String", 1)]

InfoTags(source) == IF source.version = "v43" THEN info_v43 ELSE info_v41_v42
FormatTags(source) == IF source.version = "v43" THEN format_v43 ELSE format_v41_v42

(* Tags whose integers may be negative. *)
SignedTags == {"SVLEN", "CIPOS", "CICNADJ"}
-----------------------------------------------------------------------------
get_ploidy(contig) ==
  IF contig \in DOMAIN ContigPloidies THEN ContigPloidies[contig] ELSE DefaultPloidy

is_valid_cardinality(line, number) ==
  LET alternates == Len(line.alternates)
      ploidy     == get_ploidy(line.chromosome)
  IN  CASE number = A       -> alternates
        [] number = R       -> alternates + 1
        [] number = G       -> choose(alternates + ploidy, ploidy)
        [] number = Missing -> -1
        [] OTHER            -> number

(* A genotype has no commas. *)
SizeOf(key, value) == IF key = "GT" THEN 1 ELSE Len(value)

(* A bug: a Number of 1 or more is a lower bound. *)
MutantCardinality(line, size, number) ==
  is_valid_cardinality(line, number) > 0 => size >= 1

check_field_cardinality(line, size, number) ==
  LET expected == is_valid_cardinality(line, number)
  IN  /\ expected > 0 => size = expected
      /\ expected = 0 => size \in {0, 1}

check_value_type(type, token) ==
  CASE type = "Integer" -> token \notin Specials
    [] type = "Float"   -> token \notin Specials \/ token = Fraction
    [] type = "Flag"    -> token \notin Specials /\ token \in {0, 1}
    [] OTHER            -> TRUE

check_field_type(value, type) ==
  \A i \in 1..Len(value) : value[i] = Missing \/ check_value_type(type, value[i])

FieldMatches(line, key, value, tag) ==
  check_field_cardinality(line, SizeOf(key, value), tag.Number) /\ check_field_type(value, tag.Type)

check_field_integer_range(key, value) ==
  key \in SignedTags \/ \A i \in 1..Len(value) : value[i] = Missing \/ value[i] >= 0

check_predefined_tag(line, key, value, tags) ==
  key \in DOMAIN tags =>
    /\ FieldMatches(line, key, value, tags[key])
    /\ tags[key].Type = "Integer" => check_field_integer_range(key, value)

(* The meta entries that describe a key; the first one counts. *)
DescribedBy(source, column, key) ==
  LET entries == source.meta_entries
  IN  FieldsAt(entries, LAMBDA i : entries[i].column = column /\ entries[i].id = key)

MatchesMetaOrTags(source, line, column, key, value, tags) ==
  LET entries == DescribedBy(source, column, key)
  IN  IF entries # << >> THEN FieldMatches(line, key, value, entries[1])
                         ELSE check_predefined_tag(line, key, value, tags)

(* std::stold of each value in turn, for the tags that are probabilities. *)
check_unit_interval(value, error) ==
  Each(Len(value), LAMBDA i :
    CASE value[i] = Missing  -> <<Escape>>
      [] value[i] = Fraction -> Nothing
      [] OTHER               -> Throw(value[i] \notin {0, 1}, error))
-----------------------------------------------------------------------------
(* What handle_body_line takes for the value of an INFO field. *)
InfoValue(field) == IF field.parts = << >> THEN << >> ELSE field.parts[1]

ExpectedEnd(line) == line.position + line.reference - 1

(* The first IMPRECISE of the record is 0. *)
IsPrecise(line) ==
  LET found == SelectSeq(line.info, LAMBDA field : field.key = "IMPRECISE")
  IN  found # << >> /\ InfoValue(found[1]) = <<0>>

check_svlen(line, value) ==
  Each(Len(line.alternates), LAMBDA i :
    LET alternate == line.alternates[i]
        expected  == alternate.size - line.reference
    IN  CASE alternate.form = "bases" ->
               Throw(value[i] # expected, Expecting("InfoBodyError", "SVLEN", expected))
          [] alternate.form \in {"<INS", "<DUP", "<DEL"} /\ value[i] \in Specials -> <<Escape>>
          [] alternate.form \in {"<INS", "<DUP"} /\ value[i] \notin Specials ->
               Throw(value[i] < 0, Irrecoverable("InfoBodyError", "SVLEN"))
          [] alternate.form = "<DEL" /\ value[i] \notin Specials ->
               Throw(value[i] > 0, Irrecoverable("InfoBodyError", "SVLEN"))
          [] OTHER -> Nothing)

strict_validation_info_predefined_tags(line, key, value) ==
  CASE key = "AF"  -> check_unit_interval(value, Irrecoverable("InfoBodyError", "AF"))
    [] key = "END" -> Throw(IsPrecise(line) /\ value # <<ExpectedEnd(line)>>,
                            Expecting("InfoBodyError", "END", ExpectedEnd(line)))
    [] key = "SVLEN" /\ Len(value) = Len(line.alternates) -> check_svlen(line, value)
    [] OTHER       -> Nothing

check_info_field(source, line, field) ==
  IF field.key = "." THEN Nothing
  ELSE LET value == InfoValue(field)
       IN  Throw(~MatchesMetaOrTags(source, line, "INFO", field.key, value, InfoTags(source)),
                 Irrecoverable("InfoBodyError", field.key))
             \o strict_validation_info_predefined_tags(line, field.key, value)

(* The fields are in a multimap: by their keys, those of one key in turn. *)
check_info(source, line) ==
  Throw(source.version = "v43" /\ HasDuplicates(KeysOf(line.info)), Duplicated("InfoBodyError"))
    \o Each(Len(KeyOrder), LAMBDA k :
         Each(Len(line.info), LAMBDA i :
           IF line.info[i].key = KeyOrder[k] THEN check_info_field(source, line, line.info[i])
                                             ELSE Nothing))
-----------------------------------------------------------------------------
check_format(source, line) ==
  Throw(Contains(line.format, "GT") /\ line.format[1] # "GT", Irrecoverable("FormatBodyError", ""))
    \o Throw(source.version = "v43" /\ HasDuplicates(line.format), Duplicated("FormatBodyError"))

check_sample_alleles(line, sample) ==
  Throw(sample # << >> /\ \E i \in 1..Len(sample[1]) :
          LET allele == sample[1][i]
          IN  allele # Missing /\ (allele \in Specials \/ allele \notin 0..Len(line.alternates)),
        Genotype(get_ploidy(line.chromosome)))

(* The cardinality of an error is known only for a described field. *)
check_subfield(source, line, key, value) ==
  LET entries == DescribedBy(source, "FORMAT", key)
      number  == IF entries = << >> THEN -1 ELSE is_valid_cardinality(line, entries[1].Number)
      error   == Irrecoverable("SamplesFieldBodyError", key)
  IN  Throw(~MatchesMetaOrTags(source, line, "FORMAT", key, value, FormatTags(source)),
            [error EXCEPT !.field_cardinality = number])
        \o (IF key = "GP" \/ (key = "CNP" /\ source.version = "v43")
              THEN check_unit_interval(value, error) ELSE Nothing)

check_sample(source, line, sample) ==
  Throw(Len(sample) > Len(line.format), Irrecoverable("SamplesBodyError", ""))
    \o (IF line.format[1] = "GT" THEN check_sample_alleles(line, sample) ELSE Nothing)
    \o Each(Min({Len(sample), Len(line.format)}), LAMBDA j :
         check_subfield(source, line, line.format[j], sample[j]))

check_samples(source, line) ==
  Throw(Len(line.samples) # source.samples_names, Irrecoverable("SamplesBodyError", ""))
    \o Each(Len(line.samples), LAMBDA i : check_sample(source, line, line.samples[i]))
-----------------------------------------------------------------------------
check_chromosome(line) ==
  Throw(line.chromosome \in {"a:b", "a b"}, Irrecoverable("ChromosomeBodyError", ""))

check_ids(source, line) ==
  Throw(source.version = "v43" /\ HasDuplicates(line.ids), Duplicated("IdBodyError"))

check_alternate_alleles(line) ==
  Throw(\E i \in 1..Len(line.alternates) :
          LET form == line.alternates[i].form
          IN  form \in {"reference", "<other"} \/ (form = "." /\ Len(line.alternates) > 1),
        Irrecoverable("AlternateAllelesBodyError", ""))

check_quality(line) == Throw(line.quality < 0, Irrecoverable("QualityBodyError", ""))

check_filter(source, line) ==
  Throw(source.version = "v43" /\ HasDuplicates(line.filter), Duplicated("FilterBodyError"))
    \o Throw(Contains(line.filter, "0"), Irrecoverable("FilterBodyError", "0"))

(* The constructor of Record. *)
Record(source, line) ==
  check_chromosome(line) \o check_ids(source, line) \o check_alternate_alleles(line) \o check_quality(line)
    \o check_filter(source, line) \o check_info(source, line) \o check_format(source, line)
    \o check_samples(source, line)

(* What the grammar refuses in a record, from its INFO on.  At the first   *)
(* text that it refuses, a sample that may still begin with a genotype has *)
(* the error of a genotype, any other one that of the sample: behind a     *)
(* comma or anything but a number or a dot, no genotype is read any more.  *)
MayBeGenotype(format, value) ==
  /\ \A t \in 1..Len(value) : value[t] \in Nat \cup {Missing}
  /\ value # << >> => format[1] = "GT"

grammar_sample(format, sample) ==
  Throw(sample = << >> \/ \E t \in 1..Len(sample[1]) :
          sample[1][t] = Illegal /\ MayBeGenotype(format, SubSeq(sample[1], 1, t - 1)),
        Genotype(-1))
    \o Throw(\E j \in 1..Len(sample) : Contains(sample[j], Illegal),
             Irrecoverable("SamplesBodyError", ""))

grammar_record(line) ==
  Throw(line.info = << >> \/ \E i \in 1..Len(line.info) :
          line.info[i].key = "" \/ \E p \in 1..Len(line.info[i].parts) :
            line.info[i].parts[p] = << >> \/ Contains(line.info[i].parts[p], Illegal),
        Irrecoverable("InfoBodyError", ""))
    \o Throw(line.format # << >> /\ (Contains(line.format, "") \/ line.samples = << >>),
             Irrecoverable("FormatBodyError", ""))
    \o Each(Len(line.samples), LAMBDA i : grammar_sample(line.format, line.samples[i]))

(* A Record is built of what the grammar accepts. *)
BodyError(source, line) ==
  FirstThrown(IF grammar_record(line) # Nothing THEN grammar_record(line) ELSE Record(source, line))
-----------------------------------------------------------------------------
(* check_info and check_format of a meta entry. *)
MetaError(version, line) ==
  LET source == [version |-> version]
      tags   == IF line.column = "INFO" THEN InfoTags(source) ELSE FormatTags(source)
      known  == line.id \in DOMAIN tags
      types  == {"Integer", "Float", "Character", "String"}
                  \cup (IF line.column = "INFO" THEN {"Flag"} ELSE {})
  IN  FirstThrown(
        Throw(line.Type \notin types, Irrecoverable("MetaSectionError", ""))
        \o Throw(known /\ tags[line.id].Number \notin {Missing, line.Number},
                 Expecting("MetaSectionError", "Number", tags[line.id].Number))
        \o Throw(known /\ tags[line.id].Type # line.Type,
                 [Error("MetaSectionError", "RECOVERABLE_VALUE", "Type")
                    EXCEPT !.expected_type = tags[line.id].Type]))
=============================================================================
