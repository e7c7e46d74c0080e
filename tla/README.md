# A TLA+ verification of vcf-validator

vcf-validator reads a VCF file line by line, decides whether it is valid and
reports errors and warnings, to a database or a text file; the debugulator
reads the database and fixes what it can. The program has one thread and
keeps its state between lines, so the hard behaviours are long sequences of
legal and illegal lines: recovery after an error, state that an exception left
half updated, caches at their limit, a process that ends between two writes.

## Inventory

| Component | Code | State | Operations | Correct when |
|---|---|---|---|---|
| Validation driver | `validator.cpp`, `stream_utils.hpp` | the stream, the parser | `is_valid_vcf_file`, `validate`, `parse`, `end`, `write_errors` | the verdict agrees with the file and the report; it ends |
| Section state machine | `vcf.ragel`, `vcf_v4x.ragel` | `cs`, `n_lines` | one error action per place in the grammar, `fgoto` to a skip | each bad line has one error, with its number, and good lines none |
| Parsing state | `parsing_state.*` | `errors`, `warnings`, `m_is_valid`, `defined_metadata`, `record` | `clear`, `add_error`, `add_warning`, `add_well_defined_meta` | nothing is reported twice or lost, no name is taken for described |
| Error policies | `report_error_policy.cpp`, `abort_error_policy.cpp` | none | `handle_error`, `handle_warning` | as the level says |
| Store parse policy | `store_parse_policy.cpp` | tokens, `finished_contigs`, `previous_contig`, `previous_position` | `handle_*`, `check_sorted` | a record is refused exactly if it breaks the order |
| Record cache | `record_cache.hpp` | a multiset of variants | `check_duplicates`, `shrink_to_fit` | duplicates are found, no false alarms, memory bounded |
| Normalizer | `normalizer.cpp` | none | `normalize`, `normalize_right_alignment` | a core is the same change as its allele, and never fails |
| Record and meta entry checks | `record.cpp`, `meta_entry.cpp`, `ploidy.hpp` | none | constructors that throw | the first violation throws; what later code reads unchecked is there |
| Optional checks | `validate_optional_policy.cpp` | `defined_metadata` | `optional_check_body_entry`, `optional_check_meta_section` | a warning for each record that is due one |
| Database report | `odb_report.cpp` | the transaction and its size | `write`, `flush`, `~OdbReportRW`, `count_*`, `for_each_*` | nothing lost on exit, little on a kill |
| Summary report | `summary_report_writer.hpp` | `already_reported`, `skip` | `write_error`, `write_warning` | the first of each finding is written |
| Debugulator | `debugulator.cpp`, `fixer.cpp` | the place in the input, ignored errors | `fix_vcf_file`, `visit` | each fix hits its line and nothing else, the rest is counted, and repairing again comes to an end |
| Command lines | `validator_main.cpp`, `debugulator_main.cpp` | none | options | |

How they interact: `validate` calls `parse` for each line. The state machine
calls the parse policy (columns, then `handle_body_line`, which builds the
Record and calls `check_sorted`), then the cache, then the optional policy, all
in `record_end`; errors are thrown as pointers and caught in `record_end`,
which hands them to the error policy. When `parse` returns, `write_errors`
hands what was collected to each writer. The database is the only thing shared
with the debugulator.

Hard behaviours: there are no threads and no messages. What is hard is the
state left behind by an exception (`check_sorted`, the optional checks),
recovery by `fgoto`, an error state that the generated code has no case for, a
bounded cache, a transaction that is open most of the time, exceptions that
nothing catches, and reads of values that were never written (`iterator->second`
of `end()`, `previous_position`) or lie past the end of a vector (`fixer.cpp`).
A line has at most one error in the report, the first that was found, so a file
is repaired in rounds, and each fix meets what the earlier ones have written. `PROJECT.json` lists these hazards with their
lines.

## Modules

| Module | Models | Composes |
|---|---|---|
| `RecordCache` | `RecordCache`, the order of `RecordCore` | |
| `OrderedLog` | abstract: what the order check promises | |
| `ContigOrder` | `StoreParsePolicy::check_sorted` | `OrderedLog`, by refinement |
| `BodyEntry` | `record_end`: a line of the body that follows the grammar | `RecordCache`, `ContigOrder` |
| `VcfParser` | `validator.cpp` and the section state machine | |
| `Reports` | `OdbReportRW`, `SummaryReportWriter` | |
| `Normalizer` | `normalize`, `normalize_right_alignment` | |
| `Columns` | the columns of a line, the errors as the Fixer sees them | |
| `RecordChecks` | the constructor of `Record`, meta entries, ploidy, and the grammar from INFO on: which error a line has | `Columns` |
| `Fixer` | `Fixer::visit` and the functions that rewrite a column | `Columns` |
| `Debugulator` | `fix_vcf_file` | `Fixer` |
| `Repair` | validator and debugulator in turn | `RecordChecks`, `Debugulator` |
| `*Proofs` | the theorems about each | |
| `NatLemmas` | least and greatest natural numbers, for the proofs | |
| `MC*` | values for the constants | |

### RecordCache

`cache` is the multiset as a set of entries: a core, its line and `ord`, the
number of its arrival, which is the place of an element among its equals.
Chromosomes and alleles are ranks in the order of `std::string::compare`, the
only thing the code asks of them. `CheckDuplicates` is the call,
`CheckCore` one turn of its loop; the last turn runs `shrink_to_fit`, as the
code does. `fed` and `duplicates` are histories.

### ContigOrder and OrderedLog

`check_sorted` has the three variables of the code. The flag of a contig is
read through the iterator before it is compared with `end()`, so any Boolean
may be read there; `previous_position` starts with any value. `OrderedLog`
knows nothing of this: a record is accepted if and only if the log of accepted
records stays grouped by contig and ascending. The refinement mapping is
`log <- accepted`.

### BodyEntry

A record is its place, the cores it is normalised to, the meta data it uses,
and how its own checks end (`built`, `checks`): it is built, it throws an Error,
or it throws an exception of the standard library, which nothing catches before
`main` (`std::stoi` on a position out of range, `std::stold` on `AF=.`). The
phases of `record_end` are the construction with `check_sorted`
(`RecordBuilt`, `RecordThrows`, `BuildEscapes`), the loop of
`check_duplicates` (`DuplicateCheck`) and `OptionalCheck`.

### VcfParser

A line is its kind: complete metadata, a complete header, a record, a broken
one of each, a blank line; `whole` says that it ends in a newline, `late` that
an unfinished line has nothing wrong but that. `cs` is the state of the machine
between lines. There is one action for each thing a line may be in each
section, and the actions share `Follow` (to the end of the line), `Skip` (the
`fgoto` to a skip machine), `BreakOff` (an unfinished last line) and `Ignore`.
`Outcome` is the error policy. After every call `WriteErrors` runs. Each
finding has the reported number (`line`) and that of the line at fault (`at`).
Versions 4.1 and 4.2 differ from 4.3 at the end of a file without a last
newline.

Two abstractions to know of: DuplicationErrors are not among the errors of
this module (they are BodyEntry's), and after the machine was restarted from
its error state every line is an error, though the code would go on with a line
that happens to continue `##fileformat`.

### Reports

A finding is its number. `Persist` is `OdbReportRW::write`; SQLite is external
and modelled by what its callers rely on: a transaction is lost unless
committed, and `persist` outside of one throws. `Kill` is `std::terminate` or a
signal; `Destroy` is a normal exit. `Visit` is `SummaryTracker`.

### Normalizer

An allele is a sequence of symbols, bases or other characters. `Construct` is the
check of the constructor that the preconditions of `normalize` rest on,
`NormalizeAllele` one turn of the loop of either function. `mismatch` is the
number of equal symbols instead of a pair of iterators.

### Columns and RecordChecks

A line is a record of its columns, already split; a value is the sequence of its
tokens, and a token a number, a fraction, a missing value, text, or text that
the grammar refuses. The fields, keys and samples are all there; the predefined
tags are one or more of each kind (Type and Number) that the code tells
apart. A check gives the sequence of errors that it would find, in the order of
the code; `FirstThrown` is the exception that ends the constructor. `Escape` is
an exception of the standard library (`std::stold` or `std::stoi` of `.`).
`grammar_sample` has the two errors of a sample: that of a genotype where the
text before the first token refused may still become one (`MayBeGenotype`),
that of the sample everywhere else.

### Fixer and Debugulator

A fix is the set of its outcomes: the lines written, how much `ignored_errors`
grows, and whether the process goes on. It has more than one where the code
reads past the end of a vector: `subfields[1]` of an INFO flag may give an empty
string, other text, or a crash. Where the code surely reads from an empty vector
(`key_value[0]`, `columns.back()`) the outcome is a crash. `Debugulator` has the
variables of `fix_vcf_file`; `output` also records the place in the input that
a line comes from.

### Repair

`Validate` makes the report of the file as it is, ordered by line as
`for_each_error` reads it, and calls `fix_vcf_file`; `NextRound` takes the output
for the next input, as `debugulator_integration_test.cpp` does once. Duplicates are those of
an unlimited cache, which `RecordCache` shows to be exact
(`EachOccurrenceOnce`); the core of an allele is its place, form and size. A
file without a header has an error on the line after its last, which is how
`TooShort` is reached.

`ReportOf` has neither the errors of `check_sorted`, which `ContigOrder` is about, nor those of
the sections, which `VcfParser` is about. The files to begin with have none of
them: `FilesInScope` asks that meta entries, the header and the records follow
each other, that the records of a contig stand together in ascending order, and
that no value of a sample is empty text. Fixes leave lines out at most and
keep their contig and position, so this stays so in every round.

## Runs

| Run | Shows |
|---|---|
| `cache` | every sequence of up to 5 cores, two chromosomes and two positions, records of one or two cores, capacities 0 (unlimited) to 3: bounded, no false alarms, exact when unlimited, complete on sorted input, and complete for what ranks high enough |
| `parser` | every file of up to 4 lines (6 where that is needed to leave the error state), 3 levels, both kinds of versions, both line ends: one error for each bad line and none for good ones, verdict, numbers, meta checks once, termination |
| `body` | every sequence of 4 of the 10 records of `MCBodyEntry`: the order check implements `OrderedLog`, refused records are never compared, an error for each lost record, warnings exactly when due, and together with the cache all duplicates of plain files found |
| `reports` | up to 5 findings, transactions of 3: the database is a prefix, complete after an exit; readers see all; the summary has each first |
| `normalizer` | every pair of alleles of up to 3 symbols over two bases and one other character, some with two alternates, both functions: never an exception, cores are the same change with no context left, and exactly which context changes a core |
| `repair` | files of up to 5 lines in families that put each part of a record through its small cases, versions 4.2 and 4.3: the order and completeness of the output, ignored errors counted, nothing else lost, duplicates fixed right, reads of optional checks safe, no fix writing a value on which the validator then ends, and every round leaving less to fix |
| `near_dup` | violation: a cache of two misses the duplicate of an adjacent record when its contig ranks below those before |
| `missing_contig` | violation: a missing contig is notified for each record, not "only once" |
| `parser_crlf` | violation: with `\r\n` a skipped line is counted twice |
| `parser_blank` | violation: text after a blank line of the body is not looked at |
| `summary_skip` | violation: a repeated missing definition hides the next warning of another type |
| `samples_fix` | violation: a sample without its last fields stops the removal of a field from the samples after it |

Bounds. The cache needs two contigs to have an order that is not the order of
arrival, two occurrences and one entry more than the capacity, and a third
occurrence for the "only match" rule: 5 cores with capacities up to 3 have all
of them. A file needs a bad line in each section, one line after it to see the
recovery, and an end: 4 lines after any choice of the first. The body needs two
contigs and a return to the first one, and a duplicate after an eviction: 4
records with capacities 1 and 2. A report needs a full transaction and an
incomplete one: size 3 and 5 findings; the code's size is 1000000, and the
proofs hold for every size. Alleles of 3 symbols have a leading and a trailing
base of context around a difference, and repeats that overlap. A repair needs
two INFO fields for a duplicate (`MaxInfo` 2; three only for an empty field in
between), two samples for one to differ from or be shorter than the other, two
repeated FORMAT keys for the jump in `get_format_fields_to_remove`, and three
records for a variant that occurs once, twice and three times; the versions
4.1 and 4.2 have the same checks. The default ploidy is 2.

Deadlock is checked in `parser`, where a finished run stutters explicitly. It
is off in the other runs, whose input simply ends at its bound.

Fairness. `ParserSpec` has weak fairness on its whole next-state relation: one
thread runs the loop of `validate` and stops only in the ways the model has. It
is what `Terminates` needs, and nothing is said about which line comes. The
input is finite (`MaxLines`), as a file is.

That repeated repairs end needs no fairness on the rounds: `EachRoundLightens`
is a step property. It gives each file a weight, a natural number, and says that
a round that changes the file makes it smaller; within a round the place in
the input and in the report only grows. Each line weighs 1 and what its columns
hold: an identifier, a filter, a field of INFO or a key of FORMAT, the filler of an
empty column less than any other, a field of INFO more if it is not just the value
that a recoverable error would write; a value of a sample if it is not missing; and
in a meta entry a Number or Type that is not the predefined one of its tag.

Every property has a mutant, a plausible bug of the code put in the place of a
definition, for which TLC finds the property violated: they are the `Mutant*`
operators, which are used for nothing else.

## What the violations say

They are six disagreements of the code with its own documents, described
under `findings` in `PROJECT.json` with the quoted lines. The passing
properties next to them state what does hold: `RankedComplete` and
`PlainFilesComplete` for the cache, `LineNumbersRight` for `\n` line ends,
`VerdictRight` where no line was ignored, `WarnedWhenDue` for meta data,
`SummaryKeepsFirsts` for the summary, and `NothingElseLost` for samples that
have all their fields.

Some properties of `repair` name the cases they leave out, where the code does
something that no document excludes: an INFO that the grammar refuses is
written back and not counted as ignored; a flag in an INFO with duplicate keys is
written with what lies behind the vector; of two repeated FORMAT keys
one may keep a value that another sample contradicts; and a repeated
key of versions 4.1 and 4.2 is removed once from each sample but everywhere from FORMAT.
The flaw that `samples_fix` shows, and the removal of a repeated key, may also bring
the value of another key under GP; if it is a missing value, the next
validation ends with an exception of `std::stold`, so `NoEscapeWritten` leaves
out the same lines as `NothingElseLost`.

## Proofs

The theorems hold for all values of the constants that satisfy the named
assumptions of each module (`CacheConstants`, `OrderConstants`,
`BodyConstants`, `ParserConstants`, `ReportConstants`, `NormalizerConstants`,
`ColumnConstants`, `MissingIsNoText`, `PloidyConstants`, `FilesAssumption`,
`FilesInScope`): sets of natural numbers
for what the code ranks or counts, tokens that are not numbers, records and
files that are made of such values, a transaction of at least one finding, a
ploidy of at least 1. No proof uses `FilesInScope`: it says for which files
`ReportOf` is the report of the validator.

- `NatLemmas`. A set of natural numbers that is not empty has a least element,
  and a greatest one if it is bounded. The first stands in for induction
  everywhere: the least number that fails has a predecessor that does not.
- `RecordCacheProofs`. `CacheInv` adds to the properties that arrivals have
  unique numbers and the cache holds only what it was handed (`HistoryInv`),
  that in sorted input the last entry is always cached (`LastIsCached`), and
  that an entry is cached while fewer than `capacity` of all cores rank above it
  (`RankedAreCached`). The last two are what makes completeness inductive: the
  earlier occurrence of a repeated variant is the last one, or ranks high
  enough, so it is found. `CacheBounded` rests on `shrink_to_fit` keeping as
  many of the greatest entries as fit.
- `BodyEntryProofs`, about `ContigOrder`. `OrderInv` says what the map and the
  previous place mean (`MapMeaning`) and that the log is in order; the order of
  the log is what makes a comparison with the last record enough.
  `CheckSortedStep` shows that each call keeps it and is a step of `OrderedLog`,
  whatever was read through `end()`; `OrderRefinement` follows.
- `BodyEntryProofs`, about `BodyEntry`. The invariants of the parts carry over,
  as each action of the composition is an action of a part or leaves it alone;
  `LinesInv` adds that all that was handed to the cache came from accepted
  lines. `HandledInv` says what is found about a line once it has ended, from
  which `ErrorPerLostRecord` and `WarnedWhenDue` follow. `PlaceInv` ties the
  lines to the log of `check_sorted` and the entries of the cache to their
  lines: with it the order of the log is the order in which cores arrive, so the
  input of the cache is sorted in a plain file and `PlainFilesComplete` follows
  from `SortedComplete`. Writing that proof showed that `PlainFile` had asked
  all records to be on one chromosome; it now asks it of no more than the code
  needs.
- `VcfParserProofs`. Every action of the parser is shown to be a `ParserStep`:
  some findings about the line at hand, some next state. `ParserInv` adds that
  `m_is_valid` says whether an error was written or is about to be
  (`ValidMeaning`), that `n_lines` is the number of the line at hand
  (`Counted`), and the same numbers for what is not yet written
  (`FoundNumbered`). The second part is about which lines have errors. What a
  line is due is a matter of its place before or after the first header:
  `FirstHeader`, `Placed` and `Fits` say it of the lines alone, without the
  machine. `SectionInv` relates `cs` to that place, `ChecksInv` the checks of
  the meta section to `cs`, and `ErrorsInv` says that what is written or
  pending are the errors of the lines looked at, one each. `OneErrorPerBadLine`,
  `VerdictRight` and `MetaCheckedOnce` follow.
- `ReportsProofs`. The stored and the pending numbers are consecutive and the
  counter is the size of the transaction while there is one (`BatchInv`);
  `LossInv` relates them to what was handed over. After a public `flush` the
  counter is left over, so the two cases of `has_current` are kept apart.
  `ReaderInv` says that the last answer stays right, which is `ReadersSeeAll`;
  `SummaryInv` that the tracker remembers the keys of just those findings that
  were handed over, and so writes the first of each.
- `NormalizerProofs`. `NormalizerInv` says that past the constructor no
  alternate allele is the reference, that alleles are not empty, and that each
  core is the trimmed allele: the longest common start or end (`GreatestNat`) and
  then the longest common other end of what is left are cut off
  (`CoreTrims`). Putting them back gives the alleles (`SameChange`); nothing
  common is left at either end (`NoContextLeft`); and a base in front of or
  behind both alleles is cut off again, in whichever order the ends are
  trimmed, as it makes one of the two common parts longer by it
  (`ContextFree`).
- `RepairProofs`. `OutputInOrder` for every set of files rests on three facts.
  The report of a file follows its lines, with one error for a line or
  duplications only (`ReportFollows`). A fix writes one line or ends the
  process (`FixIsOneLine`), for the only fix that could write two needs a FORMAT
  column and no samples, which is an error of the grammar before it is one of
  the record (`NoSamplesNoField`). And the input and the report are read side
  by side: `PlaceInv` says which lines are settled, `OutputInv` that just these
  are in the output, in order. The properties about the content of a line rest
  on a second invariant, `FixesInv`: reports, lines and counters have their
  types, and a line of the output that had an error is an outcome of the fix of
  that error (`FixedBy`). Its step needs the type of every check
  (`LineErrorTyped`: an error of a record is about a record, with a value to
  put in that can be put in) and of every fix (`FixTyped`). `FieldsAt`, on which
  most of them are built, is shown to keep just the fields asked for, in order
  (`KeptFields`, by `UpTo` along the sequence). `OptionalReadsSafe` holds as a
  meta entry that was stored agrees with the predefined Number of its tag
  (`MetaErrorTyped`), so that the file cannot declare CIPOS with another one
  (`CiposIsPair`). `InfoDuplicatesFixed` and `FormatDuplicatesFixed` follow from
  the first index of each key (`FirstIndex`) and, for FORMAT, from the one
  repeated key being the only one whose values can differ
  (`RemovedIfDiffering`). `NothingElseLost` has one lemma for the fix of each
  column (`IdKept` to `FieldLineKept`, joined in `FixKept`): where the same
  places of FORMAT and of a sample are kept, the n-th field that is kept of both
  comes from the same place (`KeptAlike`), so a key that stays has the value it
  had (`ValuesInStep`). For INFO it needs that an empty key is an error of the
  grammar (`EmptyKeyRefused`): only that error lets `string_split` lose a field.
  `IgnoredCounted` compares a line with what all the checks find in it after its
  fix. For each check a lemma says what must be wrong with a line for it to
  throw an error (`SvlenThrows` to `SamplesThrow`, joined as `Concerns` in
  `BodyErrorConcerns`, and `MetaThrows`), and for each fix another one says that
  just this is not wrong with the line it wrote, unless it counts the error as
  ignored (`IdNotAgain` to `FieldNotAgain`, joined in `NotAgain`). The source of
  the checks is another one by then, as meta entries were fixed too: only that
  the stored entries have no error of their own is used of it (`KnownSource`).
  A third invariant, `CountInv`, says that the lines whose fix gave up are no
  more than `ignored_errors`. The proof needs that a missing value is none that
  is illegal for its type (`MissingIsNoText`).
- `RepairWeightProofs`. `EachRoundLightens` compares sums over columns, lines
  and files of any size. `Total` is a recursive function on the indices; that it
  exists, grows, and is the sum is shown by the least index that fails
  (`TotalSums`, `SumsGrow`). Of two sequences, one placed in the other by an
  increasing map under which no weight grows has no greater total (`FitsTotal`),
  and a smaller one if something was left out or became lighter (`FitsLess`).
  For the fix of each column a lemma says that the line is written as it was or
  lighter (`IdLighter`, `FilterLighter`, `InfoLighter`, `FormatLighter`,
  `GenotypeLighter`, `FieldLighter`, joined in `BodyFixLighter`; `MetaLighter`
  for meta entries). A value put into INFO is lighter only because the error
  says that the one it replaces was another (`WrongIsHeavy`). For the file,
  `OutputInOrder` gives the increasing map of the lines of the output to those
  of the input: either it leaves out a line, and every line weighs at least 1,
  or it is the identity (`OntoSame`), and then a line differs, which is lighter
  (`OutputLighter`). `ReadsFileInvariant` adds that the input of the debugulator
  is the file that was validated. With `WeightStaysNatural` the theorem excludes
  rounds that change a file for ever.

Only model-checked: liveness (`Terminates`), which is out of the prover's reach, and
`NoEscapeWritten`.

## Not modelled

- The grammar of single characters, and the text of a line: the models start
  from lines that are already split into columns. Of `string_split` only what
  it does with empty fields of INFO is there.
- The regular expressions of `AA` and `CIGAR`, the type Character, whitespace in
  identifiers, and the keys a meta entry must have: tests on strings, each with
  one error that nothing else depends on. Meta entries other than INFO and
  FORMAT are a kind of line in `VcfParser`.
- The conditions of the optional checks (a warning or none, in `BodyEntry`).
- A ploidy of 0, which `--ploidy` refuses but the list of exceptions accepts
  (`PloidyConstants` excludes it), and the rounding of the number of genotypes
  in a float.
- The part of a line that is already written when a fix throws or crashes: the
  model writes whole lines.
- Options and names of files, logging, code generated by Ragel and ODB, and the
  libraries under `lib/`.

## Plan

1. Done: cache, order of records, body entries, sections and verdict, reports;
   normaliser, record checks, fixer, debugulator and the two programs in turn.
2. A composition of `VcfParser` and `BodyEntry`, so that DuplicationErrors are
   in the report and the exceptions that escape are seen from `validate`.
3. Proofs: the composition of 2 from the invariants of its parts.
