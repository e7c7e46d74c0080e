------------------------------- MODULE Fixer -------------------------------
(***************************************************************************)
(* What vcf_debugulator writes for one error of the report on one line     *)
(* (fixer.cpp): Fixer::visit for each type of error, and the functions     *)
(* that rewrite a column.                                                  *)
(*                                                                         *)
(* A fix is a set of outcomes, more than one where the code reads past the *)
(* end of a vector: the lines written, how much ignored_errors grows, and  *)
(* whether the process goes on ("no"), throws or crashes.                  *)
(***************************************************************************)
EXTENDS Columns

Outcomes == [written : Seq(Lines), ignored : 0..2, ends : {"no", "throws", "crashes"}]

Outcome(written, ignored) == [written |-> written, ignored |-> ignored, ends |-> "no"]
Ends(how) == [written |-> << >>, ignored |-> 0, ends |-> how]

(* A bug: the visitor counts the error and so does its caller. *)
MutantCountedTwice(line) == {Outcome(<<line>>, 2)}

(* A bug: a fix that gives up is not counted. *)
MutantNotCounted(line) == {Outcome(<<line>>, 0)}

ignore_error(line) == {Outcome(<<line>>, 1)}
Write(line) == {Outcome(<<line>>, 0)}
-----------------------------------------------------------------------------
(* `removed' are the indices that condition_to_remove holds for. *)
remove_fields(s, empty_column, removed) ==
  LET kept == FieldsAt(s, LAMBDA i : i \notin removed)
  IN  IF kept = << >> THEN empty_column ELSE kept

remove_duplicate_strings(s) == remove_fields(s, << >>, {i \in 1..Len(s) : ~IsFirst(s, i)})

(* A bug: the first of several values is kept though they differ. *)
MutantKeyValuePairs(info) == FieldsAt(info, LAMBDA i : IsFirst(KeysOf(info), i))

(* Only the first two parts of a field, its key and one more, are compared *)
(* and written.                                                            *)
remove_duplicate_key_value_pairs(info) ==
  LET keys == KeysOf(info)
      fields_to_remove ==
        {keys[i] : i \in {x \in 1..Len(info) : \E k \in 1..(x - 1) :
                            keys[k] = keys[x] /\ info[k].parts[1] # info[x].parts[1]}}
      fixed_column == FieldsAt(info, LAMBDA i : IsFirst(keys, i) /\ keys[i] \notin fields_to_remove)
  IN  IF fixed_column = << >> THEN <<Dot>>
      ELSE [k \in 1..Len(fixed_column) |-> Field(fixed_column[k].key, fixed_column[k].parts[1])]

(* A flag has no second part, subfields[1] is past the end of the vector:  *)
(* nothing, some text, or memory that is not there.                        *)
IsFlag(field) == field.parts = << >>
Garbage == {<< >>, <<Word>>}
ReadPastEnd(info) ==
  LET flags == {i \in 1..Len(info) : IsFlag(info[i])}
  IN  {[i \in 1..Len(info) |-> IF i \in flags THEN Field(info[i].key, g[i]) ELSE info[i]] :
         g \in [flags -> Garbage]}

FixDuplicateInfo(line) ==
  {Outcome(<<[line EXCEPT !.info = remove_duplicate_key_value_pairs(info)]>>, 0) :
     info \in ReadPastEnd(line.info)}
  \cup (IF \E i \in 1..Len(line.info) : IsFlag(line.info[i]) THEN {Ends("crashes")} ELSE {})

(* A bug: the right value is written next to the wrong one. *)
MutantReplaceFields(info, key, value) == Append(info, Field(key, value))

replace_fields(info, key, value) ==
  [i \in 1..Len(info) |-> IF info[i].key = key THEN Field(key, value) ELSE info[i]]

(* string_split looks for the first separator from the second character    *)
(* on: an empty first field is one with the field after it.  An empty last *)
(* field is lost.                                                          *)
string_split(info) ==
  IF info # << >> /\ Last(info) = Flag("") /\ info # <<Flag(""), Flag("")>> THEN Front(info) ELSE info

(* key_value[0] is read though nothing stands between two semicolons. *)
HasEmptyField(info) ==
  \E i \in 2..Len(info) : info[i] = Flag("") /\ ~(i = 2 /\ info[1] = Flag(""))
-----------------------------------------------------------------------------
IndexesOf(s, key) == {i \in 1..Len(s) : s[i] = key}

(* The values of a repeated key are not all the same in a sample. *)
Differ(format, sample, key) ==
  \E i \in IndexesOf(format, key) :
    Len(sample) >= i /\ sample[i] # sample[Min(IndexesOf(format, key))]

(* A bug: only the first sample is looked at. *)
MutantFieldsToRemove(format, samples) ==
  {key \in ToSet(format) : Differ(format, samples[1], key)}

(* The loop over the samples looks at the keys in the order of the map.    *)
(* Once it finds one to remove it goes on in the last sample, with the     *)
(* keys that come after it, and ends.                                      *)
get_format_fields_to_remove(format, samples) ==
  LET DifferIn(s) == {key \in ToSet(format) : Differ(format, samples[s], key)}
      found == {s \in 1..Len(samples) : DifferIn(s) # {}}
      first == CHOOSE key \in DifferIn(Min(found)) :
                 \A other \in DifferIn(Min(found)) : Rank(key) <= Rank(other)
  IN  IF found = {} THEN {}
      ELSE {first} \cup {key \in DifferIn(Len(samples)) : Rank(key) > Rank(first)}

remove_duplicate_format_sample_pairs(line) ==
  LET fields_to_remove == get_format_fields_to_remove(line.format, line.samples)
      IsKept(i) == IsFirst(line.format, i) /\ line.format[i] \notin fields_to_remove
      fixed_format == FieldsAt(line.format, IsKept)
      FixedSample(sample) ==
        LET fixed_sample == FieldsAt(sample, IsKept)
        IN  IF fixed_sample = << >> THEN << <<Missing>> >> ELSE fixed_sample
  IN  IF fixed_format = << >> THEN {Ends("throws")}
      ELSE Write([line EXCEPT !.format = fixed_format,
                              !.samples = [s \in 1..Len(line.samples) |->
                                             FixedSample(line.samples[s])]])
-----------------------------------------------------------------------------
(* Every genotype is put as missing, whichever sample had the error. *)
fix_format_gt(line, error) ==
  LET repeat == IF error.field_cardinality <= -1 THEN 1 ELSE error.field_cardinality
      missing == [k \in 1..repeat |-> Missing]
  IN  CASE line.format[1] # "GT"         -> ignore_error(line)
        [] Contains(line.samples, << >>) -> {Ends("crashes")}
        [] OTHER -> Write([line EXCEPT !.samples = [s \in 1..Len(line.samples) |->
                                                      [line.samples[s] EXCEPT ![1] = missing]]])

(* A bug: the samples are left as they are. *)
MutantRemoveFormat(line, error) ==
  Write([line EXCEPT !.format =
           remove_fields(line.format, <<"">>, IndexesOf(line.format, error.field))])

(* A bug: an index counted from 0 is taken for one counted from 1.         *)
MutantRemoveNext(line, error) ==
  LET index == Max(IndexesOf(line.format, error.field))
  IN  Write([line EXCEPT !.format = remove_fields(line.format, <<"">>, {index}),
                         !.samples = [s \in 1..Len(line.samples) |->
                                        RemoveAt(line.samples[s], Min({index + 1, Len(line.samples[s])}))]])

(* All occurrences are removed from FORMAT, the last one from the samples, *)
(* up to the first sample that is too short: that one and those after it   *)
(* are copied, with an empty column behind if nothing is after it.         *)
remove_format(line, error) ==
  LET indexes == IndexesOf(line.format, error.field)
      field_index == Max(indexes)
      n     == Len(line.samples)
      short == {s \in 1..n : Len(line.samples[s]) < field_index}
      stop  == IF short = {} THEN n + 1 ELSE Min(short)
      fixed == [s \in 1..n |-> IF s < stop THEN RemoveAt(line.samples[s], field_index)
                                            ELSE line.samples[s]]
  IN  IF indexes = {} THEN ignore_error(line)
      ELSE {Outcome(
              <<[line EXCEPT !.format =
                        remove_fields(line.format, <<"">>, indexes),
                      !.samples = IF stop = n THEN Append(fixed, << >>) ELSE fixed]>>,
              IF short = {} THEN 0 ELSE 1)}
-----------------------------------------------------------------------------
(* visit(MetaSectionError): the value of Number or Type is replaced. *)
FixMeta(line, error) ==
  IF error.error_fix = "IRRECOVERABLE_VALUE" THEN ignore_error(line)
  ELSE Write(IF error.field = "Number" THEN [line EXCEPT !.Number = error.expected_value[1]]
                                       ELSE [line EXCEPT !.Type = error.expected_type])

FixId(line, error) ==
  IF error.error_fix = "DUPLICATE_VALUES"
    THEN Write([line EXCEPT !.ids = remove_duplicate_strings(line.ids)])
    ELSE ignore_error(line)

FixFilter(line, error) ==
  CASE error.error_fix = "DUPLICATE_VALUES" ->
         Write([line EXCEPT !.filter = remove_duplicate_strings(line.filter)])
    [] error.field = "0" ->
         Write([line EXCEPT !.filter =
                  remove_fields(line.filter, <<".">>, IndexesOf(line.filter, "0"))])
    [] OTHER -> ignore_error(line)

(* An error of the grammar has no field: nothing is removed for it, but a  *)
(* semicolon at the end is not written.                                    *)
FixInfo(line, error) ==
  LET fields == string_split(line.info)
      ofField == {i \in 1..Len(fields) : fields[i].key = error.field /\ error.field # ""}
  IN  CASE error.error_fix = "DUPLICATE_VALUES" -> FixDuplicateInfo(line)
        [] error.error_fix # "DUPLICATE_VALUES" /\ HasEmptyField(fields) -> {Ends("crashes")}
        [] error.error_fix = "RECOVERABLE_VALUE" /\ ~HasEmptyField(fields) ->
             Write([line EXCEPT !.info = replace_fields(fields, error.field, error.expected_value)])
        [] OTHER ->
             Write([line EXCEPT !.info = remove_fields(fields, <<Dot>>, ofField)])

FixFormat(line, error) ==
  IF error.error_fix = "DUPLICATE_VALUES" THEN remove_duplicate_format_sample_pairs(line)
                                          ELSE ignore_error(line)

(* Where the line has a FORMAT but no samples, it is written once more.    *)
FixSamplesField(line, error) ==
  LET fixes == IF error.field = "GT" THEN fix_format_gt(line, error) ELSE remove_format(line, error)
  IN  IF line.format = << >> THEN ignore_error(line)
      ELSE IF line.samples # << >> THEN fixes
      ELSE {[fix EXCEPT !.written = Append(@, line), !.ignored = @ + 1] : fix \in fixes}

(* Fixer::visit *)
fix(line, error) ==
  CASE error.type = "MetaSectionError"      -> FixMeta(line, error)
    [] error.type = "IdBodyError"           -> FixId(line, error)
    [] error.type = "FilterBodyError"       -> FixFilter(line, error)
    [] error.type = "InfoBodyError"         -> FixInfo(line, error)
    [] error.type = "FormatBodyError"       -> FixFormat(line, error)
    [] error.type = "SamplesFieldBodyError" -> FixSamplesField(line, error)
    [] error.type = "DuplicationError"      -> {Outcome(<< >>, 0)}
    [] OTHER                                -> ignore_error(line)
=============================================================================
