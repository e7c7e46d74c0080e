------------------------------ MODULE Columns ------------------------------
(***************************************************************************)
(* The lines of a VCF file as the checks of record.cpp and the fixes of    *)
(* fixer.cpp see them: columns split at tabs, columns into fields, fields  *)
(* into values.                                                            *)
(*                                                                         *)
(* A value is the sequence of its tokens, split at commas (for a genotype, *)
(* the alleles).  A token is a number, or one of four other things.        *)
(***************************************************************************)
EXTENDS Integers, Sequences, SequencesExt, FiniteSetsExt

CONSTANTS
  Missing,   (* "."                                                        *)
  Fraction,  (* a number between 0 and 1                                   *)
  Word,      (* text that is not a number                                  *)
  Illegal,   (* text with a first character that the grammar refuses       *)
  A, R, G    (* the Numbers of a meta entry that depend on the record      *)

ASSUME ColumnConstants == {Missing, Fraction, Word, Illegal, A, R, G} \cap Int = {}
ASSUME MissingIsNoText == Missing \notin {Fraction, Word, Illegal}

Specials == {Missing, Fraction, Word, Illegal}
Tokens == Int \cup Specials
Values == Seq(Tokens)
Numbers == Nat \cup {A, R, G, Missing}

(* The keys in the order of std::string, which maps and multimaps follow.  *)
(* XX and XY stand for the keys that are not predefined.                   *)
KeyOrder == <<"", ".", "AD", "AF", "CICNADJ", "CIPOS", "CNP", "DB", "DP", "END", "GP", "GT",
              "IMPRECISE", "SVLEN", "XX", "XY">>
Keys == ToSet(KeyOrder)
Rank(key) == CHOOSE i \in 1..Len(KeyOrder) : KeyOrder[i] = key

(* Other text of a line.  What a fix may write is named, as the provers    *)
(* do not know what is in STRING.                                          *)
TagTypes == {"Integer", "Float", "Flag", "String"}
Text == STRING \cup TagTypes \cup {"."}

(* An INFO field is a key and the parts after it between '=': none for a   *)
(* flag.  It is Flag("") where nothing stands before, between or after     *)
(* semicolons.  INFO is <<Dot>> when it is missing, << >> when it is empty.*)
Flag(key) == [key |-> key, parts |-> << >>]
Field(key, value) == [key |-> key, parts |-> <<value>>]
Dot == Flag(".")
InfoFields == [key : Keys, parts : Seq(Values)]

(* An allele by its form and size; what it is made of is not looked at,    *)
(* except that one may be the reference allele itself.                     *)
AlleleForms == {"bases", "reference", ".", "<*>", "<INS", "<DUP", "<DEL", "<other"}
AlleleTypes == [form : AlleleForms, size : Nat]

(* FORMAT is << >> where the line ends after INFO and <<"">> where the     *)
(* column is empty, a sample is << >> where its column is empty.           *)
BodyLines ==
  [kind : {"body"}, chromosome : Text, position : Nat, ids : Seq(Text),
   reference : Nat, alternates : Seq(AlleleTypes) \ {<< >>}, quality : Int,
   filter : Seq(Text), info : Seq(InfoFields),
   format : Seq(Keys), samples : Seq(Seq(Values))]

MetaLines ==
  [kind : {"meta"}, column : {"INFO", "FORMAT"}, id : Text, Number : Numbers, Type : Text]

HeaderLines == [kind : {"header"}, samples : Nat]

Lines == BodyLines \cup MetaLines \cup HeaderLines

(* What the repair of a file needs to know of an Error.  expected_value    *)
(* and expected_type are its expected_value, for a number and for a Type.  *)
ErrorTypes ==
  {"MetaSectionError", "HeaderSectionError", "ChromosomeBodyError", "IdBodyError",
   "AlternateAllelesBodyError", "QualityBodyError", "FilterBodyError", "InfoBodyError",
   "FormatBodyError", "SamplesBodyError", "SamplesFieldBodyError", "DuplicationError",
   "std::exception"}
ErrorFixes == {"IRRECOVERABLE_VALUE", "RECOVERABLE_VALUE", "DUPLICATE_VALUES"}
ErrorFields == Keys \cup {"0", "Number", "Type"}
Errors ==
  [type : ErrorTypes, error_fix : ErrorFixes, field : ErrorFields,
   expected_value : Values \cup Seq(Numbers), expected_type : TagTypes \cup {""},
   field_cardinality : Int]

Error(type, error_fix, field) ==
  [type |-> type, error_fix |-> error_fix, field |-> field,
   expected_value |-> << >>, expected_type |-> "", field_cardinality |-> -1]

Expecting(type, field, value) ==
  [Error(type, "RECOVERABLE_VALUE", field) EXCEPT !.expected_value = <<value>>]

(* The fields of s at the indices that pass the test, in order. *)
FieldsAt(s, Test(_)) ==
  FlattenSeq([i \in 1..Len(s) |-> IF Test(i) THEN <<s[i]>> ELSE << >>])

IsFirst(s, i) == \A k \in 1..(i - 1) : s[k] # s[i]
HasDuplicates(s) == \E i \in 1..Len(s) : ~IsFirst(s, i)
KeysOf(info) == [i \in 1..Len(info) |-> info[i].key]
=============================================================================
