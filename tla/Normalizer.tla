----------------------------- MODULE Normalizer -----------------------------
(***************************************************************************)
(* How a record is split into the cores that check_duplicates compares     *)
(* (normalizer.cpp): one core for each alternate allele, without the bases *)
(* that both alleles have in common.  normalize takes the trailing ones    *)
(* away first, normalize_right_alignment the leading ones.                 *)
(*                                                                         *)
(* An allele is a sequence of symbols: bases, or Other for a character of  *)
(* a symbolic allele, a break-end, "." or "*".                             *)
(***************************************************************************)
EXTENDS Integers, Sequences, FiniteSetsExt

CONSTANTS
  Bases,
  Other,     (* any character that is not a base                           *)
  Records    (* the lines of a file, see NormalizerConstants               *)

Symbols == Bases \cup {Other}
Alleles == Seq(Symbols) \ {<< >>}

VcfRecord == [position : Nat, reference_allele : Seq(Bases) \ {<< >>},
              alternate_alleles : Seq(Alleles)]

ASSUME NormalizerConstants == Other \notin Bases /\ Records \subseteq VcfRecord

VARIABLES
  record,
  method,   (* which of the two functions is called                        *)
  records,  (* the cores returned so far                                   *)
  status    (* what happens next                                           *)

normalizerVars == <<record, method, records, status>>

NormalizerInit ==
  /\ record \in Records
  /\ method \in {"normalize", "normalize_right_alignment"}
  /\ records = << >>
  /\ status = "construct"
-----------------------------------------------------------------------------
(* How many symbols s and t have in common, from their first ones on. *)
mismatch(s, t) ==
  Max({n \in 0..Min({Len(s), Len(t)}) : \A i \in 1..n : s[i] = t[i]})

(* The same with reverse iterators: from their last ones on. *)
mismatch_reverse(s, t) ==
  Max({n \in 0..Min({Len(s), Len(t)}) :
         \A i \in 0..(n - 1) : s[Len(s) - i] = t[Len(t) - i]})

Middle(s, lead, trail) == SubSeq(s, lead + 1, Len(s) - trail)

(* The position goes back by the leading bases. *)
MutantRecordCore(position, reference, alternate, lead, trail) ==
  [position |-> position - lead,
   reference_allele |-> Middle(reference, lead, trail),
   alternate_allele |-> Middle(alternate, lead, trail)]

RecordCore(position, reference, alternate, lead, trail) ==
  [position |-> position + lead,
   reference_allele |-> Middle(reference, lead, trail),
   alternate_allele |-> Middle(alternate, lead, trail)]

(* The trailing bases are also looked at among those taken as leading. *)
MutantNormalized(position, reference, alternate) ==
  RecordCore(position, reference, alternate,
             mismatch(reference, alternate), mismatch_reverse(reference, alternate))

(* Leading bases are taken away first. *)
MutantLeadingFirst(position, reference, alternate) ==
  LET lead  == mismatch(reference, alternate)
      trail == mismatch_reverse(Middle(reference, lead, 0), Middle(alternate, lead, 0))
  IN  RecordCore(position, reference, alternate, lead, trail)

(* The loop for the leading bases stops one symbol early. *)
MutantShort(position, reference, alternate) ==
  LET trail == mismatch_reverse(reference, alternate)
      lead  == mismatch(Middle(reference, 1, trail), Middle(alternate, 1, trail))
  IN  RecordCore(position, reference, alternate, lead, trail)

Normalized(position, reference, alternate) ==
  LET trail == mismatch_reverse(reference, alternate)
      lead  == mismatch(Middle(reference, 0, trail), Middle(alternate, 0, trail))
  IN  RecordCore(position, reference, alternate, lead, trail)

RightAligned(position, reference, alternate) ==
  LET lead  == mismatch(reference, alternate)
      trail == mismatch_reverse(Middle(reference, lead, 0), Middle(alternate, lead, 0))
  IN  RecordCore(position, reference, alternate, lead, trail)

Core(m, position, reference, alternate) ==
  IF m = "normalize" THEN Normalized(position, reference, alternate)
                     ELSE RightAligned(position, reference, alternate)
-----------------------------------------------------------------------------
(* Only the alleles of single nucleotide variants are compared. *)
MutantSameAsReference(alternate) ==
  alternate = record.reference_allele /\ Len(alternate) = 1

(* check_alternate_allele_structure: SNVs and MNVs, alleles of bases as    *)
(* long as the reference, must differ from it.                             *)
SameAsReference(alternate) == alternate = record.reference_allele

(* Record::check_alternate_alleles lets the record through, or throws.     *)
Construct ==
  /\ status = "construct"
  /\ status' = IF \E i \in 1..Len(record.alternate_alleles) :
                    SameAsReference(record.alternate_alleles[i])
                 THEN "rejected" ELSE "loop"
  /\ UNCHANGED <<record, method, records>>

(* One turn of the loop of either function. *)
NormalizeAllele ==
  /\ status = "loop"
  /\ Len(records) < Len(record.alternate_alleles)
  /\ LET alternate == record.alternate_alleles[Len(records) + 1]
         reference == record.reference_allele
     IN  IF Len(alternate) < 1 \/ Len(reference) < 1 \/ reference = alternate
           THEN status' = "thrown" /\ UNCHANGED records
           ELSE /\ records' = Append(records, Core(method, record.position, reference, alternate))
                /\ UNCHANGED status
  /\ UNCHANGED <<record, method>>

Return ==
  /\ status = "loop"
  /\ Len(records) = Len(record.alternate_alleles)
  /\ status' = "returned"
  /\ UNCHANGED <<record, method, records>>

NormalizerNext == Construct \/ NormalizeAllele \/ Return

NormalizerSpec == NormalizerInit /\ [][NormalizerNext]_normalizerVars
-----------------------------------------------------------------------------
(***************************************************************************)
(* The preconditions that normalize tests are guaranteed by the checks of  *)
(* the Record's constructor: no NormalizationError is ever thrown.         *)
(***************************************************************************)
NeverThrown == status # "thrown"

(* The allele that a core gives when it is put back into the reference.    *)
PutBack(core) ==
  LET before == core.position - record.position
      after  == before + Len(core.reference_allele)
  IN  SubSeq(record.reference_allele, 1, before) \o core.alternate_allele
        \o SubSeq(record.reference_allele, after + 1, Len(record.reference_allele))

(***************************************************************************)
(* A core is the same change as the allele it was made of: it replaces a   *)
(* part of the reference that is there, and gives the alternate allele.    *)
(* Two variants with equal cores are therefore the same variant, and a     *)
(* core starts within the reference allele of its record, as BodyEntry     *)
(* assumes.                                                                *)
(***************************************************************************)
SameChange ==
  \A i \in 1..Len(records) :
    LET before == records[i].position - record.position
        size   == Len(records[i].reference_allele)
    IN  /\ before >= 0 /\ before + size <= Len(record.reference_allele)
        /\ SubSeq(record.reference_allele, before + 1, before + size)
             = records[i].reference_allele
        /\ PutBack(records[i]) = record.alternate_alleles[i]

(***************************************************************************)
(* No context is left (normalizer.hpp: "the repeated bases (which serve as *)
(* context) in both reference and alternate alleles are removed").         *)
(***************************************************************************)
NoContextLeft ==
  \A i \in 1..Len(records) :
    LET ref == records[i].reference_allele
        alt == records[i].alternate_allele
    IN  /\ ref # << >> \/ alt # << >>
        /\ (ref # << >> /\ alt # << >>) =>
             ref[1] # alt[1] /\ ref[Len(ref)] # alt[Len(alt)]

(* One allele is what is left of the other without its first symbols. *)
Longer(s, t) == IF Len(s) > Len(t) THEN s ELSE t
Shorter(s, t) == IF Len(s) > Len(t) THEN t ELSE s
Surplus(s, t) == Len(Longer(s, t)) - Len(Shorter(s, t))
EndsLike(s, t) == SubSeq(Longer(s, t), Surplus(s, t) + 1, Len(Longer(s, t))) = Shorter(s, t)
StartsLike(s, t) == SubSeq(Longer(s, t), 1, Len(Shorter(s, t))) = Shorter(s, t)

(***************************************************************************)
(* Which spellings of one variant normalize takes for the same, and so     *)
(* which duplicates can be found: a base of context after both alleles     *)
(* never changes the core.  One before them changes it exactly if an       *)
(* allele ends like the other and the base repeats the end of what is      *)
(* inserted or deleted; the two then are reported as different variants.   *)
(* For normalize_right_alignment the two sides are swapped.                *)
(***************************************************************************)
ContextFree ==
  \A i \in 1..Len(records), x \in Bases :
    LET ref    == record.reference_allele
        alt    == record.alternate_alleles[i]
        before == Core(method, record.position - 1, <<x>> \o ref, <<x>> \o alt)
        after  == Core(method, record.position, ref \o <<x>>, alt \o <<x>>)
        end    == Surplus(ref, alt)
    IN  IF method = "normalize"
          THEN /\ after = records[i]
               /\ before # records[i] <=> EndsLike(ref, alt) /\ Longer(ref, alt)[end] = x
          ELSE /\ before = records[i]
               /\ after # records[i] <=>
                    StartsLike(ref, alt) /\ Longer(ref, alt)[Len(Shorter(ref, alt)) + 1] = x

NormalizerTypeOK ==
  /\ record \in Records
  /\ method \in {"normalize", "normalize_right_alignment"}
  /\ Len(records) <= Len(record.alternate_alleles)
  /\ \A i \in 1..Len(records) :
       records[i] \in [position : Nat, reference_allele : Seq(Bases), alternate_allele : Seq(Symbols)]
  /\ status \in {"construct", "loop", "rejected", "thrown", "returned"}
=============================================================================
