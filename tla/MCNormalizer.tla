---------------------------- MODULE MCNormalizer ----------------------------
(* Normalizer on alleles of up to three symbols over two bases, with one   *)
(* or two alternate alleles.                                               *)
EXTENDS Normalizer

CONSTANT MaxAllele  (* bound: the longest allele                           *)

Strings(symbols) == UNION {[1..n -> symbols] : n \in 1..MaxAllele}

MCRecords ==
  [position : {1}, reference_allele : Strings(Bases),
   alternate_alleles : [1..1 -> Strings(Symbols)] \cup [1..2 -> Strings(Bases)]]
=============================================================================
