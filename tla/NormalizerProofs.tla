-------------------------- MODULE NormalizerProofs --------------------------
(***************************************************************************)
(* The preconditions of normalize and what the cores it returns are, for   *)
(* alleles of any length over any bases.                                   *)
(***************************************************************************)
EXTENDS Normalizer, NatLemmas, SequenceTheorems, TLAPS

(* The parts of a record of the file are sequences, and not empty.         *)
LEMMA RecordParts ==
  ASSUME NEW r \in Records
  PROVE  /\ r.reference_allele \in Seq(Bases) /\ Len(r.reference_allele) >= 1
         /\ r.alternate_alleles \in Seq(Alleles)
         /\ \A i \in 1..Len(r.alternate_alleles) :
              r.alternate_alleles[i] \in Seq(Symbols) /\ Len(r.alternate_alleles[i]) >= 1
<1>1. r \in VcfRecord
  BY NormalizerConstants
<1>2. r.reference_allele \in Seq(Bases) \ {<< >>} /\ r.alternate_alleles \in Seq(Alleles)
  BY <1>1 DEF VcfRecord
<1>3. ASSUME NEW S, NEW s \in Seq(S), s # << >>
      PROVE  Len(s) >= 1
  BY <1>3
<1>4. ASSUME NEW i \in 1..Len(r.alternate_alleles)
      PROVE  r.alternate_alleles[i] \in Seq(Symbols) \ {<< >>}
  BY <1>2, <1>4 DEF Alleles
<1>. QED
  BY <1>2, <1>3, <1>4

-----------------------------------------------------------------------------
(* The maximum of a set of naturals with a bound is one of its members. *)
LEMMA MaxIsGreatest ==
  ASSUME NEW n \in Nat, NEW T \in SUBSET (0..n), T # {}
  PROVE  Max(T) \in T /\ \A y \in T : y <= Max(T)
<1>1. T \subseteq Nat /\ \A x \in T : x <= n
  OBVIOUS
<1>2. \E x \in T : \A y \in T : y <= x
  BY <1>1, GreatestNat
<1>3. \E x \in T : \A y \in T : x >= y
  BY <1>1, <1>2
<1>4. Max(T) \in T /\ \A y \in T : Max(T) >= y
  BY <1>3 DEF Max
<1>. QED
  BY <1>1, <1>4

(* The length of the shorter of two sequences. *)
LEMMA MinOfTwo ==
  ASSUME NEW a \in Nat, NEW b \in Nat
  PROVE  Min({a, b}) = IF a <= b THEN a ELSE b
<1>1. \E x \in {a, b} : \A y \in {a, b} : x =< y
  OBVIOUS
<1>2. Min({a, b}) \in {a, b} /\ \A y \in {a, b} : Min({a, b}) =< y
  BY <1>1 DEF Min
<1>. QED
  BY <1>2

(* s and t agree in exactly n symbols from their first ones on. *)
Leading(s, t, n) ==
  /\ n \in Nat /\ n <= Len(s) /\ n <= Len(t)
  /\ \A i \in 1..n : s[i] = t[i]
  /\ n < Len(s) /\ n < Len(t) => s[n + 1] # t[n + 1]

(* The same from their last ones on. *)
Trailing(s, t, n) ==
  /\ n \in Nat /\ n <= Len(s) /\ n <= Len(t)
  /\ \A i \in 0..(n - 1) : s[Len(s) - i] = t[Len(t) - i]
  /\ n < Len(s) /\ n < Len(t) => s[Len(s) - n] # t[Len(t) - n]

(* std::mismatch finds the symbols in common, and there is one answer. *)
LEMMA MismatchIsLeading ==
  ASSUME NEW S, NEW s \in Seq(S), NEW t \in Seq(S)
  PROVE  /\ Leading(s, t, mismatch(s, t))
         /\ \A n : Leading(s, t, n) => n = mismatch(s, t)
<1>. DEFINE m == Min({Len(s), Len(t)})
            T == {n \in 0..m : \A i \in 1..n : s[i] = t[i]}
<1>1. Len(s) \in Nat /\ Len(t) \in Nat
  OBVIOUS
<1>2. m \in Nat /\ m <= Len(s) /\ m <= Len(t) /\ (m = Len(s) \/ m = Len(t))
  BY <1>1, MinOfTwo
<1>. HIDE DEF m
<1>3. T \in SUBSET (0..m) /\ 0 \in T
  BY <1>2
<1>4. Max(T) \in T /\ \A y \in T : y <= Max(T)
  BY <1>2, <1>3, MaxIsGreatest
<1>5. mismatch(s, t) = Max(T)
  BY DEF mismatch, m
<1>. DEFINE k == mismatch(s, t)
<1>6. k \in 0..m /\ (\A i \in 1..k : s[i] = t[i]) /\ \A y \in T : y <= k
  BY <1>4, <1>5
<1>. HIDE DEF k
<1>7. ASSUME k < Len(s), k < Len(t), s[k + 1] = t[k + 1]
      PROVE  FALSE
  <2>1. k + 1 \in 0..m
    BY <1>1, <1>2, <1>6, <1>7
  <2>2. \A i \in 1..(k + 1) : s[i] = t[i]
    BY <1>2, <1>6, <1>7
  <2>3. k + 1 \in T
    BY <2>1, <2>2
  <2>. QED
    BY <1>2, <1>6, <2>3
<1>8. Leading(s, t, k)
  BY <1>1, <1>2, <1>6, <1>7 DEF Leading
<1>9. ASSUME NEW n, Leading(s, t, n) PROVE n = k
  <2>1. n \in Nat /\ k \in Nat
    BY <1>8, <1>9 DEF Leading
  <2>2. CASE n < k
    <3>1. n + 1 \in 1..k
      BY <2>1, <2>2
    <3>2. n < Len(s) /\ n < Len(t)
      BY <1>1, <1>8, <2>1, <2>2 DEF Leading
    <3>. QED
      BY <1>8, <1>9, <3>1, <3>2 DEF Leading
  <2>3. CASE k < n
    <3>1. k + 1 \in 1..n
      BY <2>1, <2>3
    <3>2. k < Len(s) /\ k < Len(t)
      BY <1>1, <1>9, <2>1, <2>3 DEF Leading
    <3>. QED
      BY <1>8, <1>9, <3>1, <3>2 DEF Leading
  <2>. QED
    BY <2>1, <2>2, <2>3
<1>. QED
  BY <1>8, <1>9 DEF k

(* The same with reverse iterators. *)
LEMMA MismatchIsTrailing ==
  ASSUME NEW S, NEW s \in Seq(S), NEW t \in Seq(S)
  PROVE  /\ Trailing(s, t, mismatch_reverse(s, t))
         /\ \A n : Trailing(s, t, n) => n = mismatch_reverse(s, t)
<1>. DEFINE m == Min({Len(s), Len(t)})
            T == {n \in 0..m : \A i \in 0..(n - 1) : s[Len(s) - i] = t[Len(t) - i]}
<1>1. Len(s) \in Nat /\ Len(t) \in Nat
  OBVIOUS
<1>2. m \in Nat /\ m <= Len(s) /\ m <= Len(t) /\ (m = Len(s) \/ m = Len(t))
  BY <1>1, MinOfTwo
<1>. HIDE DEF m
<1>3. T \in SUBSET (0..m) /\ 0 \in T
  BY <1>2
<1>4. Max(T) \in T /\ \A y \in T : y <= Max(T)
  BY <1>2, <1>3, MaxIsGreatest
<1>5. mismatch_reverse(s, t) = Max(T)
  BY DEF mismatch_reverse, m
<1>. DEFINE k == mismatch_reverse(s, t)
<1>6. /\ k \in 0..m /\ (\A i \in 0..(k - 1) : s[Len(s) - i] = t[Len(t) - i])
      /\ \A y \in T : y <= k
  BY <1>4, <1>5
<1>. HIDE DEF k
<1>7. ASSUME k < Len(s), k < Len(t), s[Len(s) - k] = t[Len(t) - k]
      PROVE  FALSE
  <2>1. k + 1 \in 0..m
    BY <1>1, <1>2, <1>6, <1>7
  <2>2. ASSUME NEW i \in 0..((k + 1) - 1) PROVE s[Len(s) - i] = t[Len(t) - i]
    <3>1. i = k \/ i \in 0..(k - 1)
      BY <1>2, <1>6
    <3>. QED
      BY <1>6, <1>7, <3>1
  <2>3. k + 1 \in T
    BY <2>1, <2>2
  <2>. QED
    BY <1>2, <1>6, <2>3
<1>8. Trailing(s, t, k)
  BY <1>1, <1>2, <1>6, <1>7 DEF Trailing
<1>9. ASSUME NEW n, Trailing(s, t, n) PROVE n = k
  <2>1. n \in Nat /\ k \in Nat
    BY <1>8, <1>9 DEF Trailing
  <2>2. CASE n < k
    <3>1. n \in 0..(k - 1)
      BY <2>1, <2>2
    <3>2. n < Len(s) /\ n < Len(t)
      BY <1>1, <1>8, <2>1, <2>2 DEF Trailing
    <3>. QED
      BY <1>8, <1>9, <3>1, <3>2 DEF Trailing
  <2>3. CASE k < n
    <3>1. k \in 0..(n - 1)
      BY <2>1, <2>3
    <3>2. k < Len(s) /\ k < Len(t)
      BY <1>1, <1>9, <2>1, <2>3 DEF Trailing
    <3>. QED
      BY <1>8, <1>9, <3>1, <3>2 DEF Trailing
  <2>. QED
    BY <2>1, <2>2, <2>3
<1>. QED
  BY <1>8, <1>9 DEF k

(* What is left of a sequence without its first and last symbols. *)
LEMMA MiddleParts ==
  ASSUME NEW S, NEW s \in Seq(S), NEW lead \in Nat, NEW trail \in Nat,
         lead + trail <= Len(s)
  PROVE  /\ Middle(s, lead, trail) \in Seq(S)
         /\ Len(Middle(s, lead, trail)) = Len(s) - lead - trail
         /\ \A i \in 1..(Len(s) - lead - trail) : Middle(s, lead, trail)[i] = s[lead + i]
<1>1. Len(s) \in Nat
  OBVIOUS
<1>2. \A i \in (lead + 1)..(Len(s) - trail) : s[i] \in S
  BY <1>1
<1>3. /\ SubSeq(s, lead + 1, Len(s) - trail) \in Seq(S)
      /\ Len(SubSeq(s, lead + 1, Len(s) - trail)) = Len(s) - lead - trail
  BY <1>1, <1>2, SubSeqProperties
<1>4. ASSUME NEW i \in 1..(Len(s) - lead - trail)
      PROVE  Middle(s, lead, trail)[i] = s[lead + i]
  BY <1>1 DEF Middle
<1>. QED
  BY <1>3, <1>4 DEF Middle

(* lead leading and trail trailing symbols of s and t are in common, none  *)
(* of them is counted twice, and no more could be taken away.              *)
Trimmed(s, t, lead, trail) ==
  /\ lead \in Nat /\ trail \in Nat
  /\ lead + trail <= Len(s) /\ lead + trail <= Len(t)
  /\ \A i \in 1..lead : s[i] = t[i]
  /\ \A i \in 0..(trail - 1) : s[Len(s) - i] = t[Len(t) - i]
  /\ lead + trail < Len(s) /\ lead + trail < Len(t) =>
       /\ s[lead + 1] # t[lead + 1]
       /\ s[Len(s) - trail] # t[Len(t) - trail]

(* normalize: the leading symbols are sought in what the trailing leave. *)
LEMMA NormalizedTrims ==
  ASSUME NEW S, NEW s \in Seq(S), NEW t \in Seq(S)
  PROVE  LET trail == mismatch_reverse(s, t)
             lead  == mismatch(Middle(s, 0, trail), Middle(t, 0, trail))
         IN  Trimmed(s, t, lead, trail)
<1>. DEFINE trail == mismatch_reverse(s, t)
            a == Middle(s, 0, trail)
            b == Middle(t, 0, trail)
            lead == mismatch(a, b)
<1>1. Trailing(s, t, trail)
  BY MismatchIsTrailing
<1>. HIDE DEF trail
<1>2. trail \in Nat /\ 0 + trail <= Len(s) /\ 0 + trail <= Len(t)
  BY <1>1 DEF Trailing
<1>3. /\ a \in Seq(S) /\ Len(a) = Len(s) - trail
      /\ \A i \in 1..(Len(s) - trail) : a[i] = s[i]
  BY <1>2, MiddleParts
<1>4. /\ b \in Seq(S) /\ Len(b) = Len(t) - trail
      /\ \A i \in 1..(Len(t) - trail) : b[i] = t[i]
  BY <1>2, MiddleParts
<1>. HIDE DEF a, b
<1>5. Leading(a, b, lead)
  BY <1>3, <1>4, MismatchIsLeading
<1>. HIDE DEF lead
<1>6. Len(s) \in Nat /\ Len(t) \in Nat /\ lead \in Nat
  BY <1>5 DEF Leading
<1>7. lead + trail <= Len(s) /\ lead + trail <= Len(t)
  BY <1>2, <1>3, <1>4, <1>5, <1>6 DEF Leading
<1>8. ASSUME NEW i \in 1..lead PROVE s[i] = t[i]
  <2>1. i \in 1..(Len(s) - trail) /\ i \in 1..(Len(t) - trail)
    BY <1>2, <1>6, <1>7
  <2>2. a[i] = b[i]
    BY <1>5 DEF Leading
  <2>. QED
    BY <1>3, <1>4, <2>1, <2>2
<1>9. ASSUME lead + trail < Len(s), lead + trail < Len(t)
      PROVE  s[lead + 1] # t[lead + 1] /\ s[Len(s) - trail] # t[Len(t) - trail]
  <2>1. lead < Len(a) /\ lead < Len(b) /\ trail < Len(s) /\ trail < Len(t)
    BY <1>2, <1>3, <1>4, <1>6, <1>9
  <2>2. a[lead + 1] = s[lead + 1] /\ b[lead + 1] = t[lead + 1]
    BY <1>2, <1>3, <1>4, <1>6, <1>9
  <2>. QED
    BY <1>1, <1>5, <2>1, <2>2 DEF Leading, Trailing
<1>10. Trimmed(s, t, lead, trail)
  BY <1>1, <1>2, <1>6, <1>7, <1>8, <1>9 DEF Trimmed, Trailing
<1>. QED
  BY <1>10 DEF lead, a, b, trail

(* normalize_right_alignment: the trailing symbols are sought in what the  *)
(* leading leave.                                                          *)
LEMMA RightAlignedTrims ==
  ASSUME NEW S, NEW s \in Seq(S), NEW t \in Seq(S)
  PROVE  LET lead  == mismatch(s, t)
             trail == mismatch_reverse(Middle(s, lead, 0), Middle(t, lead, 0))
         IN  Trimmed(s, t, lead, trail)
<1>. DEFINE lead == mismatch(s, t)
            a == Middle(s, lead, 0)
            b == Middle(t, lead, 0)
            trail == mismatch_reverse(a, b)
<1>1. Leading(s, t, lead)
  BY MismatchIsLeading
<1>. HIDE DEF lead
<1>2. lead \in Nat /\ lead + 0 <= Len(s) /\ lead + 0 <= Len(t)
  BY <1>1 DEF Leading
<1>3. /\ a \in Seq(S) /\ Len(a) = Len(s) - lead
      /\ \A i \in 1..(Len(s) - lead) : a[i] = s[lead + i]
  BY <1>2, MiddleParts
<1>4. /\ b \in Seq(S) /\ Len(b) = Len(t) - lead
      /\ \A i \in 1..(Len(t) - lead) : b[i] = t[lead + i]
  BY <1>2, MiddleParts
<1>. HIDE DEF a, b
<1>5. Trailing(a, b, trail)
  BY <1>3, <1>4, MismatchIsTrailing
<1>. HIDE DEF trail
<1>6. Len(s) \in Nat /\ Len(t) \in Nat /\ trail \in Nat
  BY <1>5 DEF Trailing
<1>7. lead + trail <= Len(s) /\ lead + trail <= Len(t)
  BY <1>2, <1>3, <1>4, <1>5, <1>6 DEF Trailing
<1>8. ASSUME NEW i \in Nat, lead + i < Len(s), lead + i < Len(t)
      PROVE  a[Len(a) - i] = s[Len(s) - i] /\ b[Len(b) - i] = t[Len(t) - i]
  <2>1. Len(a) - i \in 1..(Len(s) - lead) /\ Len(b) - i \in 1..(Len(t) - lead)
    BY <1>2, <1>3, <1>4, <1>6, <1>8
  <2>2. lead + (Len(a) - i) = Len(s) - i /\ lead + (Len(b) - i) = Len(t) - i
    BY <1>2, <1>3, <1>4, <1>6
  <2>. QED
    BY <1>3, <1>4, <2>1, <2>2
<1>9. ASSUME NEW i \in 0..(trail - 1) PROVE s[Len(s) - i] = t[Len(t) - i]
  <2>1. i \in Nat /\ lead + i < Len(s) /\ lead + i < Len(t)
    BY <1>2, <1>6, <1>7
  <2>. QED
    BY <1>5, <1>8, <2>1 DEF Trailing
<1>10. ASSUME lead + trail < Len(s), lead + trail < Len(t)
       PROVE  s[lead + 1] # t[lead + 1] /\ s[Len(s) - trail] # t[Len(t) - trail]
  <2>1. trail < Len(a) /\ trail < Len(b) /\ lead < Len(s) /\ lead < Len(t)
    BY <1>2, <1>3, <1>4, <1>6, <1>10
  <2>2. s[Len(s) - trail] # t[Len(t) - trail]
    BY <1>5, <1>6, <1>8, <1>10, <2>1 DEF Trailing
  <2>. QED
    BY <1>1, <2>1, <2>2 DEF Leading
<1>11. Trimmed(s, t, lead, trail)
  BY <1>1, <1>2, <1>6, <1>7, <1>9, <1>10 DEF Trimmed, Leading
<1>. QED
  BY <1>11 DEF trail, a, b, lead

(* Either function makes a core by taking common symbols away. *)
LEMMA CoreTrims ==
  ASSUME NEW S, NEW s \in Seq(S), NEW t \in Seq(S), NEW m, NEW position
  PROVE  \E lead, trail \in Nat :
           /\ Core(m, position, s, t) = RecordCore(position, s, t, lead, trail)
           /\ Trimmed(s, t, lead, trail)
<1>1. CASE m = "normalize"
  <2>. DEFINE trail == mismatch_reverse(s, t)
              lead == mismatch(Middle(s, 0, trail), Middle(t, 0, trail))
  <2>1. Trimmed(s, t, lead, trail)
    BY NormalizedTrims
  <2>2. Core(m, position, s, t) = RecordCore(position, s, t, lead, trail)
    BY <1>1 DEF Core, Normalized
  <2>. HIDE DEF lead, trail
  <2>3. lead \in Nat /\ trail \in Nat
    BY <2>1 DEF Trimmed
  <2>. QED
    BY <2>1, <2>2, <2>3
<1>2. CASE m # "normalize"
  <2>. DEFINE lead == mismatch(s, t)
              trail == mismatch_reverse(Middle(s, lead, 0), Middle(t, lead, 0))
  <2>1. Trimmed(s, t, lead, trail)
    BY RightAlignedTrims
  <2>2. Core(m, position, s, t) = RecordCore(position, s, t, lead, trail)
    BY <1>2 DEF Core, RightAligned
  <2>. HIDE DEF lead, trail
  <2>3. lead \in Nat /\ trail \in Nat
    BY <2>1 DEF Trimmed
  <2>. QED
    BY <2>1, <2>2, <2>3
<1>. QED
  BY <1>1, <1>2
-----------------------------------------------------------------------------
-----------------------------------------------------------------------------
(* A record's cores, as normalize returns them. *)
CoreRecord == [position : Nat, reference_allele : Seq(Bases), alternate_allele : Seq(Symbols)]

(* Taking common symbols away leaves a core. *)
LEMMA TrimmedIsCore ==
  ASSUME NEW s \in Seq(Bases), NEW t \in Seq(Symbols), NEW position \in Nat,
         NEW lead \in Nat, NEW trail \in Nat, Trimmed(s, t, lead, trail)
  PROVE  RecordCore(position, s, t, lead, trail) \in CoreRecord
<1>1. lead + trail <= Len(s) /\ lead + trail <= Len(t)
  BY DEF Trimmed
<1>2. Middle(s, lead, trail) \in Seq(Bases) /\ Middle(t, lead, trail) \in Seq(Symbols)
  BY <1>1, MiddleParts
<1>. QED
  BY <1>2 DEF RecordCore, CoreRecord

(* Common symbols taken away on both sides can be put back. *)
LEMMA TrimmedPutsBack ==
  ASSUME NEW S, NEW s \in Seq(S), NEW t \in Seq(S), NEW lead \in Nat, NEW trail \in Nat,
         Trimmed(s, t, lead, trail)
  PROVE  SubSeq(s, 1, lead) \o SubSeq(t, lead + 1, Len(t) - trail)
           \o SubSeq(s, (Len(s) - trail) + 1, Len(s)) = t
<1>1. /\ lead + trail <= Len(s) /\ lead + trail <= Len(t)
      /\ Len(s) \in Nat /\ Len(t) \in Nat
      /\ \A i \in 1..lead : s[i] = t[i]
      /\ \A i \in 0..(trail - 1) : s[Len(s) - i] = t[Len(t) - i]
  BY DEF Trimmed
<1>2. SubSeq(s, 1, lead) = SubSeq(t, 1, lead)
  <2>1. (\A i \in 1..lead : s[i] \in S) /\ (\A i \in 1..lead : t[i] \in S)
    BY <1>1
  <2>2. /\ SubSeq(s, 1, lead) \in Seq(S) /\ Len(SubSeq(s, 1, lead)) = lead
        /\ \A i \in 1..lead : SubSeq(s, 1, lead)[i] = s[i]
    BY <2>1, SubSeqProperties
  <2>3. /\ SubSeq(t, 1, lead) \in Seq(S) /\ Len(SubSeq(t, 1, lead)) = lead
        /\ \A i \in 1..lead : SubSeq(t, 1, lead)[i] = t[i]
    BY <2>1, SubSeqProperties
  <2>. QED
    BY <1>1, <2>2, <2>3, SeqEqual
<1>3. SubSeq(s, (Len(s) - trail) + 1, Len(s)) = SubSeq(t, (Len(t) - trail) + 1, Len(t))
  <2>. DEFINE a == SubSeq(s, (Len(s) - trail) + 1, Len(s))
              b == SubSeq(t, (Len(t) - trail) + 1, Len(t))
  <2>1. (\A i \in ((Len(s) - trail) + 1)..Len(s) : s[i] \in S)
    BY <1>1
  <2>2. (\A i \in ((Len(t) - trail) + 1)..Len(t) : t[i] \in S)
    BY <1>1
  <2>3. /\ a \in Seq(S) /\ Len(a) = trail
        /\ \A i \in 1..trail : a[i] = s[Len(s) - trail + i]
    BY <1>1, <2>1, SubSeqProperties
  <2>4. /\ b \in Seq(S) /\ Len(b) = trail
        /\ \A i \in 1..trail : b[i] = t[Len(t) - trail + i]
    BY <1>1, <2>2, SubSeqProperties
  <2>. HIDE DEF a, b
  <2>5. ASSUME NEW i \in 1..trail PROVE a[i] = b[i]
    <3>1. trail - i \in 0..(trail - 1)
      OBVIOUS
    <3>2. Len(s) - (trail - i) = Len(s) - trail + i /\ Len(t) - (trail - i) = Len(t) - trail + i
      BY <1>1
    <3>3. s[Len(s) - (trail - i)] = t[Len(t) - (trail - i)]
      BY <1>1, <3>1
    <3>4. s[Len(s) - trail + i] = t[Len(t) - trail + i]
      BY <3>2, <3>3
    <3>. QED
      BY <2>3, <2>4, <3>4
  <2>6. a = b
    BY <2>3, <2>4, <2>5, SeqEqual
  <2>. QED
    BY <2>6 DEF a, b
<1>4. SubSeq(t, 1, lead) \o SubSeq(t, lead + 1, Len(t) - trail) = SubSeq(t, 1, Len(t) - trail)
  <2>1. 1 \in 1..(Len(t) + 1) /\ lead \in (1 - 1)..Len(t) /\ Len(t) - trail \in lead..Len(t)
    BY <1>1
  <2>. QED
    BY <2>1, ConcatAdjacentSubSeq
<1>5. SubSeq(t, 1, Len(t) - trail) \o SubSeq(t, (Len(t) - trail) + 1, Len(t)) = SubSeq(t, 1, Len(t))
  <2>1. 1 \in 1..(Len(t) + 1) /\ Len(t) - trail \in (1 - 1)..Len(t) /\ Len(t) \in (Len(t) - trail)..Len(t)
    BY <1>1
  <2>. QED
    BY <2>1, ConcatAdjacentSubSeq
<1>6. SubSeq(t, 1, Len(t)) = t
  BY SubSeqFull
<1>. QED
  BY <1>2, <1>3, <1>4, <1>5, <1>6

(* Two alleles that differ are not in common from end to end. *)
LEMMA TrimmedLeavesSome ==
  ASSUME NEW S, NEW s \in Seq(S), NEW t \in Seq(S), NEW lead \in Nat, NEW trail \in Nat,
         Trimmed(s, t, lead, trail), s # t
  PROVE  lead + trail < Len(s) \/ lead + trail < Len(t)
<1>. SUFFICES ASSUME lead + trail = Len(s), lead + trail = Len(t) PROVE FALSE
  BY DEF Trimmed
<1>1. ASSUME NEW i \in 1..Len(s) PROVE s[i] = t[i]
  <2>1. CASE i <= lead
    BY <2>1 DEF Trimmed
  <2>2. CASE i > lead
    <3>1. Len(s) - i \in 0..(trail - 1) /\ Len(s) - (Len(s) - i) = i /\ Len(t) - (Len(s) - i) = i
      BY <2>2
    <3>. QED
      BY <3>1 DEF Trimmed
  <2>. QED
    BY <2>1, <2>2
<1>. QED
  BY <1>1, SeqEqual

(* What is left of two alleles that differ has no common symbol at either  *)
(* end.                                                                    *)
LEMMA TrimmedNoContext ==
  ASSUME NEW S, NEW s \in Seq(S), NEW t \in Seq(S), NEW lead \in Nat, NEW trail \in Nat,
         Trimmed(s, t, lead, trail), s # t
  PROVE  LET ref == Middle(s, lead, trail)
             alt == Middle(t, lead, trail)
         IN  /\ ref # << >> \/ alt # << >>
             /\ (ref # << >> /\ alt # << >>) =>
                  ref[1] # alt[1] /\ ref[Len(ref)] # alt[Len(alt)]
<1>. DEFINE ref == Middle(s, lead, trail)
            alt == Middle(t, lead, trail)
<1>1. /\ lead + trail <= Len(s) /\ lead + trail <= Len(t)
      /\ Len(s) \in Nat /\ Len(t) \in Nat
  BY DEF Trimmed
<1>2. /\ ref \in Seq(S) /\ Len(ref) = Len(s) - lead - trail
      /\ \A j \in 1..(Len(s) - lead - trail) : ref[j] = s[lead + j]
  BY <1>1, MiddleParts, ZenonT(40)
<1>3. /\ alt \in Seq(S) /\ Len(alt) = Len(t) - lead - trail
      /\ \A j \in 1..(Len(t) - lead - trail) : alt[j] = t[lead + j]
  BY <1>1, MiddleParts, ZenonT(40)
<1>. HIDE DEF ref, alt
<1>4. ref # << >> \/ alt # << >>
  <2>1. lead + trail < Len(s) \/ lead + trail < Len(t)
    BY TrimmedLeavesSome
  <2>2. Len(ref) # 0 \/ Len(alt) # 0
    <3>1. Len(ref) = Len(s) - lead - trail /\ Len(alt) = Len(t) - lead - trail
      BY <1>2, <1>3, Zenon
    <3>. QED
      BY <1>1, <2>1, <3>1
  <2>. QED
    BY <2>2
<1>5. ASSUME ref # << >>, alt # << >>
      PROVE  ref[1] # alt[1] /\ ref[Len(ref)] # alt[Len(alt)]
  <2>1. Len(ref) > 0 /\ Len(alt) > 0
    BY <1>2, <1>3, <1>5
  <2>2. lead + trail < Len(s) /\ lead + trail < Len(t)
    BY <1>1, <1>2, <1>3, <2>1
  <2>3. s[lead + 1] # t[lead + 1] /\ s[Len(s) - trail] # t[Len(t) - trail]
    BY <2>2 DEF Trimmed
  <2>4. /\ 1 \in 1..(Len(s) - lead - trail) /\ Len(ref) \in 1..(Len(s) - lead - trail)
        /\ 1 \in 1..(Len(t) - lead - trail) /\ Len(alt) \in 1..(Len(t) - lead - trail)
        /\ lead + Len(ref) = Len(s) - trail /\ lead + Len(alt) = Len(t) - trail
    BY <1>1, <1>2, <1>3, <2>2
  <2>5. ref[1] = s[lead + 1] /\ alt[1] = t[lead + 1]
    BY <1>2, <1>3, <2>4
  <2>6. ref[Len(ref)] = s[Len(s) - trail] /\ alt[Len(alt)] = t[Len(t) - trail]
    BY <1>2, <1>3, <2>4
  <2>. QED
    BY <2>3, <2>5, <2>6
<1>. QED
  BY <1>4, <1>5 DEF ref, alt
-----------------------------------------------------------------------------
(* A symbol put before a sequence. *)
LEMMA Prepended ==
  ASSUME NEW S, NEW s \in Seq(S), NEW x \in S
  PROVE  /\ <<x>> \o s \in Seq(S)
         /\ Len(<<x>> \o s) = Len(s) + 1
         /\ (<<x>> \o s)[1] = x
         /\ \A i \in 1..Len(s) : (<<x>> \o s)[i + 1] = s[i]
<1>1. <<x>> \in Seq(S) /\ Len(<<x>>) = 1 /\ <<x>>[1] = x
  OBVIOUS
<1>2. /\ <<x>> \o s \in Seq(S)
      /\ Len(<<x>> \o s) = 1 + Len(s)
      /\ \A i \in 1..(1 + Len(s)) : (<<x>> \o s)[i] = IF i <= 1 THEN <<x>>[i] ELSE s[i - 1]
  BY <1>1, ConcatProperties
<1>. QED
  BY <1>1, <1>2

(* A symbol put after a sequence. *)
LEMMA Appended ==
  ASSUME NEW S, NEW s \in Seq(S), NEW x \in S
  PROVE  /\ s \o <<x>> \in Seq(S)
         /\ Len(s \o <<x>>) = Len(s) + 1
         /\ (s \o <<x>>)[Len(s) + 1] = x
         /\ \A i \in 1..Len(s) : (s \o <<x>>)[i] = s[i]
<1>1. <<x>> \in Seq(S) /\ Len(<<x>>) = 1 /\ <<x>>[1] = x
  OBVIOUS
<1>2. /\ s \o <<x>> \in Seq(S)
      /\ Len(s \o <<x>>) = Len(s) + 1
      /\ \A i \in 1..(Len(s) + 1) : (s \o <<x>>)[i] = IF i <= Len(s) THEN s[i] ELSE <<x>>[i - Len(s)]
  BY <1>1, ConcatProperties
<1>. QED
  BY <1>1, <1>2

(* A common symbol before both sequences is one more in common. *)
LEMMA LeadingPrepended ==
  ASSUME NEW S, NEW s \in Seq(S), NEW t \in Seq(S), NEW x \in S, NEW n, Leading(s, t, n)
  PROVE  Leading(<<x>> \o s, <<x>> \o t, n + 1)
<1>. DEFINE a == <<x>> \o s
            b == <<x>> \o t
<1>1. /\ Len(a) = Len(s) + 1 /\ a[1] = x /\ \A i \in 1..Len(s) : a[i + 1] = s[i]
      /\ Len(b) = Len(t) + 1 /\ b[1] = x /\ \A i \in 1..Len(t) : b[i + 1] = t[i]
  BY Prepended
<1>. HIDE DEF a, b
<1>2. n \in Nat /\ n <= Len(s) /\ n <= Len(t) /\ Len(s) \in Nat /\ Len(t) \in Nat
  BY DEF Leading
<1>3. ASSUME NEW i \in 1..(n + 1) PROVE a[i] = b[i]
  <2>1. CASE i = 1
    BY <1>1, <2>1
  <2>2. CASE i # 1
    <3>1. i - 1 \in 1..n /\ i - 1 \in 1..Len(s) /\ i - 1 \in 1..Len(t) /\ (i - 1) + 1 = i
      BY <1>2, <2>2
    <3>2. a[i] = s[i - 1] /\ b[i] = t[i - 1]
      BY <1>1, <3>1
    <3>. QED
      BY <3>1, <3>2 DEF Leading
  <2>. QED
    BY <2>1, <2>2
<1>4. ASSUME n + 1 < Len(a), n + 1 < Len(b) PROVE a[(n + 1) + 1] # b[(n + 1) + 1]
  <2>1. n < Len(s) /\ n < Len(t) /\ n + 1 \in 1..Len(s) /\ n + 1 \in 1..Len(t)
    BY <1>1, <1>2, <1>4
  <2>2. a[(n + 1) + 1] = s[n + 1] /\ b[(n + 1) + 1] = t[n + 1]
    BY <1>1, <2>1
  <2>. QED
    BY <2>1, <2>2 DEF Leading
<1>5. Leading(a, b, n + 1)
  BY <1>1, <1>2, <1>3, <1>4 DEF Leading
<1>. QED
  BY <1>5 DEF a, b

(* A common symbol after both sequences is one more in common. *)
LEMMA TrailingAppended ==
  ASSUME NEW S, NEW s \in Seq(S), NEW t \in Seq(S), NEW x \in S, NEW n, Trailing(s, t, n)
  PROVE  Trailing(s \o <<x>>, t \o <<x>>, n + 1)
<1>. DEFINE a == s \o <<x>>
            b == t \o <<x>>
<1>1. /\ Len(a) = Len(s) + 1 /\ a[Len(s) + 1] = x /\ \A i \in 1..Len(s) : a[i] = s[i]
      /\ Len(b) = Len(t) + 1 /\ b[Len(t) + 1] = x /\ \A i \in 1..Len(t) : b[i] = t[i]
  BY Appended
<1>. HIDE DEF a, b
<1>2. n \in Nat /\ n <= Len(s) /\ n <= Len(t) /\ Len(s) \in Nat /\ Len(t) \in Nat
  BY DEF Trailing
<1>3. ASSUME NEW i \in Nat, i >= 1, i <= Len(s), i <= Len(t)
      PROVE  a[Len(a) - i] = s[Len(s) - (i - 1)] /\ b[Len(b) - i] = t[Len(t) - (i - 1)]
  <2>1. Len(a) - i = Len(s) - (i - 1) /\ Len(b) - i = Len(t) - (i - 1)
    BY <1>1, <1>2
  <2>2. Len(a) - i \in 1..Len(s) /\ Len(b) - i \in 1..Len(t)
    BY <1>1, <1>2, <1>3
  <2>. QED
    BY <1>1, <2>1, <2>2
<1>4. ASSUME NEW i \in 0..((n + 1) - 1) PROVE a[Len(a) - i] = b[Len(b) - i]
  <2>1. CASE i = 0
    BY <1>1, <1>2, <2>1
  <2>2. CASE i # 0
    <3>1. i - 1 \in 0..(n - 1) /\ i \in Nat /\ i >= 1 /\ i <= Len(s) /\ i <= Len(t)
      BY <1>2, <2>2
    <3>. QED
      BY <1>3, <3>1 DEF Trailing
  <2>. QED
    BY <2>1, <2>2
<1>5. ASSUME n + 1 < Len(a), n + 1 < Len(b) PROVE a[Len(a) - (n + 1)] # b[Len(b) - (n + 1)]
  <2>1. n < Len(s) /\ n < Len(t) /\ n + 1 >= 1 /\ n + 1 <= Len(s) /\ n + 1 <= Len(t)
    BY <1>1, <1>2, <1>5
  <2>2. PICK i \in Nat : i = n + 1
    BY <1>2
  <2>3. i >= 1 /\ i <= Len(s) /\ i <= Len(t) /\ i - 1 = n
    BY <1>2, <2>1, <2>2
  <2>4. a[Len(a) - i] = s[Len(s) - n] /\ b[Len(b) - i] = t[Len(t) - n]
    BY <1>3, <2>3
  <2>. QED
    BY <2>1, <2>2, <2>4 DEF Trailing
<1>6. Trailing(a, b, n + 1)
  BY <1>1, <1>2, <1>4, <1>5 DEF Trailing
<1>. QED
  BY <1>6 DEF a, b

(* The middle of a sequence is that of a longer one. *)
LEMMA MiddlePrepended ==
  ASSUME NEW S, NEW s \in Seq(S), NEW x \in S, NEW lead \in Nat, NEW trail \in Nat,
         lead + trail <= Len(s)
  PROVE  Middle(<<x>> \o s, lead + 1, trail) = Middle(s, lead, trail)
<1>. DEFINE a == <<x>> \o s
            u == Middle(a, lead + 1, trail)
            v == Middle(s, lead, trail)
<1>1. a \in Seq(S) /\ Len(a) = Len(s) + 1 /\ \A i \in 1..Len(s) : a[i + 1] = s[i]
  BY Prepended
<1>. HIDE DEF a
<1>2. Len(s) \in Nat /\ lead + 1 \in Nat /\ (lead + 1) + trail <= Len(a)
  BY <1>1
<1>3. /\ u \in Seq(S) /\ Len(u) = Len(a) - (lead + 1) - trail
      /\ \A i \in 1..(Len(a) - (lead + 1) - trail) : u[i] = a[(lead + 1) + i]
  <2>1. PICK k \in Nat : k = lead + 1
    BY <1>2
  <2>2. a \in Seq(S) /\ k + trail <= Len(a)
    BY <1>1, <1>2, <2>1
  <2>3. /\ Middle(a, k, trail) \in Seq(S) /\ Len(Middle(a, k, trail)) = Len(a) - k - trail
        /\ \A i \in 1..(Len(a) - k - trail) : Middle(a, k, trail)[i] = a[k + i]
    BY <2>2, MiddleParts, ZenonT(40)
  <2>. QED
    BY <2>1, <2>3
<1>4. /\ v \in Seq(S) /\ Len(v) = Len(s) - lead - trail
      /\ \A i \in 1..(Len(s) - lead - trail) : v[i] = s[lead + i]
  BY MiddleParts
<1>. HIDE DEF u, v
<1>5. Len(a) - (lead + 1) - trail = Len(s) - lead - trail
  BY <1>1, <1>2
<1>6. ASSUME NEW i \in 1..(Len(s) - lead - trail) PROVE u[i] = v[i]
  <2>1. lead + i \in 1..Len(s) /\ (lead + i) + 1 = (lead + 1) + i
    BY <1>2
  <2>2. u[i] = a[(lead + 1) + i]
    BY <1>3, <1>5
  <2>3. v[i] = s[lead + i]
    BY <1>4
  <2>4. a[(lead + i) + 1] = s[lead + i]
    BY <1>1, <2>1
  <2>. QED
    BY <2>1, <2>2, <2>3, <2>4
<1>7. u = v
  BY <1>3, <1>4, <1>5, <1>6, SeqEqual
<1>. QED
  BY <1>7 DEF u, v, a

(* A symbol behind an allele is one more of its trailing context. *)
LEMMA MiddleAppended ==
  ASSUME NEW S, NEW s \in Seq(S), NEW x \in S, NEW lead \in Nat, NEW trail \in Nat,
         lead + trail <= Len(s)
  PROVE  Middle(s \o <<x>>, lead, trail + 1) = Middle(s, lead, trail)
<1>. DEFINE a == s \o <<x>>
            u == Middle(a, lead, trail + 1)
            v == Middle(s, lead, trail)
<1>1. a \in Seq(S) /\ Len(a) = Len(s) + 1 /\ \A i \in 1..Len(s) : a[i] = s[i]
  BY Appended
<1>. HIDE DEF a
<1>2. Len(s) \in Nat /\ trail + 1 \in Nat /\ lead + (trail + 1) <= Len(a)
  BY <1>1
<1>3. /\ u \in Seq(S) /\ Len(u) = Len(a) - lead - (trail + 1)
      /\ \A i \in 1..(Len(a) - lead - (trail + 1)) : u[i] = a[lead + i]
  <2>1. PICK k \in Nat : k = trail + 1
    BY <1>2
  <2>2. a \in Seq(S) /\ lead + k <= Len(a)
    BY <1>1, <1>2, <2>1
  <2>3. /\ Middle(a, lead, k) \in Seq(S) /\ Len(Middle(a, lead, k)) = Len(a) - lead - k
        /\ \A i \in 1..(Len(a) - lead - k) : Middle(a, lead, k)[i] = a[lead + i]
    BY <2>2, MiddleParts
  <2>. QED
    BY <2>1, <2>3
<1>4. /\ v \in Seq(S) /\ Len(v) = Len(s) - lead - trail
      /\ \A i \in 1..(Len(s) - lead - trail) : v[i] = s[lead + i]
  BY MiddleParts
<1>. HIDE DEF u, v
<1>5. Len(a) - lead - (trail + 1) = Len(s) - lead - trail
  BY <1>1, <1>2
<1>6. ASSUME NEW i \in 1..(Len(s) - lead - trail) PROVE u[i] = v[i]
  <2>1. lead + i \in 1..Len(s)
    BY <1>2
  <2>. QED
    BY <1>1, <1>3, <1>4, <1>5, <2>1
<1>7. u = v
  BY <1>3, <1>4, <1>5, <1>6, SeqEqual
<1>. QED
  BY <1>7 DEF u, v, a

(* A symbol of context that normalize removes with the trailing ones, and  *)
(* one that normalize_right_alignment removes with the leading ones.       *)
LEMMA NormalizedAfter ==
  ASSUME NEW S, NEW s \in Seq(S), NEW t \in Seq(S), NEW x \in S, NEW position
  PROVE  Normalized(position, s \o <<x>>, t \o <<x>>) = Normalized(position, s, t)
<1>. DEFINE a == s \o <<x>>
            b == t \o <<x>>
            trail == mismatch_reverse(s, t)
            lead == mismatch(Middle(s, 0, trail), Middle(t, 0, trail))
<1>1. a \in Seq(S) /\ b \in Seq(S)
  BY Appended
<1>2. Trailing(s, t, trail) /\ Trimmed(s, t, lead, trail)
  BY MismatchIsTrailing, NormalizedTrims
<1>. HIDE DEF trail
<1>3. Trailing(a, b, trail + 1)
  BY <1>2, TrailingAppended
<1>4. mismatch_reverse(a, b) = trail + 1
  BY <1>1, <1>3, MismatchIsTrailing
<1>5. trail \in Nat /\ lead \in Nat /\ lead + trail <= Len(s) /\ lead + trail <= Len(t)
  BY <1>2 DEF Trimmed
<1>6. 0 + trail <= Len(s) /\ 0 + trail <= Len(t)
  BY <1>2 DEF Trailing
<1>7. Middle(a, 0, trail + 1) = Middle(s, 0, trail) /\ Middle(b, 0, trail + 1) = Middle(t, 0, trail)
  BY <1>5, <1>6, MiddleAppended
<1>. HIDE DEF lead
<1>8. Middle(a, lead, trail + 1) = Middle(s, lead, trail) /\ Middle(b, lead, trail + 1) = Middle(t, lead, trail)
  BY <1>5, MiddleAppended
<1>. HIDE DEF a, b
<1>9. mismatch(Middle(a, 0, trail + 1), Middle(b, 0, trail + 1)) = lead
  BY <1>7 DEF lead
<1>10. Normalized(position, a, b) = RecordCore(position, a, b, lead, trail + 1)
  BY <1>4, <1>9 DEF Normalized
<1>11. Normalized(position, s, t) = RecordCore(position, s, t, lead, trail)
  BY DEF Normalized, lead, trail
<1>12. Normalized(position, a, b) = Normalized(position, s, t)
  BY <1>8, <1>10, <1>11 DEF RecordCore
<1>. QED
  BY <1>12 DEF a, b

(* One more base in front changes nothing for right alignment. *)
LEMMA RightAlignedBefore ==
  ASSUME NEW S, NEW s \in Seq(S), NEW t \in Seq(S), NEW x \in S, NEW position \in Int
  PROVE  RightAligned(position - 1, <<x>> \o s, <<x>> \o t) = RightAligned(position, s, t)
<1>. DEFINE a == <<x>> \o s
            b == <<x>> \o t
            lead == mismatch(s, t)
            trail == mismatch_reverse(Middle(s, lead, 0), Middle(t, lead, 0))
<1>1. a \in Seq(S) /\ b \in Seq(S)
  BY Prepended
<1>2. Leading(s, t, lead) /\ Trimmed(s, t, lead, trail)
  BY MismatchIsLeading, RightAlignedTrims
<1>. HIDE DEF lead
<1>3. Leading(a, b, lead + 1)
  BY <1>2, LeadingPrepended
<1>4. mismatch(a, b) = lead + 1
  BY <1>1, <1>3, MismatchIsLeading
<1>5. trail \in Nat /\ lead \in Nat /\ lead + trail <= Len(s) /\ lead + trail <= Len(t)
  BY <1>2 DEF Trimmed
<1>6. lead + 0 <= Len(s) /\ lead + 0 <= Len(t)
  BY <1>2 DEF Leading
<1>7. Middle(a, lead + 1, 0) = Middle(s, lead, 0) /\ Middle(b, lead + 1, 0) = Middle(t, lead, 0)
  BY <1>5, <1>6, MiddlePrepended
<1>. HIDE DEF trail
<1>8. Middle(a, lead + 1, trail) = Middle(s, lead, trail) /\ Middle(b, lead + 1, trail) = Middle(t, lead, trail)
  BY <1>5, MiddlePrepended
<1>. HIDE DEF a, b
<1>9. mismatch_reverse(Middle(a, lead + 1, 0), Middle(b, lead + 1, 0)) = trail
  BY <1>7 DEF trail
<1>10. RightAligned(position - 1, a, b) = RecordCore(position - 1, a, b, lead + 1, trail)
  BY <1>4, <1>9 DEF RightAligned
<1>11. RightAligned(position, s, t) = RecordCore(position, s, t, lead, trail)
  BY DEF RightAligned, lead, trail
<1>12. (position - 1) + (lead + 1) = position + lead
  BY <1>5
<1>13. RightAligned(position - 1, a, b) = RightAligned(position, s, t)
  BY <1>8, <1>10, <1>11, <1>12 DEF RecordCore
<1>. QED
  BY <1>13 DEF a, b
-----------------------------------------------------------------------------
(* A sequence ends like a shorter one exactly if all of the shorter one is *)
(* in common with it.                                                      *)
LEMMA EndsLikeIsTrailing ==
  ASSUME NEW S, NEW l \in Seq(S), NEW h \in Seq(S), Len(h) <= Len(l)
  PROVE  SubSeq(l, (Len(l) - Len(h)) + 1, Len(l)) = h <=> Trailing(l, h, Len(h))
<1>. DEFINE d == Len(l) - Len(h)
            e == SubSeq(l, d + 1, Len(l))
<1>1. Len(l) \in Nat /\ Len(h) \in Nat /\ d \in Nat
  OBVIOUS
<1>2. \A i \in (d + 1)..Len(l) : l[i] \in S
  BY <1>1
<1>3. /\ e \in Seq(S) /\ Len(e) = Len(h)
      /\ \A i \in 1..Len(h) : e[i] = l[d + i]
  BY <1>1, <1>2, SubSeqProperties
<1>. HIDE DEF e
<1>4. ASSUME e = h PROVE Trailing(l, h, Len(h))
  <2>1. ASSUME NEW i \in 0..(Len(h) - 1) PROVE l[Len(l) - i] = h[Len(h) - i]
    <3>1. Len(h) - i \in 1..Len(h) /\ d + (Len(h) - i) = Len(l) - i
      BY <1>1
    <3>. QED
      BY <1>3, <1>4, <3>1
  <2>. QED
    BY <1>1, <2>1 DEF Trailing
<1>5. ASSUME Trailing(l, h, Len(h)) PROVE e = h
  <2>1. ASSUME NEW i \in 1..Len(h) PROVE e[i] = h[i]
    <3>1. /\ Len(h) - i \in 0..(Len(h) - 1) /\ Len(h) - (Len(h) - i) = i
          /\ Len(l) - (Len(h) - i) = d + i
      BY <1>1
    <3>2. l[Len(l) - (Len(h) - i)] = h[Len(h) - (Len(h) - i)]
      BY <1>5, <3>1 DEF Trailing
    <3>. QED
      BY <1>3, <3>1, <3>2
  <2>. QED
    BY <1>3, <2>1, SeqEqual
<1>. QED
  BY <1>4, <1>5 DEF e

(* The same at the start. *)
LEMMA StartsLikeIsLeading ==
  ASSUME NEW S, NEW l \in Seq(S), NEW h \in Seq(S), Len(h) <= Len(l)
  PROVE  SubSeq(l, 1, Len(h)) = h <=> Leading(l, h, Len(h))
<1>. DEFINE e == SubSeq(l, 1, Len(h))
<1>1. Len(l) \in Nat /\ Len(h) \in Nat
  OBVIOUS
<1>2. \A i \in 1..Len(h) : l[i] \in S
  BY <1>1
<1>3. /\ e \in Seq(S) /\ Len(e) = Len(h)
      /\ \A i \in 1..Len(h) : e[i] = l[i]
  BY <1>1, <1>2, SubSeqProperties
<1>. HIDE DEF e
<1>4. ASSUME e = h PROVE Leading(l, h, Len(h))
  BY <1>1, <1>3, <1>4 DEF Leading
<1>5. ASSUME Leading(l, h, Len(h)) PROVE e = h
  BY <1>3, <1>5, SeqEqual DEF Leading
<1>. QED
  BY <1>4, <1>5 DEF e

(* The symbols in common are those in common with the sequences swapped. *)
LEMMA CommonIsSymmetric ==
  ASSUME NEW s, NEW t, NEW n
  PROVE  /\ Leading(s, t, n) <=> Leading(t, s, n)
         /\ Trailing(s, t, n) <=> Trailing(t, s, n)
<1>1. Leading(s, t, n) <=> Leading(t, s, n)
  BY DEF Leading
<1>2. Trailing(s, t, n) <=> Trailing(t, s, n)
  BY DEF Trailing
<1>. QED
  BY <1>1, <1>2

(* A symbol before both sequences is out of reach of the trailing ones, as *)
(* long as both sequences have more symbols.                               *)
LEMMA TrailingKept ==
  ASSUME NEW S, NEW s \in Seq(S), NEW t \in Seq(S), NEW x \in S, NEW n,
         Trailing(s, t, n), n < Len(s), n < Len(t)
  PROVE  Trailing(<<x>> \o s, <<x>> \o t, n)
<1>. DEFINE a == <<x>> \o s
            b == <<x>> \o t
<1>1. /\ Len(a) = Len(s) + 1 /\ \A i \in 1..Len(s) : a[i + 1] = s[i]
      /\ Len(b) = Len(t) + 1 /\ \A i \in 1..Len(t) : b[i + 1] = t[i]
  BY Prepended
<1>. HIDE DEF a, b
<1>2. n \in Nat /\ Len(s) \in Nat /\ Len(t) \in Nat
  BY DEF Trailing
<1>3. ASSUME NEW i \in 0..n
      PROVE  a[Len(a) - i] = s[Len(s) - i] /\ b[Len(b) - i] = t[Len(t) - i]
  <2>1. /\ Len(s) - i \in 1..Len(s) /\ (Len(s) - i) + 1 = Len(a) - i
        /\ Len(t) - i \in 1..Len(t) /\ (Len(t) - i) + 1 = Len(b) - i
    BY <1>1, <1>2
  <2>. QED
    BY <1>1, <2>1
<1>4. ASSUME NEW i \in 0..(n - 1) PROVE a[Len(a) - i] = b[Len(b) - i]
  <2>1. i \in 0..n
    BY <1>2
  <2>. QED
    BY <1>3, <2>1 DEF Trailing
<1>5. a[Len(a) - n] # b[Len(b) - n]
  <2>1. n \in 0..n
    BY <1>2
  <2>. QED
    BY <1>3, <2>1 DEF Trailing
<1>6. Trailing(a, b, n)
  BY <1>1, <1>2, <1>4, <1>5 DEF Trailing
<1>. QED
  BY <1>6 DEF a, b

(* When the shorter one is used up, the symbol is compared with the next   *)
(* of the longer one.                                                      *)
LEMMA TrailingUsedUp ==
  ASSUME NEW S, NEW l \in Seq(S), NEW h \in Seq(S), NEW x \in S,
         Len(h) < Len(l), Trailing(l, h, Len(h))
  PROVE  /\ l[Len(l) - Len(h)] = x => Trailing(<<x>> \o l, <<x>> \o h, Len(h) + 1)
         /\ l[Len(l) - Len(h)] # x => Trailing(<<x>> \o l, <<x>> \o h, Len(h))
<1>. DEFINE a == <<x>> \o l
            b == <<x>> \o h
<1>1. /\ Len(a) = Len(l) + 1 /\ \A i \in 1..Len(l) : a[i + 1] = l[i]
      /\ Len(b) = Len(h) + 1 /\ b[1] = x /\ \A i \in 1..Len(h) : b[i + 1] = h[i]
  BY Prepended
<1>. HIDE DEF a, b
<1>2. Len(l) \in Nat /\ Len(h) \in Nat
  OBVIOUS
<1>3. ASSUME NEW i \in 0..Len(h) PROVE a[Len(a) - i] = l[Len(l) - i]
  <2>1. Len(l) - i \in 1..Len(l) /\ (Len(l) - i) + 1 = Len(a) - i
    BY <1>1, <1>2
  <2>. QED
    BY <1>1, <2>1
<1>4. ASSUME NEW i \in 0..(Len(h) - 1) PROVE a[Len(a) - i] = b[Len(b) - i]
  <2>1. Len(h) - i \in 1..Len(h) /\ (Len(h) - i) + 1 = Len(b) - i /\ i \in 0..Len(h)
    BY <1>1, <1>2
  <2>2. b[Len(b) - i] = h[Len(h) - i]
    BY <1>1, <2>1
  <2>. QED
    BY <1>3, <2>1, <2>2 DEF Trailing
<1>5. a[Len(a) - Len(h)] = l[Len(l) - Len(h)] /\ b[Len(b) - Len(h)] = x
  <2>1. Len(h) \in 0..Len(h) /\ Len(b) - Len(h) = 1
    BY <1>1, <1>2
  <2>. QED
    BY <1>1, <1>3, <2>1
<1>6. ASSUME l[Len(l) - Len(h)] = x PROVE Trailing(a, b, Len(h) + 1)
  <2>1. ASSUME NEW i \in 0..((Len(h) + 1) - 1) PROVE a[Len(a) - i] = b[Len(b) - i]
    <3>1. i = Len(h) \/ i \in 0..(Len(h) - 1)
      BY <1>2
    <3>. QED
      BY <1>4, <1>5, <1>6, <3>1
  <2>. QED
    BY <1>1, <1>2, <2>1 DEF Trailing
<1>7. ASSUME l[Len(l) - Len(h)] # x PROVE Trailing(a, b, Len(h))
  BY <1>1, <1>2, <1>4, <1>5, <1>7 DEF Trailing
<1>. QED
  BY <1>6, <1>7 DEF a, b

(* A symbol after both sequences and the leading ones in common. *)
LEMMA LeadingKept ==
  ASSUME NEW S, NEW s \in Seq(S), NEW t \in Seq(S), NEW x \in S, NEW n,
         Leading(s, t, n), n < Len(s), n < Len(t)
  PROVE  Leading(s \o <<x>>, t \o <<x>>, n)
<1>. DEFINE a == s \o <<x>>
            b == t \o <<x>>
<1>1. /\ Len(a) = Len(s) + 1 /\ \A i \in 1..Len(s) : a[i] = s[i]
      /\ Len(b) = Len(t) + 1 /\ \A i \in 1..Len(t) : b[i] = t[i]
  BY Appended
<1>. HIDE DEF a, b
<1>2. n \in Nat /\ Len(s) \in Nat /\ Len(t) \in Nat
  BY DEF Leading
<1>3. ASSUME NEW i \in 1..(n + 1) PROVE a[i] = s[i] /\ b[i] = t[i]
  <2>1. i \in 1..Len(s) /\ i \in 1..Len(t)
    BY <1>2
  <2>. QED
    BY <1>1, <2>1
<1>4. ASSUME NEW i \in 1..n PROVE a[i] = b[i]
  <2>1. i \in 1..(n + 1)
    BY <1>2
  <2>. QED
    BY <1>3, <2>1 DEF Leading
<1>5. a[n + 1] # b[n + 1]
  <2>1. n + 1 \in 1..(n + 1)
    BY <1>2
  <2>. QED
    BY <1>3, <2>1 DEF Leading
<1>6. Leading(a, b, n)
  BY <1>1, <1>2, <1>4, <1>5 DEF Leading
<1>. QED
  BY <1>6 DEF a, b

(* The shorter allele is all context: a symbol is put behind both. *)
LEMMA LeadingUsedUp ==
  ASSUME NEW S, NEW l \in Seq(S), NEW h \in Seq(S), NEW x \in S,
         Len(h) < Len(l), Leading(l, h, Len(h))
  PROVE  /\ l[Len(h) + 1] = x => Leading(l \o <<x>>, h \o <<x>>, Len(h) + 1)
         /\ l[Len(h) + 1] # x => Leading(l \o <<x>>, h \o <<x>>, Len(h))
<1>. DEFINE a == l \o <<x>>
            b == h \o <<x>>
<1>1. /\ Len(a) = Len(l) + 1 /\ \A i \in 1..Len(l) : a[i] = l[i]
      /\ Len(b) = Len(h) + 1 /\ b[Len(h) + 1] = x /\ \A i \in 1..Len(h) : b[i] = h[i]
  BY Appended
<1>. HIDE DEF a, b
<1>2. Len(l) \in Nat /\ Len(h) \in Nat
  OBVIOUS
<1>3. ASSUME NEW i \in 1..Len(h) PROVE a[i] = b[i]
  <2>1. i \in 1..Len(l)
    BY <1>2
  <2>. QED
    BY <1>1, <2>1 DEF Leading
<1>4. a[Len(h) + 1] = l[Len(h) + 1] /\ b[Len(h) + 1] = x
  <2>1. Len(h) + 1 \in 1..Len(l)
    BY <1>2
  <2>. QED
    BY <1>1, <2>1
<1>5. ASSUME l[Len(h) + 1] = x PROVE Leading(a, b, Len(h) + 1)
  <2>1. ASSUME NEW i \in 1..(Len(h) + 1) PROVE a[i] = b[i]
    <3>1. i = Len(h) + 1 \/ i \in 1..Len(h)
      BY <1>2
    <3>. QED
      BY <1>3, <1>4, <1>5, <3>1
  <2>. QED
    BY <1>1, <1>2, <2>1 DEF Leading
<1>6. ASSUME l[Len(h) + 1] # x PROVE Leading(a, b, Len(h))
  BY <1>1, <1>2, <1>3, <1>4, <1>6 DEF Leading
<1>. QED
  BY <1>5, <1>6 DEF a, b
-----------------------------------------------------------------------------
(* Two different sequences, named by their length. *)
LEMMA LongerAndShorter ==
  ASSUME NEW S, NEW s \in Seq(S), NEW t \in Seq(S)
  PROVE  \E l, h \in Seq(S) :
           /\ l = Longer(s, t) /\ h = Shorter(s, t) /\ Len(h) <= Len(l)
           /\ (l = s /\ h = t) \/ (l = t /\ h = s)
           /\ Surplus(s, t) = Len(l) - Len(h)
<1>1. Len(s) \in Nat /\ Len(t) \in Nat
  OBVIOUS
<1>2. CASE Len(s) > Len(t)
  BY <1>1, <1>2 DEF Longer, Shorter, Surplus
<1>3. CASE ~(Len(s) > Len(t))
  BY <1>1, <1>3 DEF Longer, Shorter, Surplus
<1>. QED
  BY <1>2, <1>3

(* A symbol before both sequences is taken for a trailing one exactly if   *)
(* one ends like the other and the symbol repeats what comes next.         *)
LEMMA TrailingPrepended ==
  ASSUME NEW S, NEW s \in Seq(S), NEW t \in Seq(S), s # t, NEW x \in S,
         NEW n, n = mismatch_reverse(s, t)
  PROVE  IF EndsLike(s, t) /\ Longer(s, t)[Surplus(s, t)] = x
           THEN /\ mismatch_reverse(<<x>> \o s, <<x>> \o t) = n + 1
                /\ n = Len(s) \/ n = Len(t)
           ELSE mismatch_reverse(<<x>> \o s, <<x>> \o t) = n
<1>1. PICK l, h \in Seq(S) :
        /\ l = Longer(s, t) /\ h = Shorter(s, t) /\ Len(h) <= Len(l)
        /\ (l = s /\ h = t) \/ (l = t /\ h = s)
        /\ Surplus(s, t) = Len(l) - Len(h)
  BY LongerAndShorter
<1>2. /\ Len(l) \in Nat /\ Len(h) \in Nat /\ l # h
      /\ <<x>> \o s \in Seq(S) /\ <<x>> \o t \in Seq(S)
  BY <1>1, Prepended
<1>3. EndsLike(s, t) <=> Trailing(l, h, Len(h))
  <2>1. EndsLike(s, t) <=> SubSeq(l, (Len(l) - Len(h)) + 1, Len(l)) = h
    BY <1>1 DEF EndsLike
  <2>. QED
    BY <1>1, <2>1, EndsLikeIsTrailing
<1>4. \A k : Trailing(s, t, k) <=> Trailing(l, h, k)
  BY <1>1, CommonIsSymmetric
<1>5. \A k : Trailing(<<x>> \o s, <<x>> \o t, k) <=> Trailing(<<x>> \o l, <<x>> \o h, k)
  BY <1>1, CommonIsSymmetric
<1>6. Trailing(s, t, n) /\ \A k : Trailing(s, t, k) => k = n
  BY MismatchIsTrailing
<1>7. \A k : Trailing(<<x>> \o l, <<x>> \o h, k) => mismatch_reverse(<<x>> \o s, <<x>> \o t) = k
  BY <1>2, <1>5, MismatchIsTrailing
<1>8. CASE EndsLike(s, t)
  <2>1. Trailing(l, h, Len(h)) /\ n = Len(h)
    BY <1>3, <1>4, <1>6, <1>8
  <2>2. Len(h) < Len(l)
    <3>1. CASE Len(h) = Len(l)
      <4>1. SubSeq(l, (Len(l) - Len(h)) + 1, Len(l)) = h
        BY <1>1, <2>1, EndsLikeIsTrailing
      <4>2. (Len(l) - Len(h)) + 1 = 1
        BY <1>2, <3>1
      <4>3. SubSeq(l, 1, Len(l)) = l
        BY SubSeqFull
      <4>. QED
        BY <1>2, <4>1, <4>2, <4>3
    <3>. QED
      BY <1>1, <1>2, <3>1
  <2>3. /\ l[Len(l) - Len(h)] = x => Trailing(<<x>> \o l, <<x>> \o h, Len(h) + 1)
        /\ l[Len(l) - Len(h)] # x => Trailing(<<x>> \o l, <<x>> \o h, Len(h))
    BY <2>1, <2>2, TrailingUsedUp
  <2>. QED
    BY <1>1, <1>7, <1>8, <2>1, <2>3
<1>9. CASE ~EndsLike(s, t)
  <2>1. Trailing(l, h, n) /\ n # Len(h)
    BY <1>3, <1>4, <1>6, <1>9
  <2>2. n < Len(s) /\ n < Len(t)
    BY <1>1, <1>2, <2>1 DEF Trailing
  <2>3. Trailing(<<x>> \o s, <<x>> \o t, n)
    BY <1>6, <2>2, TrailingKept
  <2>. QED
    BY <1>5, <1>7, <1>9, <2>3
<1>. QED
  BY <1>8, <1>9

(* The same for a symbol after both. *)
LEMMA LeadingAppended ==
  ASSUME NEW S, NEW s \in Seq(S), NEW t \in Seq(S), s # t, NEW x \in S,
         NEW n, n = mismatch(s, t)
  PROVE  IF StartsLike(s, t) /\ Longer(s, t)[Len(Shorter(s, t)) + 1] = x
           THEN mismatch(s \o <<x>>, t \o <<x>>) = n + 1
           ELSE mismatch(s \o <<x>>, t \o <<x>>) = n
<1>1. PICK l, h \in Seq(S) :
        /\ l = Longer(s, t) /\ h = Shorter(s, t) /\ Len(h) <= Len(l)
        /\ (l = s /\ h = t) \/ (l = t /\ h = s)
  BY LongerAndShorter
<1>2. /\ Len(l) \in Nat /\ Len(h) \in Nat /\ l # h
      /\ s \o <<x>> \in Seq(S) /\ t \o <<x>> \in Seq(S)
  BY <1>1, Appended
<1>3. StartsLike(s, t) <=> Leading(l, h, Len(h))
  <2>1. StartsLike(s, t) <=> SubSeq(l, 1, Len(h)) = h
    BY <1>1 DEF StartsLike
  <2>. QED
    BY <1>1, <2>1, StartsLikeIsLeading
<1>4. \A k : Leading(s, t, k) <=> Leading(l, h, k)
  BY <1>1, CommonIsSymmetric
<1>5. \A k : Leading(s \o <<x>>, t \o <<x>>, k) <=> Leading(l \o <<x>>, h \o <<x>>, k)
  BY <1>1, CommonIsSymmetric
<1>6. Leading(s, t, n) /\ \A k : Leading(s, t, k) => k = n
  BY MismatchIsLeading
<1>7. \A k : Leading(l \o <<x>>, h \o <<x>>, k) => mismatch(s \o <<x>>, t \o <<x>>) = k
  BY <1>2, <1>5, MismatchIsLeading
<1>8. CASE StartsLike(s, t)
  <2>1. Leading(l, h, Len(h)) /\ n = Len(h)
    BY <1>3, <1>4, <1>6, <1>8
  <2>2. Len(h) < Len(l)
    <3>1. CASE Len(h) = Len(l)
      <4>1. SubSeq(l, 1, Len(h)) = h
        BY <1>1, <2>1, StartsLikeIsLeading
      <4>2. SubSeq(l, 1, Len(l)) = l
        BY SubSeqFull
      <4>. QED
        BY <1>2, <3>1, <4>1, <4>2
    <3>. QED
      BY <1>1, <1>2, <3>1
  <2>3. /\ l[Len(h) + 1] = x => Leading(l \o <<x>>, h \o <<x>>, Len(h) + 1)
        /\ l[Len(h) + 1] # x => Leading(l \o <<x>>, h \o <<x>>, Len(h))
    BY <2>1, <2>2, LeadingUsedUp
  <2>. QED
    BY <1>1, <1>7, <1>8, <2>1, <2>3
<1>9. CASE ~StartsLike(s, t)
  <2>1. Leading(l, h, n) /\ n # Len(h)
    BY <1>3, <1>4, <1>6, <1>9
  <2>2. n < Len(s) /\ n < Len(t)
    BY <1>1, <1>2, <2>1 DEF Leading
  <2>3. Leading(s \o <<x>>, t \o <<x>>, n)
    BY <1>6, <2>2, LeadingKept
  <2>. QED
    BY <1>5, <1>7, <1>9, <2>3
<1>. QED
  BY <1>8, <1>9

(* The middle of a longer sequence that keeps the symbol. *)
LEMMA MiddleKeepsSymbol ==
  ASSUME NEW S, NEW s \in Seq(S), NEW x \in S, NEW n \in Nat, n <= Len(s)
  PROVE  /\ Middle(<<x>> \o s, 0, n) = <<x>> \o Middle(s, 0, n)
         /\ Middle(s \o <<x>>, n, 0) = Middle(s, n, 0) \o <<x>>
<1>. DEFINE a == <<x>> \o s
            b == s \o <<x>>
            u == Middle(s, 0, n)
            v == Middle(s, n, 0)
            xu == <<x>> \o u
            vx == v \o <<x>>
<1>1. Len(s) \in Nat /\ 0 + n <= Len(s) /\ n + 0 <= Len(s)
  OBVIOUS
<1>2. a \in Seq(S) /\ Len(a) = Len(s) + 1 /\ a[1] = x /\ \A i \in 1..Len(s) : a[i + 1] = s[i]
  BY Prepended
<1>3. b \in Seq(S) /\ Len(b) = Len(s) + 1 /\ b[Len(s) + 1] = x /\ \A i \in 1..Len(s) : b[i] = s[i]
  BY Appended
<1>4. u \in Seq(S) /\ Len(u) = Len(s) - n /\ \A i \in 1..(Len(s) - n) : u[i] = s[i]
  BY <1>1, MiddleParts
<1>5. v \in Seq(S) /\ Len(v) = Len(s) - n /\ \A i \in 1..(Len(s) - n) : v[i] = s[n + i]
  BY <1>1, MiddleParts
<1>. HIDE DEF a, b, u, v
<1>0. a \in Seq(S) /\ b \in Seq(S) /\ u \in Seq(S) /\ v \in Seq(S)
  BY <1>2, <1>3, <1>4, <1>5
<1>6. xu \in Seq(S) /\ Len(xu) = Len(u) + 1 /\ xu[1] = x /\ \A i \in 1..Len(u) : xu[i + 1] = u[i]
  BY <1>0, Prepended
<1>7. vx \in Seq(S) /\ Len(vx) = Len(v) + 1 /\ vx[Len(v) + 1] = x /\ \A i \in 1..Len(v) : vx[i] = v[i]
  BY <1>0, Appended
<1>. HIDE DEF xu, vx
<1>8. 0 + n <= Len(a) /\ n + 0 <= Len(b)
  BY <1>1, <1>2, <1>3
<1>9. /\ Middle(a, 0, n) \in Seq(S) /\ Len(Middle(a, 0, n)) = Len(a) - n
      /\ \A i \in 1..(Len(a) - n) : Middle(a, 0, n)[i] = a[i]
  BY <1>0, <1>8, MiddleParts
<1>10. /\ Middle(b, n, 0) \in Seq(S) /\ Len(Middle(b, n, 0)) = Len(b) - n
       /\ \A i \in 1..(Len(b) - n) : Middle(b, n, 0)[i] = b[n + i]
  BY <1>0, <1>8, MiddleParts
<1>11. Len(a) - n = Len(xu) /\ Len(b) - n = Len(vx)
  BY <1>1, <1>2, <1>3, <1>4, <1>5, <1>6, <1>7
<1>12. ASSUME NEW i \in 1..Len(xu) PROVE Middle(a, 0, n)[i] = xu[i]
  <2>1. CASE i = 1
    BY <1>2, <1>6, <1>9, <1>11, <2>1
  <2>2. CASE i # 1
    <3>1. i - 1 \in 1..Len(u) /\ i - 1 \in 1..Len(s) /\ (i - 1) + 1 = i
      BY <1>1, <1>4, <1>6, <2>2
    <3>2. a[i] = s[i - 1] /\ xu[i] = u[i - 1] /\ u[i - 1] = s[i - 1]
      BY <1>2, <1>4, <1>6, <3>1
    <3>. QED
      BY <1>9, <1>11, <3>2
  <2>. QED
    BY <2>1, <2>2
<1>13. ASSUME NEW i \in 1..Len(vx) PROVE Middle(b, n, 0)[i] = vx[i]
  <2>1. CASE i = Len(v) + 1
    <3>1. n + i = Len(s) + 1
      BY <1>1, <1>5, <2>1
    <3>. QED
      BY <1>3, <1>7, <1>10, <1>11, <2>1, <3>1
  <2>2. CASE i # Len(v) + 1
    <3>1. i \in 1..Len(v) /\ n + i \in 1..Len(s)
      BY <1>1, <1>5, <1>7, <2>2
    <3>2. b[n + i] = s[n + i] /\ vx[i] = v[i] /\ v[i] = s[n + i]
      BY <1>3, <1>5, <1>7, <3>1
    <3>. QED
      BY <1>10, <1>11, <3>2
  <2>. QED
    BY <2>1, <2>2
<1>14. Middle(a, 0, n) = xu
  BY <1>6, <1>9, <1>11, <1>12, SeqEqual
<1>15. Middle(b, n, 0) = vx
  BY <1>7, <1>10, <1>11, <1>13, SeqEqual
<1>. QED
  BY <1>14, <1>15 DEF a, b, xu, vx, u, v
(* Context before both alleles and normalize: a symbol taken for a         *)
(* trailing one moves the core one position to the left.                   *)
LEMMA NormalizedBefore ==
  ASSUME NEW S, NEW s \in Seq(S), NEW t \in Seq(S), s # t, NEW x \in S, NEW position \in Int
  PROVE  Normalized(position - 1, <<x>> \o s, <<x>> \o t) # Normalized(position, s, t)
           <=> EndsLike(s, t) /\ Longer(s, t)[Surplus(s, t)] = x
<1>1. PICK a, b, trail, lead, trail1, lead1 :
        /\ a = <<x>> \o s /\ b = <<x>> \o t
        /\ trail = mismatch_reverse(s, t)
        /\ lead = mismatch(Middle(s, 0, trail), Middle(t, 0, trail))
        /\ trail1 = mismatch_reverse(a, b)
        /\ lead1 = mismatch(Middle(a, 0, trail1), Middle(b, 0, trail1))
  OBVIOUS
<1>2. /\ a \in Seq(S) /\ b \in Seq(S)
      /\ Len(a) = Len(s) + 1 /\ Len(b) = Len(t) + 1
  BY <1>1, Prepended
<1>3. Trimmed(s, t, lead, trail) /\ Trimmed(a, b, lead1, trail1)
  BY <1>1, <1>2, NormalizedTrims
<1>4. /\ Normalized(position, s, t) = RecordCore(position, s, t, lead, trail)
      /\ Normalized(position - 1, a, b) = RecordCore(position - 1, a, b, lead1, trail1)
  BY <1>1 DEF Normalized
<1>5. /\ lead \in Nat /\ trail \in Nat /\ lead1 \in Nat /\ trail1 \in Nat
      /\ Len(s) \in Nat /\ Len(t) \in Nat
      /\ lead + trail <= Len(s) /\ lead + trail <= Len(t)
      /\ lead1 + trail1 <= Len(a) /\ lead1 + trail1 <= Len(b)
  <2>1. Len(s) \in Nat /\ Len(t) \in Nat
    OBVIOUS
  <2>. QED
    BY <1>3, <2>1, ZenonT(40) DEF Trimmed
<1>6. IF EndsLike(s, t) /\ Longer(s, t)[Surplus(s, t)] = x
        THEN trail1 = trail + 1 /\ (trail = Len(s) \/ trail = Len(t))
        ELSE trail1 = trail
  BY <1>1, TrailingPrepended
<1>7. CASE trail1 = trail + 1 /\ (trail = Len(s) \/ trail = Len(t))
  <2>1. lead = 0 /\ lead1 = 0
    BY <1>2, <1>5, <1>7
  <2>2. Normalized(position, s, t).position = position
    BY <1>4, <2>1 DEF RecordCore
  <2>3. Normalized(position - 1, a, b).position = position - 1
    BY <1>4, <2>1 DEF RecordCore
  <2>4. Normalized(position - 1, a, b) # Normalized(position, s, t)
    BY <2>2, <2>3
  <2>5. trail1 # trail
    BY <1>5, <1>7
  <2>. QED
    BY <1>1, <1>6, <2>4, <2>5
<1>8. CASE trail1 = trail
  <2>1. trail <= Len(s) /\ trail <= Len(t)
    BY <1>5
  <2>2. PICK u, v : u = Middle(s, 0, trail) /\ v = Middle(t, 0, trail)
    OBVIOUS
  <2>3. u \in Seq(S) /\ v \in Seq(S)
    <3>1. 0 + trail <= Len(s) /\ 0 + trail <= Len(t)
      BY <1>5
    <3>. QED
      BY <1>5, <2>2, <3>1, MiddleParts
  <2>4. Middle(a, 0, trail) = <<x>> \o u /\ Middle(b, 0, trail) = <<x>> \o v
    <3>1. /\ Middle(<<x>> \o s, 0, trail) = <<x>> \o Middle(s, 0, trail)
          /\ Middle(<<x>> \o t, 0, trail) = <<x>> \o Middle(t, 0, trail)
      BY <1>5, <2>1, MiddleKeepsSymbol, ZenonT(40)
    <3>. QED
      BY <1>1, <2>2, <3>1
  <2>5. Leading(u, v, lead)
    BY <1>1, <2>2, <2>3, MismatchIsLeading
  <2>6. Leading(<<x>> \o u, <<x>> \o v, lead + 1)
    BY <2>3, <2>5, LeadingPrepended
  <2>7. <<x>> \o u \in Seq(S) /\ <<x>> \o v \in Seq(S)
    BY <2>3, Prepended
  <2>8. lead1 = lead + 1
    <3>1. mismatch(<<x>> \o u, <<x>> \o v) = lead + 1
      BY <2>6, <2>7, MismatchIsLeading
    <3>. QED
      BY <1>1, <1>8, <2>4, <3>1
  <2>9. /\ Middle(a, lead + 1, trail) = Middle(s, lead, trail)
        /\ Middle(b, lead + 1, trail) = Middle(t, lead, trail)
    <3>1. /\ Middle(<<x>> \o s, lead + 1, trail) = Middle(s, lead, trail)
          /\ Middle(<<x>> \o t, lead + 1, trail) = Middle(t, lead, trail)
      BY <1>5, MiddlePrepended
    <3>. QED
      BY <1>1, <3>1
  <2>10. (position - 1) + (lead + 1) = position + lead
    BY <1>5
  <2>11. Normalized(position - 1, a, b) = Normalized(position, s, t)
    BY <1>4, <1>8, <2>8, <2>9, <2>10 DEF RecordCore
  <2>12. trail1 # trail + 1
    BY <1>5, <1>8
  <2>. QED
    BY <1>1, <1>6, <2>11, <2>12
<1>. QED
  BY <1>6, <1>7, <1>8

(* Context after both alleles and normalize_right_alignment: a symbol      *)
(* taken for a leading one moves the core one position to the right.       *)
LEMMA RightAlignedAfter ==
  ASSUME NEW S, NEW s \in Seq(S), NEW t \in Seq(S), s # t, NEW x \in S, NEW position \in Int
  PROVE  RightAligned(position, s \o <<x>>, t \o <<x>>) # RightAligned(position, s, t)
           <=> StartsLike(s, t) /\ Longer(s, t)[Len(Shorter(s, t)) + 1] = x
<1>1. PICK a, b, trail, lead, trail1, lead1 :
        /\ a = s \o <<x>> /\ b = t \o <<x>>
        /\ lead = mismatch(s, t)
        /\ trail = mismatch_reverse(Middle(s, lead, 0), Middle(t, lead, 0))
        /\ lead1 = mismatch(a, b)
        /\ trail1 = mismatch_reverse(Middle(a, lead1, 0), Middle(b, lead1, 0))
  OBVIOUS
<1>2. a \in Seq(S) /\ b \in Seq(S)
  BY <1>1, Appended
<1>3. Trimmed(s, t, lead, trail)
  BY <1>1, RightAlignedTrims
<1>4. /\ RightAligned(position, s, t) = RecordCore(position, s, t, lead, trail)
      /\ RightAligned(position, a, b) = RecordCore(position, a, b, lead1, trail1)
  BY <1>1 DEF RightAligned
<1>5. /\ lead \in Nat /\ trail \in Nat /\ Len(s) \in Nat /\ Len(t) \in Nat
      /\ lead + trail <= Len(s) /\ lead + trail <= Len(t)
  BY <1>3 DEF Trimmed
<1>6. IF StartsLike(s, t) /\ Longer(s, t)[Len(Shorter(s, t)) + 1] = x
        THEN lead1 = lead + 1
        ELSE lead1 = lead
  BY <1>1, LeadingAppended
<1>7. CASE lead1 = lead + 1
  <2>1. RightAligned(position, s, t).position = position + lead
    BY <1>4 DEF RecordCore
  <2>2. RightAligned(position, a, b).position = position + (lead + 1)
    BY <1>4, <1>7 DEF RecordCore
  <2>3. RightAligned(position, a, b) # RightAligned(position, s, t)
    BY <1>5, <2>1, <2>2
  <2>4. lead1 # lead
    BY <1>5, <1>7
  <2>. QED
    BY <1>1, <1>6, <2>3, <2>4
<1>8. CASE lead1 = lead
  <2>1. lead <= Len(s) /\ lead <= Len(t)
    BY <1>5
  <2>2. PICK u, v : u = Middle(s, lead, 0) /\ v = Middle(t, lead, 0)
    OBVIOUS
  <2>3. u \in Seq(S) /\ v \in Seq(S)
    <3>1. lead + 0 <= Len(s) /\ lead + 0 <= Len(t)
      BY <1>5
    <3>. QED
      BY <1>5, <2>2, <3>1, MiddleParts
  <2>4. Middle(a, lead, 0) = u \o <<x>> /\ Middle(b, lead, 0) = v \o <<x>>
    <3>1. /\ Middle(s \o <<x>>, lead, 0) = Middle(s, lead, 0) \o <<x>>
          /\ Middle(t \o <<x>>, lead, 0) = Middle(t, lead, 0) \o <<x>>
      BY <1>5, <2>1, MiddleKeepsSymbol, ZenonT(40)
    <3>. QED
      BY <1>1, <2>2, <3>1, Zenon
  <2>5. Trailing(u, v, trail)
    BY <1>1, <2>2, <2>3, MismatchIsTrailing
  <2>6. Trailing(u \o <<x>>, v \o <<x>>, trail + 1)
    BY <2>3, <2>5, TrailingAppended
  <2>7. u \o <<x>> \in Seq(S) /\ v \o <<x>> \in Seq(S)
    BY <2>3, Appended
  <2>8. trail1 = trail + 1
    <3>1. mismatch_reverse(u \o <<x>>, v \o <<x>>) = trail + 1
      BY <2>6, <2>7, MismatchIsTrailing
    <3>. QED
      BY <1>1, <1>8, <2>4, <3>1
  <2>9. /\ Middle(a, lead, trail + 1) = Middle(s, lead, trail)
        /\ Middle(b, lead, trail + 1) = Middle(t, lead, trail)
    <3>1. /\ Middle(s \o <<x>>, lead, trail + 1) = Middle(s, lead, trail)
          /\ Middle(t \o <<x>>, lead, trail + 1) = Middle(t, lead, trail)
      BY <1>5, MiddleAppended
    <3>. QED
      BY <1>1, <3>1, Zenon
  <2>10. RightAligned(position, a, b) = RightAligned(position, s, t)
    BY <1>4, <1>8, <2>8, <2>9 DEF RecordCore
  <2>11. lead1 # lead + 1
    BY <1>5, <1>8
  <2>. QED
    BY <1>1, <1>6, <2>10, <2>11
<1>. QED
  BY <1>6, <1>7, <1>8
-----------------------------------------------------------------------------
(* Once the record is built, none of its alleles is the reference, and the *)
(* cores returned so far are those of the first alleles.                   *)
NormalizerInv ==
  /\ record \in Records
  /\ method \in {"normalize", "normalize_right_alignment"}
  /\ status \in {"construct", "loop", "rejected", "returned"}
  /\ status = "loop" =>
       \A i \in 1..Len(record.alternate_alleles) : ~SameAsReference(record.alternate_alleles[i])
  /\ records \in Seq(CoreRecord)
  /\ Len(records) <= Len(record.alternate_alleles)
  /\ \A i \in 1..Len(records) :
       /\ ~SameAsReference(record.alternate_alleles[i])
       /\ records[i] = Core(method, record.position, record.reference_allele,
                            record.alternate_alleles[i])

(* A core of an allele of a record of the file, with what was taken away   *)
(* of the two alleles.                                                     *)
LEMMA CoreOfAllele ==
  ASSUME NEW r \in Records, NEW i \in 1..Len(r.alternate_alleles), NEW m
  PROVE  \E lead, trail \in Nat :
           /\ Trimmed(r.reference_allele, r.alternate_alleles[i], lead, trail)
           /\ Core(m, r.position, r.reference_allele, r.alternate_alleles[i])
                = RecordCore(r.position, r.reference_allele, r.alternate_alleles[i], lead, trail)
           /\ Core(m, r.position, r.reference_allele, r.alternate_alleles[i]) \in CoreRecord
<1>. DEFINE s == r.reference_allele
            t == r.alternate_alleles[i]
<1>1. s \in Seq(Bases) /\ t \in Seq(Symbols) /\ s \in Seq(Symbols)
  BY RecordParts DEF Symbols
<1>2. r.position \in Nat
  BY NormalizerConstants DEF VcfRecord
<1>. HIDE DEF s, t
<1>3. PICK lead, trail \in Nat :
        /\ Core(m, r.position, s, t) = RecordCore(r.position, s, t, lead, trail)
        /\ Trimmed(s, t, lead, trail)
  BY <1>1, CoreTrims
<1>4. RecordCore(r.position, s, t, lead, trail) \in CoreRecord
  BY <1>1, <1>2, <1>3, TrimmedIsCore
<1>. QED
  BY <1>3, <1>4 DEF s, t

(* The records to begin with satisfy the invariant. *)
LEMMA NormalizerInitInv == NormalizerInit => NormalizerInv
<1>. SUFFICES ASSUME NormalizerInit PROVE NormalizerInv
  OBVIOUS
<1>1. Len(record.alternate_alleles) \in Nat
  BY RecordParts DEF NormalizerInit
<1>2. records \in Seq(CoreRecord) /\ Len(records) = 0
  BY DEF NormalizerInit
<1>. QED
  BY <1>1, <1>2 DEF NormalizerInit, NormalizerInv

(* One turn of the loop adds the core of the next allele. *)
LEMMA NormalizeAlleleInv == NormalizerInv /\ NormalizeAllele => NormalizerInv'
<1>. SUFFICES ASSUME NormalizerInv, NormalizeAllele PROVE NormalizerInv'
  OBVIOUS
<1>. DEFINE n == Len(records)
            alternate == record.alternate_alleles[n + 1]
            reference == record.reference_allele
            core == Core(method, record.position, reference, alternate)
<1>1. n \in Nat /\ Len(record.alternate_alleles) \in Nat /\ n < Len(record.alternate_alleles)
  BY RecordParts DEF NormalizerInv, NormalizeAllele
<1>2. n + 1 \in 1..Len(record.alternate_alleles)
  BY <1>1
<1>3. /\ Len(alternate) >= 1 /\ Len(reference) >= 1
      /\ Len(alternate) \in Nat /\ Len(reference) \in Nat
  <2>1. record \in Records
    BY DEF NormalizerInv
  <2>2. reference \in Seq(Bases) /\ Len(reference) >= 1
    BY <2>1, RecordParts
  <2>3. alternate \in Seq(Symbols) /\ Len(alternate) >= 1
    BY <1>2, <2>1, RecordParts
  <2>. QED
    BY <2>2, <2>3
<1>4. reference # alternate
  BY <1>2 DEF NormalizerInv, NormalizeAllele, SameAsReference
<1>5. ~(Len(alternate) < 1 \/ Len(reference) < 1 \/ reference = alternate)
  BY <1>3, <1>4
<1>6. records' = Append(records, core) /\ UNCHANGED <<status, record, method>>
  BY <1>5 DEF NormalizeAllele
<1>7. core \in CoreRecord
  BY <1>2, CoreOfAllele DEF NormalizerInv
<1>. HIDE DEF core
<1>8. /\ Append(records, core) \in Seq(CoreRecord)
      /\ Len(Append(records, core)) = n + 1
      /\ \A i \in 1..n : Append(records, core)[i] = records[i]
      /\ Append(records, core)[n + 1] = core
  BY <1>7, AppendProperties DEF NormalizerInv
<1>9. ASSUME NEW i \in 1..Len(records')
      PROVE  /\ ~SameAsReference(record.alternate_alleles[i])
             /\ records'[i] = Core(method, record.position, record.reference_allele,
                                   record.alternate_alleles[i])
  <2>1. i \in 1..n \/ i = n + 1
    BY <1>1, <1>6, <1>8
  <2>2. CASE i \in 1..n
    BY <1>6, <1>8, <2>2 DEF NormalizerInv
  <2>3. CASE i = n + 1
    BY <1>4, <1>6, <1>8, <2>3 DEF core, SameAsReference
  <2>. QED
    BY <2>1, <2>2, <2>3
<1>10. records' \in Seq(CoreRecord) /\ Len(records') <= Len(record.alternate_alleles)
  BY <1>1, <1>6, <1>8
<1>. QED
  BY <1>6, <1>9, <1>10 DEF NormalizerInv, SameAsReference

(***************************************************************************)
(* The inductive invariant of either function: a record that is normalised *)
(* has passed check_alternate_alleles.                                     *)
(***************************************************************************)
THEOREM NormalizerInvariant == NormalizerSpec => []NormalizerInv
<1>1. NormalizerInv /\ [NormalizerNext]_normalizerVars => NormalizerInv'
  <2>. SUFFICES ASSUME NormalizerInv, [NormalizerNext]_normalizerVars PROVE NormalizerInv'
    OBVIOUS
  <2>1. CASE Construct
    BY <2>1 DEF NormalizerInv, Construct, SameAsReference
  <2>2. CASE NormalizeAllele
    BY <2>2, NormalizeAlleleInv
  <2>3. CASE Return
    BY <2>3 DEF NormalizerInv, Return, SameAsReference
  <2>4. CASE UNCHANGED normalizerVars
    BY <2>4 DEF NormalizerInv, normalizerVars, SameAsReference
  <2>. QED
    BY <2>1, <2>2, <2>3, <2>4 DEF NormalizerNext
<1>. QED
  BY <1>1, NormalizerInitInv, PTL DEF NormalizerSpec

(***************************************************************************)
(* Neither function throws a NormalizationError for a record that the      *)
(* constructor let through, however long its alleles are.                  *)
(***************************************************************************)
THEOREM NormalizationNeverFails == NormalizerSpec => []NeverThrown
<1>1. NormalizerInv => NeverThrown
  BY DEF NormalizerInv, NeverThrown
<1>. QED
  BY <1>1, NormalizerInvariant, PTL

(* Type correctness: every core has the position and the alleles of one. *)
THEOREM NormalizerTypeCorrect == NormalizerSpec => []NormalizerTypeOK
<1>1. NormalizerInv => NormalizerTypeOK
  <2>. SUFFICES ASSUME NormalizerInv PROVE NormalizerTypeOK
    OBVIOUS
  <2>1. \A i \in 1..Len(records) : records[i] \in CoreRecord
    BY DEF NormalizerInv
  <2>. QED
    BY <2>1 DEF NormalizerInv, NormalizerTypeOK, CoreRecord
<1>. QED
  BY <1>1, NormalizerInvariant, PTL

(***************************************************************************)
(* A core is the same change as its allele: put back into the reference    *)
(* allele it gives the alternate allele, whichever function made it.       *)
(***************************************************************************)
THEOREM CoresAreTheSameChange == NormalizerSpec => []SameChange
<1>1. NormalizerInv => SameChange
  <2>. SUFFICES ASSUME NormalizerInv, NEW i \in 1..Len(records)
                PROVE  LET before == records[i].position - record.position
                           size   == Len(records[i].reference_allele)
                       IN  /\ before >= 0 /\ before + size <= Len(record.reference_allele)
                           /\ SubSeq(record.reference_allele, before + 1, before + size)
                                = records[i].reference_allele
                           /\ PutBack(records[i]) = record.alternate_alleles[i]
    BY DEF SameChange
  <2>1. record \in Records /\ i \in 1..Len(record.alternate_alleles)
    BY RecordParts DEF NormalizerInv
  <2>2. PICK s, t, core, position :
          /\ s = record.reference_allele /\ t = record.alternate_alleles[i]
          /\ core = records[i] /\ position = record.position
    OBVIOUS
  <2>3. s \in Seq(Bases) /\ t \in Seq(Symbols) /\ position \in Nat
    BY <2>1, <2>2, RecordParts, NormalizerConstants DEF VcfRecord
  <2>4. core = Core(method, position, s, t)
    BY <2>2 DEF NormalizerInv
  <2>5. PICK lead, trail \in Nat :
          Trimmed(s, t, lead, trail) /\ core = RecordCore(position, s, t, lead, trail)
    BY <2>1, <2>2, <2>4, CoreOfAllele
  <2>6. /\ core.position = position + lead
        /\ core.reference_allele = Middle(s, lead, trail)
        /\ core.alternate_allele = Middle(t, lead, trail)
    BY <2>5 DEF RecordCore
  <2>7. lead + trail <= Len(s) /\ Len(s) \in Nat
    BY <2>3, <2>5 DEF Trimmed
  <2>8. Len(core.reference_allele) = Len(s) - lead - trail
    BY <2>3, <2>6, <2>7, MiddleParts
  <2>9. /\ core.position - position = lead
        /\ lead + Len(core.reference_allele) = Len(s) - trail
    BY <2>3, <2>6, <2>7, <2>8
  <2>10. s \in Seq(Symbols)
    BY <2>3 DEF Symbols
  <2>11. SubSeq(s, 1, lead) \o SubSeq(t, lead + 1, Len(t) - trail)
           \o SubSeq(s, (Len(s) - trail) + 1, Len(s)) = t
    BY <2>3, <2>5, <2>10, TrimmedPutsBack
  <2>12. SubSeq(s, 1, lead) \o core.alternate_allele
           \o SubSeq(s, (lead + Len(core.reference_allele)) + 1, Len(s)) = t
    BY <2>6, <2>9, <2>11 DEF Middle
  <2>13. PutBack(core) = t
    BY <2>2, <2>9, <2>12 DEF PutBack
  <2>14. SubSeq(s, lead + 1, lead + Len(core.reference_allele)) = core.reference_allele
    BY <2>6, <2>9 DEF Middle
  <2>15. lead >= 0 /\ lead + Len(core.reference_allele) <= Len(s)
    BY <2>7, <2>9
  <2>. QED
    BY <2>2, <2>9, <2>13, <2>14, <2>15
<1>. QED
  BY <1>1, NormalizerInvariant, PTL

(***************************************************************************)
(* No core keeps a symbol of context on either side, as normalizer.hpp     *)
(* says.                                                                   *)
(***************************************************************************)
THEOREM CoresHaveNoContext == NormalizerSpec => []NoContextLeft
<1>1. NormalizerInv => NoContextLeft
  <2>. SUFFICES ASSUME NormalizerInv, NEW i \in 1..Len(records)
                PROVE  LET ref == records[i].reference_allele
                           alt == records[i].alternate_allele
                       IN  /\ ref # << >> \/ alt # << >>
                           /\ (ref # << >> /\ alt # << >>) =>
                                ref[1] # alt[1] /\ ref[Len(ref)] # alt[Len(alt)]
    BY DEF NoContextLeft
  <2>1. record \in Records /\ i \in 1..Len(record.alternate_alleles)
    BY RecordParts DEF NormalizerInv
  <2>2. PICK s, t, core :
          /\ s = record.reference_allele /\ t = record.alternate_alleles[i]
          /\ core = records[i]
    OBVIOUS
  <2>3. s \in Seq(Symbols) /\ t \in Seq(Symbols) /\ s # t
    <3>1. s \in Seq(Bases) /\ t \in Seq(Symbols)
      BY <2>1, <2>2, RecordParts
    <3>2. s \in Seq(Symbols)
      BY <3>1 DEF Symbols
    <3>. QED
      BY <2>2, <3>1, <3>2 DEF NormalizerInv, SameAsReference
  <2>4. core = Core(method, record.position, s, t)
    BY <2>2 DEF NormalizerInv
  <2>5. PICK lead, trail \in Nat :
          /\ Trimmed(s, t, lead, trail)
          /\ core = RecordCore(record.position, s, t, lead, trail)
    BY <2>1, <2>2, <2>4, CoreOfAllele
  <2>6. /\ core.reference_allele = Middle(s, lead, trail)
        /\ core.alternate_allele = Middle(t, lead, trail)
    BY <2>5 DEF RecordCore
  <2>. QED
    BY <2>2, <2>3, <2>5, <2>6, TrimmedNoContext
<1>. QED
  BY <1>1, NormalizerInvariant, PTL
(***************************************************************************)
(* Which context changes a core: for normalize a base before both alleles, *)
(* exactly if one allele ends like the other and the base repeats the end  *)
(* of what is inserted or deleted; none after them.  The sides are swapped *)
(* for normalize_right_alignment.                                          *)
(***************************************************************************)
THEOREM CoresAreContextFree == NormalizerSpec => []ContextFree
<1>1. NormalizerInv => ContextFree
  <2>. SUFFICES ASSUME NormalizerInv, NEW i \in 1..Len(records), NEW x \in Bases
                PROVE  LET ref    == record.reference_allele
                           alt    == record.alternate_alleles[i]
                           before == Core(method, record.position - 1, <<x>> \o ref, <<x>> \o alt)
                           after  == Core(method, record.position, ref \o <<x>>, alt \o <<x>>)
                           end    == Surplus(ref, alt)
                       IN  IF method = "normalize"
                             THEN /\ after = records[i]
                                  /\ before # records[i] <=>
                                       EndsLike(ref, alt) /\ Longer(ref, alt)[end] = x
                             ELSE /\ before = records[i]
                                  /\ after # records[i] <=>
                                       /\ StartsLike(ref, alt)
                                       /\ Longer(ref, alt)[Len(Shorter(ref, alt)) + 1] = x
    BY DEF ContextFree
  <2>1. record \in Records /\ i \in 1..Len(record.alternate_alleles)
    BY RecordParts DEF NormalizerInv
  <2>2. PICK s, t, core, position :
          /\ s = record.reference_allele /\ t = record.alternate_alleles[i]
          /\ core = records[i] /\ position = record.position
    OBVIOUS
  <2>3. s \in Seq(Symbols) /\ t \in Seq(Symbols) /\ s # t /\ x \in Symbols
    <3>1. s \in Seq(Bases) /\ t \in Seq(Symbols)
      BY <2>1, <2>2, RecordParts
    <3>2. s \in Seq(Symbols) /\ x \in Symbols
      BY <3>1 DEF Symbols
    <3>. QED
      BY <2>2, <3>1, <3>2 DEF NormalizerInv, SameAsReference
  <2>4. core = Core(method, position, s, t)
    BY <2>2 DEF NormalizerInv
  <2>5. position \in Int
    <3>1. position \in Nat
      BY <2>1, <2>2, NormalizerConstants DEF VcfRecord
    <3>. QED
      BY <3>1
  <2>6. CASE method = "normalize"
    <3>1. core = Normalized(position, s, t)
      BY <2>4, <2>6 DEF Core
    <3>2. Core(method, position, s \o <<x>>, t \o <<x>>) = core
      BY <2>3, <2>6, <3>1, NormalizedAfter DEF Core
    <3>3. Core(method, position - 1, <<x>> \o s, <<x>> \o t) # core
            <=> EndsLike(s, t) /\ Longer(s, t)[Surplus(s, t)] = x
      <4>1. Normalized(position - 1, <<x>> \o s, <<x>> \o t) # Normalized(position, s, t)
              <=> EndsLike(s, t) /\ Longer(s, t)[Surplus(s, t)] = x
        BY <2>3, <2>5, NormalizedBefore, ZenonT(40)
      <4>. QED
        BY <2>6, <3>1, <4>1 DEF Core
    <3>. QED
      BY <2>2, <2>6, <3>2, <3>3
  <2>7. CASE method # "normalize"
    <3>1. core = RightAligned(position, s, t)
      BY <2>4, <2>7 DEF Core
    <3>2. Core(method, position - 1, <<x>> \o s, <<x>> \o t) = core
      BY <2>3, <2>5, <2>7, <3>1, RightAlignedBefore DEF Core
    <3>3. Core(method, position, s \o <<x>>, t \o <<x>>) # core
            <=> StartsLike(s, t) /\ Longer(s, t)[Len(Shorter(s, t)) + 1] = x
      BY <2>3, <2>5, <2>7, <3>1, RightAlignedAfter DEF Core
    <3>. QED
      BY <2>2, <2>7, <3>2, <3>3
  <2>. QED
    BY <2>6, <2>7
<1>. QED
  BY <1>1, NormalizerInvariant, PTL
=============================================================================
