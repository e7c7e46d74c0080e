---------------------------- MODULE RepairProofs ----------------------------
(***************************************************************************)
(* The properties of the two programs in turn, for every set of files.     *)
(*                                                                         *)
(* OutputInOrder rests on three facts: the report of a file follows its    *)
(* lines, with one error for a line unless all are duplications            *)
(* (ReportFollows); a fix writes one line, or ends the process             *)
(* (FixIsOneLine), as a FORMAT without samples always has an error of the  *)
(* grammar first (NoSamplesNoField); and the input and the report are read *)
(* side by side (PlaceInv).                                                *)
(*                                                                         *)
(* The other properties rest on FixesInv: a line of the output is what a   *)
(* fix made of its error.  That the state has its types takes the types of *)
(* all checks (LineErrorTyped) and of all fixes (FixTyped).                *)
(***************************************************************************)
EXTENDS Repair, NatLemmas, FiniteSetTheorems, SequenceTheorems

(* The recursive function inside FlattenSeq exists: it can be given up to  *)
(* any index, from the one before.                                         *)
LEMMA FlattenFunction ==
  ASSUME NEW seqs, NEW n \in Nat
  PROVE  \E f : f = [i \in 1..n |-> IF i = 1 THEN seqs[i] ELSE f[i - 1] \o seqs[i]]
<1> DEFINE Solves(f, m) == f = [i \in 1..m |-> IF i = 1 THEN seqs[i] ELSE f[i - 1] \o seqs[i]]
           T == {m \in Nat : ~\E f : Solves(f, m)}
<1>1. SUFFICES ASSUME T # {} PROVE FALSE
  OBVIOUS
<1>2. PICK m \in T : \A y \in T : m <= y
  <2> HIDE DEF T
  <2>1. T \subseteq Nat
    BY DEF T
  <2> QED
    BY <1>1, <2>1, LeastNat
<1>3. CASE m = 0
  <2>1. Solves([i \in 1..0 |-> seqs[i]], 0)
    OBVIOUS
  <2> QED
    BY <1>3, <2>1
<1>4. CASE m # 0
  <2>0. m \in Nat
    OBVIOUS
  <2>1. m - 1 \in Nat /\ m - 1 \notin T
    <3> HIDE DEF T
    <3> QED
      BY <1>2, <1>4, <2>0
  <2>2. PICK f : Solves(f, m - 1)
    BY <2>1
  <2> DEFINE Then(x, i) == x \o seqs[i]
             g == [i \in 1..m |-> IF i = 1 THEN seqs[i] ELSE Then(f[i - 1], i)]
  <2>3. f = [i \in 1..(m - 1) |-> IF i = 1 THEN seqs[i] ELSE Then(f[i - 1], i)]
    BY <2>2
  <2> HIDE DEF T, Solves, Then
  <2>4. \A i \in 1..(m - 1) : g[i] = f[i]
    BY <2>1, <2>3, <2>0
  <2>5. g = [i \in 1..m |-> IF i = 1 THEN seqs[i] ELSE Then(g[i - 1], i)]
    <3>1. ASSUME NEW i \in 1..m, i # 1 PROVE f[i - 1] = g[i - 1]
      <4>1. i - 1 \in 1..(m - 1)
        BY <2>0, <3>1
      <4> QED
        BY <2>4, <4>1
    <3> QED
      BY <3>1
  <2>6. Solves(g, m)
    BY <2>5, Zenon DEF Solves, Then
  <2> QED
    BY <2>6, <2>0 DEF T
<1> QED
  BY <1>3, <1>4

(* What FlattenSeq gives is the last value of such a function. *)
LEMMA FlattenUnfolds ==
  ASSUME NEW seqs, Len(seqs) \in Nat \ {0}
  PROVE  \E f : /\ FlattenSeq(seqs) = f[Len(seqs)]
                /\ f = [i \in 1..Len(seqs) |-> IF i = 1 THEN seqs[i] ELSE f[i - 1] \o seqs[i]]
<1> DEFINE c == CHOOSE f : f = [i \in 1..Len(seqs) |-> IF i = 1 THEN seqs[i] ELSE f[i - 1] \o seqs[i]]
<1>1. FlattenSeq(seqs) = c[Len(seqs)]
  BY DEF FlattenSeq
<1>2. c = [i \in 1..Len(seqs) |-> IF i = 1 THEN seqs[i] ELSE c[i - 1] \o seqs[i]]
  BY FlattenFunction
<1> QED
  BY <1>1, <1>2


-----------------------------------------------------------------------------
(* The reports that the debugulator can follow: ordered by line, with more *)
(* than one error for a line only where all are DuplicationErrors.         *)
IsDuplication(e) == e.error.type = "DuplicationError"

InReportOrder(s) ==
  \A i, k \in 1..Len(s) : i < k =>
    s[i].line < s[k].line \/ (s[i].line = s[k].line /\ IsDuplication(s[i]) /\ IsDuplication(s[k]))

(* Reports of lines one after the other. *)
LEMMA JoinedInOrder ==
  ASSUME NEW T, NEW s \in Seq(T), NEW t \in Seq(T), InReportOrder(s), InReportOrder(t),
         \A i \in 1..Len(s), k \in 1..Len(t) : s[i].line < t[k].line
  PROVE  s \o t \in Seq(T) /\ InReportOrder(s \o t)
<1> DEFINE j == s \o t
<1>1. /\ j \in Seq(T) /\ Len(j) = Len(s) + Len(t)
      /\ \A i \in 1..Len(j) : j[i] = IF i <= Len(s) THEN s[i] ELSE t[i - Len(s)]
  BY ConcatProperties
<1>2. Len(s) \in Nat /\ Len(t) \in Nat
  OBVIOUS
<1> HIDE DEF j
<1>3. ASSUME NEW i \in 1..Len(j), NEW k \in 1..Len(j), i < k
      PROVE  j[i].line < j[k].line
               \/ (j[i].line = j[k].line /\ IsDuplication(j[i]) /\ IsDuplication(j[k]))
  <2>1. CASE k <= Len(s)
    <3>1. i \in 1..Len(s) /\ k \in 1..Len(s) /\ j[i] = s[i] /\ j[k] = s[k]
      BY <1>1, <1>2, <1>3, <2>1
    <3> QED
      BY <1>3, <3>1 DEF InReportOrder
  <2>2. CASE i <= Len(s) /\ k > Len(s)
    <3>1. i \in 1..Len(s) /\ k - Len(s) \in 1..Len(t) /\ j[i] = s[i] /\ j[k] = t[k - Len(s)]
      BY <1>1, <1>2, <1>3, <2>2
    <3> QED
      BY <3>1
  <2>3. CASE i > Len(s)
    <3>1. /\ i - Len(s) \in 1..Len(t) /\ k - Len(s) \in 1..Len(t) /\ i - Len(s) < k - Len(s)
          /\ j[i] = t[i - Len(s)] /\ j[k] = t[k - Len(s)]
      BY <1>1, <1>2, <1>3, <2>3
    <3>2. PICK p, q \in 1..Len(t) : p < q /\ j[i] = t[p] /\ j[k] = t[q]
      BY <3>1
    <3> QED
      BY <3>2 DEF InReportOrder
  <2> QED
    BY <1>1, <1>2, <1>3, <2>1, <2>2, <2>3
<1>4. InReportOrder(j)
  BY <1>3 DEF InReportOrder
<1> QED
  BY <1>1, <1>4 DEF j

(* The report of a file, put together of those of its lines. *)
LEMMA FlattenInOrder ==
  ASSUME NEW T, NEW n \in Nat, NEW seqs \in [1..n -> Seq(T)],
         \A at \in 1..n : InReportOrder(seqs[at]) /\ \A k \in 1..Len(seqs[at]) : seqs[at][k].line = at
  PROVE  /\ FlattenSeq(seqs) \in Seq(T) /\ InReportOrder(FlattenSeq(seqs))
         /\ \A k \in 1..Len(FlattenSeq(seqs)) : FlattenSeq(seqs)[k].line \in 1..n
<1> DEFINE Good(s, m) == /\ s \in Seq(T) /\ InReportOrder(s)
                         /\ \A k \in 1..Len(s) : s[k].line \in 1..m
<1>1. seqs \in Seq(Seq(T)) /\ Len(seqs) = n
  OBVIOUS
<1>2. CASE n = 0
  <2>1. FlattenSeq(seqs) = seqs
    BY <1>1, <1>2 DEF FlattenSeq
  <2>2. seqs = << >>
    BY <1>1, <1>2
  <2> QED
    BY <2>1, <2>2 DEF InReportOrder
<1>3. CASE n # 0
  <2>1. PICK f : /\ FlattenSeq(seqs) = f[n]
                 /\ f = [i \in 1..n |-> IF i = 1 THEN seqs[i] ELSE f[i - 1] \o seqs[i]]
    <3>1. Len(seqs) \in Nat \ {0}
      BY <1>1, <1>3
    <3> QED
      BY <1>1, <3>1, FlattenUnfolds
  <2>2. f[1] = seqs[1] /\ \A i \in 1..n : i # 1 => f[i] = f[i - 1] \o seqs[i]
    <3> DEFINE Then(x, i) == x \o seqs[i]
    <3>1. f = [i \in 1..n |-> IF i = 1 THEN seqs[i] ELSE Then(f[i - 1], i)]
      BY <2>1
    <3> HIDE DEF Then
    <3>2. f[1] = seqs[1] /\ \A i \in 1..n : i # 1 => f[i] = Then(f[i - 1], i)
      BY <1>3, <3>1
    <3> QED
      BY <3>2, Zenon DEF Then
  <2> DEFINE B == {m \in 1..n : ~Good(f[m], m)}
  <2>3. SUFFICES ASSUME B # {} PROVE FALSE
    <3>1. n \in 1..n /\ n \notin B
      BY <1>3, <2>3
    <3> QED
      BY <2>1, <3>1
  <2>4. PICK m \in B : \A y \in B : m <= y
    <3>1. B \subseteq Nat
      OBVIOUS
    <3> HIDE DEF B
    <3> QED
      BY <2>3, <3>1, LeastNat
  <2>5. m \in 1..n /\ ~Good(f[m], m)
    OBVIOUS
  <2> HIDE DEF Good
  <2>6. m # 1
    <3>1. Good(seqs[1], 1)
      BY <1>3 DEF Good
    <3> QED
      BY <2>2, <2>5, <3>1
  <2>7. m - 1 \in 1..n /\ Good(f[m - 1], m - 1)
    <3>1. m - 1 \in 1..n
      BY <2>5, <2>6
    <3>2. m - 1 \notin B
      <4> HIDE DEF B
      <4> QED
        BY <2>4, <2>5
    <3> QED
      BY <3>1, <3>2
  <2>8. PICK s : s = f[m - 1]
    OBVIOUS
  <2>9. PICK t : t = seqs[m]
    OBVIOUS
  <2>10. /\ s \in Seq(T) /\ InReportOrder(s) /\ \A k \in 1..Len(s) : s[k].line \in 1..(m - 1)
         /\ t \in Seq(T) /\ InReportOrder(t) /\ \A k \in 1..Len(t) : t[k].line = m
    BY <2>5, <2>7, <2>8, <2>9 DEF Good
  <2>11. \A i \in 1..Len(s), k \in 1..Len(t) : s[i].line < t[k].line
    BY <2>5, <2>10
  <2>12. s \o t \in Seq(T) /\ InReportOrder(s \o t)
    BY <2>10, <2>11, JoinedInOrder
  <2>13. \A k \in 1..Len(s \o t) : (s \o t)[k].line \in 1..m
    <3>1. /\ Len(s \o t) = Len(s) + Len(t)
          /\ \A i \in 1..Len(s \o t) : (s \o t)[i] = IF i <= Len(s) THEN s[i] ELSE t[i - Len(s)]
      BY <2>10, ConcatProperties
    <3>2. PICK j : j = s \o t
      OBVIOUS
    <3>3. Len(s) \in Nat /\ Len(t) \in Nat
      BY <2>10
    <3>4. ASSUME NEW k \in 1..Len(j) PROVE j[k].line \in 1..m
      <4>1. CASE k <= Len(s)
        <5>1. k \in 1..Len(s) /\ j[k] = s[k]
          BY <3>1, <3>2, <3>3, <4>1
        <5>2. s[k].line \in 1..(m - 1)
          BY <2>10, <5>1
        <5> QED
          BY <5>1, <5>2, <2>5
      <4>2. CASE ~(k <= Len(s))
        <5>1. k - Len(s) \in 1..Len(t) /\ j[k] = t[k - Len(s)]
          BY <3>1, <3>2, <3>3, <4>2
        <5>2. t[k - Len(s)].line = m
          BY <2>10, <5>1
        <5> QED
          BY <5>1, <5>2, <2>5
      <4> QED
        BY <4>1, <4>2
    <3> QED
      BY <3>2, <3>4
  <2>14. f[m] = s \o t
    BY <2>2, <2>5, <2>6, <2>8, <2>9
  <2> QED
    BY <2>5, <2>12, <2>13, <2>14 DEF Good
<1> QED
  BY <1>2, <1>3

-----------------------------------------------------------------------------
(* A line that is still the same record, as far as kind and alleles go. *)
SameVariants(line, new) ==
  \A c \in {"kind", "alternates"} : c \in DOMAIN line => c \in DOMAIN new /\ new[c] = line[c]

(* What a fix may do: write one line, or none where the process ends. *)
IsOneLine(line, o) ==
  \/ o.ends = "no" /\ \E new : o.written = <<new>> /\ SameVariants(line, new)
  \/ o.ends \in {"throws", "crashes"} /\ o.written = << >>

(* An ignored error writes its line. *)
LEMMA IgnoredIsOneLine ==
  ASSUME NEW line
  PROVE  \A o \in ignore_error(line) : IsOneLine(line, o)
BY DEF ignore_error, Outcome, IsOneLine, SameVariants

(* A line that is written. *)
LEMMA WrittenIsOneLine ==
  ASSUME NEW line, NEW new, SameVariants(line, new)
  PROVE  \A o \in Write(new) : IsOneLine(line, o)
BY DEF Write, Outcome, IsOneLine

(* A process that ends. *)
LEMMA EndsIsOneLine ==
  ASSUME NEW line, NEW how \in {"throws", "crashes"}
  PROVE  IsOneLine(line, Ends(how))
BY DEF Ends, IsOneLine

(* Fixer::visit writes one line: for a meta entry, *)
LEMMA MetaIsOneLine ==
  ASSUME NEW line, NEW error
  PROVE  \A o \in FixMeta(line, error) : IsOneLine(line, o)
<1>1. SameVariants(line, [line EXCEPT !.Number = error.expected_value[1]])
  BY DEF SameVariants
<1>2. SameVariants(line, [line EXCEPT !.Type = error.expected_type])
  BY DEF SameVariants
<1> QED
  BY <1>1, <1>2, IgnoredIsOneLine, WrittenIsOneLine DEF FixMeta

(* for ID, *)
LEMMA IdIsOneLine ==
  ASSUME NEW line, NEW error
  PROVE  \A o \in FixId(line, error) : IsOneLine(line, o)
<1>1. SameVariants(line, [line EXCEPT !.ids = remove_duplicate_strings(line.ids)])
  BY DEF SameVariants
<1> QED
  BY <1>1, IgnoredIsOneLine, WrittenIsOneLine DEF FixId

(* for FILTER, *)
LEMMA FilterIsOneLine ==
  ASSUME NEW line, NEW error
  PROVE  \A o \in FixFilter(line, error) : IsOneLine(line, o)
<1>1. \A filter : SameVariants(line, [line EXCEPT !.filter = filter])
  BY DEF SameVariants
<1> QED
  BY <1>1, IgnoredIsOneLine, WrittenIsOneLine DEF FixFilter

(* for INFO, with flags read past the end of a vector too, *)
LEMMA InfoIsOneLine ==
  ASSUME NEW line, NEW error
  PROVE  \A o \in FixInfo(line, error) : IsOneLine(line, o)
<1>1. \A info : SameVariants(line, [line EXCEPT !.info = info])
  BY DEF SameVariants
<1>2. \A o \in FixDuplicateInfo(line) : IsOneLine(line, o)
  <2>1. ASSUME NEW info PROVE IsOneLine(line, Outcome(<<[line EXCEPT !.info = info]>>, 0))
    BY <1>1 DEF IsOneLine, Outcome
  <2>2. IsOneLine(line, Ends("crashes"))
    BY EndsIsOneLine
  <2> QED
    BY <2>1, <2>2, Zenon DEF FixDuplicateInfo
<1>3. \A info : \A o \in Write([line EXCEPT !.info = info]) : IsOneLine(line, o)
  BY <1>1, WrittenIsOneLine
<1>4. \A o \in {Ends("crashes")} : IsOneLine(line, o)
  BY EndsIsOneLine
<1> DEFINE fields == string_split(line.info)
           ofField == {i \in 1..Len(fields) : fields[i].key = error.field /\ error.field # ""}
<1>5. \/ FixInfo(line, error) = FixDuplicateInfo(line)
      \/ FixInfo(line, error) = {Ends("crashes")}
      \/ FixInfo(line, error)
           = Write([line EXCEPT !.info = replace_fields(fields, error.field, error.expected_value)])
      \/ FixInfo(line, error) = Write([line EXCEPT !.info = remove_fields(fields, <<Dot>>, ofField)])
  BY DEF FixInfo
<1> HIDE DEF fields, ofField
<1> QED
  BY <1>2, <1>3, <1>4, <1>5, Zenon

(* for FORMAT. *)
LEMMA FormatIsOneLine ==
  ASSUME NEW line, NEW error
  PROVE  \A o \in FixFormat(line, error) : IsOneLine(line, o)
<1>1. \A format, samples : SameVariants(line, [line EXCEPT !.format = format, !.samples = samples])
  BY DEF SameVariants
<1>2. \A format, samples : \A o \in Write([line EXCEPT !.format = format, !.samples = samples]) :
        IsOneLine(line, o)
  BY <1>1, WrittenIsOneLine
<1>3. \A o \in {Ends("throws")} : IsOneLine(line, o)
  BY EndsIsOneLine
<1>4. \/ remove_duplicate_format_sample_pairs(line) = {Ends("throws")}
      \/ \E format, samples : remove_duplicate_format_sample_pairs(line)
                                = Write([line EXCEPT !.format = format, !.samples = samples])
  BY Zenon DEF remove_duplicate_format_sample_pairs
<1>5. \A o \in remove_duplicate_format_sample_pairs(line) : IsOneLine(line, o)
  BY <1>2, <1>3, <1>4, Zenon
<1> QED
  BY <1>5, IgnoredIsOneLine DEF FixFormat

(* Of a line that has samples. *)
LEMMA SamplesFieldIsOneLine ==
  ASSUME NEW line, NEW error, line.format = << >> \/ line.samples # << >>
  PROVE  \A o \in FixSamplesField(line, error) : IsOneLine(line, o)
<1>1. \A format, samples : SameVariants(line, [line EXCEPT !.format = format, !.samples = samples])
  BY DEF SameVariants
<1>2. \A samples : SameVariants(line, [line EXCEPT !.samples = samples])
  BY DEF SameVariants
<1>3. \A o \in {Ends("crashes")} : IsOneLine(line, o)
  BY EndsIsOneLine
<1>4. \A o \in fix_format_gt(line, error) : IsOneLine(line, o)
  <2> DEFINE repeat == IF error.field_cardinality <= -1 THEN 1 ELSE error.field_cardinality
             missing == [k \in 1..repeat |-> Missing]
             fixed == [s \in 1..Len(line.samples) |-> [line.samples[s] EXCEPT ![1] = missing]]
  <2>1. \/ fix_format_gt(line, error) = ignore_error(line)
        \/ fix_format_gt(line, error) = {Ends("crashes")}
        \/ fix_format_gt(line, error) = Write([line EXCEPT !.samples = fixed])
    BY DEF fix_format_gt
  <2> HIDE DEF fixed
  <2>2. \A o \in Write([line EXCEPT !.samples = fixed]) : IsOneLine(line, o)
    BY <1>2, WrittenIsOneLine
  <2> QED
    BY <1>3, <2>1, <2>2, IgnoredIsOneLine, Zenon
<1>5. \A o \in remove_format(line, error) : IsOneLine(line, o)
  <2>1. \/ remove_format(line, error) = ignore_error(line)
        \/ \E format, samples, n : remove_format(line, error)
             = {Outcome(<<[line EXCEPT !.format = format, !.samples = samples]>>, n)}
    BY Zenon DEF remove_format
  <2>2. \A format, samples, n :
          IsOneLine(line, Outcome(<<[line EXCEPT !.format = format, !.samples = samples]>>, n))
    BY <1>1 DEF IsOneLine, Outcome
  <2>3. CASE remove_format(line, error) = ignore_error(line)
    BY <2>3, IgnoredIsOneLine
  <2>4. ASSUME NEW format, NEW samples, NEW n,
               remove_format(line, error)
                 = {Outcome(<<[line EXCEPT !.format = format, !.samples = samples]>>, n)}
        PROVE  \A o \in remove_format(line, error) : IsOneLine(line, o)
    BY <2>2, <2>4, ZenonT(40)
  <2> QED
    BY <2>1, <2>3, <2>4, Zenon
<1>6. FixSamplesField(line, error) \in
        {ignore_error(line), fix_format_gt(line, error), remove_format(line, error)}
  BY DEF FixSamplesField
<1> QED
  BY <1>4, <1>5, <1>6, IgnoredIsOneLine, Zenon

(* Whatever the error is, its fix writes one line, but for a duplicate.    *)
LEMMA FixIsOneLine ==
  ASSUME NEW line, NEW error, error.type # "DuplicationError",
         error.type = "SamplesFieldBodyError" => line.format = << >> \/ line.samples # << >>
  PROVE  \A o \in fix(line, error) : IsOneLine(line, o)
<1>1. \/ fix(line, error) \in {FixMeta(line, error), FixId(line, error), FixFilter(line, error),
                               FixInfo(line, error), FixFormat(line, error), ignore_error(line)}
      \/ error.type = "SamplesFieldBodyError" /\ fix(line, error) = FixSamplesField(line, error)
  BY DEF fix
<1> QED
  BY <1>1, MetaIsOneLine, IdIsOneLine, FilterIsOneLine, InfoIsOneLine, FormatIsOneLine,
     IgnoredIsOneLine, SamplesFieldIsOneLine, Zenon

-----------------------------------------------------------------------------
(* What the report needs to know of a line. *)
HasShape(line) ==
  /\ "kind" \in DOMAIN line
  /\ line.kind = "body" => "alternates" \in DOMAIN line /\ line.alternates \in Seq(AlleleTypes)

(* An error that writes one line. *)
FixesOne(line, error) ==
  error.type = "SamplesFieldBodyError" => line.format = << >> \/ line.samples # << >>

(* A constructor throws at most one error. *)
LEMMA ThrownIsOne ==
  ASSUME NEW checks
  PROVE  FirstThrown(checks) = Nothing \/ \E e : FirstThrown(checks) = <<e>> /\ e = checks[1]
BY DEF FirstThrown

(* A FORMAT without samples has an error of the grammar before any other.  *)
LEMMA NoSamplesNoField ==
  ASSUME NEW line, line.format # << >>, line.samples = << >>
  PROVE  grammar_record(line) # Nothing
           /\ grammar_record(line)[1].type \in {"InfoBodyError", "FormatBodyError"}
<1> DEFINE Refused == line.info = << >> \/ \E i \in 1..Len(line.info) :
             line.info[i].key = "" \/ \E p \in 1..Len(line.info[i].parts) :
               line.info[i].parts[p] = << >> \/ Contains(line.info[i].parts[p], Illegal)
           info == Throw(Refused, Irrecoverable("InfoBodyError", ""))
           format == Throw(line.format # << >> /\ (Contains(line.format, "") \/ line.samples = << >>),
                           Irrecoverable("FormatBodyError", ""))
           samples == Each(Len(line.samples), LAMBDA i : grammar_sample(line.format, line.samples[i]))
<1>1. grammar_record(line) = info \o format \o samples
  BY Zenon DEF grammar_record
<1>2. samples = << >>
  <2> DEFINE none == [i \in 1..Len(line.samples) |-> grammar_sample(line.format, line.samples[i])]
  <2>1. samples = FlattenSeq(none)
    BY Zenon DEF Each
  <2>2. none = << >>
    OBVIOUS
  <2> HIDE DEF none
  <2> QED
    BY <2>1, <2>2 DEF FlattenSeq
<1>3. format = <<Irrecoverable("FormatBodyError", "")>>
  BY DEF Throw
<1>4. info = << >> \/ info = <<Irrecoverable("InfoBodyError", "")>>
  BY DEF Throw, Nothing
<1>5. /\ Irrecoverable("FormatBodyError", "").type = "FormatBodyError"
      /\ Irrecoverable("InfoBodyError", "").type = "InfoBodyError"
  BY DEF Irrecoverable, Error
<1>6. PICK e : e = Irrecoverable("InfoBodyError", "")
  OBVIOUS
<1>7. PICK f : f = Irrecoverable("FormatBodyError", "")
  OBVIOUS
<1> HIDE DEF info, format, samples
<1>8. info \in {<< >>, <<e>>} /\ format = <<f>> /\ samples = << >>
  BY <1>2, <1>3, <1>4, <1>6, <1>7
<1>9. info \o format \o samples # << >> /\ (info \o format \o samples)[1] \in {e, f}
  BY <1>8
<1>10. grammar_record(line) # << >> /\ grammar_record(line)[1] \in {e, f}
  BY <1>1, <1>9, Zenon
<1> QED
  BY <1>5, <1>6, <1>7, <1>10 DEF Nothing

(* The fix of an error of a record writes one line. *)
LEMMA BodyErrorFixes ==
  ASSUME NEW source, NEW line, NEW e, BodyError(source, line) = <<e>>
  PROVE  FixesOne(line, e)
<1>1. SUFFICES ASSUME line.format # << >>, line.samples = << >>
               PROVE  e.type # "SamplesFieldBodyError"
  BY DEF FixesOne
<1>2. BodyError(source, line) = <<grammar_record(line)[1]>>
  BY <1>1, NoSamplesNoField DEF BodyError, FirstThrown
<1>3. e = grammar_record(line)[1]
  BY <1>2
<1> QED
  BY <1>1, <1>3, NoSamplesNoField

(* A meta entry has at most one error, which is not about samples. *)
LEMMA MetaErrorIsOne ==
  ASSUME NEW v, NEW line
  PROVE  MetaError(v, line) = << >> \/ \E e : MetaError(v, line) = <<e>> /\ FixesOne(line, e)
<1> DEFINE source == [version |-> v]
           tags   == IF line.column = "INFO" THEN InfoTags(source) ELSE FormatTags(source)
           known  == line.id \in DOMAIN tags
           types  == {"Integer", "Float", "Character", "String"}
                       \cup (IF line.column = "INFO" THEN {"Flag"} ELSE {})
           e1 == Irrecoverable("MetaSectionError", "")
           e2 == Expecting("MetaSectionError", "Number", tags[line.id].Number)
           e3 == [Error("MetaSectionError", "RECOVERABLE_VALUE", "Type")
                    EXCEPT !.expected_type = tags[line.id].Type]
           t1 == Throw(line.Type \notin types, e1)
           t2 == Throw(known /\ tags[line.id].Number \notin {Missing, line.Number}, e2)
           t3 == Throw(known /\ tags[line.id].Type # line.Type, e3)
<1>1. MetaError(v, line) = FirstThrown(t1 \o t2 \o t3)
  BY Zenon DEF MetaError
<1>2. t1 \in {<< >>, <<e1>>} /\ t2 \in {<< >>, <<e2>>} /\ t3 \in {<< >>, <<e3>>}
  BY DEF Throw, Nothing
<1>3. e1.type = "MetaSectionError" /\ e2.type = "MetaSectionError" /\ e3.type = "MetaSectionError"
  BY DEF Irrecoverable, Expecting, Error
<1> HIDE DEF t1, t2, t3, e1, e2, e3
<1>4. t1 \o t2 \o t3 = << >> \/ (t1 \o t2 \o t3)[1] \in {e1, e2, e3}
  BY <1>2
<1>5. PICK s : s = t1 \o t2 \o t3
  OBVIOUS
<1>6. MetaError(v, line) = FirstThrown(s)
  BY <1>1, <1>5
<1>7. CASE s = << >>
  BY <1>6, <1>7 DEF FirstThrown, Nothing
<1>8. CASE s # << >>
  <2>1. MetaError(v, line) = <<s[1]>>
    BY <1>6, <1>8 DEF FirstThrown, Nothing
  <2>2. s[1].type = "MetaSectionError"
    BY <1>3, <1>4, <1>5, <1>8
  <2> QED
    BY <2>1, <2>2 DEF FixesOne
<1> QED
  BY <1>7, <1>8

(* A line has at most one error, and its fix writes one line. *)
LEMMA LineErrorIsOne ==
  ASSUME NEW v, NEW lines, NEW at
  PROVE  \/ LineError(v, lines, at) = << >>
         \/ \E e : LineError(v, lines, at) = <<e>> /\ FixesOne(lines[at], e)
<1>1. CASE lines[at].kind = "meta"
  <2>1. LineError(v, lines, at) = MetaError(v, lines[at])
    BY <1>1 DEF LineError
  <2> QED
    BY <2>1, MetaErrorIsOne, Zenon
<1>2. CASE lines[at].kind = "header"
  BY <1>2 DEF LineError, Nothing
<1>3. CASE lines[at].kind \notin {"meta", "header"}
  <2>1. LineError(v, lines, at) = BodyError(SourceOf(v, lines), lines[at])
    BY <1>3 DEF LineError
  <2>2. BodyError(SourceOf(v, lines), lines[at]) = << >>
          \/ \E e : BodyError(SourceOf(v, lines), lines[at]) = <<e>>
    BY ThrownIsOne, Zenon DEF BodyError, Nothing
  <2> QED
    BY <2>1, <2>2, BodyErrorFixes
<1> QED
  BY <1>1, <1>2, <1>3


(* The cores of one line that occur more than once are finitely many, and  *)
(* there are none where the line has an error of its own.                  *)
LEMMA DuplicatesOfLine ==
  ASSUME NEW lines, NEW thrown, NEW at, HasShape(lines[at])
  PROVE  LET own == {core \in DuplicatesIn(lines, Cores(lines, thrown)) : core[1] = at}
         IN  Cardinality(own) \in Nat /\ (thrown[at] # Nothing => Cardinality(own) = 0)
<1> DEFINE own == {core \in DuplicatesIn(lines, Cores(lines, thrown)) : core[1] = at}
           n == Len(lines[at].alternates)
           pairs == {<<at, i>> : i \in 1..n}
<1>1. ASSUME NEW core \in own
      PROVE  core \in pairs /\ lines[at].kind = "body" /\ thrown[at] = Nothing
  <2>1. core \in Cores(lines, thrown) /\ core[1] = at
    BY DEF DuplicatesIn
  <2>2. PICK x \in {y \in 1..Len(lines) : lines[y].kind = "body" /\ thrown[y] = Nothing} :
          core \in {<<x, i>> : i \in 1..Len(lines[x].alternates)}
    BY <2>1 DEF Cores
  <2>3. PICK i \in 1..Len(lines[x].alternates) : core = <<x, i>>
    BY <2>2
  <2>4. x = at
    BY <2>1, <2>3
  <2> QED
    BY <2>2, <2>3, <2>4
<1>2. CASE own = {}
  <2>1. Cardinality(own) = 0
    BY <1>2, FS_EmptySet
  <2> QED
    BY <2>1
<1>3. CASE own # {}
  <2>1. lines[at].kind = "body" /\ thrown[at] = Nothing
    BY <1>1, <1>3
  <2>2. n \in Nat
    BY <2>1 DEF HasShape
  <2>3. [i \in 1..n |-> <<at, i>>] \in Surjection(1..n, pairs)
    BY DEF Surjection
  <2>4. IsFiniteSet(1..n)
    BY <2>2, FS_Interval
  <2> HIDE DEF pairs, own
  <2>5. IsFiniteSet(pairs)
    BY <2>3, <2>4, FS_Surjection
  <2>6. own \in SUBSET pairs
    BY <1>1
  <2>7. IsFiniteSet(own)
    BY <2>5, <2>6, FS_Subset
  <2>8. Cardinality(own) \in Nat
    BY <2>7, FS_CardinalityType
  <2> QED
    BY <2>1, <2>8 DEF own
<1> QED
  BY <1>2, <1>3

(* The report of one line: one error, or duplications only. *)
LEMMA ReportedOne ==
  ASSUME NEW at, NEW e
  PROVE  Reported(at, <<e>>) = << [line |-> at, error |-> e] >>
<1>1. Reported(at, <<e>>) = [k \in 1..1 |-> [line |-> at, error |-> <<e>>[k]]]
  BY DEF Reported
<1>2. \A k \in 1..1 : [line |-> at, error |-> <<e>>[k]] = [line |-> at, error |-> e]
  OBVIOUS
<1>3. PICK x : x = [line |-> at, error |-> e]
  OBVIOUS
<1>4. Reported(at, <<e>>) = [k \in 1..1 |-> x]
  BY <1>1, <1>2, <1>3, Zenon
<1> QED
  BY <1>3, <1>4

(* The report of a line with one error. *)
LEMMA SingleInOrder ==
  ASSUME NEW T, NEW x \in T
  PROVE  /\ <<x>> \in Seq(T) /\ InReportOrder(<<x>>)
         /\ \A k \in 1..Len(<<x>>) : <<x>>[k].line = x.line
<1>1. \A k \in 1..Len(<<x>>) : k = 1 /\ <<x>>[k] = x
  OBVIOUS
<1> QED
  BY <1>1 DEF InReportOrder

(* The report of a line with duplications only. *)
LEMMA RepeatedInOrder ==
  ASSUME NEW T, NEW x \in T, IsDuplication(x), NEW s \in Seq({x})
  PROVE  s \in Seq(T) /\ InReportOrder(s) /\ \A k \in 1..Len(s) : s[k].line = x.line
<1>1. s \in Seq(T) /\ \A k \in 1..Len(s) : s[k] = x
  OBVIOUS
<1> QED
  BY <1>1 DEF InReportOrder

(* The report of a file: what fix_vcf_file relies on. *)
Follows(lines, report) ==
  /\ Len(report) \in Nat
  /\ Len(report) = 0 => report = << >>
  /\ InReportOrder(report)
  /\ \A k \in 1..Len(report) :
       /\ report[k].line \in 1..(Len(lines) + 1)
       /\ report[k].line <= Len(lines) => FixesOne(lines[report[k].line], report[k].error)

(* The errors that it may hold: the one of its line, or duplications, and  *)
(* the missing header behind the last line.                                *)
DuplicateError == Irrecoverable("DuplicationError", "")
HeaderError == Irrecoverable("HeaderSectionError", "")
ReportItems(v, lines) ==
  {x \in [line : 1..(Len(lines) + 1),
          error : {LineError(v, lines, at)[1] : at \in 1..Len(lines)} \cup {DuplicateError, HeaderError}] :
     IF x.line <= Len(lines)
       THEN /\ FixesOne(lines[x.line], x.error)
            /\ x.error = DuplicateError \/ LineError(v, lines, x.line) = <<x.error>>
       ELSE x.error = HeaderError}

(* The report of the validator is such a report. *)
LEMMA ReportFollows ==
  ASSUME NEW v, NEW lines, Len(lines) \in Nat, \A at \in 1..Len(lines) : HasShape(lines[at])
  PROVE  Follows(lines, ReportOf(v, lines)) /\ ReportOf(v, lines) \in Seq(ReportItems(v, lines))
<1> DEFINE n == Len(lines)
           thrown == [at \in 1..n |-> LineError(v, lines, at)]
           duplicates == DuplicatesIn(lines, Cores(lines, thrown))
           NumberOf(at) == Cardinality({core \in duplicates : core[1] = at})
           Of(at) == Reported(at, thrown[at] \o [k \in 1..NumberOf(at) |-> DuplicateError])
           seqs == [at \in 1..n |-> Of(at)]
           last == IF OfKind(lines, "header") = << >> THEN Reported(n + 1, <<HeaderError>>) ELSE << >>
           T == ReportItems(v, lines)
<1>1. ReportOf(v, lines) = FlattenSeq(seqs) \o last
  BY Zenon DEF ReportOf, DuplicateError, HeaderError
<1>2. DuplicateError.type = "DuplicationError" /\ HeaderError.type = "HeaderSectionError"
  BY DEF DuplicateError, HeaderError, Irrecoverable, Error
<1>3. \A at \in 1..n : NumberOf(at) \in Nat /\ (thrown[at] # << >> => NumberOf(at) = 0)
  <2> SUFFICES ASSUME NEW at \in 1..n
               PROVE  NumberOf(at) \in Nat /\ (thrown[at] # << >> => NumberOf(at) = 0)
    OBVIOUS
  <2>1. PICK th : th = thrown
    OBVIOUS
  <2>2. HasShape(lines[at])
    OBVIOUS
  <2>3. LET own == {core \in DuplicatesIn(lines, Cores(lines, th)) : core[1] = at}
        IN  Cardinality(own) \in Nat /\ (th[at] # Nothing => Cardinality(own) = 0)
    BY <2>2, DuplicatesOfLine, ZenonT(40)
  <2> QED
    BY <2>1, <2>3, Zenon DEF Nothing
<1> HIDE DEF NumberOf
<1>4. ASSUME NEW at \in 1..n
      PROVE  /\ Of(at) \in Seq(T) /\ InReportOrder(Of(at))
             /\ \A k \in 1..Len(Of(at)) : Of(at)[k].line = at
  <2>1. PICK m : m = NumberOf(at)
    OBVIOUS
  <2>2. m \in Nat /\ (thrown[at] # << >> => m = 0)
    BY <1>3, <2>1
  <2>3. PICK t : t = thrown[at] \o [k \in 1..m |-> DuplicateError]
    OBVIOUS
  <2>4. Of(at) = Reported(at, t)
    BY <2>1, <2>3
  <2>5. CASE LineError(v, lines, at) = << >>
    <3>1. thrown[at] = << >>
      BY <2>5
    <3>2. t = [k \in 1..m |-> DuplicateError]
      BY <2>2, <2>3, <3>1
    <3>3. Len(t) = m /\ \A k \in 1..m : t[k] = DuplicateError
      BY <2>2, <3>2
    <3>4. Of(at) = [k \in 1..m |-> [line |-> at, error |-> DuplicateError]]
      BY <2>4, <3>3 DEF Reported
    <3>5. [line |-> at, error |-> DuplicateError] \in T
      BY <1>2 DEF FixesOne, ReportItems
    <3>6. PICK x : x = [line |-> at, error |-> DuplicateError]
      OBVIOUS
    <3>7. x \in T /\ x.line = at /\ IsDuplication(x)
      BY <1>2, <3>5, <3>6 DEF IsDuplication
    <3>8. Of(at) = [k \in 1..m |-> x]
      BY <3>4, <3>6
    <3> HIDE DEF T, Of
    <3>9. Of(at) \in Seq(T) /\ InReportOrder(Of(at))
            /\ \A k \in 1..Len(Of(at)) : Of(at)[k].line = x.line
      <4>1. Of(at) \in Seq({x})
        BY <2>2, <3>8
      <4> QED
        BY <3>7, <4>1, RepeatedInOrder
    <3> QED
      BY <3>7, <3>9
  <2>6. CASE LineError(v, lines, at) # << >>
    <3>1. PICK e : LineError(v, lines, at) = <<e>> /\ FixesOne(lines[at], e)
      BY <2>6, LineErrorIsOne
    <3>2. thrown[at] = <<e>>
      BY <3>1
    <3>3. m = 0
      <4>1. <<e>> # << >>
        OBVIOUS
      <4> QED
        BY <2>2, <3>2, <4>1, Zenon
    <3>4. t = <<e>>
      BY <2>3, <3>2, <3>3
    <3>5. Of(at) = << [line |-> at, error |-> e] >>
      BY <2>4, <3>4, ReportedOne, Zenon
    <3>6. e \in {LineError(v, lines, i)[1] : i \in 1..n}
      BY <3>1
    <3>7. [line |-> at, error |-> e] \in T
      BY <3>1, <3>6 DEF ReportItems
    <3>8. PICK x : x = [line |-> at, error |-> e]
      OBVIOUS
    <3>9. x \in T /\ x.line = at
      BY <3>7, <3>8
    <3>10. Of(at) = <<x>>
      BY <3>5, <3>8
    <3> HIDE DEF T, Of
    <3> QED
      BY <3>9, <3>10, SingleInOrder
  <2> QED
    BY <2>5, <2>6
<1>5. last \in Seq(T) /\ InReportOrder(last) /\ \A k \in 1..Len(last) : last[k].line = n + 1
  <2>1. [line |-> n + 1, error |-> HeaderError] \in T
    BY DEF ReportItems
  <2>2. last = << >> \/ last = << [line |-> n + 1, error |-> HeaderError] >>
    BY ReportedOne, Zenon
  <2>3. PICK x : x = [line |-> n + 1, error |-> HeaderError]
    OBVIOUS
  <2>4. x \in T /\ x.line = n + 1 /\ (last = << >> \/ last = <<x>>)
    BY <2>1, <2>2, <2>3
  <2> HIDE DEF T, last
  <2>5. CASE last = << >>
    BY <2>5 DEF InReportOrder
  <2>6. CASE last = <<x>>
    BY <2>4, <2>6, SingleInOrder
  <2> QED
    BY <2>4, <2>5, <2>6
<1>6. \A x \in T : x.line \in 1..(n + 1) /\ (x.line <= n => FixesOne(lines[x.line], x.error))
  BY DEF ReportItems
<1> HIDE DEF T, last, Of
<1>7. seqs \in [1..n -> Seq(T)]
  BY <1>4
<1>8. \A at \in 1..n : InReportOrder(seqs[at]) /\ \A k \in 1..Len(seqs[at]) : seqs[at][k].line = at
  BY <1>4
<1> HIDE DEF seqs
<1>9. PICK s : s = FlattenSeq(seqs)
  OBVIOUS
<1>10. s \in Seq(T) /\ InReportOrder(s) /\ \A k \in 1..Len(s) : s[k].line \in 1..n
  BY <1>7, <1>8, <1>9, FlattenInOrder
<1>11. \A i \in 1..Len(s), k \in 1..Len(last) : s[i].line < last[k].line
  BY <1>5, <1>10
<1>12. s \o last \in Seq(T) /\ InReportOrder(s \o last)
  BY <1>5, <1>10, <1>11, JoinedInOrder
<1>13. PICK r : r = ReportOf(v, lines)
  OBVIOUS
<1>14. r \in Seq(T) /\ InReportOrder(r)
  BY <1>1, <1>9, <1>12, <1>13
<1>15. Follows(lines, r)
  BY <1>6, <1>14 DEF Follows
<1> QED
  BY <1>13, <1>14, <1>15 DEF T

-----------------------------------------------------------------------------
(***************************************************************************)
(* OutputInOrder as an operator of the input, the report er, its errors ef *)
(* that are fixed, the lines cl that are read, and the output.             *)
(***************************************************************************)
Has(er, at) == \E i \in 1..Len(er) : er[i].line = at
Dup(er, at) == \E i \in 1..Len(er) : er[i].line = at /\ er[i].error.type = "DuplicationError"
Done(er, ef, cl, at) == at < cl \/ ~Has(er, at) \/ (ef > 0 /\ er[ef].line = at)
Written(er, ef, cl) == {at \in 1..cl : Done(er, ef, cl, at) /\ ~Dup(er, at)}

InOrder(in, er, ef, cl, out) ==
  /\ \A i, k \in 1..Len(out) : i < k => out[i].at < out[k].at
  /\ \A i \in 1..Len(out) : ~Has(er, out[i].at) => out[i].line = in[out[i].at]
  /\ {out[i].at : i \in 1..Len(out)} = Written(er, ef, cl)

(* A report with the lines of a file. *)
IsReport(er) ==
  /\ Len(er) \in Nat
  /\ \A k \in 1..Len(er) : er[k].line \in Nat \ {0}
  /\ InReportOrder(er)

(* The errors up to ef are about the lines up to cl, the others about later*)
(* ones: all these lines are written, but for duplicates.                  *)
Between(er, ef, cl) ==
  /\ ef \in 0..Len(er)
  /\ cl \in Nat
  /\ \A k \in 1..ef : er[k].line <= cl
  /\ \A k \in (ef + 1)..Len(er) : er[k].line > cl

(* All lines up to there are done. *)
LEMMA AllDone ==
  ASSUME NEW er, NEW ef, NEW cl, IsReport(er), Between(er, ef, cl)
  PROVE  Written(er, ef, cl) = {at \in 1..cl : ~Dup(er, at)}
<1>1. ASSUME NEW at \in 1..cl PROVE Done(er, ef, cl, at)
  <2>1. CASE at < cl
    BY <2>1 DEF Done
  <2>2. CASE ~Has(er, at)
    BY <2>2 DEF Done
  <2>3. CASE at = cl /\ Has(er, at)
    <3>1. PICK i \in 1..Len(er) : er[i].line = cl
      BY <2>3 DEF Has
    <3>2. i \in 1..ef
      BY <3>1 DEF Between, IsReport
    <3>3. ef \in 1..Len(er) /\ i <= ef
      BY <3>2 DEF Between, IsReport
    <3>4. er[i].line \in Nat /\ er[ef].line \in Nat /\ er[ef].line <= cl
      BY <3>1, <3>3 DEF Between, IsReport
    <3>5. er[i].line <= er[ef].line
      <4>1. CASE i = ef
        BY <3>4, <4>1
      <4>2. CASE i < ef
        BY <3>1, <3>3, <3>4, <4>2 DEF IsReport, InReportOrder
      <4> QED
        BY <3>1, <3>3, <4>1, <4>2
    <3>6. er[ef].line = cl
      BY <3>1, <3>4, <3>5
    <3> QED
      BY <2>3, <3>3, <3>6 DEF Done
  <2> QED
    BY <2>1, <2>2, <2>3 DEF Between
<1> QED
  BY <1>1 DEF Written

(* The line after those is written, if there is no error about it. *)
LEMMA NextLine ==
  ASSUME NEW er, NEW ef, NEW cl, IsReport(er), Between(er, ef, cl)
  PROVE  /\ ~Has(er, cl + 1) => Written(er, ef, cl + 1) = Written(er, ef, cl) \cup {cl + 1}
         /\ Has(er, cl + 1) => Written(er, ef, cl + 1) = Written(er, ef, cl)
<1>1. Written(er, ef, cl) = {at \in 1..cl : ~Dup(er, at)}
  BY AllDone
<1>2. cl \in Nat
  BY DEF Between
<1>3. \A at \in 1..cl : Done(er, ef, cl + 1, at)
  BY <1>2 DEF Done
<1>4. CASE ~Has(er, cl + 1)
  <2>1. Done(er, ef, cl + 1, cl + 1) /\ ~Dup(er, cl + 1)
    BY <1>4 DEF Done, Has, Dup
  <2>2. 1..(cl + 1) = (1..cl) \cup {cl + 1}
    BY <1>2
  <2> QED
    BY <1>1, <1>3, <1>4, <2>1, <2>2, Zenon DEF Written
<1>5. CASE Has(er, cl + 1)
  <2>1. ~Done(er, ef, cl + 1, cl + 1)
    <3>1. ~(cl + 1 < cl + 1)
      BY <1>2
    <3>2. ~(ef > 0 /\ er[ef].line = cl + 1)
      <4>1. SUFFICES ASSUME ef > 0, er[ef].line = cl + 1 PROVE FALSE
        OBVIOUS
      <4>2. ef \in 1..ef
        BY <4>1 DEF Between, IsReport
      <4>3. er[ef].line <= cl
        BY <4>2 DEF Between
      <4> QED
        BY <1>2, <4>1, <4>3
    <3> QED
      BY <1>5, <3>1, <3>2 DEF Done
  <2>2. 1..(cl + 1) = (1..cl) \cup {cl + 1}
    BY <1>2
  <2> QED
    BY <1>1, <1>3, <1>5, <2>1, <2>2, Zenon DEF Written
<1> QED
  BY <1>4, <1>5

(* The line of the next error is written when it is fixed, once, but for a *)
(* duplicate.                                                              *)
LEMMA FixedLine ==
  ASSUME NEW er, NEW ef, NEW cl, IsReport(er),
         ef \in 0..Len(er), ef < Len(er), cl \in Nat, er[ef + 1].line = cl
  PROVE  /\ IsDuplication(er[ef + 1]) => Written(er, ef + 1, cl) = Written(er, ef, cl)
         /\ ~IsDuplication(er[ef + 1]) => /\ Written(er, ef + 1, cl) = Written(er, ef, cl) \cup {cl}
                                          /\ cl \notin Written(er, ef, cl)
<1>1. Len(er) \in Nat /\ ef + 1 \in 1..Len(er) /\ cl \in 1..cl
  BY DEF IsReport
<1>2. \A at \in 1..cl : at # cl => at < cl
  OBVIOUS
<1>3. \A x : \A at \in 1..cl : at # cl => Done(er, x, cl, at)
  BY <1>2 DEF Done
<1>4. Done(er, ef + 1, cl, cl)
  <2>1. ef + 1 > 0
    OBVIOUS
  <2> QED
    BY <2>1 DEF Done
<1>5. CASE IsDuplication(er[ef + 1])
  <2>1. Dup(er, cl)
    BY <1>1, <1>5 DEF Dup, IsDuplication
  <2> QED
    BY <1>3, <1>5, <2>1, Zenon DEF Written
<1>6. CASE ~IsDuplication(er[ef + 1])
  <2>1. ASSUME NEW i \in 1..Len(er), er[i].line = cl PROVE i = ef + 1
    <3>1. ~(i < ef + 1)
      BY <1>1, <1>6, <2>1 DEF IsReport, InReportOrder
    <3>2. ~(ef + 1 < i)
      BY <1>1, <1>6, <2>1 DEF IsReport, InReportOrder
    <3> QED
      BY <1>1, <3>1, <3>2
  <2>2. ~Dup(er, cl)
    BY <1>6, <2>1 DEF Dup, IsDuplication
  <2>3. ~Done(er, ef, cl, cl)
    <3>1. Has(er, cl)
      BY <1>1 DEF Has
    <3>2. ~(ef > 0 /\ er[ef].line = cl)
      <4>1. SUFFICES ASSUME ef > 0, er[ef].line = cl PROVE FALSE
        OBVIOUS
      <4>2. ef \in 1..Len(er)
        BY <1>1, <4>1
      <4>3. ef = ef + 1
        BY <2>1, <4>1, <4>2
      <4> QED
        BY <1>1, <4>3
    <3>3. ~(cl < cl)
      OBVIOUS
    <3> QED
      BY <3>1, <3>2, <3>3 DEF Done
  <2>4. cl \notin Written(er, ef, cl)
    BY <2>3 DEF Written
  <2>5. Written(er, ef + 1, cl) = Written(er, ef, cl) \cup {cl}
    BY <1>1, <1>3, <1>4, <2>2, Zenon DEF Written
  <2> QED
    BY <1>6, <2>4, <2>5
<1> QED
  BY <1>5, <1>6


(* new is out with x behind it. *)
Adds(new, out, x) ==
  /\ Len(out) \in Nat /\ Len(new) = Len(out) + 1
  /\ \A i \in 1..Len(out) : new[i] = out[i]
  /\ new[Len(out) + 1] = x

(* A line is written behind all others. *)
LEMMA LineAdded ==
  ASSUME NEW in, NEW er, NEW ef, NEW cl, NEW out, InOrder(in, er, ef, cl, out),
         NEW new, NEW x, Adds(new, out, x),
         \A a \in Written(er, ef, cl) : a < x.at,
         ~Has(er, x.at) => x.line = in[x.at],
         NEW ef2, NEW cl2, Written(er, ef2, cl2) = Written(er, ef, cl) \cup {x.at}
  PROVE  InOrder(in, er, ef2, cl2, new)
<1>0. /\ Len(out) \in Nat /\ Len(new) = Len(out) + 1 /\ new[Len(out) + 1] = x
      /\ \A i \in 1..Len(out) : new[i] = out[i]
  BY DEF Adds
<1> DEFINE at == x.at
<1> USE <1>0
<1>1. \A i \in 1..Len(new) : i \in 1..Len(out) \/ i = Len(out) + 1
  OBVIOUS
<1>2. \A i \in 1..Len(out) : out[i].at \in Written(er, ef, cl)
  BY DEF InOrder
<1>3. ASSUME NEW i \in 1..Len(new), NEW k \in 1..Len(new), i < k PROVE new[i].at < new[k].at
  <2>1. i \in 1..Len(out)
    BY <1>3
  <2>2. CASE k \in 1..Len(out)
    BY <1>3, <2>1, <2>2 DEF InOrder
  <2>3. CASE k = Len(out) + 1
    BY <1>2, <2>1, <2>3
  <2> QED
    BY <1>1, <2>2, <2>3
<1>4. \A i \in 1..Len(new) : ~Has(er, new[i].at) => new[i].line = in[new[i].at]
  BY <1>1 DEF InOrder
<1>5. {new[i].at : i \in 1..Len(new)} = {out[i].at : i \in 1..Len(out)} \cup {at}
  <2>1. ASSUME NEW y \in {new[i].at : i \in 1..Len(new)}
        PROVE  y \in {out[i].at : i \in 1..Len(out)} \cup {at}
    BY <1>1
  <2>2. ASSUME NEW y \in {out[i].at : i \in 1..Len(out)}
        PROVE  y \in {new[i].at : i \in 1..Len(new)}
    <3>1. PICK i \in 1..Len(out) : y = out[i].at
      OBVIOUS
    <3>2. i \in 1..Len(new) /\ new[i] = out[i]
      OBVIOUS
    <3> QED
      BY <3>1, <3>2
  <2>3. at \in {new[i].at : i \in 1..Len(new)}
    <3>1. Len(out) + 1 \in 1..Len(new)
      OBVIOUS
    <3> QED
      BY <3>1
  <2> QED
    BY <2>1, <2>2, <2>3, Zenon
<1>6. {new[i].at : i \in 1..Len(new)} = Written(er, ef2, cl2)
  BY <1>5, Zenon DEF InOrder
<1> QED
  BY <1>3, <1>4, <1>6 DEF InOrder
-----------------------------------------------------------------------------
(* The file, and the input and the report of the debugulator. *)
ReadInv ==
  /\ Len(file) \in Nat /\ \A at \in 1..Len(file) : HasShape(file[at])
  /\ Len(input) \in Nat /\ \A at \in 1..Len(input) : HasShape(input[at])
  /\ Follows(input, errors)

(* The input and the report are read side by side. *)
PlaceInv ==
  /\ errors_fixed \in 0..Len(errors)
  /\ current_line \in 0..Len(input)
  /\ \A k \in 1..errors_fixed : errors[k].line <= current_line
  /\ status = "fixing" => \A k \in (errors_fixed + 1)..Len(errors) : errors[k].line >= current_line
  /\ status = "copying" => errors_fixed = Len(errors)
  /\ status = "returned" /\ errors # << >> => current_line = Len(input)

OutputInv ==
  /\ \E S : output \in Seq(S)
  /\ \A k \in 1..Len(output) : HasShape(output[k].line)
  /\ InOrder(input, errors, errors_fixed, current_line, output)

RepairInv == ReadInv /\ PlaceInv /\ OutputInv

(* OutputInOrder follows from the invariant. *)
LEMMA InvGivesOrder == RepairInv => OutputInOrder
<1>1. \A at : HasErrors(at) = Has(errors, at) /\ IsDuplicate(at) = Dup(errors, at)
  BY DEF HasErrors, Has, IsDuplicate, Dup
<1>2. \A at : Settled(at) <=> Done(errors, errors_fixed, current_line, at)
  BY <1>1, Zenon DEF Settled, Done
<1>3. SUFFICES ASSUME RepairInv PROVE OutputInOrder
  OBVIOUS
<1>4. InOrder(input, errors, errors_fixed, current_line, output)
        /\ (status = "returned" /\ errors # << >> => current_line = Len(input))
  BY <1>3, Zenon DEF RepairInv, OutputInv, PlaceInv
<1>5. {at \in 1..current_line : Settled(at) /\ ~IsDuplicate(at)}
        = Written(errors, errors_fixed, current_line)
  BY <1>1, <1>2, Zenon DEF Written
<1> QED
  BY <1>1, <1>4, <1>5, Zenon DEF InOrder, OutputInOrder

(* The errors are a report. *)
LEMMA ReportOfInput ==
  ASSUME Follows(input, errors)
  PROVE  IsReport(errors)
BY DEF Follows, IsReport

(* A fixed line has the shape of the line before. *)
LEMMA ShapeKept ==
  ASSUME NEW line, NEW new, HasShape(line), SameVariants(line, new)
  PROVE  HasShape(new)
BY DEF HasShape, SameVariants

(* What the actions of the debugulator leave alone. *)
LEMMA ReadKept ==
  ASSUME ReadInv, UNCHANGED <<file, input, errors>>
  PROVE  ReadInv'
BY DEF ReadInv

(* Advance and CopyLine: the next line is read, and written if it has no   *)
(* error.                                                                  *)
LEMMA LineRead ==
  ASSUME ReadInv, OutputInv, Between(errors, errors_fixed, current_line), current_line < Len(input),
         UNCHANGED <<file, input, errors, errors_fixed>>, current_line' = current_line + 1,
         \/ Has(errors, current_line + 1) /\ output' = output
         \/ ~Has(errors, current_line + 1)
              /\ output' = Append(output, From(current_line + 1, input[current_line + 1]))
  PROVE  OutputInv'
<1>1. PICK er, ef, cl, in : er = errors /\ ef = errors_fixed /\ cl = current_line /\ in = input
  OBVIOUS
<1>2. IsReport(er) /\ Between(er, ef, cl) /\ InOrder(in, er, ef, cl, output)
  BY <1>1, ReportOfInput, Zenon DEF ReadInv, OutputInv
<1>3. errors' = er /\ errors_fixed' = ef /\ current_line' = cl + 1 /\ input' = in
  BY <1>1
<1>4. cl \in Nat /\ cl + 1 \in 1..Len(in)
  BY <1>1, <1>2 DEF Between, ReadInv
<1>5. CASE Has(er, cl + 1)
  <2>1. Written(er, ef, cl + 1) = Written(er, ef, cl) /\ output' = output
    BY <1>1, <1>2, <1>5, NextLine
  <2>2. InOrder(in, er, ef, cl + 1, output')
    BY <1>2, <2>1 DEF InOrder
  <2> QED
    BY <1>3, <2>1, <2>2 DEF OutputInv
<1>6. CASE ~Has(er, cl + 1)
  <2>1. Written(er, ef, cl + 1) = Written(er, ef, cl) \cup {cl + 1}
    BY <1>2, <1>6, NextLine
  <2>2. PICK S : output \in Seq(S)
    BY DEF OutputInv
  <2>3. PICK x : x = From(cl + 1, in[cl + 1])
    OBVIOUS
  <2>4. output' = Append(output, x) /\ x.at = cl + 1 /\ x.line = in[cl + 1]
    BY <1>1, <1>6, <2>3 DEF From
  <2>5. output \in Seq(S \cup {x}) /\ x \in S \cup {x}
    BY <2>2
  <2>6. /\ output' \in Seq(S \cup {x}) /\ Len(output) \in Nat /\ Len(output') = Len(output) + 1
        /\ \A i \in 1..Len(output) : output'[i] = output[i]
        /\ output'[Len(output) + 1] = x
    BY <2>4, <2>5, AppendProperties
  <2>7. \A a \in Written(er, ef, cl) : a < cl + 1
    BY <1>4 DEF Written
  <2>8. InOrder(in, er, ef, cl + 1, output')
    <3>1. Adds(output', output, x)
      BY <2>6 DEF Adds
    <3>2. /\ \A a \in Written(er, ef, cl) : a < x.at
          /\ ~Has(er, x.at) => x.line = in[x.at]
          /\ Written(er, ef, cl + 1) = Written(er, ef, cl) \cup {x.at}
      BY <2>1, <2>4, <2>7
    <3> QED
      BY <1>2, <3>1, <3>2, LineAdded, Zenon
  <2>9. HasShape(in[cl + 1])
    BY <1>1, <1>4 DEF ReadInv
  <2>10. \A k \in 1..Len(output') : HasShape(output'[k].line)
    <3>1. \A k \in 1..Len(output') : k \in 1..Len(output) \/ k = Len(output) + 1
      BY <2>6
    <3> QED
      BY <2>4, <2>6, <2>9, <3>1 DEF OutputInv
  <2> QED
    BY <1>3, <2>6, <2>8, <2>10 DEF OutputInv
<1> QED
  BY <1>5, <1>6


(* FixError: the next error is about the line that was read last. *)
LEMMA FixReads ==
  ASSUME RepairInv, FixError
  PROVE  /\ errors_fixed + 1 \in 1..Len(errors)
         /\ errors[errors_fixed + 1].line = current_line /\ current_line \in 1..Len(input)
         /\ FixesOne(input[current_line], errors[errors_fixed + 1].error)
<1>1. PICK er, ef, cl, in : er = errors /\ ef = errors_fixed /\ cl = current_line /\ in = input
  OBVIOUS
<1>2. /\ ReadInv /\ PlaceInv
      /\ status = "fixing" /\ ef < Len(er) /\ cl >= er[ef + 1].line
  BY <1>1 DEF RepairInv, FixError, line_index
<1>3. Follows(in, er) /\ IsReport(er) /\ Len(in) \in Nat
  BY <1>1, <1>2, ReportOfInput DEF ReadInv
<1>4. /\ ef \in 0..Len(er) /\ cl \in 0..Len(in) /\ Len(er) \in Nat
      /\ \A k \in (ef + 1)..Len(er) : er[k].line >= cl
  BY <1>1, <1>2, <1>3 DEF PlaceInv, IsReport
<1>5. ef + 1 \in 1..Len(er) /\ ef + 1 \in (ef + 1)..Len(er)
  BY <1>2, <1>4
<1>6. er[ef + 1].line \in Nat \ {0} /\ er[ef + 1].line >= cl
  BY <1>3, <1>4, <1>5 DEF IsReport
<1>7. er[ef + 1].line = cl /\ cl \in 1..Len(in)
  BY <1>2, <1>4, <1>5, <1>6
<1>8. FixesOne(in[cl], er[ef + 1].error)
  BY <1>3, <1>4, <1>5, <1>7 DEF Follows
<1> QED
  BY <1>1, <1>5, <1>7, <1>8

(* Its line is written, if the process goes on and it is no duplicate. *)
LEMMA LineFixed ==
  ASSUME RepairInv, FixError, UNCHANGED file
  PROVE  RepairInv'
<1>1. PICK er, ef, cl, in : er = errors /\ ef = errors_fixed /\ cl = current_line /\ in = input
  OBVIOUS
<1>2. /\ ReadInv /\ PlaceInv /\ OutputInv
      /\ status = "fixing" /\ ef < Len(er) /\ cl >= er[ef + 1].line
      /\ errors' = er /\ input' = in /\ current_line' = cl /\ file' = file
  BY <1>1 DEF RepairInv, FixError, line_index
<1>3. PICK e : e = er[ef + 1]
  OBVIOUS
<1>4. PICK outcome \in fix(in[cl], e.error) :
        /\ output' = output \o [k \in 1..Len(outcome.written) |-> From(cl, outcome.written[k])]
        /\ IF outcome.ends = "no" THEN errors_fixed' = ef + 1 /\ status' = status
                                  ELSE status' = outcome.ends /\ errors_fixed' = ef
  BY <1>1, <1>3 DEF FixError
<1>5. Follows(in, er) /\ IsReport(er) /\ InOrder(in, er, ef, cl, output) /\ Len(in) \in Nat
  BY <1>1, <1>2, ReportOfInput DEF ReadInv, OutputInv
<1>6. /\ ef \in 0..Len(er) /\ cl \in 0..Len(in) /\ Len(er) \in Nat
      /\ \A k \in 1..ef : er[k].line <= cl
      /\ \A k \in (ef + 1)..Len(er) : er[k].line >= cl
  BY <1>1, <1>2, <1>5 DEF PlaceInv, IsReport
<1>7. ef + 1 \in 1..Len(er) /\ e.line = cl /\ cl \in 1..Len(in)
  BY <1>1, <1>3, FixReads
<1>8. FixesOne(in[cl], e.error) /\ HasShape(in[cl])
  BY <1>1, <1>2, <1>3, <1>7, FixReads DEF ReadInv
<1>9. ReadInv'
  BY <1>1, <1>2, ReadKept
<1>10. PICK S : output \in Seq(S)
  BY <1>2 DEF OutputInv
<1>11. \A k \in 1..Len(output) : HasShape(output[k].line)
  BY <1>2 DEF OutputInv
<1>12. /\ IsDuplication(e) => Written(er, ef + 1, cl) = Written(er, ef, cl)
       /\ ~IsDuplication(e) => /\ Written(er, ef + 1, cl) = Written(er, ef, cl) \cup {cl}
                               /\ cl \notin Written(er, ef, cl)
  <2>1. ef \in 0..Len(er) /\ ef < Len(er) /\ cl \in Nat /\ er[ef + 1].line = cl
    BY <1>2, <1>3, <1>6, <1>7
  <2> QED
    BY <1>3, <1>5, <2>1, FixedLine
<1>13. CASE IsDuplication(e)
  <2>1. outcome = Outcome(<< >>, 0)
    BY <1>4, <1>13 DEF IsDuplication, fix
  <2>2. outcome.written = << >> /\ outcome.ends = "no"
    BY <2>1 DEF Outcome
  <2>3. output' = output /\ errors_fixed' = ef + 1 /\ status' = "fixing"
    BY <1>2, <1>4, <1>10, <2>2
  <2>4. Written(er, ef + 1, cl) = Written(er, ef, cl)
    BY <1>12, <1>13
  <2>5. InOrder(in, er, ef + 1, cl, output')
    BY <1>5, <2>3, <2>4 DEF InOrder
  <2>6. OutputInv'
    BY <1>2, <1>10, <1>11, <2>3, <2>5 DEF OutputInv
  <2>7. PlaceInv'
    <3>1. \A k \in 1..(ef + 1) : er[k].line <= cl
      BY <1>3, <1>5, <1>6, <1>7 DEF IsReport
    <3> QED
      BY <1>2, <1>6, <1>7, <2>3, <3>1 DEF PlaceInv
  <2> QED
    BY <1>9, <2>6, <2>7 DEF RepairInv
<1>14. CASE ~IsDuplication(e)
  <2>1. IsOneLine(in[cl], outcome)
    BY <1>4, <1>8, <1>14, FixIsOneLine, Zenon DEF IsDuplication, FixesOne
  <2>2. CASE outcome.ends # "no"
    <3>1. outcome.written = << >> /\ outcome.ends \in {"throws", "crashes"}
      BY <2>1, <2>2 DEF IsOneLine
    <3>2. output' = output /\ errors_fixed' = ef /\ status' \in {"throws", "crashes"}
      BY <1>4, <1>10, <2>2, <3>1
    <3>3. OutputInv'
      BY <1>2, <1>5, <1>10, <1>11, <3>2 DEF OutputInv
    <3>4. PlaceInv'
      BY <1>2, <1>6, <3>2 DEF PlaceInv
    <3> QED
      BY <1>9, <3>3, <3>4 DEF RepairInv
  <2>3. CASE outcome.ends = "no"
    <3>1. PICK line : outcome.written = <<line>> /\ SameVariants(in[cl], line)
      BY <2>1, <2>3 DEF IsOneLine
    <3>2. PICK x : x = From(cl, line)
      OBVIOUS
    <3>3. x.at = cl /\ x.line = line /\ HasShape(line)
      BY <1>8, <3>1, <3>2, ShapeKept DEF From
    <3>4. [k \in 1..Len(outcome.written) |-> From(cl, outcome.written[k])] = <<x>>
      <4>1. Len(outcome.written) = 1 /\ outcome.written[1] = line
        BY <3>1
      <4>2. \A k \in 1..1 : From(cl, outcome.written[k]) = x
        BY <3>2, <4>1
      <4>3. [k \in 1..Len(outcome.written) |-> From(cl, outcome.written[k])] = [k \in 1..1 |-> x]
        BY <4>1, <4>2, Zenon
      <4> QED
        BY <4>3
    <3>5. output' = output \o <<x>> /\ errors_fixed' = ef + 1 /\ status' = "fixing"
      BY <1>2, <1>4, <2>3, <3>4
    <3>6. output \in Seq(S \cup {x}) /\ <<x>> \in Seq(S \cup {x})
      BY <1>10
    <3>7. /\ output' \in Seq(S \cup {x}) /\ Len(output) \in Nat /\ Len(output') = Len(output) + 1
          /\ \A i \in 1..Len(output) : output'[i] = output[i]
          /\ output'[Len(output) + 1] = x
      BY <3>5, <3>6
    <3>8. /\ Written(er, ef + 1, cl) = Written(er, ef, cl) \cup {cl}
          /\ cl \notin Written(er, ef, cl)
      BY <1>12, <1>14
    <3>9. \A a \in Written(er, ef, cl) : a < cl
      BY <1>6, <3>8 DEF Written
    <3>10. Has(er, cl)
      BY <1>3, <1>7 DEF Has
    <3>11. InOrder(in, er, ef + 1, cl, output')
      <4>1. Adds(output', output, x)
        BY <3>7 DEF Adds
      <4>2. /\ \A a \in Written(er, ef, cl) : a < x.at
            /\ ~Has(er, x.at) => x.line = in[x.at]
            /\ Written(er, ef + 1, cl) = Written(er, ef, cl) \cup {x.at}
        BY <3>3, <3>8, <3>9, <3>10
      <4> QED
        BY <1>5, <4>1, <4>2, LineAdded, Zenon
    <3>12. \A k \in 1..Len(output') : HasShape(output'[k].line)
      <4>1. \A k \in 1..Len(output') : k \in 1..Len(output) \/ k = Len(output) + 1
        BY <3>7
      <4> QED
        BY <1>11, <3>3, <3>7, <4>1
    <3>13. OutputInv'
      BY <1>2, <3>5, <3>7, <3>11, <3>12 DEF OutputInv
    <3>14. PlaceInv'
      <4>1. \A k \in 1..(ef + 1) : er[k].line <= cl
        BY <1>3, <1>5, <1>6, <1>7 DEF IsReport
      <4> QED
        BY <1>2, <1>6, <1>7, <3>5, <4>1 DEF PlaceInv
    <3> QED
      BY <1>9, <3>13, <3>14 DEF RepairInv
  <2> QED
    BY <2>2, <2>3
<1> QED
  BY <1>13, <1>14

(* Advance: the next error is about a line that was not read yet. *)
LEMMA AdvanceReads ==
  ASSUME RepairInv, Advance
  PROVE  /\ Between(errors, errors_fixed, current_line)
         /\ Has(errors, current_line + 1) <=> current_line + 1 = errors[errors_fixed + 1].line
         /\ \A k \in (errors_fixed + 1)..Len(errors) : errors[k].line >= current_line + 1
<1>1. PICK er, ef, cl, in : er = errors /\ ef = errors_fixed /\ cl = current_line /\ in = input
  OBVIOUS
<1>2. ReadInv /\ PlaceInv /\ status = "fixing" /\ ef < Len(er) /\ cl < er[ef + 1].line
  BY <1>1 DEF RepairInv, Advance, line_index
<1>3. IsReport(er)
  BY <1>1, <1>2, ReportOfInput DEF ReadInv
<1>4. /\ ef \in 0..Len(er) /\ cl \in Nat /\ Len(er) \in Nat
      /\ \A k \in 1..ef : er[k].line <= cl
  BY <1>1, <1>2, <1>3 DEF PlaceInv, IsReport
<1>5. ef + 1 \in 1..Len(er) /\ er[ef + 1].line \in Nat
  BY <1>2, <1>3, <1>4 DEF IsReport
<1>6. \A k \in (ef + 1)..Len(er) : er[k].line \in Nat /\ er[k].line >= er[ef + 1].line
  <2>1. ASSUME NEW k \in (ef + 1)..Len(er)
        PROVE  er[k].line \in Nat /\ er[k].line >= er[ef + 1].line
    <3>1. k \in 1..Len(er) /\ (k = ef + 1 \/ ef + 1 < k)
      BY <1>4
    <3>2. er[k].line \in Nat
      BY <1>3, <3>1 DEF IsReport
    <3>3. CASE k = ef + 1
      BY <1>5, <3>3
    <3>4. CASE ef + 1 < k
      BY <1>3, <1>5, <3>1, <3>2, <3>4 DEF IsReport, InReportOrder
    <3> QED
      BY <3>1, <3>2, <3>3, <3>4
  <2> QED
    BY <2>1
<1>7. Between(er, ef, cl)
  BY <1>2, <1>4, <1>5, <1>6 DEF Between
<1>8. Has(er, cl + 1) <=> cl + 1 = er[ef + 1].line
  <2>1. CASE cl + 1 = er[ef + 1].line
    BY <1>5, <2>1 DEF Has
  <2>2. CASE cl + 1 # er[ef + 1].line
    <3>1. ASSUME NEW k \in 1..Len(er), er[k].line = cl + 1 PROVE FALSE
      <4>1. CASE k \in 1..ef
        BY <1>4, <3>1, <4>1
      <4>2. CASE k \in (ef + 1)..Len(er)
        BY <1>2, <1>4, <1>5, <1>6, <2>2, <3>1, <4>2
      <4> QED
        BY <1>4, <4>1, <4>2
    <3> QED
      BY <2>2, <3>1 DEF Has
  <2> QED
    BY <2>1, <2>2
<1>9. \A k \in (ef + 1)..Len(er) : er[k].line >= cl + 1
  BY <1>2, <1>4, <1>5, <1>6
<1> QED
  BY <1>1, <1>7, <1>8, <1>9

(* Advance keeps the invariant. *)
LEMMA AdvanceKeeps ==
  ASSUME RepairInv, Advance, UNCHANGED file
  PROVE  RepairInv'
<1>1. PICK er, ef, cl, in : er = errors /\ ef = errors_fixed /\ cl = current_line /\ in = input
  OBVIOUS
<1>2. /\ ReadInv /\ PlaceInv /\ OutputInv
      /\ status = "fixing" /\ cl < Len(in)
      /\ errors' = er /\ input' = in /\ current_line' = cl + 1 /\ file' = file
      /\ errors_fixed' = ef /\ status' = status
      /\ output' = IF cl + 1 = er[ef + 1].line THEN output
                   ELSE Append(output, From(cl + 1, in[cl + 1]))
  BY <1>1 DEF RepairInv, Advance, line_index
<1>3. IsReport(er) /\ Len(in) \in Nat
  BY <1>1, <1>2, ReportOfInput DEF ReadInv
<1>4. /\ ef \in 0..Len(er) /\ cl \in 0..Len(in) /\ Len(er) \in Nat
      /\ \A k \in 1..ef : er[k].line <= cl
  BY <1>1, <1>2, <1>3 DEF PlaceInv, IsReport
<1>5. /\ Between(er, ef, cl) /\ (Has(er, cl + 1) <=> cl + 1 = er[ef + 1].line)
      /\ \A k \in (ef + 1)..Len(er) : er[k].line >= cl + 1
  BY <1>1, AdvanceReads, Zenon
<1>6. OutputInv'
  BY <1>1, <1>2, <1>5, LineRead
<1>7. PlaceInv'
  <2>1. \A k \in 1..ef : er[k].line <= cl + 1
    BY <1>3, <1>4 DEF IsReport
  <2> QED
    BY <1>2, <1>3, <1>4, <1>5, <2>1 DEF PlaceInv
<1>8. ReadInv'
  BY <1>1, <1>2, ReadKept
<1> QED
  BY <1>6, <1>7, <1>8 DEF RepairInv

(* CopyLine keeps the invariant. *)
LEMMA CopyKeeps ==
  ASSUME RepairInv, CopyLine, UNCHANGED file
  PROVE  RepairInv'
<1>1. PICK er, ef, cl, in : er = errors /\ ef = errors_fixed /\ cl = current_line /\ in = input
  OBVIOUS
<1>2. /\ ReadInv /\ PlaceInv /\ OutputInv
      /\ status = "copying" /\ cl < Len(in)
      /\ errors' = er /\ input' = in /\ current_line' = cl + 1 /\ file' = file
      /\ errors_fixed' = ef /\ status' = status
      /\ output' = Append(output, From(cl + 1, in[cl + 1]))
  BY <1>1 DEF RepairInv, CopyLine
<1>3. IsReport(er) /\ Len(in) \in Nat
  BY <1>1, <1>2, ReportOfInput DEF ReadInv
<1>4. /\ ef = Len(er) /\ cl \in 0..Len(in) /\ Len(er) \in Nat
      /\ \A k \in 1..Len(er) : er[k].line \in Nat /\ er[k].line <= cl
  BY <1>1, <1>2, <1>3 DEF PlaceInv, IsReport
<1>5. Between(er, ef, cl)
  BY <1>4 DEF Between
<1>6. ~Has(er, cl + 1)
  BY <1>4 DEF Has
<1>7. OutputInv'
  BY <1>1, <1>2, <1>5, <1>6, LineRead
<1>8. PlaceInv'
  BY <1>2, <1>3, <1>4 DEF PlaceInv
<1>9. ReadInv'
  BY <1>1, <1>2, ReadKept
<1> QED
  BY <1>7, <1>8, <1>9 DEF RepairInv


(* Steps that only change status: TooShort, EndOfReport, ReturnIgnored. *)
LEMMA StatusKeeps ==
  ASSUME RepairInv, TooShort \/ EndOfReport \/ ReturnIgnored, UNCHANGED file
  PROVE  RepairInv'
<1>1. UNCHANGED <<file, input, errors, errors_fixed, current_line, output>>
  BY DEF TooShort, EndOfReport, ReturnIgnored
<1>2. ReadInv' /\ OutputInv'
  BY <1>1, ReadKept DEF RepairInv, OutputInv
<1>3. PlaceInv'
  <2>1. PlaceInv
    BY DEF RepairInv
  <2>2. CASE TooShort
    BY <1>1, <2>1, <2>2 DEF TooShort, PlaceInv
  <2>3. CASE EndOfReport
    BY <1>1, <2>1, <2>3 DEF EndOfReport, PlaceInv
  <2>4. CASE ReturnIgnored
    BY <1>1, <2>1, <2>4 DEF ReturnIgnored, PlaceInv
  <2> QED
    BY <2>2, <2>3, <2>4
<1> QED
  BY <1>2, <1>3 DEF RepairInv

(* The debugulator is called with a file and the report of it. *)
LEMMA ValidateKeeps ==
  ASSUME RepairInv, Validate
  PROVE  RepairInv'
<1>1. PICK lines, report : lines = file /\ report = ReportOf(version, file)
  OBVIOUS
<1>2. /\ file' = lines /\ input' = lines /\ errors' = report /\ errors_fixed' = 0
      /\ current_line' = 0 /\ output' = << >>
      /\ status' = IF report = << >> THEN "returned" ELSE "fixing"
  BY <1>1 DEF Validate, Start
<1>3. Len(lines) \in Nat /\ \A at \in 1..Len(lines) : HasShape(lines[at])
  BY <1>1 DEF RepairInv, ReadInv
<1>4. Follows(lines, report)
  BY <1>1, <1>3, ReportFollows
<1>5. ReadInv'
  BY <1>2, <1>3, <1>4 DEF ReadInv
<1>6. PlaceInv'
  <2>1. Len(report) \in Nat /\ \A k \in 1..Len(report) : report[k].line >= 0
    BY <1>3, <1>4 DEF Follows
  <2> QED
    BY <1>2, <1>3, <2>1 DEF PlaceInv
<1>7. OutputInv'
  <2>1. Written(report, 0, 0) = {}
    BY DEF Written
  <2>2. InOrder(lines, report, 0, 0, << >>)
    BY <2>1 DEF InOrder
  <2>3. << >> \in Seq({}) /\ \A k \in 1..Len(<< >>) : HasShape(<< >>[k].line)
    OBVIOUS
  <2> QED
    BY <1>2, <2>2, <2>3 DEF OutputInv
<1> QED
  BY <1>5, <1>6, <1>7 DEF RepairInv

(* It holds for the files to begin with. *)
LEMMA InitEstablishes ==
  ASSUME RepairInit
  PROVE  RepairInv
<1>1. PICK f \in Files : file = f.lines
  BY DEF RepairInit
<1>2. file \in Seq(Lines)
  BY <1>1, FilesAssumption
<1>3. \A line \in Lines : HasShape(line)
  BY DEF Lines, BodyLines, MetaLines, HeaderLines, HasShape
<1>4. Len(file) \in Nat /\ \A at \in 1..Len(file) : HasShape(file[at])
  <2> HIDE DEF Lines
  <2> QED
    BY <1>2, <1>3
<1>5. /\ input = << >> /\ errors = << >> /\ errors_fixed = 0 /\ current_line = 0
      /\ output = << >> /\ status = "returned"
  BY DEF RepairInit
<1>6. Follows(<< >>, << >>)
  BY DEF Follows, InReportOrder
<1>7. ReadInv
  BY <1>4, <1>5, <1>6 DEF ReadInv
<1>8. PlaceInv
  BY <1>5 DEF PlaceInv
<1>9. OutputInv
  <2>1. Written(<< >>, 0, 0) = {}
    BY DEF Written
  <2>2. InOrder(<< >>, << >>, 0, 0, << >>)
    BY <2>1 DEF InOrder
  <2>3. << >> \in Seq({}) /\ \A k \in 1..Len(<< >>) : HasShape(<< >>[k].line)
    OBVIOUS
  <2> QED
    BY <1>5, <2>2, <2>3 DEF OutputInv
<1> QED
  BY <1>7, <1>8, <1>9 DEF RepairInv

(* The output becomes the file of the next round. *)
LEMMA RoundKeeps ==
  ASSUME RepairInv, NextRound
  PROVE  RepairInv'
<1>1. UNCHANGED <<input, errors, errors_fixed, current_line, output, status>>
        /\ (file' = file \/ file' = OutputLines)
  BY DEF NextRound, debugulatorVars
<1>2. PlaceInv' /\ OutputInv'
  BY <1>1 DEF RepairInv, PlaceInv, OutputInv
<1>3. Len(file') \in Nat /\ \A at \in 1..Len(file') : HasShape(file'[at])
  <2>1. CASE file' = file
    BY <2>1 DEF RepairInv, ReadInv
  <2>2. CASE file' = OutputLines
    <3>1. PICK S : output \in Seq(S)
      BY DEF RepairInv, OutputInv
    <3>2. PICK n : n = Len(output)
      OBVIOUS
    <3>3. n \in Nat /\ \A k \in 1..n : HasShape(output[k].line)
      BY <3>1, <3>2 DEF RepairInv, OutputInv
    <3>4. file' = [k \in 1..n |-> output[k].line]
      BY <2>2, <3>2 DEF OutputLines
    <3>5. Len(file') = n /\ \A k \in 1..n : file'[k] = output[k].line
      BY <3>3, <3>4
    <3> QED
      BY <3>3, <3>5
  <2> QED
    BY <1>1, <2>1, <2>2
<1>4. ReadInv'
  BY <1>1, <1>3 DEF RepairInv, ReadInv
<1> QED
  BY <1>2, <1>4 DEF RepairInv

(***************************************************************************)
(* The invariant of the two programs in turn, for any files: the input and *)
(* the report are read side by side, and the output is in order so far.    *)
(***************************************************************************)
THEOREM RepairInvariant == RepairSpec => []RepairInv
<1>1. RepairInit => RepairInv
  BY InitEstablishes
<1>2. RepairInv /\ [RepairNext]_repairVars => RepairInv'
  <2> SUFFICES ASSUME RepairInv, [RepairNext]_repairVars PROVE RepairInv'
    OBVIOUS
  <2>1. CASE Validate
    BY <2>1, ValidateKeeps
  <2>2. CASE DebugulatorStep
    <3>1. FixVcfFile /\ UNCHANGED file
      BY <2>2 DEF DebugulatorStep
    <3> QED
      BY <3>1, AdvanceKeeps, LineFixed, CopyKeeps, StatusKeeps DEF FixVcfFile
  <2>3. CASE NextRound
    BY <2>3, RoundKeeps
  <2>4. CASE ValidatorFails \/ DebugulatorFails \/ UNCHANGED repairVars
    <3>1. UNCHANGED <<file, input, errors, errors_fixed, current_line, output, status>>
      BY <2>4 DEF ValidatorFails, DebugulatorFails, repairVars, debugulatorVars
    <3> QED
      BY <3>1 DEF RepairInv, ReadInv, PlaceInv, OutputInv
  <2> QED
    BY <2>1, <2>2, <2>3, <2>4 DEF RepairNext
<1> QED
  BY <1>1, <1>2, PTL DEF RepairSpec

(***************************************************************************)
(* fix_vcf_file writes the lines of its input in their order, each once    *)
(* but duplicates, and those without an error as they are: in every round, *)
(* with every report that the validator writes, and also when a fix ends   *)
(* the process.                                                            *)
(***************************************************************************)
THEOREM OutputStaysInOrder == RepairSpec => []OutputInOrder
BY RepairInvariant, InvGivesOrder, PTL

-----------------------------------------------------------------------------
(***************************************************************************)
(* What FieldsAt keeps, and factorials.                                    *)
(***************************************************************************)

(* FlattenSeq adds one sequence after the other. *)
LEMMA FlattenSteps ==
  ASSUME NEW T, NEW n \in Nat \ {0}, NEW seqs \in [1..n -> Seq(T)]
  PROVE  \E f : /\ FlattenSeq(seqs) = f[n] /\ f[1] = seqs[1]
                /\ \A i \in 1..n : i # 1 => f[i] = f[i - 1] \o seqs[i]
<1>1. seqs \in Seq(Seq(T)) /\ Len(seqs) = n
  OBVIOUS
<1>2. PICK f : /\ FlattenSeq(seqs) = f[n]
               /\ f = [i \in 1..n |-> IF i = 1 THEN seqs[i] ELSE f[i - 1] \o seqs[i]]
  <2>1. Len(seqs) \in Nat \ {0}
    BY <1>1
  <2> QED
    BY <1>1, <2>1, FlattenUnfolds, ZenonT(40)
<1> DEFINE Then(x, i) == x \o seqs[i]
<1>3. f = [i \in 1..n |-> IF i = 1 THEN seqs[i] ELSE Then(f[i - 1], i)]
  BY <1>2
<1> HIDE DEF Then
<1>4. f[1] = seqs[1] /\ \A i \in 1..n : i # 1 => f[i] = Then(f[i - 1], i)
  BY <1>3
<1>5. \A i \in 1..n : i # 1 => f[i] = f[i - 1] \o seqs[i]
  BY <1>4, Zenon DEF Then
<1> QED
  BY <1>2, <1>4, <1>5, Zenon

(* What two sequences have together. *)
LEMMA JoinedContains ==
  ASSUME NEW T, NEW s \in Seq(T), NEW t \in Seq(T), NEW x
  PROVE  Contains(s \o t, x) <=> Contains(s, x) \/ Contains(t, x)
<1>1. PICK j : j = s \o t
  OBVIOUS
<1>2. /\ Len(j) = Len(s) + Len(t)
      /\ \A i \in 1..Len(j) : j[i] = IF i <= Len(s) THEN s[i] ELSE t[i - Len(s)]
  BY <1>1, ConcatProperties
<1>3. Len(s) \in Nat /\ Len(t) \in Nat
  OBVIOUS
<1>4. ASSUME Contains(j, x) PROVE Contains(s, x) \/ Contains(t, x)
  <2>1. PICK i \in 1..Len(j) : j[i] = x
    BY <1>4 DEF Contains
  <2>2. CASE i <= Len(s)
    <3>1. i \in 1..Len(s) /\ s[i] = x
      BY <1>2, <1>3, <2>1, <2>2
    <3> QED
      BY <3>1 DEF Contains
  <2>3. CASE ~(i <= Len(s))
    <3>1. i - Len(s) \in 1..Len(t) /\ t[i - Len(s)] = x
      BY <1>2, <1>3, <2>1, <2>3
    <3> QED
      BY <3>1 DEF Contains
  <2> QED
    BY <2>2, <2>3
<1>5. ASSUME Contains(s, x) PROVE Contains(j, x)
  <2>1. PICK i \in 1..Len(s) : s[i] = x
    BY <1>5 DEF Contains
  <2>2. i \in 1..Len(j) /\ j[i] = x
    BY <1>2, <1>3, <2>1
  <2> QED
    BY <2>2 DEF Contains
<1>6. ASSUME Contains(t, x) PROVE Contains(j, x)
  <2>1. PICK i \in 1..Len(t) : t[i] = x
    BY <1>6 DEF Contains
  <2>2. Len(s) + i \in 1..Len(j) /\ j[Len(s) + i] = x
    BY <1>2, <1>3, <2>1
  <2> QED
    BY <2>2 DEF Contains
<1> QED
  BY <1>1, <1>4, <1>5, <1>6, Zenon

(* The elements of a flattened sequence are those of its sequences. *)
LEMMA FlattenContains ==
  ASSUME NEW T, NEW n \in Nat, NEW seqs \in [1..n -> Seq(T)]
  PROVE  /\ FlattenSeq(seqs) \in Seq(T)
         /\ \A x : Contains(FlattenSeq(seqs), x) <=> \E i \in 1..n : Contains(seqs[i], x)
<1> DEFINE Good(s, m) == /\ s \in Seq(T)
                         /\ \A x : Contains(s, x) <=> \E i \in 1..m : Contains(seqs[i], x)
<1>1. CASE n = 0
  <2>1. seqs = << >> /\ Len(seqs) = 0
    BY <1>1
  <2>2. FlattenSeq(seqs) = << >>
    BY <2>1 DEF FlattenSeq
  <2>3. \A x : ~Contains(<< >>, x)
    BY DEF Contains
  <2> QED
    BY <1>1, <2>2, <2>3
<1>2. CASE n # 0
  <2>0. n \in Nat \ {0} /\ 1 \in 1..n /\ n \in 1..n
    BY <1>2
  <2>1. PICK f : /\ FlattenSeq(seqs) = f[n] /\ f[1] = seqs[1]
                 /\ \A i \in 1..n : i # 1 => f[i] = f[i - 1] \o seqs[i]
    BY <2>0, FlattenSteps, ZenonT(40)
  <2> DEFINE H == {m \in 1..n : Good(f[m], m)}
  <2>2. 1 \in H
    <3>1. \A i \in 1..1 : i = 1
      OBVIOUS
    <3>2. Good(seqs[1], 1)
      BY <2>0, <3>1
    <3> QED
      BY <2>0, <2>1, <3>2
  <2>3. ASSUME NEW m \in 1..n, m # 1, m - 1 \in H PROVE m \in H
    <3>1. m - 1 \in 1..n /\ Good(f[m - 1], m - 1)
      BY <2>3
    <3>2. PICK s, t : s = f[m - 1] /\ t = seqs[m]
      OBVIOUS
    <3>3. s \in Seq(T) /\ t \in Seq(T)
      BY <3>1, <3>2
    <3>4. f[m] = s \o t
      BY <2>1, <2>3, <3>2, Zenon
    <3>5. s \o t \in Seq(T)
      BY <3>3
    <3>6. ASSUME NEW x PROVE Contains(s \o t, x) <=> \E i \in 1..m : Contains(seqs[i], x)
      <4>1. Contains(s \o t, x) <=> Contains(s, x) \/ Contains(t, x)
        BY <3>3, JoinedContains
      <4>2. Contains(s, x) <=> \E i \in 1..(m - 1) : Contains(seqs[i], x)
        BY <3>1, <3>2
      <4>3. 1..m = (1..(m - 1)) \cup {m}
        OBVIOUS
      <4> QED
        BY <3>2, <4>1, <4>2, <4>3, Zenon
    <3>7. Good(f[m], m)
      BY <3>4, <3>5, <3>6, Zenon
    <3> QED
      BY <3>7
  <2>4. n \in H
    <3> HIDE DEF H
    <3> QED
      BY <2>0, <2>2, <2>3, UpTo
  <2> QED
    BY <2>1, <2>4
<1> QED
  BY <1>1, <1>2

(* kept are the fields of s at the first m indices that are in K, in order.*)
KeptBy(kept, s, K, m, g) ==
  /\ g \in [1..Len(kept) -> 1..m]
  /\ \A i, k \in 1..Len(kept) : i < k => g[i] < g[k]
  /\ \A k \in 1..Len(kept) : g[k] \in K /\ kept[k] = s[g[k]]
  /\ \A i \in 1..m : i \in K => \E k \in 1..Len(kept) : g[k] = i

(* One more index. *)
LEMMA KeptNext ==
  ASSUME NEW T, NEW s \in Seq(T), NEW K, NEW m \in Nat, m + 1 <= Len(s),
         NEW kept \in Seq(T), NEW g, KeptBy(kept, s, K, m, g),
         NEW more, more = IF m + 1 \in K THEN <<s[m + 1]>> ELSE << >>
  PROVE  kept \o more \in Seq(T) /\ \E h : KeptBy(kept \o more, s, K, m + 1, h)
<1> DEFINE n == Len(kept)
<1>0. n \in Nat /\ Len(s) \in Nat /\ m + 1 \in 1..Len(s)
  OBVIOUS
<1>1. CASE m + 1 \notin K
  <2>1. kept \o more = kept
    BY <1>1
  <2>2. KeptBy(kept, s, K, m + 1, g)
    <3>1. g \in [1..Len(kept) -> 1..(m + 1)]
      BY DEF KeptBy
    <3>2. \A i \in 1..(m + 1) : i \in K => i \in 1..m
      BY <1>1
    <3> QED
      BY <3>1, <3>2 DEF KeptBy
  <2> QED
    BY <2>1, <2>2
<1>2. CASE m + 1 \in K
  <2>1. PICK j : j = kept \o more
    OBVIOUS
  <2>2. more = <<s[m + 1]>> /\ s[m + 1] \in T
    BY <1>0, <1>2
  <2>3. /\ j \in Seq(T) /\ Len(j) = n + 1 /\ j[n + 1] = s[m + 1]
        /\ \A k \in 1..n : j[k] = kept[k]
    <3>1. PICK x \in T : x = s[m + 1]
      BY <2>2
    <3>2. j = kept \o <<x>>
      BY <2>1, <2>2, <3>1
    <3>3. <<x>> \in Seq(T) /\ Len(<<x>>) = 1 /\ <<x>>[1] = x
      OBVIOUS
    <3>4. /\ j \in Seq(T) /\ Len(j) = n + 1
          /\ \A k \in 1..(n + 1) : j[k] = IF k <= n THEN kept[k] ELSE <<x>>[k - n]
      BY <3>2, <3>3, ConcatProperties
    <3>5. j[n + 1] = x
      BY <1>0, <3>3, <3>4
    <3> QED
      BY <1>0, <3>1, <3>4, <3>5
  <2> DEFINE h == [k \in 1..(n + 1) |-> IF k = n + 1 THEN m + 1 ELSE g[k]]
  <2>4. \A k \in 1..(n + 1) : k # n + 1 => k \in 1..n /\ h[k] = g[k] /\ g[k] \in 1..m
    <3>1. \A k \in 1..(n + 1) : k # n + 1 => k \in 1..n
      BY <1>0
    <3> QED
      BY <3>1 DEF KeptBy
  <2>5. h[n + 1] = m + 1 /\ n + 1 \in 1..(n + 1)
    BY <1>0
  <2>6. h \in [1..Len(j) -> 1..(m + 1)]
    <3>1. \A k \in 1..(n + 1) : h[k] \in 1..(m + 1)
      BY <2>4, <2>5
    <3> QED
      BY <2>3, <3>1
  <2> HIDE DEF h
  <2>7. ASSUME NEW i \in 1..Len(j), NEW k \in 1..Len(j), i < k PROVE h[i] < h[k]
    <3>1. i \in 1..n /\ i # n + 1
      BY <1>0, <2>3, <2>7
    <3>2. CASE k = n + 1
      <4>1. i \in 1..(n + 1)
        BY <2>3, <2>7
      <4>2. h[i] \in 1..m /\ h[k] = m + 1
        BY <2>4, <2>5, <3>1, <3>2, <4>1
      <4> QED
        BY <4>2
    <3>3. CASE k # n + 1
      <4>1. k \in 1..n /\ h[i] = g[i] /\ h[k] = g[k]
        BY <2>3, <2>4, <2>7, <3>1, <3>3
      <4>2. g[i] < g[k]
        BY <2>7, <3>1, <4>1 DEF KeptBy
      <4> QED
        BY <4>1, <4>2
    <3> QED
      BY <3>2, <3>3
  <2>8. ASSUME NEW k \in 1..Len(j) PROVE h[k] \in K /\ j[k] = s[h[k]]
    <3>1. CASE k = n + 1
      BY <1>2, <2>3, <2>5, <3>1
    <3>2. CASE k # n + 1
      BY <2>3, <2>4, <3>2 DEF KeptBy
    <3> QED
      BY <3>1, <3>2
  <2>9. ASSUME NEW i \in 1..(m + 1), i \in K PROVE \E k \in 1..Len(j) : h[k] = i
    <3>1. CASE i = m + 1
      BY <2>3, <2>5, <3>1
    <3>2. CASE i # m + 1
      <4>1. i \in 1..m
        BY <3>2
      <4>2. PICK k \in 1..n : g[k] = i
        BY <2>9, <4>1 DEF KeptBy
      <4>3. k \in 1..(n + 1) /\ k # n + 1
        BY <1>0
      <4> QED
        BY <2>3, <2>4, <4>2, <4>3
    <3> QED
      BY <3>1, <3>2
  <2>10. KeptBy(j, s, K, m + 1, h)
    BY <2>6, <2>7, <2>8, <2>9 DEF KeptBy
  <2> QED
    BY <2>1, <2>3, <2>10
<1> QED
  BY <1>1, <1>2

(* What FieldsAt keeps, for the indices in K. *)
LEMMA KeptFields ==
  ASSUME NEW T, NEW s \in Seq(T), NEW K, NEW kept,
         kept = FlattenSeq([i \in 1..Len(s) |-> IF i \in K THEN <<s[i]>> ELSE << >>])
  PROVE  kept \in Seq(T) /\ \E g : KeptBy(kept, s, K, Len(s), g)
<1>1. PICK n \in Nat : n = Len(s)
  OBVIOUS
<1> DEFINE seqs == [i \in 1..n |-> IF i \in K THEN <<s[i]>> ELSE << >>]
<1>2. kept = FlattenSeq(seqs)
  BY <1>1
<1>3. seqs \in [1..n -> Seq(T)]
  <2>1. \A i \in 1..n : s[i] \in T
    BY <1>1
  <2> QED
    BY <2>1
<1>4. KeptBy(<< >>, s, K, 0, << >>)
  BY DEF KeptBy
<1>5. CASE n = 0
  <2>1. seqs = << >> /\ Len(seqs) = 0
    BY <1>5
  <2>2. kept = << >>
    BY <1>2, <2>1 DEF FlattenSeq
  <2>3. KeptBy(kept, s, K, Len(s), << >>)
    BY <1>1, <1>4, <1>5, <2>2, Zenon
  <2>4. kept \in Seq(T)
    BY <2>2
  <2> QED
    BY <2>3, <2>4, Zenon
<1>6. CASE n # 0
  <2>0. n \in Nat \ {0} /\ 1 \in 1..n /\ n \in 1..n
    BY <1>6
  <2>1. PICK f : /\ FlattenSeq(seqs) = f[n] /\ f[1] = seqs[1]
                 /\ \A i \in 1..n : i # 1 => f[i] = f[i - 1] \o seqs[i]
    <3> HIDE DEF seqs
    <3> QED
      BY <1>3, <2>0, FlattenSteps, ZenonT(40)
  <2> DEFINE Good(k, m) == k \in Seq(T) /\ \E g : KeptBy(k, s, K, m, g)
             H == {m \in 1..n : Good(f[m], m)}
  <2>2. \A i \in 1..n : seqs[i] = IF i \in K THEN <<s[i]>> ELSE << >>
    OBVIOUS
  <2> HIDE DEF seqs
  <2>3. 1 \in H
    <3>1. /\ << >> \o seqs[1] \in Seq(T)
          /\ \E h : KeptBy(<< >> \o seqs[1], s, K, 0 + 1, h)
      <4>1. /\ << >> \in Seq(T) /\ 0 \in Nat /\ 0 + 1 <= Len(s)
            /\ seqs[1] = IF 0 + 1 \in K THEN <<s[0 + 1]>> ELSE << >>
        BY <1>1, <2>0, <2>2
      <4> QED
        BY <1>4, <4>1, KeptNext, Zenon
    <3>2. << >> \o seqs[1] = seqs[1] /\ 0 + 1 = 1
      BY <1>3, <2>0
    <3> QED
      BY <2>0, <2>1, <3>1, <3>2
  <2>4. ASSUME NEW m \in 1..n, m # 1, m - 1 \in H PROVE m \in H
    <3>1. PICK p \in Nat : p = m - 1
      OBVIOUS
    <3>2. m = p + 1 /\ p + 1 <= Len(s)
      BY <1>1, <3>1
    <3>3. f[p] \in Seq(T) /\ \E g : KeptBy(f[p], s, K, p, g)
      BY <2>4, <3>1
    <3>4. seqs[m] = IF p + 1 \in K THEN <<s[p + 1]>> ELSE << >>
      BY <2>2, <3>2
    <3>5. f[p] \o seqs[m] \in Seq(T) /\ \E h : KeptBy(f[p] \o seqs[m], s, K, p + 1, h)
      BY <3>2, <3>3, <3>4, KeptNext, Zenon
    <3>6. f[m] = f[p] \o seqs[m]
      BY <2>1, <2>4, <3>1, Zenon
    <3>7. Good(f[m], m)
      BY <3>2, <3>5, <3>6, Zenon
    <3> QED
      BY <3>7
  <2>5. n \in H
    <3> HIDE DEF H
    <3> QED
      BY <2>0, <2>3, <2>4, UpTo
  <2> QED
    BY <1>1, <1>2, <2>1, <2>5, Zenon
<1> QED
  BY <1>5, <1>6

-----------------------------------------------------------------------------
(* The function inside factorial exists, and its values are positive. *)
Factorials(f, n) == f = [i \in 0..n |-> IF i = 0 THEN 1 ELSE i * f[i - 1]]

(* The recursive function factorial exists: it can be given up to each n. *)
LEMMA FactorialUpTo ==
  ASSUME NEW n \in Nat
  PROVE  \E f \in [0..n -> Nat \ {0}] : Factorials(f, n)
<1> DEFINE T == {m \in Nat : ~\E f \in [0..m -> Nat \ {0}] : Factorials(f, m)}
<1>1. SUFFICES ASSUME T # {} PROVE FALSE
  OBVIOUS
<1>2. T \subseteq Nat
  OBVIOUS
<1>3. PICK m \in T : \A y \in T : m <= y
  <2> HIDE DEF T
  <2> QED
    BY <1>1, <1>2, LeastNat
<1>4. m # 0
  <2> DEFINE f == [i \in 0..0 |-> 1]
  <2>1. f \in [0..0 -> Nat \ {0}] /\ Factorials(f, 0)
    BY DEF Factorials
  <2> QED
    BY <2>1
<1>5. PICK p \in Nat : m = p + 1
  BY <1>4
<1>6. p \notin T
  <2> HIDE DEF T
  <2> QED
    BY <1>3, <1>5
<1>7. PICK f \in [0..p -> Nat \ {0}] : Factorials(f, p)
  BY <1>6
<1> DEFINE g == [i \in 0..m |-> IF i = m THEN m * f[p] ELSE f[i]]
<1>8. \A i \in 0..m : i # m => i \in 0..p
  BY <1>5
<1>9. f[p] \in Nat \ {0} /\ m * f[p] \in Nat \ {0}
  <2>1. PICK a \in Nat \ {0} : a = f[p]
    BY <1>5
  <2>2. ASSUME NEW x \in Nat \ {0}, NEW y \in Nat \ {0} PROVE x * y \in Nat \ {0}
    BY <2>2
  <2>3. m \in Nat \ {0}
    BY <1>5
  <2> QED
    BY <2>1, <2>2, <2>3
<1>10. g \in [0..m -> Nat \ {0}]
  BY <1>8, <1>9
<1>11. \A i \in 0..m : g[i] = IF i = 0 THEN 1 ELSE i * g[i - 1]
  <2> SUFFICES ASSUME NEW i \in 0..m PROVE g[i] = IF i = 0 THEN 1 ELSE i * g[i - 1]
    OBVIOUS
  <2>1. CASE i = m
    <3>1. g[i - 1] = f[p] /\ g[i] = m * f[p] /\ i # 0
      BY <1>5, <2>1
    <3> QED
      BY <2>1, <3>1
  <2>2. CASE i # m
    <3>1. i \in 0..p /\ g[i] = f[i]
      BY <1>8, <2>2
    <3>2. f[i] = IF i = 0 THEN 1 ELSE i * f[i - 1]
      BY <1>7, <3>1 DEF Factorials
    <3>3. i # 0 => g[i - 1] = f[i - 1]
      BY <1>5, <3>1
    <3> QED
      BY <3>1, <3>2, <3>3
  <2> QED
    BY <2>1, <2>2
<1>12. Factorials(g, m)
  <2>1. PICK fac : fac = g
    OBVIOUS
  <2>2. fac \in [0..m -> Nat \ {0}] /\ \A i \in 0..m : fac[i] = IF i = 0 THEN 1 ELSE i * fac[i - 1]
    BY <1>10, <1>11, <2>1
  <2>3. fac = [i \in 0..m |-> IF i = 0 THEN 1 ELSE i * fac[i - 1]]
    BY <2>2
  <2> QED
    BY <2>1, <2>3 DEF Factorials
<1> QED
  BY <1>10, <1>12

(* Two such functions agree. *)
LEMMA FactorialsAgree ==
  ASSUME NEW n \in Nat, NEW m \in Nat, m <= n, NEW f, NEW g, Factorials(f, m), Factorials(g, n)
  PROVE  f[m] = g[m]
<1> DEFINE D == {i \in 0..m : f[i] # g[i]}
<1>1. SUFFICES ASSUME D # {} PROVE FALSE
  OBVIOUS
<1>2. D \subseteq Nat
  OBVIOUS
<1>3. PICK i \in D : \A y \in D : i <= y
  <2> HIDE DEF D
  <2> QED
    BY <1>1, <1>2, LeastNat
<1>4. i \in 0..m /\ i \in 0..n
  OBVIOUS
<1>5. /\ f[i] = IF i = 0 THEN 1 ELSE i * f[i - 1]
      /\ g[i] = IF i = 0 THEN 1 ELSE i * g[i - 1]
  BY <1>4 DEF Factorials
<1>6. i # 0
  BY <1>5
<1>7. f[i - 1] = g[i - 1]
  <2>1. i - 1 \in 0..m /\ i - 1 \notin D
    <3>1. i - 1 \in 0..m
      BY <1>4, <1>6
    <3>2. i - 1 \notin D
      <4> HIDE DEF D
      <4> QED
        BY <1>3, <1>4
    <3> QED
      BY <3>1, <3>2
  <2> QED
    BY <2>1
<1> QED
  BY <1>5, <1>6, <1>7

(* A factorial is a positive number, so that choose divides by no zero. *)
LEMMA FactorialPositive ==
  ASSUME NEW n \in Nat
  PROVE  factorial[n] \in Nat \ {0}
<1> DEFINE Of(m) == CHOOSE f \in [0..m -> Nat \ {0}] : Factorials(f, m)
           g == [m \in Nat |-> Of(m)[m]]
<1>1. \A m \in Nat : Of(m) \in [0..m -> Nat \ {0}] /\ Factorials(Of(m), m)
  BY FactorialUpTo
<1> HIDE DEF Of
<1>3. \A m \in Nat : g[m] = IF m = 0 THEN 1 ELSE m * g[m - 1]
  <2> SUFFICES ASSUME NEW m \in Nat PROVE g[m] = IF m = 0 THEN 1 ELSE m * g[m - 1]
    OBVIOUS
  <2>1. Of(m)[m] = IF m = 0 THEN 1 ELSE m * Of(m)[m - 1]
    BY <1>1 DEF Factorials
  <2>2. CASE m = 0
    BY <2>1, <2>2
  <2>3. CASE m # 0
    <3>1. PICK p \in Nat : p = m - 1
      BY <2>3
    <3>2. Of(p)[p] = Of(m)[p]
      <4>1. p <= m
        BY <3>1
      <4> QED
        BY <1>1, <4>1, FactorialsAgree
    <3> QED
      BY <2>1, <2>3, <3>1, <3>2
  <2> QED
    BY <2>2, <2>3
<1>4. PICK fac : fac = g
  OBVIOUS
<1>5. fac = [m \in Nat |-> IF m = 0 THEN 1 ELSE m * fac[m - 1]]
  BY <1>3, <1>4
<1>6. factorial = [m \in Nat |-> IF m = 0 THEN 1 ELSE m * factorial[m - 1]]
  BY <1>5 DEF factorial
<1> DEFINE D == {m \in Nat : factorial[m] \notin Nat \ {0}}
<1>7. D = {}
  <2>1. SUFFICES ASSUME D # {} PROVE FALSE
    OBVIOUS
  <2>2. D \subseteq Nat
    OBVIOUS
  <2>3. PICK i \in D : \A y \in D : i <= y
    <3> HIDE DEF D
    <3> QED
      BY <2>1, <2>2, LeastNat
  <2>4. i \in Nat /\ factorial[i] \notin Nat \ {0}
    OBVIOUS
  <2>5. factorial[i] = IF i = 0 THEN 1 ELSE i * factorial[i - 1]
    BY <1>6, <2>4
  <2>6. i # 0
    BY <2>4, <2>5
  <2>7. factorial[i - 1] \in Nat \ {0}
    <3>1. i - 1 \in Nat /\ i - 1 \notin D
      <4>1. i - 1 \in Nat
        BY <2>4, <2>6
      <4>2. i - 1 \notin D
        <5> HIDE DEF D
        <5> QED
          BY <2>3, <2>4
      <4> QED
        BY <4>1, <4>2
    <3> QED
      BY <3>1
  <2>8. ASSUME NEW x \in Nat \ {0}, NEW y \in Nat \ {0} PROVE x * y \in Nat \ {0}
    BY <2>8
  <2>9. i * factorial[i - 1] \in Nat \ {0}
    BY <2>4, <2>6, <2>7, <2>8
  <2> QED
    BY <2>4, <2>5, <2>6, <2>9
<1> QED
  BY <1>7

-----------------------------------------------------------------------------
(***************************************************************************)
(* The checks of a record throw errors of its columns.                     *)
(***************************************************************************)

(* The errors of a record, and those of a meta entry. *)
BodyErrors ==
  {e \in Errors : e.type \notin {"MetaSectionError", "DuplicationError"} /\ e.expected_value \in Values}

MetaErrors ==
  {e \in Errors : /\ e.type = "MetaSectionError"
                  /\ e.error_fix # "IRRECOVERABLE_VALUE" =>
                       IF e.field = "Number" THEN e.expected_value[1] \in Numbers
                                             ELSE e.expected_type \in TagTypes}

BodyTypes == ErrorTypes \ {"MetaSectionError", "DuplicationError"}

(* The keys by name. *)
LEMMA KeyNames ==
  {"", ".", "AD", "AF", "CICNADJ", "CIPOS", "CNP", "DB", "DP", "END", "GP", "GT",
   "IMPRECISE", "SVLEN", "XX", "XY"} \subseteq Keys
<1>1. DOMAIN KeyOrder = 1..16
  BY DEF KeyOrder
<1>2. \A i \in 1..16 : KeyOrder[i] \in Keys
  BY <1>1 DEF Keys, ToSet
<1>3. /\ KeyOrder[1] = "" /\ KeyOrder[2] = "."
      /\ KeyOrder[3] = "AD" /\ KeyOrder[4] = "AF"
      /\ KeyOrder[5] = "CICNADJ" /\ KeyOrder[6] = "CIPOS"
      /\ KeyOrder[7] = "CNP" /\ KeyOrder[8] = "DB"
      /\ KeyOrder[9] = "DP" /\ KeyOrder[10] = "END"
      /\ KeyOrder[11] = "GP" /\ KeyOrder[12] = "GT"
      /\ KeyOrder[13] = "IMPRECISE" /\ KeyOrder[14] = "SVLEN"
      /\ KeyOrder[15] = "XX" /\ KeyOrder[16] = "XY"
  BY DEF KeyOrder
<1>4. /\ 1 \in 1..16 /\ 2 \in 1..16 /\ 3 \in 1..16 /\ 4 \in 1..16 /\ 5 \in 1..16 /\ 6 \in 1..16
      /\ 7 \in 1..16 /\ 8 \in 1..16 /\ 9 \in 1..16 /\ 10 \in 1..16 /\ 11 \in 1..16 /\ 12 \in 1..16
      /\ 13 \in 1..16 /\ 14 \in 1..16 /\ 15 \in 1..16 /\ 16 \in 1..16
  OBVIOUS
<1>5. /\ "" \in Keys /\ "." \in Keys /\ "AD" \in Keys /\ "AF" \in Keys /\ "CICNADJ" \in Keys
      /\ "CIPOS" \in Keys /\ "CNP" \in Keys /\ "DB" \in Keys
  BY <1>2, <1>3, <1>4
<1>6. /\ "DP" \in Keys /\ "END" \in Keys /\ "GP" \in Keys /\ "GT" \in Keys
      /\ "IMPRECISE" \in Keys /\ "SVLEN" \in Keys /\ "XX" \in Keys /\ "XY" \in Keys
  BY <1>2, <1>3, <1>4
<1> QED
  BY <1>5, <1>6

(* An error that expects nothing. *)
LEMMA PlainError ==
  ASSUME NEW type \in ErrorTypes, NEW error_fix \in ErrorFixes, NEW field \in ErrorFields
  PROVE  /\ Error(type, error_fix, field) \in Errors
         /\ type \in BodyTypes => Error(type, error_fix, field) \in BodyErrors
<1>1. << >> \in Values /\ -1 \in Int
  BY DEF Values
<1>2. PICK e : e = Error(type, error_fix, field)
  OBVIOUS
<1>3. /\ e = [type |-> type, error_fix |-> error_fix, field |-> field,
                expected_value |-> << >>, expected_type |-> "", field_cardinality |-> -1]
      /\ << >> \in Values \cup Seq(Numbers)
  BY <1>1, <1>2 DEF Error
<1>4. e \in Errors /\ e.type = type /\ e.expected_value = << >>
  BY <1>1, <1>3 DEF Errors
<1> QED
  BY <1>1, <1>2, <1>4 DEF BodyErrors, BodyTypes

(* The errors of the checks. *)
LEMMA IrrecoverableError ==
  ASSUME NEW type \in BodyTypes, NEW field \in ErrorFields
  PROVE  Irrecoverable(type, field) \in BodyErrors
BY PlainError DEF Irrecoverable, ErrorFixes, BodyTypes

(* of a value that is repeated, *)
LEMMA DuplicatedError ==
  ASSUME NEW type \in BodyTypes
  PROVE  Duplicated(type) \in BodyErrors
BY PlainError, KeyNames DEF Duplicated, ErrorFixes, BodyTypes, ErrorFields

(* of a number that cannot be read, *)
LEMMA EscapeError == Escape \in BodyErrors
BY PlainError, KeyNames DEF Escape, ErrorFixes, ErrorTypes, BodyTypes, ErrorFields

(* of a genotype, *)
LEMMA GenotypeError ==
  ASSUME NEW cardinality \in Int, NEW type \in BodyTypes, NEW field \in ErrorFields
  PROVE  [Irrecoverable(type, field) EXCEPT !.field_cardinality = cardinality] \in BodyErrors
<1>1. PICK e \in BodyErrors : e = Irrecoverable(type, field)
  BY IrrecoverableError
<1>2. [e EXCEPT !.field_cardinality = cardinality] \in BodyErrors
  BY DEF BodyErrors, Errors
<1> QED
  BY <1>1, <1>2

(* and of a value that should be another one. *)
LEMMA ExpectingError ==
  ASSUME NEW field \in ErrorFields, NEW value \in Int
  PROVE  Expecting("InfoBodyError", field, value) \in BodyErrors
<1>1. <<value>> \in Values
  BY DEF Values, Tokens
<1>2. PICK e \in BodyErrors : e = Error("InfoBodyError", "RECOVERABLE_VALUE", field)
  BY PlainError DEF ErrorFixes, ErrorTypes, BodyTypes
<1>3. [e EXCEPT !.expected_value = <<value>>] \in BodyErrors
  BY <1>1 DEF BodyErrors, Errors
<1> QED
  BY <1>2, <1>3 DEF Expecting

(* A check that throws, and one that finds nothing. *)
LEMMA ThrowTyped ==
  ASSUME NEW S, NEW e \in S, NEW c
  PROVE  Throw(c, e) \in Seq(S)
BY DEF Throw, Nothing

(* No error at all. *)
LEMMA NothingTyped ==
  ASSUME NEW S
  PROVE  Nothing \in Seq(S)
BY DEF Nothing

(* The checks of a loop. *)
LEMMA LoopTyped ==
  ASSUME NEW S, NEW n \in Nat, NEW seqs, seqs = [i \in 1..n |-> seqs[i]],
         \A i \in 1..n : seqs[i] \in Seq(S)
  PROVE  FlattenSeq(seqs) \in Seq(S)
<1>1. seqs \in [1..n -> Seq(S)]
  OBVIOUS
<1> QED
  BY <1>1, FlattenContains

(* Two checks one after the other. *)
LEMMA JoinTyped ==
  ASSUME NEW S, NEW s \in Seq(S), NEW t \in Seq(S)
  PROVE  s \o t \in Seq(S)
OBVIOUS

(* What std::stold finds. *)
LEMMA UnitIntervalTyped ==
  ASSUME NEW value \in Values, NEW error \in BodyErrors
  PROVE  check_unit_interval(value, error) \in Seq(BodyErrors)
<1> DEFINE Check(i) == CASE value[i] = Missing  -> <<Escape>>
                         [] value[i] = Fraction -> Nothing
                         [] OTHER               -> Throw(value[i] \notin {0, 1}, error)
           seqs == [i \in 1..Len(value) |-> Check(i)]
<1>1. check_unit_interval(value, error) = FlattenSeq(seqs)
  BY Zenon DEF check_unit_interval, Each
<1>2. Len(value) \in Nat
  BY DEF Values
<1>3. ASSUME NEW i \in 1..Len(value) PROVE Check(i) \in Seq(BodyErrors)
  <2>1. <<Escape>> \in Seq(BodyErrors)
    BY EscapeError
  <2>2. Throw(value[i] \notin {0, 1}, error) \in Seq(BodyErrors)
    BY ThrowTyped
  <2> QED
    BY <2>1, <2>2, NothingTyped
<1>4. seqs = [i \in 1..Len(value) |-> seqs[i]] /\ \A i \in 1..Len(value) : seqs[i] \in Seq(BodyErrors)
  <2> HIDE DEF Check
  <2> QED
    BY <1>3
<1> HIDE DEF seqs
<1> QED
  BY <1>1, <1>2, <1>4, LoopTyped

(* The columns of a record. *)
LEMMA ColumnTypes ==
  ASSUME NEW line \in BodyLines
  PROVE  /\ line.kind = "body" /\ line.chromosome \in Text /\ line.position \in Nat
         /\ line.ids \in Seq(Text) /\ line.reference \in Nat
         /\ line.alternates \in Seq(AlleleTypes) /\ line.quality \in Int
         /\ line.filter \in Seq(Text) /\ line.info \in Seq(InfoFields)
         /\ line.format \in Seq(Keys) /\ line.samples \in Seq(Seq(Values))
BY DEF BodyLines

(* SVLEN against the size of each allele. *)
LEMMA SvlenTyped ==
  ASSUME NEW line \in BodyLines, NEW value
  PROVE  check_svlen(line, value) \in Seq(BodyErrors)
<1> DEFINE expected(i) == line.alternates[i].size - line.reference
           Check(i) ==
             CASE line.alternates[i].form = "bases" ->
                    Throw(value[i] # expected(i), Expecting("InfoBodyError", "SVLEN", expected(i)))
               [] line.alternates[i].form \in {"<INS", "<DUP", "<DEL"} /\ value[i] \in Specials -> <<Escape>>
               [] line.alternates[i].form \in {"<INS", "<DUP"} /\ value[i] \notin Specials ->
                    Throw(value[i] < 0, Irrecoverable("InfoBodyError", "SVLEN"))
               [] line.alternates[i].form = "<DEL" /\ value[i] \notin Specials ->
                    Throw(value[i] > 0, Irrecoverable("InfoBodyError", "SVLEN"))
               [] OTHER -> Nothing
           n == Len(line.alternates)
           seqs == [i \in 1..n |-> Check(i)]
<1>1. check_svlen(line, value) = FlattenSeq(seqs)
  BY Zenon DEF check_svlen, Each
<1>2. n \in Nat /\ line.reference \in Nat /\ line.alternates \in Seq(AlleleTypes)
  BY ColumnTypes
<1>3. "SVLEN" \in ErrorFields /\ "InfoBodyError" \in BodyTypes
  BY KeyNames DEF ErrorFields, BodyTypes, ErrorTypes
<1>4. ASSUME NEW i \in 1..n PROVE Check(i) \in Seq(BodyErrors)
  <2>1. <<Escape>> \in Seq(BodyErrors) /\ Nothing \in Seq(BodyErrors)
    BY EscapeError, NothingTyped
  <2>2. line.alternates[i].size \in Nat
    <3>1. PICK a \in AlleleTypes : a = line.alternates[i]
      BY <1>2
    <3> QED
      BY <3>1 DEF AlleleTypes
  <2>3. expected(i) \in Int
    BY <1>2, <2>2
  <2>4. Expecting("InfoBodyError", "SVLEN", expected(i)) \in BodyErrors
    BY <1>3, <2>3, ExpectingError
  <2>5. Irrecoverable("InfoBodyError", "SVLEN") \in BodyErrors
    BY <1>3, IrrecoverableError
  <2> HIDE DEF expected
  <2>6. \A c : Throw(c, Irrecoverable("InfoBodyError", "SVLEN")) \in Seq(BodyErrors)
               /\ Throw(c, Expecting("InfoBodyError", "SVLEN", expected(i))) \in Seq(BodyErrors)
    BY <2>4, <2>5, ThrowTyped
  <2> QED
    BY <2>1, <2>6, Zenon
<1>5. seqs = [i \in 1..n |-> seqs[i]] /\ \A i \in 1..n : seqs[i] \in Seq(BodyErrors)
  <2> HIDE DEF Check, n
  <2> QED
    BY <1>4
<1> HIDE DEF seqs, n
<1> QED
  BY <1>1, <1>2, <1>5, LoopTyped

(* A tag with a meaning of its own. *)
LEMMA StrictInfoTyped ==
  ASSUME NEW line \in BodyLines, NEW key, NEW value \in Values
  PROVE  strict_validation_info_predefined_tags(line, key, value) \in Seq(BodyErrors)
<1>1. "AF" \in ErrorFields /\ "END" \in ErrorFields /\ "InfoBodyError" \in BodyTypes
  BY KeyNames DEF ErrorFields, BodyTypes, ErrorTypes
<1>2. check_unit_interval(value, Irrecoverable("InfoBodyError", "AF")) \in Seq(BodyErrors)
  BY <1>1, IrrecoverableError, UnitIntervalTyped
<1>3. ExpectedEnd(line) \in Int
  BY ColumnTypes DEF ExpectedEnd
<1>4. \A c : Throw(c, Expecting("InfoBodyError", "END", ExpectedEnd(line))) \in Seq(BodyErrors)
  BY <1>1, <1>3, ExpectingError, ThrowTyped
<1>5. check_svlen(line, value) \in Seq(BodyErrors)
  BY SvlenTyped
<1>6. Nothing \in Seq(BodyErrors)
  BY NothingTyped
<1> QED
  BY <1>2, <1>4, <1>5, <1>6, Zenon DEF strict_validation_info_predefined_tags

(* A field of INFO. *)
LEMMA InfoFieldTyped ==
  ASSUME NEW source, NEW line \in BodyLines, NEW field \in InfoFields
  PROVE  InfoValue(field) \in Values /\ check_info_field(source, line, field) \in Seq(BodyErrors)
<1>1. InfoValue(field) \in Values
  <2>1. field.parts \in Seq(Values)
    BY DEF InfoFields
  <2>2. << >> \in Values
    BY DEF Values
  <2>3. field.parts # << >> => field.parts[1] \in Values
    BY <2>1
  <2> QED
    BY <2>2, <2>3 DEF InfoValue
<1>2. field.key \in ErrorFields /\ "InfoBodyError" \in BodyTypes
  BY DEF InfoFields, ErrorFields, BodyTypes, ErrorTypes
<1>3. \A c : Throw(c, Irrecoverable("InfoBodyError", field.key)) \in Seq(BodyErrors)
  BY <1>2, IrrecoverableError, ThrowTyped
<1>4. strict_validation_info_predefined_tags(line, field.key, InfoValue(field)) \in Seq(BodyErrors)
  BY <1>1, StrictInfoTyped
<1>5. \A c : Throw(c, Irrecoverable("InfoBodyError", field.key))
              \o strict_validation_info_predefined_tags(line, field.key, InfoValue(field)) \in Seq(BodyErrors)
  BY <1>3, <1>4, JoinTyped
<1>6. Nothing \in Seq(BodyErrors)
  BY NothingTyped
<1> QED
  BY <1>1, <1>5, <1>6, Zenon DEF check_info_field

(* INFO, in the order of the multimap. *)
LEMMA InfoTyped ==
  ASSUME NEW source, NEW line \in BodyLines
  PROVE  check_info(source, line) \in Seq(BodyErrors)
<1> DEFINE n == Len(line.info)
           Check(k, i) == IF line.info[i].key = KeyOrder[k]
                            THEN check_info_field(source, line, line.info[i]) ELSE Nothing
           turn == [k \in 1..Len(KeyOrder) |-> [i \in 1..n |-> Check(k, i)]]
           seqs == [k \in 1..Len(KeyOrder) |-> FlattenSeq([i \in 1..n |-> Check(k, i)])]
           first == Throw(source.version = "v43" /\ HasDuplicates(KeysOf(line.info)), Duplicated("InfoBodyError"))
<1>1. check_info(source, line) = first \o FlattenSeq(seqs)
  BY Zenon DEF check_info, Each
<1>2. first \in Seq(BodyErrors)
  BY DuplicatedError, ThrowTyped DEF BodyTypes, ErrorTypes
<1>3. n \in Nat /\ \A i \in 1..n : line.info[i] \in InfoFields
  BY ColumnTypes
<1>4. \A k, i : i \in 1..n => Check(k, i) \in Seq(BodyErrors)
  BY <1>3, InfoFieldTyped, NothingTyped
<1> HIDE DEF Check, n, first
<1>5. ASSUME NEW k \in 1..Len(KeyOrder)
      PROVE  FlattenSeq([i \in 1..n |-> Check(k, i)]) \in Seq(BodyErrors)
  <2> DEFINE fields == [i \in 1..n |-> Check(k, i)]
  <2>1. fields = [i \in 1..n |-> fields[i]] /\ \A i \in 1..n : fields[i] \in Seq(BodyErrors)
    BY <1>4
  <2> HIDE DEF fields
  <2>2. FlattenSeq(fields) \in Seq(BodyErrors)
    BY <1>3, <2>1, LoopTyped
  <2> QED
    BY <2>2 DEF fields
<1>6. /\ seqs = [k \in 1..Len(KeyOrder) |-> seqs[k]]
      /\ \A k \in 1..Len(KeyOrder) : seqs[k] \in Seq(BodyErrors)
  BY <1>5, Zenon
<1>7. Len(KeyOrder) \in Nat
  BY DEF KeyOrder
<1> HIDE DEF seqs
<1>8. FlattenSeq(seqs) \in Seq(BodyErrors)
  BY <1>6, <1>7, LoopTyped
<1> QED
  BY <1>1, <1>2, <1>8, JoinTyped

(* The meta entries that describe a key. *)
LEMMA DescribedTyped ==
  ASSUME NEW source, source.meta_entries \in Seq(MetaLines), NEW column, NEW key
  PROVE  /\ DescribedBy(source, column, key) \in Seq(MetaLines)
         /\ \A k \in 1..Len(DescribedBy(source, column, key)) :
              LET entry == DescribedBy(source, column, key)[k]
              IN  /\ entry.column = column /\ entry.id = key
                  /\ \E i \in 1..Len(source.meta_entries) : entry = source.meta_entries[i]
<1>1. PICK s \in Seq(MetaLines) : s = source.meta_entries
  OBVIOUS
<1> DEFINE K == {i \in 1..Len(s) : s[i].column = column /\ s[i].id = key}
           kept == DescribedBy(source, column, key)
<1>2. kept = FlattenSeq([i \in 1..Len(s) |-> IF s[i].column = column /\ s[i].id = key THEN <<s[i]>> ELSE << >>])
  BY <1>1, Zenon DEF DescribedBy, FieldsAt
<1>3. \A i \in 1..Len(s) : i \in K <=> (s[i].column = column /\ s[i].id = key)
  OBVIOUS
<1>4. kept = FlattenSeq([i \in 1..Len(s) |-> IF i \in K THEN <<s[i]>> ELSE << >>])
  <2> HIDE DEF K, kept
  <2>1. [i \in 1..Len(s) |-> IF s[i].column = column /\ s[i].id = key THEN <<s[i]>> ELSE << >>]
         = [i \in 1..Len(s) |-> IF i \in K THEN <<s[i]>> ELSE << >>]
    BY <1>3
  <2> QED
    BY <1>2, <2>1, Zenon
<1> HIDE DEF K, kept
<1>5. kept \in Seq(MetaLines) /\ \E g : KeptBy(kept, s, K, Len(s), g)
  BY <1>4, KeptFields, ZenonT(40)
<1>6. PICK g : KeptBy(kept, s, K, Len(s), g)
  BY <1>5
<1>7. ASSUME NEW k \in 1..Len(kept)
      PROVE  /\ kept[k].column = column /\ kept[k].id = key
             /\ \E i \in 1..Len(s) : kept[k] = s[i]
  <2>1. g[k] \in 1..Len(s) /\ g[k] \in K /\ kept[k] = s[g[k]]
    BY <1>6 DEF KeptBy
  <2> QED
    BY <1>3, <2>1
<1> QED
  BY <1>1, <1>5, <1>7 DEF kept

(* The number of values that is expected. *)
LEMMA CardinalityTyped ==
  ASSUME NEW line \in BodyLines, NEW number \in Numbers
  PROVE  is_valid_cardinality(line, number) \in Int
<1>1. PICK a \in Nat : a = Len(line.alternates)
  BY ColumnTypes
<1>2. PICK p \in Nat : p = get_ploidy(line.chromosome)
  BY PloidyConstants DEF get_ploidy
<1>3. choose(a + p, p) \in Int
  <2>1. PICK x \in Nat, y \in Nat \ {0}, z \in Nat \ {0} :
          x = factorial[a + p] /\ y = factorial[p] /\ z = factorial[a + p - p]
    <3>1. a + p \in Nat /\ a + p - p \in Nat
      OBVIOUS
    <3> QED
      BY <3>1, FactorialPositive
  <2>2. y * z \in Nat \ {0}
    BY <2>1
  <2>3. choose(a + p, p) = x \div (y * z)
    BY <2>1 DEF choose
  <2> QED
    BY <2>2, <2>3
<1>4. number \notin {A, R, G, Missing} => number \in Nat
  BY DEF Numbers
<1> QED
  BY <1>1, <1>2, <1>3, <1>4 DEF is_valid_cardinality

(* The types of errors that a record may have. *)
LEMMA TypeNames ==
  /\ {"ChromosomeBodyError", "IdBodyError", "AlternateAllelesBodyError", "QualityBodyError",
      "FilterBodyError", "InfoBodyError", "FormatBodyError", "SamplesBodyError",
      "SamplesFieldBodyError"} \subseteq BodyTypes
  /\ {"", "0", "GT"} \subseteq ErrorFields /\ Keys \subseteq ErrorFields
BY KeyNames DEF BodyTypes, ErrorTypes, ErrorFields

(* Genotypes. *)
LEMMA AllelesTyped ==
  ASSUME NEW line \in BodyLines, NEW sample
  PROVE  check_sample_alleles(line, sample) \in Seq(BodyErrors)
<1>1. get_ploidy(line.chromosome) \in Int
  BY PloidyConstants DEF get_ploidy
<1>2. Genotype(get_ploidy(line.chromosome)) \in BodyErrors
  BY <1>1, GenotypeError, TypeNames DEF Genotype
<1> QED
  BY <1>2, ThrowTyped, Zenon DEF check_sample_alleles

(* One value of a sample. *)
LEMMA SubfieldTyped ==
  ASSUME NEW source, source.meta_entries \in Seq(MetaLines), NEW line \in BodyLines,
         NEW key \in Keys, NEW value \in Values
  PROVE  check_subfield(source, line, key, value) \in Seq(BodyErrors)
<1> DEFINE entries == DescribedBy(source, "FORMAT", key)
           number  == IF entries = << >> THEN -1 ELSE is_valid_cardinality(line, entries[1].Number)
           error   == Irrecoverable("SamplesFieldBodyError", key)
           last == IF key = "GP" \/ (key = "CNP" /\ source.version = "v43")
                     THEN check_unit_interval(value, error) ELSE Nothing
           first == Throw(~MatchesMetaOrTags(source, line, "FORMAT", key, value, FormatTags(source)),
                          [error EXCEPT !.field_cardinality = number])
<1>1. check_subfield(source, line, key, value) = first \o last
  BY Zenon DEF check_subfield
<1>2. number \in Int
  <2>1. CASE entries = << >>
    BY <2>1
  <2>2. CASE entries # << >>
    <3>1. entries \in Seq(MetaLines)
      BY DescribedTyped
    <3>2. entries[1] \in MetaLines
      <4> HIDE DEF entries
      <4> QED
        BY <2>2, <3>1
    <3>3. entries[1].Number \in Numbers
      BY <3>2 DEF MetaLines
    <3>4. is_valid_cardinality(line, entries[1].Number) \in Int
      BY <3>3, CardinalityTyped
    <3> QED
      BY <2>2, <3>4
  <2> QED
    BY <2>1, <2>2
<1> HIDE DEF entries, number
<1>3. error \in BodyErrors
  BY IrrecoverableError, TypeNames
<1>4. [error EXCEPT !.field_cardinality = number] \in BodyErrors
  BY <1>2, GenotypeError, TypeNames
<1> HIDE DEF error
<1>5. first \in Seq(BodyErrors)
  BY <1>4, ThrowTyped
<1>6. last \in Seq(BodyErrors)
  BY <1>3, UnitIntervalTyped, NothingTyped
<1> HIDE DEF first, last
<1> QED
  BY <1>1, <1>5, <1>6, JoinTyped

(* A sample. *)
LEMMA SampleTyped ==
  ASSUME NEW source, source.meta_entries \in Seq(MetaLines), NEW line \in BodyLines,
         NEW sample \in Seq(Values)
  PROVE  check_sample(source, line, sample) \in Seq(BodyErrors)
<1> DEFINE n == Min({Len(sample), Len(line.format)})
           seqs == [j \in 1..n |-> check_subfield(source, line, line.format[j], sample[j])]
           first == Throw(Len(sample) > Len(line.format), Irrecoverable("SamplesBodyError", ""))
           second == IF line.format[1] = "GT" THEN check_sample_alleles(line, sample) ELSE Nothing
<1>1. check_sample(source, line, sample) = first \o second \o FlattenSeq(seqs)
  BY Zenon DEF check_sample, Each
<1>2. first \in Seq(BodyErrors) /\ second \in Seq(BodyErrors)
  BY IrrecoverableError, TypeNames, ThrowTyped, AllelesTyped, NothingTyped
<1>3. line.format \in Seq(Keys)
  BY ColumnTypes
<1>4. n \in Nat /\ n <= Len(sample) /\ n <= Len(line.format)
  <2>1. PICK a \in Nat, b \in Nat : a = Len(sample) /\ b = Len(line.format)
    BY <1>3
  <2>2. \E x \in {a, b} : \A y \in {a, b} : x <= y
    <3>1. CASE a <= b
      BY <3>1
    <3>2. CASE b <= a
      BY <3>2
    <3> QED
      BY <3>1, <3>2
  <2>3. Min({a, b}) \in {a, b} /\ \A y \in {a, b} : Min({a, b}) <= y
    BY <2>2, Zenon DEF Min
  <2> QED
    BY <2>1, <2>3
<1> HIDE DEF n
<1>5. ASSUME NEW j \in 1..n
      PROVE  check_subfield(source, line, line.format[j], sample[j]) \in Seq(BodyErrors)
  <2>1. line.format[j] \in Keys /\ sample[j] \in Values
    BY <1>3, <1>4
  <2> QED
    BY <2>1, SubfieldTyped
<1>6. seqs = [j \in 1..n |-> seqs[j]] /\ \A j \in 1..n : seqs[j] \in Seq(BodyErrors)
  BY <1>5, Zenon
<1> HIDE DEF seqs, first, second
<1>7. FlattenSeq(seqs) \in Seq(BodyErrors)
  BY <1>4, <1>6, LoopTyped
<1> QED
  BY <1>1, <1>2, <1>7, JoinTyped

(* All samples. *)
LEMMA SamplesTyped ==
  ASSUME NEW source, source.meta_entries \in Seq(MetaLines), NEW line \in BodyLines
  PROVE  check_samples(source, line) \in Seq(BodyErrors)
<1> DEFINE n == Len(line.samples)
           seqs == [i \in 1..n |-> check_sample(source, line, line.samples[i])]
           first == Throw(Len(line.samples) # source.samples_names, Irrecoverable("SamplesBodyError", ""))
<1>1. check_samples(source, line) = first \o FlattenSeq(seqs)
  BY Zenon DEF check_samples, Each
<1>2. first \in Seq(BodyErrors)
  BY IrrecoverableError, TypeNames, ThrowTyped
<1>3. n \in Nat /\ \A i \in 1..n : line.samples[i] \in Seq(Values)
  BY ColumnTypes
<1> HIDE DEF n
<1>4. \A i \in 1..n : check_sample(source, line, line.samples[i]) \in Seq(BodyErrors)
  BY <1>3, SampleTyped
<1>5. seqs = [i \in 1..n |-> seqs[i]] /\ \A i \in 1..n : seqs[i] \in Seq(BodyErrors)
  BY <1>4, Zenon
<1> HIDE DEF seqs, first
<1>6. FlattenSeq(seqs) \in Seq(BodyErrors)
  BY <1>3, <1>5, LoopTyped
<1> QED
  BY <1>1, <1>2, <1>6, JoinTyped

(* The constructor of Record. *)
LEMMA RecordParts ==
  ASSUME NEW source, source.meta_entries \in Seq(MetaLines), NEW line \in BodyLines
  PROVE  /\ check_chromosome(line) \o check_ids(source, line) \o check_alternate_alleles(line)
              \o check_quality(line) \o check_filter(source, line) \in Seq(BodyErrors)
         /\ check_info(source, line) \in Seq(BodyErrors)
         /\ check_format(source, line) \in Seq(BodyErrors)
         /\ check_samples(source, line) \in Seq(BodyErrors)
<1>1. check_chromosome(line) \in Seq(BodyErrors)
  BY IrrecoverableError, TypeNames, ThrowTyped DEF check_chromosome
<1>2. check_ids(source, line) \in Seq(BodyErrors)
  BY DuplicatedError, TypeNames, ThrowTyped DEF check_ids
<1>3. check_alternate_alleles(line) \in Seq(BodyErrors)
  <2>1. Irrecoverable("AlternateAllelesBodyError", "") \in BodyErrors
    BY IrrecoverableError, TypeNames
  <2> QED
    BY <2>1, ThrowTyped, Zenon DEF check_alternate_alleles
<1>4. check_quality(line) \in Seq(BodyErrors)
  BY IrrecoverableError, TypeNames, ThrowTyped DEF check_quality
<1>5. check_filter(source, line) \in Seq(BodyErrors)
  <2>1. \A c : Throw(c, Duplicated("FilterBodyError")) \in Seq(BodyErrors)
    BY DuplicatedError, TypeNames, ThrowTyped
  <2>2. \A c : Throw(c, Irrecoverable("FilterBodyError", "0")) \in Seq(BodyErrors)
    BY IrrecoverableError, TypeNames, ThrowTyped
  <2> QED
    BY <2>1, <2>2, JoinTyped, Zenon DEF check_filter
<1>6. check_info(source, line) \in Seq(BodyErrors)
  BY InfoTyped
<1>7. check_format(source, line) \in Seq(BodyErrors)
  <2>1. \A c : Throw(c, Duplicated("FormatBodyError")) \in Seq(BodyErrors)
    BY DuplicatedError, TypeNames, ThrowTyped
  <2>2. \A c : Throw(c, Irrecoverable("FormatBodyError", "")) \in Seq(BodyErrors)
    BY IrrecoverableError, TypeNames, ThrowTyped
  <2> QED
    BY <2>1, <2>2, JoinTyped, Zenon DEF check_format
<1>8. check_samples(source, line) \in Seq(BodyErrors)
  BY SamplesTyped
<1> QED
  BY <1>1, <1>2, <1>3, <1>4, <1>5, <1>6, <1>7, <1>8, JoinTyped

(* All of them. *)
LEMMA RecordTyped ==
  ASSUME NEW source, source.meta_entries \in Seq(MetaLines), NEW line \in BodyLines
  PROVE  Record(source, line) \in Seq(BodyErrors)
BY RecordParts, JoinTyped, Zenon DEF Record

(* What the grammar refuses in samples, *)
SamplesRefused(line) == Each(Len(line.samples), LAMBDA i : grammar_sample(line.format, line.samples[i]))

(* The refusals of the samples are errors of the body. *)
LEMMA SamplesRefusedTyped ==
  ASSUME NEW line \in BodyLines
  PROVE  SamplesRefused(line) \in Seq(BodyErrors)
<1>1. ASSUME NEW sample PROVE grammar_sample(line.format, sample) \in Seq(BodyErrors)
  <2>0. -1 \in Int
    OBVIOUS
  <2>1. Genotype(-1) \in BodyErrors
    BY <2>0, GenotypeError, TypeNames DEF Genotype
  <2>2. Irrecoverable("SamplesBodyError", "") \in BodyErrors
    BY IrrecoverableError, TypeNames
  <2>3. \A c : Throw(c, Genotype(-1)) \in Seq(BodyErrors)
              /\ Throw(c, Irrecoverable("SamplesBodyError", "")) \in Seq(BodyErrors)
    BY <2>1, <2>2, ThrowTyped
  <2> QED
    BY <2>3, JoinTyped, Zenon DEF grammar_sample
<1> DEFINE n == Len(line.samples)
           seqs == [i \in 1..n |-> grammar_sample(line.format, line.samples[i])]
<1>2. SamplesRefused(line) = FlattenSeq(seqs)
  BY Zenon DEF SamplesRefused, Each
<1>3. n \in Nat
  BY ColumnTypes
<1>4. seqs = [i \in 1..n |-> seqs[i]] /\ \A i \in 1..n : seqs[i] \in Seq(BodyErrors)
  BY <1>1, Zenon
<1> HIDE DEF seqs, n
<1>5. FlattenSeq(seqs) \in Seq(BodyErrors)
  BY <1>3, <1>4, LoopTyped
<1> QED
  BY <1>2, <1>5

(* and in a record. *)
LEMMA GrammarTyped ==
  ASSUME NEW line \in BodyLines
  PROVE  grammar_record(line) \in Seq(BodyErrors)
<1>1. \E c, d : grammar_record(line) = Throw(c, Irrecoverable("InfoBodyError", ""))
                 \o Throw(d, Irrecoverable("FormatBodyError", "")) \o SamplesRefused(line)
  BY Zenon DEF grammar_record, SamplesRefused
<1>2. \A c : Throw(c, Irrecoverable("InfoBodyError", "")) \in Seq(BodyErrors)
             /\ Throw(c, Irrecoverable("FormatBodyError", "")) \in Seq(BodyErrors)
  BY IrrecoverableError, TypeNames, ThrowTyped
<1> QED
  BY <1>1, <1>2, SamplesRefusedTyped, JoinTyped

(* The error of a record. *)
LEMMA BodyErrorTyped ==
  ASSUME NEW source, source.meta_entries \in Seq(MetaLines), NEW line \in BodyLines,
         NEW e, BodyError(source, line) = <<e>>
  PROVE  e \in BodyErrors
<1>1. PICK checks \in Seq(BodyErrors) : BodyError(source, line) = FirstThrown(checks)
  BY GrammarTyped, RecordTyped DEF BodyError
<1>2. checks # << >> /\ e = checks[1]
  BY <1>1 DEF FirstThrown, Nothing
<1> QED
  BY <1>2

-----------------------------------------------------------------------------
(***************************************************************************)
(* The checks of a meta entry.                                             *)
(***************************************************************************)

(* The predefined tags. *)
Tags == [Type : TagTypes, Number : Numbers]

(* The predefined tags have the numbers and types of entries. *)
LEMMA TagsTyped ==
  ASSUME NEW source
  PROVE  \A tags \in {InfoTags(source), FormatTags(source)} :
           \A key \in DOMAIN tags : tags[key] \in Tags
<1>1. {0, 1, 2, A, R, G, Missing} \subseteq Numbers /\ TagTypes = {"Integer", "Float", "Flag", "String"}
  BY DEF Numbers, TagTypes
<1>2. \A type \in TagTypes, number \in Numbers : Tag(type, number) \in Tags
  BY DEF Tag, Tags
<1>3. \A key \in DOMAIN info_v41_v42 : info_v41_v42[key] \in Tags
  BY <1>1, <1>2 DEF info_v41_v42
<1>4. \A key \in DOMAIN info_v43 : info_v43[key] \in Tags
  BY <1>1, <1>2 DEF info_v43
<1>5. \A key \in DOMAIN format_v41_v42 : format_v41_v42[key] \in Tags
  BY <1>1, <1>2 DEF format_v41_v42
<1>6. \A key \in DOMAIN format_v43 : format_v43[key] \in Tags
  BY <1>1, <1>2 DEF format_v43
<1> QED
  BY <1>3, <1>4, <1>5, <1>6 DEF InfoTags, FormatTags

(* What the check of a meta entry may find, and what it leaves. *)
LEMMA MetaErrorTyped ==
  ASSUME NEW v, NEW line
  PROVE  /\ \A e : MetaError(v, line) = <<e>> => e \in MetaErrors
         /\ MetaError(v, line) = Nothing =>
              LET tags == IF line.column = "INFO" THEN InfoTags([version |-> v])
                                                  ELSE FormatTags([version |-> v])
              IN  line.id \in DOMAIN tags => tags[line.id].Number \in {Missing, line.Number}
<1> DEFINE source == [version |-> v]
           tags   == IF line.column = "INFO" THEN InfoTags(source) ELSE FormatTags(source)
           known  == line.id \in DOMAIN tags
           types  == {"Integer", "Float", "Character", "String"}
                       \cup (IF line.column = "INFO" THEN {"Flag"} ELSE {})
           e1 == Irrecoverable("MetaSectionError", "")
           e2 == Expecting("MetaSectionError", "Number", tags[line.id].Number)
           e3 == [Error("MetaSectionError", "RECOVERABLE_VALUE", "Type")
                    EXCEPT !.expected_type = tags[line.id].Type]
           c1 == line.Type \notin types
           c2 == known /\ tags[line.id].Number \notin {Missing, line.Number}
           c3 == known /\ tags[line.id].Type # line.Type
<1>1. MetaError(v, line) = FirstThrown(Throw(c1, e1) \o Throw(c2, e2) \o Throw(c3, e3))
  BY Zenon DEF MetaError
<1>2. known => tags[line.id] \in Tags
  BY TagsTyped
<1> HIDE DEF tags
<1>3. "MetaSectionError" \in ErrorTypes /\ {"RECOVERABLE_VALUE", "IRRECOVERABLE_VALUE"} \subseteq ErrorFixes
        /\ {"", "Number", "Type"} \subseteq ErrorFields
  BY KeyNames DEF ErrorTypes, ErrorFixes, ErrorFields
<1>4. e1 \in MetaErrors
  <2>1. e1 \in Errors
    BY <1>3, PlainError DEF Irrecoverable
  <2> QED
    BY <2>1 DEF MetaErrors, Irrecoverable, Error
<1>5. c2 => e2 \in MetaErrors
  <2>1. SUFFICES ASSUME c2 PROVE e2 \in MetaErrors
    OBVIOUS
  <2>2. PICK number \in Numbers : number = tags[line.id].Number
    BY <1>2, <2>1 DEF Tags
  <2>3. PICK e \in Errors : e = Error("MetaSectionError", "RECOVERABLE_VALUE", "Number")
    BY <1>3, PlainError
  <2>4. e.type = "MetaSectionError" /\ e.field = "Number"
    BY <2>3 DEF Error
  <2>5. <<number>> \in Seq(Numbers) /\ <<number>>[1] = number
    OBVIOUS
  <2>6. [e EXCEPT !.expected_value = <<number>>] \in MetaErrors
    BY <2>4, <2>5 DEF Errors, MetaErrors
  <2> QED
    BY <2>2, <2>3, <2>6 DEF Expecting
<1>6. c3 => e3 \in MetaErrors
  <2>1. SUFFICES ASSUME c3 PROVE e3 \in MetaErrors
    OBVIOUS
  <2>2. PICK type \in TagTypes : type = tags[line.id].Type
    BY <1>2, <2>1 DEF Tags
  <2>3. PICK e \in Errors : e = Error("MetaSectionError", "RECOVERABLE_VALUE", "Type")
    BY <1>3, PlainError
  <2>4. e.type = "MetaSectionError" /\ e.field = "Type"
    BY <2>3 DEF Error
  <2>5. [e EXCEPT !.expected_type = type] \in MetaErrors
    BY <2>4 DEF Errors, MetaErrors
  <2> QED
    BY <2>2, <2>3, <2>5
<1> HIDE DEF e1, e2, e3, c1
<1>7. /\ Throw(c1, e1) \in Seq(MetaErrors)
      /\ Throw(c2, e2) \in Seq(MetaErrors) /\ (Throw(c2, e2) = << >> => ~c2)
      /\ Throw(c3, e3) \in Seq(MetaErrors)
  BY <1>4, <1>5, <1>6 DEF Throw, Nothing
<1>8. PICK t1, t2, t3 : t1 = Throw(c1, e1) /\ t2 = Throw(c2, e2) /\ t3 = Throw(c3, e3)
  OBVIOUS
<1>9. PICK s : s = t1 \o t2 \o t3
  OBVIOUS
<1>10. s \in Seq(MetaErrors) /\ (s = << >> => t2 = << >>)
  <2> HIDE DEF MetaErrors
  <2>1. t1 \in Seq(MetaErrors) /\ t2 \in Seq(MetaErrors) /\ t3 \in Seq(MetaErrors)
    BY <1>7, <1>8
  <2>2. s \in Seq(MetaErrors) /\ Len(s) = Len(t1) + Len(t2) + Len(t3)
    BY <1>9, <2>1
  <2> QED
    BY <2>1, <2>2
<1>11. MetaError(v, line) = FirstThrown(s)
  BY <1>1, <1>8, <1>9
<1>12. \A e : MetaError(v, line) = <<e>> => e \in MetaErrors
  <2> SUFFICES ASSUME NEW e, FirstThrown(s) = <<e>> PROVE e \in MetaErrors
    BY <1>11
  <2>1. s # << >> /\ e = s[1]
    BY DEF FirstThrown, Nothing
  <2> QED
    BY <1>10, <2>1
<1>13. MetaError(v, line) = Nothing => ~c2
  <2>1. FirstThrown(s) = Nothing => s = << >>
    BY DEF FirstThrown, Nothing
  <2> QED
    BY <1>7, <1>8, <1>10, <1>11, <2>1
<1> QED
  BY <1>12, <1>13, Zenon DEF tags

(* What the validator knows when it comes to a record. *)
LEMMA SourceTyped ==
  ASSUME NEW v, NEW lines \in Seq(Lines)
  PROVE  /\ SourceOf(v, lines).version = v
         /\ SourceOf(v, lines).meta_entries \in Seq(MetaLines)
         /\ \A i \in 1..Len(SourceOf(v, lines).meta_entries) :
              MetaError(v, SourceOf(v, lines).meta_entries[i]) = Nothing
<1> DEFINE K == {at \in 1..Len(lines) : lines[at].kind = "meta" /\ MetaError(v, lines[at]) = Nothing}
           kept == SourceOf(v, lines).meta_entries
<1>1. kept = FlattenSeq([at \in 1..Len(lines) |->
               IF lines[at].kind = "meta" /\ MetaError(v, lines[at]) = Nothing THEN <<lines[at]>> ELSE << >>])
  <2> DEFINE m == FieldsAt(lines, LAMBDA at : lines[at].kind = "meta" /\ MetaError(v, lines[at]) = Nothing)
             names == IF OfKind(lines, "header") = << >> THEN 0 ELSE OfKind(lines, "header")[1].samples
  <2>1. SourceOf(v, lines) = [version |-> v, meta_entries |-> m, samples_names |-> names]
    BY Zenon DEF SourceOf
  <2>2. m = FlattenSeq([at \in 1..Len(lines) |->
               IF lines[at].kind = "meta" /\ MetaError(v, lines[at]) = Nothing THEN <<lines[at]>> ELSE << >>])
    BY Zenon DEF FieldsAt
  <2> HIDE DEF m, names
  <2> QED
    BY <2>1, <2>2
<1>2. SourceOf(v, lines).version = v
  BY DEF SourceOf
<1>3. \A at \in 1..Len(lines) : at \in K <=> (lines[at].kind = "meta" /\ MetaError(v, lines[at]) = Nothing)
  OBVIOUS
<1> HIDE DEF K, kept
<1>4. kept = FlattenSeq([at \in 1..Len(lines) |-> IF at \in K THEN <<lines[at]>> ELSE << >>])
  <2>1. [at \in 1..Len(lines) |->
           IF lines[at].kind = "meta" /\ MetaError(v, lines[at]) = Nothing THEN <<lines[at]>> ELSE << >>]
         = [at \in 1..Len(lines) |-> IF at \in K THEN <<lines[at]>> ELSE << >>]
    BY <1>3
  <2> QED
    BY <1>1, <2>1, Zenon
<1>5. kept \in Seq(Lines) /\ \E g : KeptBy(kept, lines, K, Len(lines), g)
  BY <1>4, KeptFields, ZenonT(40)
<1>6. PICK g : KeptBy(kept, lines, K, Len(lines), g)
  BY <1>5
<1>7. ASSUME NEW k \in 1..Len(kept)
      PROVE  kept[k] \in MetaLines /\ MetaError(v, kept[k]) = Nothing
  <2>1. g[k] \in 1..Len(lines) /\ g[k] \in K /\ kept[k] = lines[g[k]]
    BY <1>6 DEF KeptBy
  <2>2. PICK line \in Lines : line = kept[k] /\ line.kind = "meta" /\ MetaError(v, line) = Nothing
    BY <1>3, <2>1
  <2>3. line \in MetaLines
    BY <2>2 DEF Lines, BodyLines, HeaderLines
  <2> QED
    BY <2>2, <2>3
<1>8. kept \in Seq(MetaLines)
  <2>1. PICK s \in Seq(Lines) : s = kept
    BY <1>5
  <2>2. Len(s) \in Nat /\ s = [k \in 1..Len(s) |-> s[k]] /\ \A k \in 1..Len(s) : s[k] \in MetaLines
    BY <1>7, <2>1
  <2>3. s \in Seq(MetaLines)
    BY <2>2
  <2> QED
    BY <2>1, <2>3
<1> QED
  BY <1>2, <1>7, <1>8 DEF kept

(* The error of a line. *)
LEMMA LineErrorTyped ==
  ASSUME NEW v, NEW lines \in Seq(Lines), NEW at \in 1..Len(lines), NEW e,
         LineError(v, lines, at) = <<e>>
  PROVE  \/ lines[at] \in MetaLines /\ e \in MetaErrors
         \/ lines[at] \in BodyLines /\ e \in BodyErrors
<1>1. PICK line \in Lines : line = lines[at]
  OBVIOUS
<1>2. CASE line.kind = "meta"
  <2>1. line \in MetaLines
    BY <1>2 DEF Lines, BodyLines, HeaderLines
  <2>2. MetaError(v, line) = <<e>>
    BY <1>1, <1>2 DEF LineError
  <2> QED
    BY <1>1, <2>1, <2>2, MetaErrorTyped
<1>3. CASE line.kind = "header"
  BY <1>1, <1>3 DEF LineError, Nothing
<1>4. CASE line.kind \notin {"meta", "header"}
  <2>1. line \in BodyLines
    BY <1>4 DEF Lines, MetaLines, HeaderLines
  <2>2. BodyError(SourceOf(v, lines), line) = <<e>>
    BY <1>1, <1>4 DEF LineError
  <2> QED
    BY <1>1, <2>1, <2>2, SourceTyped, BodyErrorTyped
<1> QED
  BY <1>2, <1>3, <1>4

-----------------------------------------------------------------------------
(***************************************************************************)
(* What a record without an error has passed.                              *)
(***************************************************************************)

(* Where a loop of checks finds nothing, none of them does. *)
LEMMA FlattenEmpty ==
  ASSUME NEW T, NEW n \in Nat, NEW seqs \in [1..n -> Seq(T)], FlattenSeq(seqs) = << >>
  PROVE  \A i \in 1..n : seqs[i] = << >>
<1> SUFFICES ASSUME NEW i \in 1..n, seqs[i] # << >> PROVE FALSE
  OBVIOUS
<1>1. seqs[i] \in Seq(T) /\ 1 \in 1..Len(seqs[i])
  BY EmptySeq
<1>2. Contains(seqs[i], seqs[i][1])
  BY <1>1 DEF Contains
<1>3. Contains(FlattenSeq(seqs), seqs[i][1])
  BY <1>2, FlattenContains
<1> QED
  BY <1>3 DEF Contains

(* So it is for two checks one after the other. *)
LEMMA JoinEmpty ==
  ASSUME NEW T, NEW s \in Seq(T), NEW t \in Seq(T), s \o t = << >>
  PROVE  s = << >> /\ t = << >>
<1>1. Len(s \o t) = Len(s) + Len(t) /\ Len(s) \in Nat /\ Len(t) \in Nat
  BY ConcatProperties
<1>2. Len(s) = 0 /\ Len(t) = 0
  BY <1>1
<1> QED
  BY <1>2, EmptySeq

(* A record without an error passed the checks of its INFO. *)
LEMMA InfoChecked ==
  ASSUME NEW source, source.meta_entries \in Seq(MetaLines), NEW line \in BodyLines,
         BodyError(source, line) = Nothing
  PROVE  check_info(source, line) = << >>
<1>1. Record(source, line) = << >>
  BY DEF BodyError, FirstThrown, Nothing
<1>2. PICK a, b, c :
        /\ a = check_chromosome(line) \o check_ids(source, line) \o check_alternate_alleles(line)
                 \o check_quality(line) \o check_filter(source, line)
        /\ b = check_info(source, line)
        /\ c = check_format(source, line)
  OBVIOUS
<1>3. PICK d : d = check_samples(source, line)
  OBVIOUS
<1>4. Record(source, line) = ((a \o b) \o c) \o d
  BY <1>2, <1>3, Zenon DEF Record
<1>5. a \in Seq(BodyErrors) /\ b \in Seq(BodyErrors) /\ c \in Seq(BodyErrors) /\ d \in Seq(BodyErrors)
  BY <1>2, <1>3, RecordParts
<1>6. a \o b \in Seq(BodyErrors) /\ (a \o b) \o c \in Seq(BodyErrors)
  BY <1>5, JoinTyped
<1>7. (a \o b) \o c = << >>
  BY <1>1, <1>4, <1>5, <1>6, JoinEmpty
<1>8. a \o b = << >>
  BY <1>5, <1>6, <1>7, JoinEmpty
<1> QED
  BY <1>2, <1>5, <1>8, JoinEmpty

(* CIPOS has two values, whatever the file says of it. *)
LEMMA CiposIsPair ==
  ASSUME NEW source, source.meta_entries \in Seq(MetaLines), NEW line \in BodyLines,
         NEW v, source.version = v,
         \A i \in 1..Len(source.meta_entries) : MetaError(v, source.meta_entries[i]) = Nothing,
         NEW value, MatchesMetaOrTags(source, line, "INFO", "CIPOS", value, InfoTags(source))
  PROVE  Len(value) = 2
<1> DEFINE entries == DescribedBy(source, "INFO", "CIPOS")
<1>1. "CIPOS" \in DOMAIN InfoTags(source) /\ InfoTags(source)["CIPOS"].Number = 2
  BY DEF InfoTags, info_v43, info_v41_v42, Tag
<1>2. 2 \notin {A, R, G, Missing}
  <2>1. 2 \in Int
    OBVIOUS
  <2> QED
    BY <2>1, ColumnConstants, Zenon
<1>3. is_valid_cardinality(line, 2) = 2
  BY <1>2 DEF is_valid_cardinality
<1>4. ASSUME NEW tag, tag.Number = 2, FieldMatches(line, "CIPOS", value, tag) PROVE Len(value) = 2
  <2>1. check_field_cardinality(line, SizeOf("CIPOS", value), 2)
    BY <1>4 DEF FieldMatches
  <2>2. 2 > 0 => SizeOf("CIPOS", value) = 2
    BY <1>3, <2>1 DEF check_field_cardinality
  <2> QED
    BY <2>2 DEF SizeOf
<1>5. CASE entries = << >>
  BY <1>1, <1>4, <1>5 DEF MatchesMetaOrTags, check_predefined_tag
<1>6. CASE entries # << >>
  <2>1. entries \in Seq(MetaLines) /\ 1 \in 1..Len(entries)
    BY <1>6, DescribedTyped, EmptySeq
  <2>2. PICK entry : entry = entries[1]
    OBVIOUS
  <2>3. /\ entry.column = "INFO" /\ entry.id = "CIPOS"
        /\ \E i \in 1..Len(source.meta_entries) : entry = source.meta_entries[i]
    BY <2>1, <2>2, DescribedTyped
  <2>4. MetaError(v, entry) = Nothing
    BY <2>3
  <2>5. InfoTags([version |-> v]) = InfoTags(source)
    BY DEF InfoTags
  <2>6. 2 \in {Missing, entry.Number}
    BY <1>1, <2>3, <2>4, <2>5, MetaErrorTyped
  <2>7. FieldMatches(line, "CIPOS", value, entry)
    BY <1>6, <2>2 DEF MatchesMetaOrTags
  <2> QED
    BY <1>2, <1>4, <2>6, <2>7
<1> QED
  BY <1>5, <1>6

(* The reads of the optional checks are within the values of a record. *)
LEMMA ReadsSafe ==
  ASSUME NEW v, NEW lines \in Seq(Lines), NEW at \in 1..Len(lines),
         lines[at].kind = "body", LineError(v, lines, at) = Nothing,
         NEW j \in 1..Len(lines[at].info), lines[at].info[j].key = "CIPOS"
  PROVE  Len(InfoValue(lines[at].info[j])) = 2
<1>1. PICK line \in Lines : line = lines[at]
  OBVIOUS
<1>2. line \in BodyLines
  BY <1>1 DEF Lines, MetaLines, HeaderLines
<1>3. PICK source : source = SourceOf(v, lines)
  OBVIOUS
<1>4. /\ source.version = v /\ source.meta_entries \in Seq(MetaLines)
      /\ \A i \in 1..Len(source.meta_entries) : MetaError(v, source.meta_entries[i]) = Nothing
  BY <1>3, SourceTyped
<1>5. BodyError(source, line) = Nothing
  BY <1>1, <1>3 DEF LineError
<1>6. check_info(source, line) = << >>
  BY <1>2, <1>4, <1>5, InfoChecked
<1> DEFINE n == Len(line.info)
           Check(k, i) == IF line.info[i].key = KeyOrder[k]
                            THEN check_info_field(source, line, line.info[i]) ELSE Nothing
           turn(k) == [i \in 1..n |-> Check(k, i)]
           seqs == [k \in 1..Len(KeyOrder) |-> FlattenSeq(turn(k))]
           first == Throw(source.version = "v43" /\ HasDuplicates(KeysOf(line.info)), Duplicated("InfoBodyError"))
<1>7. check_info(source, line) = first \o FlattenSeq(seqs)
  BY Zenon DEF check_info, Each
<1>8. n \in Nat /\ j \in 1..n /\ \A i \in 1..n : line.info[i] \in InfoFields
  BY <1>1, <1>2, ColumnTypes
<1>9. \A k, i : i \in 1..n => Check(k, i) \in Seq(BodyErrors)
  BY <1>2, <1>8, InfoFieldTyped, NothingTyped
<1>10. first \in Seq(BodyErrors)
  BY DuplicatedError, ThrowTyped DEF BodyTypes, ErrorTypes
<1>11. KeyOrder[6] = "CIPOS" /\ 6 \in 1..Len(KeyOrder) /\ Len(KeyOrder) \in Nat
  BY DEF KeyOrder
<1>12. Check(6, j) = check_info_field(source, line, line.info[j])
  BY <1>1, <1>11
<1> HIDE DEF Check, n, first
<1>13. \A k : turn(k) \in [1..n -> Seq(BodyErrors)]
  BY <1>9
<1>14. turn(6)[j] = Check(6, j)
  BY <1>8
<1> HIDE DEF turn
<1>15. \A k : FlattenSeq(turn(k)) \in Seq(BodyErrors)
  BY <1>8, <1>13, FlattenContains
<1>16. seqs \in [1..Len(KeyOrder) -> Seq(BodyErrors)] /\ seqs[6] = FlattenSeq(turn(6))
  BY <1>11, <1>15
<1> HIDE DEF seqs
<1>17. FlattenSeq(seqs) \in Seq(BodyErrors)
  BY <1>11, <1>16, FlattenContains
<1>18. FlattenSeq(seqs) = << >>
  <2>1. first \o FlattenSeq(seqs) = << >>
    BY <1>6, <1>7, Zenon
  <2> QED
    BY <1>10, <1>17, <2>1, JoinEmpty, ZenonT(40)
<1>19. seqs[6] = << >>
  BY <1>11, <1>16, <1>18, FlattenEmpty
<1>20. turn(6)[j] = << >>
  <2>1. turn(6) \in [1..n -> Seq(BodyErrors)] /\ FlattenSeq(turn(6)) = << >>
    BY <1>13, <1>16, <1>19, Zenon
  <2> QED
    BY <1>8, <2>1, FlattenEmpty, ZenonT(40)
<1>21. check_info_field(source, line, line.info[j]) = << >>
  BY <1>12, <1>14, <1>20
<1>22. PICK value : value = InfoValue(line.info[j])
  OBVIOUS
<1> DEFINE matches == MatchesMetaOrTags(source, line, "INFO", "CIPOS", value, InfoTags(source))
           t == Throw(~matches, Irrecoverable("InfoBodyError", "CIPOS"))
           u == strict_validation_info_predefined_tags(line, "CIPOS", value)
<1>23. t \o u = << >>
  <2>1. line.info[j].key = "CIPOS" /\ "CIPOS" # "."
    BY <1>1
  <2> QED
    BY <1>21, <1>22, <2>1, Zenon DEF check_info_field
<1>24. t \in Seq(BodyErrors) /\ u \in Seq(BodyErrors)
  <2>1. value \in Values
    BY <1>2, <1>8, <1>22, InfoFieldTyped
  <2>2. Irrecoverable("InfoBodyError", "CIPOS") \in BodyErrors
    BY IrrecoverableError, TypeNames, KeyNames
  <2> HIDE DEF matches
  <2> QED
    BY <1>2, <2>1, <2>2, StrictInfoTyped, ThrowTyped
<1>25. t = << >>
  <2> HIDE DEF t, u
  <2> QED
    BY <1>23, <1>24, JoinEmpty
<1>26. matches
  <2> HIDE DEF matches
  <2> QED
    BY <1>25 DEF Throw
<1>27. Len(value) = 2
  BY <1>2, <1>4, <1>26, CiposIsPair
<1> QED
  BY <1>1, <1>22, <1>27

-----------------------------------------------------------------------------
(***************************************************************************)
(* A fix writes a line.                                                    *)
(***************************************************************************)

(* A fix of a line: one line again, or the end of the process. *)
GoodFix(o) ==
  \/ o.ends = "no" /\ o.ignored \in 0..1 /\ \E new \in Lines : o.written = <<new>>
  \/ o.ends \in {"throws", "crashes"} /\ o.ignored = 0 /\ o.written = << >>

(* Lines that are copied, lines that are written, and fixes that fail. *)
LEMMA IgnoredIsGood ==
  ASSUME NEW line \in Lines
  PROVE  \A o \in ignore_error(line) : GoodFix(o)
BY DEF ignore_error, Outcome, GoodFix

(* A line that is written. *)
LEMMA WrittenIsGood ==
  ASSUME NEW new \in Lines
  PROVE  \A o \in Write(new) : GoodFix(o)
BY DEF Write, Outcome, GoodFix

(* A process that ends. *)
LEMMA EndsIsGood ==
  ASSUME NEW how \in {"throws", "crashes"}
  PROVE  \A o \in {Ends(how)} : GoodFix(o)
BY DEF Ends, GoodFix

(* A line that is written, with an error ignored or not. *)
LEMMA OutcomeIsGood ==
  ASSUME NEW new \in Lines, NEW ignored \in 0..1
  PROVE  GoodFix(Outcome(<<new>>, ignored))
BY DEF Outcome, GoodFix

(* A column that is written anew. *)
LEMMA ColumnWritten ==
  ASSUME NEW line \in BodyLines
  PROVE  /\ \A s \in Seq(Text) : [line EXCEPT !.ids = s] \in Lines
         /\ \A s \in Seq(Text) : [line EXCEPT !.filter = s] \in Lines
         /\ \A s \in Seq(InfoFields) : [line EXCEPT !.info = s] \in Lines
         /\ \A s \in Seq(Seq(Values)) : [line EXCEPT !.samples = s] \in Lines
         /\ \A f \in Seq(Keys), s \in Seq(Seq(Values)) :
              [line EXCEPT !.format = f, !.samples = s] \in Lines
BY DEF BodyLines, Lines

(* What remove_fields keeps. *)
RemovedTo(T, s, empty_column, removed, kept, g) ==
  /\ kept \in Seq(T) /\ KeptBy(kept, s, (1..Len(s)) \ removed, Len(s), g)
  /\ remove_fields(s, empty_column, removed) = IF kept = << >> THEN empty_column ELSE kept

(* There is such a sequence. *)
LEMMA RemoveFieldsKeeps ==
  ASSUME NEW T, NEW s \in Seq(T), NEW empty_column, NEW removed
  PROVE  \E kept, g : RemovedTo(T, s, empty_column, removed, kept, g)
<1> DEFINE K == (1..Len(s)) \ removed
<1>1. PICK kept : kept = FlattenSeq([i \in 1..Len(s) |-> IF i \notin removed THEN <<s[i]>> ELSE << >>])
  OBVIOUS
<1>2. remove_fields(s, empty_column, removed) = IF kept = << >> THEN empty_column ELSE kept
  BY <1>1, Zenon DEF remove_fields, FieldsAt
<1>3. \A i \in 1..Len(s) : i \in K <=> i \notin removed
  OBVIOUS
<1> HIDE DEF K
<1>4. kept = FlattenSeq([i \in 1..Len(s) |-> IF i \in K THEN <<s[i]>> ELSE << >>])
  <2>1. [i \in 1..Len(s) |-> IF i \notin removed THEN <<s[i]>> ELSE << >>]
         = [i \in 1..Len(s) |-> IF i \in K THEN <<s[i]>> ELSE << >>]
    BY <1>3
  <2> QED
    BY <1>1, <2>1, Zenon
<1>5. kept \in Seq(T) /\ \E g : KeptBy(kept, s, K, Len(s), g)
  BY <1>4, KeptFields, ZenonT(40)
<1> QED
  BY <1>2, <1>5 DEF K, RemovedTo

(* A column stays a column. *)
LEMMA RemoveFieldsTyped ==
  ASSUME NEW T, NEW s \in Seq(T), NEW empty_column \in Seq(T), NEW removed
  PROVE  remove_fields(s, empty_column, removed) \in Seq(T)
<1>1. PICK kept, g : RemovedTo(T, s, empty_column, removed, kept, g)
  BY RemoveFieldsKeeps, Zenon
<1> QED
  BY <1>1, Zenon DEF RemovedTo

(* The fixes of a meta entry, *)
LEMMA MetaFixTyped ==
  ASSUME NEW line \in MetaLines, NEW error \in MetaErrors
  PROVE  \A o \in FixMeta(line, error) : GoodFix(o)
<1>1. line \in Lines
  BY DEF Lines
<1>2. \A number \in Numbers : [line EXCEPT !.Number = number] \in Lines
  BY DEF MetaLines, Lines
<1>3. \A type \in TagTypes : [line EXCEPT !.Type = type] \in Lines
  BY DEF MetaLines, Lines, Text
<1>4. CASE error.error_fix = "IRRECOVERABLE_VALUE"
  BY <1>1, <1>4, IgnoredIsGood DEF FixMeta
<1>5. CASE error.error_fix # "IRRECOVERABLE_VALUE" /\ error.field = "Number"
  <2>1. error.expected_value[1] \in Numbers
    BY <1>5 DEF MetaErrors
  <2>2. FixMeta(line, error) = Write([line EXCEPT !.Number = error.expected_value[1]])
    BY <1>5 DEF FixMeta
  <2> QED
    BY <1>2, <2>1, <2>2, WrittenIsGood
<1>6. CASE error.error_fix # "IRRECOVERABLE_VALUE" /\ error.field # "Number"
  <2>1. error.expected_type \in TagTypes
    BY <1>6 DEF MetaErrors
  <2>2. FixMeta(line, error) = Write([line EXCEPT !.Type = error.expected_type])
    BY <1>6 DEF FixMeta
  <2> QED
    BY <1>3, <2>1, <2>2, WrittenIsGood
<1> QED
  BY <1>4, <1>5, <1>6

(* of ID and FILTER, *)
LEMMA IdFixTyped ==
  ASSUME NEW line \in BodyLines, NEW error
  PROVE  \A o \in FixId(line, error) : GoodFix(o)
<1>1. line \in Lines /\ line.ids \in Seq(Text) /\ << >> \in Seq(Text)
  BY ColumnTypes DEF Lines
<1>2. remove_duplicate_strings(line.ids) \in Seq(Text)
  BY <1>1, RemoveFieldsTyped, Zenon DEF remove_duplicate_strings
<1>3. [line EXCEPT !.ids = remove_duplicate_strings(line.ids)] \in Lines
  BY <1>2, ColumnWritten
<1> QED
  BY <1>1, <1>3, IgnoredIsGood, WrittenIsGood DEF FixId

(* of FILTER, *)
LEMMA FilterFixTyped ==
  ASSUME NEW line \in BodyLines, NEW error
  PROVE  \A o \in FixFilter(line, error) : GoodFix(o)
<1>1. line \in Lines /\ line.filter \in Seq(Text) /\ << >> \in Seq(Text) /\ <<".">> \in Seq(Text)
  BY ColumnTypes DEF Lines, Text
<1>2. remove_duplicate_strings(line.filter) \in Seq(Text)
  BY <1>1, RemoveFieldsTyped, Zenon DEF remove_duplicate_strings
<1>3. remove_fields(line.filter, <<".">>, IndexesOf(line.filter, "0")) \in Seq(Text)
  BY <1>1, RemoveFieldsTyped
<1>4. /\ [line EXCEPT !.filter = remove_duplicate_strings(line.filter)] \in Lines
      /\ [line EXCEPT !.filter = remove_fields(line.filter, <<".">>, IndexesOf(line.filter, "0"))] \in Lines
  BY <1>2, <1>3, ColumnWritten
<1> QED
  BY <1>1, <1>4, IgnoredIsGood, WrittenIsGood DEF FixFilter

(* The keys of INFO that have different values, and the fields that stay. *)
Differing(info) ==
  {KeysOf(info)[i] : i \in {x \in 1..Len(info) : \E k \in 1..(x - 1) :
     KeysOf(info)[k] = KeysOf(info)[x] /\ info[k].parts[1] # info[x].parts[1]}}
Staying(info) == {i \in 1..Len(info) : IsFirst(KeysOf(info), i) /\ KeysOf(info)[i] \notin Differing(info)}

(* How they are written. *)
PairsOf(kept) ==
  IF kept = << >> THEN <<Dot>> ELSE [k \in 1..Len(kept) |-> Field(kept[k].key, kept[k].parts[1])]

(* What remove_duplicate_key_value_pairs keeps. *)
LEMMA KeyValuePairsKept ==
  ASSUME NEW T, NEW info \in Seq(T)
  PROVE  \E kept, g : /\ kept \in Seq(T) /\ KeptBy(kept, info, Staying(info), Len(info), g)
                      /\ remove_duplicate_key_value_pairs(info) = PairsOf(kept)
<1> DEFINE keys == KeysOf(info)
           fields_to_remove ==
             {keys[i] : i \in {x \in 1..Len(info) : \E k \in 1..(x - 1) :
                            keys[k] = keys[x] /\ info[k].parts[1] # info[x].parts[1]}}
<1>1. PICK kept : kept = FlattenSeq([i \in 1..Len(info) |->
        IF IsFirst(keys, i) /\ keys[i] \notin fields_to_remove THEN <<info[i]>> ELSE << >>])
  OBVIOUS
<1>2. remove_duplicate_key_value_pairs(info) = PairsOf(kept)
  BY <1>1, Zenon DEF remove_duplicate_key_value_pairs, FieldsAt, PairsOf
<1>3. PICK K : K = Staying(info)
  OBVIOUS
<1>4. \A i \in 1..Len(info) : i \in K <=> (IsFirst(keys, i) /\ keys[i] \notin fields_to_remove)
  BY <1>3, Zenon DEF Staying, Differing
<1> HIDE DEF fields_to_remove, keys
<1>5. kept = FlattenSeq([i \in 1..Len(info) |-> IF i \in K THEN <<info[i]>> ELSE << >>])
  <2>1. [i \in 1..Len(info) |->
           IF IsFirst(keys, i) /\ keys[i] \notin fields_to_remove THEN <<info[i]>> ELSE << >>]
         = [i \in 1..Len(info) |-> IF i \in K THEN <<info[i]>> ELSE << >>]
    BY <1>4
  <2> QED
    BY <1>1, <2>1, Zenon
<1>6. kept \in Seq(T) /\ \E g : KeptBy(kept, info, K, Len(info), g)
  BY <1>5, KeptFields, ZenonT(40)
<1> QED
  BY <1>2, <1>3, <1>6, Zenon

(* INFO that is missing. *)
LEMMA DotTyped == Dot \in InfoFields
<1>1. "." \in Keys
  BY KeyNames
<1>2. << >> \in Seq(Values)
  OBVIOUS
<1> QED
  BY <1>1, <1>2 DEF Dot, Flag, InfoFields

(* It is written as fields again. *)
LEMMA KeyValuePairsTyped ==
  ASSUME NEW info \in Seq(InfoFields), \A i \in 1..Len(info) : info[i].parts # << >>
  PROVE  remove_duplicate_key_value_pairs(info) \in Seq(InfoFields)
<1>2. PICK kept, g : /\ kept \in Seq(InfoFields) /\ KeptBy(kept, info, Staying(info), Len(info), g)
                     /\ remove_duplicate_key_value_pairs(info) = PairsOf(kept)
  BY KeyValuePairsKept, Zenon
<1>3. ASSUME NEW k \in 1..Len(kept) PROVE Field(kept[k].key, kept[k].parts[1]) \in InfoFields
  <2>1. g[k] \in 1..Len(info) /\ kept[k] = info[g[k]]
    BY <1>2 DEF KeptBy
  <2>2. PICK f \in InfoFields : f = kept[k] /\ f.parts # << >>
    BY <2>1
  <2>3. f.key \in Keys /\ f.parts[1] \in Values
    BY <2>2 DEF InfoFields
  <2> QED
    BY <2>2, <2>3 DEF Field, InfoFields
<1>4. Len(kept) \in Nat
  BY <1>2
<1> HIDE DEF InfoFields
<1> QED
  BY <1>2, <1>3, <1>4, DotTyped DEF PairsOf

(* Where flags are read past the end of a vector. *)
LEMMA PastEndTyped ==
  ASSUME NEW before \in Seq(InfoFields), NEW info \in ReadPastEnd(before)
  PROVE  info \in Seq(InfoFields) /\ \A i \in 1..Len(info) : info[i].parts # << >>
<1> DEFINE flags == {i \in 1..Len(before) : IsFlag(before[i])}
<1>1. PICK h \in [flags -> Garbage] :
        info = [i \in 1..Len(before) |-> IF i \in flags THEN Field(before[i].key, h[i]) ELSE before[i]]
  BY Zenon DEF ReadPastEnd
<1>2. Garbage \subseteq Values
  BY DEF Garbage, Values, Tokens, Specials
<1>3. ASSUME NEW i \in 1..Len(before)
      PROVE  info[i] \in InfoFields /\ info[i].parts # << >>
  <2>1. PICK f \in InfoFields : f = before[i]
    OBVIOUS
  <2>2. CASE i \in flags
    <3>1. PICK w \in Values : w = h[i]
      BY <1>1, <1>2, <2>2
    <3>2. info[i] = Field(f.key, w)
      BY <1>1, <2>1, <2>2, <3>1
    <3>3. f.key \in Keys
      BY DEF InfoFields
    <3>4. Field(f.key, w) \in InfoFields /\ Field(f.key, w).parts # << >>
      BY <3>3 DEF Field, InfoFields
    <3> QED
      BY <3>2, <3>4
  <2>3. CASE i \notin flags
    BY <1>1, <2>1, <2>3 DEF IsFlag
  <2> QED
    BY <2>2, <2>3
<1>4. Len(before) \in Nat
  OBVIOUS
<1>5. PICK n \in Nat : n = Len(before)
  BY <1>4
<1>6. info = [i \in 1..n |-> info[i]] /\ \A i \in 1..n : info[i] \in InfoFields /\ info[i].parts # << >>
  BY <1>1, <1>3, <1>5
<1>7. PICK j : j = info
  OBVIOUS
<1>8. j \in [1..n -> InfoFields] /\ \A i \in 1..n : j[i].parts # << >>
  <2> HIDE DEF InfoFields
  <2> QED
    BY <1>6, <1>7
<1>9. j \in Seq(InfoFields) /\ Len(j) = n
  <2> HIDE DEF InfoFields
  <2> QED
    BY <1>8
<1> QED
  BY <1>7, <1>8, <1>9

(* of INFO, *)
LEMMA InfoFixTyped ==
  ASSUME NEW line \in BodyLines, NEW error \in BodyErrors
  PROVE  \A o \in FixInfo(line, error) : GoodFix(o)
<1>1. PICK info \in Seq(InfoFields) : info = line.info
  BY ColumnTypes
<1>2. PICK fields : fields = string_split(info)
  OBVIOUS
<1>3. fields \in Seq(InfoFields)
  <2>1. info # << >> => Front(info) \in Seq(InfoFields)
    BY DEF Front
  <2> QED
    BY <1>2, <2>1 DEF string_split
<1>4. \A o \in FixDuplicateInfo(line) : GoodFix(o)
  <2>1. ASSUME NEW past \in ReadPastEnd(info)
        PROVE  GoodFix(Outcome(<<[line EXCEPT !.info = remove_duplicate_key_value_pairs(past)]>>, 0))
    <3>1. remove_duplicate_key_value_pairs(past) \in Seq(InfoFields)
      BY PastEndTyped, KeyValuePairsTyped
    <3>2. [line EXCEPT !.info = remove_duplicate_key_value_pairs(past)] \in Lines
      BY <3>1, ColumnWritten
    <3>3. 0 \in 0..1
      OBVIOUS
    <3> QED
      BY <3>2, <3>3, OutcomeIsGood
  <2>2. GoodFix(Ends("crashes"))
    BY EndsIsGood
  <2> QED
    BY <1>1, <2>1, <2>2, Zenon DEF FixDuplicateInfo
<1>5. \A o \in {Ends("crashes")} : GoodFix(o)
  BY EndsIsGood
<1> DEFINE ofField == {i \in 1..Len(fields) : fields[i].key = error.field /\ error.field # ""}
           replaced == replace_fields(fields, error.field, error.expected_value)
           removed == remove_fields(fields, <<Dot>>, ofField)
<1>6. \/ FixInfo(line, error) = FixDuplicateInfo(line)
      \/ FixInfo(line, error) = {Ends("crashes")}
      \/ FixInfo(line, error) = Write([line EXCEPT !.info = replaced])
      \/ FixInfo(line, error) = Write([line EXCEPT !.info = removed])
  BY <1>1, <1>2 DEF FixInfo
<1>7. replaced \in Seq(InfoFields)
  <2>1. PICK key, value : key = error.field /\ value = error.expected_value
    OBVIOUS
  <2>2. value \in Values
    BY <2>1 DEF BodyErrors
  <2>3. PICK n \in Nat : n = Len(fields)
    BY <1>3
  <2>4. ASSUME NEW i \in 1..n
        PROVE  (IF fields[i].key = key THEN Field(key, value) ELSE fields[i]) \in InfoFields
    <3>1. PICK f \in InfoFields : f = fields[i]
      BY <1>3, <2>3
    <3>2. f.key = key => Field(key, value) \in InfoFields
      BY <2>2 DEF InfoFields, Field
    <3> QED
      BY <3>1, <3>2
  <2>5. replaced = [i \in 1..n |-> IF fields[i].key = key THEN Field(key, value) ELSE fields[i]]
    BY <2>1, <2>3 DEF replace_fields
  <2> HIDE DEF InfoFields, replaced
  <2> QED
    BY <2>4, <2>5
<1>8. removed \in Seq(InfoFields)
  <2>1. <<Dot>> \in Seq(InfoFields)
    BY DotTyped
  <2> HIDE DEF ofField
  <2> QED
    BY <1>3, <2>1, RemoveFieldsTyped
<1> HIDE DEF replaced, removed
<1>9. [line EXCEPT !.info = replaced] \in Lines /\ [line EXCEPT !.info = removed] \in Lines
  BY <1>7, <1>8, ColumnWritten
<1> QED
  BY <1>4, <1>5, <1>6, <1>9, WrittenIsGood, Zenon

(* The fields that stay in FORMAT and in the samples where a key of FORMAT *)
(* is repeated.                                                            *)
StaysInFormat(line, i) ==
  IsFirst(line.format, i) /\ line.format[i] \notin get_format_fields_to_remove(line.format, line.samples)
OptionsOf(line, s) == [i \in 1..Len(s) |-> IF StaysInFormat(line, i) THEN <<s[i]>> ELSE << >>]
FixedSamples(line) ==
  [s \in 1..Len(line.samples) |->
     IF FlattenSeq(OptionsOf(line, line.samples[s])) = << >> THEN << <<Missing>> >>
     ELSE FlattenSeq(OptionsOf(line, line.samples[s]))]

(* What is kept of FORMAT and of a sample, *)
LEMMA FormatPairsKept ==
  ASSUME NEW T, NEW s \in Seq(T), NEW line
  PROVE  /\ FlattenSeq(OptionsOf(line, s)) \in Seq(T)
         /\ \E g : KeptBy(FlattenSeq(OptionsOf(line, s)), s,
                          {i \in 1..Len(s) : StaysInFormat(line, i)}, Len(s), g)
<1>1. PICK kept : kept = FlattenSeq(OptionsOf(line, s))
  OBVIOUS
<1>2. PICK K : K = {i \in 1..Len(s) : StaysInFormat(line, i)}
  OBVIOUS
<1>3. kept = FlattenSeq([i \in 1..Len(s) |-> IF i \in K THEN <<s[i]>> ELSE << >>])
  <2>1. OptionsOf(line, s) = [i \in 1..Len(s) |-> IF i \in K THEN <<s[i]>> ELSE << >>]
    BY <1>2 DEF OptionsOf
  <2> QED
    BY <1>1, <2>1, Zenon
<1>4. kept \in Seq(T) /\ \E g : KeptBy(kept, s, K, Len(s), g)
  BY <1>3, KeptFields, ZenonT(40)
<1> QED
  BY <1>1, <1>2, <1>4, Zenon

(* and how it is written. *)
LEMMA FormatPairs ==
  ASSUME NEW line
  PROVE  remove_duplicate_format_sample_pairs(line)
           = IF FlattenSeq(OptionsOf(line, line.format)) = << >> THEN {Ends("throws")}
             ELSE Write([line EXCEPT !.format = FlattenSeq(OptionsOf(line, line.format)),
                                     !.samples = FixedSamples(line)])
BY Zenon DEF remove_duplicate_format_sample_pairs, FieldsAt, OptionsOf, FixedSamples, StaysInFormat

(* of FORMAT, *)
LEMMA FormatFixTyped ==
  ASSUME NEW line \in BodyLines, NEW error
  PROVE  \A o \in FixFormat(line, error) : GoodFix(o)
<1>1. line \in Lines /\ line.format \in Seq(Keys) /\ line.samples \in Seq(Seq(Values))
  BY ColumnTypes DEF Lines
<1>2. PICK format : format = FlattenSeq(OptionsOf(line, line.format))
  OBVIOUS
<1>3. format \in Seq(Keys)
  BY <1>1, <1>2, FormatPairsKept
<1>4. FixedSamples(line) \in Seq(Seq(Values))
  <2>1. PICK n \in Nat : n = Len(line.samples)
    BY <1>1
  <2>2. << <<Missing>> >> \in Seq(Values)
    BY DEF Values, Tokens, Specials
  <2> DEFINE Fixed1(s) == IF FlattenSeq(OptionsOf(line, line.samples[s])) = << >> THEN << <<Missing>> >>
                          ELSE FlattenSeq(OptionsOf(line, line.samples[s]))
  <2>3. ASSUME NEW s \in 1..n PROVE Fixed1(s) \in Seq(Values)
    <3>1. line.samples[s] \in Seq(Values)
      BY <1>1, <2>1
    <3>2. FlattenSeq(OptionsOf(line, line.samples[s])) \in Seq(Values)
      BY <3>1, FormatPairsKept
    <3> QED
      BY <2>2, <3>2
  <2>4. FixedSamples(line) = [s \in 1..n |-> Fixed1(s)]
    BY <2>1, Zenon DEF FixedSamples
  <2> HIDE DEF Fixed1
  <2> QED
    BY <2>3, <2>4
<1>5. [line EXCEPT !.format = format, !.samples = FixedSamples(line)] \in Lines
  BY <1>3, <1>4, ColumnWritten
<1>6. \A o \in Write([line EXCEPT !.format = format, !.samples = FixedSamples(line)]) : GoodFix(o)
  BY <1>5, WrittenIsGood
<1>7. \A o \in {Ends("throws")} : GoodFix(o)
  BY EndsIsGood
<1>8. \A o \in remove_duplicate_format_sample_pairs(line) : GoodFix(o)
  BY <1>2, <1>6, <1>7, FormatPairs, Zenon
<1> QED
  BY <1>1, <1>8, IgnoredIsGood, Zenon DEF FixFormat

(* The greatest of some indices. *)
LEMMA MaxIndex ==
  ASSUME NEW n \in Nat, NEW S, S \subseteq 1..n, S # {}
  PROVE  Max(S) \in S /\ \A y \in S : y <= Max(S)
<1>1. S \subseteq Nat /\ \A x \in S : x <= n
  OBVIOUS
<1>2. \E x \in S : \A y \in S : y <= x
  BY <1>1, GreatestNat
<1>3. \E x \in S : \A y \in S : x >= y
  BY <1>1, <1>2
<1>4. Max(S) \in S /\ \A y \in S : Max(S) >= y
  BY <1>3, Zenon DEF Max
<1> QED
  BY <1>1, <1>4

(* The least of them. *)
LEMMA MinIndex ==
  ASSUME NEW n \in Nat, NEW S, S \subseteq 1..n, S # {}
  PROVE  Min(S) \in S /\ \A y \in S : Min(S) <= y
<1>1. S \subseteq Nat
  OBVIOUS
<1>2. \E x \in S : \A y \in S : x <= y
  BY <1>1, LeastNat
<1> QED
  BY <1>2, Zenon DEF Min

(* and of a field of the samples. *)
LEMMA GenotypeFixTyped ==
  ASSUME NEW line \in BodyLines, NEW error \in BodyErrors
  PROVE  \A o \in fix_format_gt(line, error) : GoodFix(o)
<1> DEFINE repeat == IF error.field_cardinality <= -1 THEN 1 ELSE error.field_cardinality
           missing == [k \in 1..repeat |-> Missing]
           n == Len(line.samples)
           fixed == [s \in 1..n |-> [line.samples[s] EXCEPT ![1] = missing]]
<1>1. line \in Lines /\ line.samples \in Seq(Seq(Values)) /\ n \in Nat
  BY ColumnTypes DEF Lines
<1>2. \/ fix_format_gt(line, error) = ignore_error(line)
      \/ fix_format_gt(line, error) = {Ends("crashes")}
      \/ /\ ~Contains(line.samples, << >>)
         /\ fix_format_gt(line, error) = Write([line EXCEPT !.samples = fixed])
  BY DEF fix_format_gt
<1>3. missing \in Values
  <2>1. error.field_cardinality \in Int
    BY DEF BodyErrors, Errors
  <2>2. PICK r \in Nat : r = repeat
    BY <2>1
  <2>3. Missing \in Tokens
    BY DEF Tokens, Specials
  <2>4. [k \in 1..r |-> Missing] \in Seq(Tokens)
    BY <2>3
  <2> QED
    BY <2>2, <2>4 DEF Values
<1> HIDE DEF missing, n
<1>4. ~Contains(line.samples, << >>) => fixed \in Seq(Seq(Values))
  <2>1. SUFFICES ASSUME ~Contains(line.samples, << >>) PROVE fixed \in Seq(Seq(Values))
    OBVIOUS
  <2>2. ASSUME NEW s \in 1..n PROVE [line.samples[s] EXCEPT ![1] = missing] \in Seq(Values)
    <3>1. PICK t \in Seq(Values) : t = line.samples[s]
      BY <1>1 DEF n
    <3>2. t # << >>
      BY <2>1, <3>1 DEF Contains, n
    <3>3. [t EXCEPT ![1] = missing] \in Seq(Values)
      BY <1>3, <3>2
    <3> QED
      BY <3>1, <3>3
  <2> QED
    BY <1>1, <2>2
<1> HIDE DEF fixed
<1>5. ~Contains(line.samples, << >>) =>
        \A o \in Write([line EXCEPT !.samples = fixed]) : GoodFix(o)
  BY <1>4, ColumnWritten, WrittenIsGood
<1> QED
  BY <1>1, <1>2, <1>5, IgnoredIsGood, EndsIsGood, Zenon

(* where it is removed, *)
LEMMA RemoveFormatTyped ==
  ASSUME NEW line \in BodyLines, NEW error
  PROVE  \A o \in remove_format(line, error) : GoodFix(o)
<1> DEFINE indexes == IndexesOf(line.format, error.field)
           field_index == Max(indexes)
           n     == Len(line.samples)
           short == {s \in 1..n : Len(line.samples[s]) < field_index}
           stop  == IF short = {} THEN n + 1 ELSE Min(short)
           fixed == [s \in 1..n |-> IF s < stop THEN RemoveAt(line.samples[s], field_index)
                                                 ELSE line.samples[s]]
           format == remove_fields(line.format, <<"">>, indexes)
           samples == IF stop = n THEN Append(fixed, << >>) ELSE fixed
           ignored == IF short = {} THEN 0 ELSE 1
<1>1. remove_format(line, error)
        = IF indexes = {} THEN ignore_error(line)
          ELSE {Outcome(<<[line EXCEPT !.format = format, !.samples = samples]>>, ignored)}
  BY Zenon DEF remove_format
<1>2. line \in Lines /\ line.format \in Seq(Keys) /\ line.samples \in Seq(Seq(Values)) /\ n \in Nat
  BY ColumnTypes DEF Lines
<1>3. CASE indexes = {}
  BY <1>1, <1>2, <1>3, IgnoredIsGood, Zenon
<1>4. CASE indexes # {}
  <2>1. field_index \in 1..Len(line.format) /\ Len(line.format) \in Nat
    <3>1. indexes \subseteq 1..Len(line.format) /\ Len(line.format) \in Nat
      BY <1>2 DEF IndexesOf
    <3> HIDE DEF indexes
    <3> QED
      BY <1>4, <3>1, MaxIndex
  <2> HIDE DEF indexes, field_index, n
  <2>2. format \in Seq(Keys)
    <3>1. "" \in Keys
      BY KeyNames
    <3>2. PICK key \in Keys : key = ""
      BY <3>1
    <3>3. <<key>> \in Seq(Keys)
      OBVIOUS
    <3> QED
      BY <1>2, <3>2, <3>3, RemoveFieldsTyped
  <2>3. \A s \in 1..n : s < stop => s \notin short
    <3>1. short \subseteq 1..n
      OBVIOUS
    <3>2. PICK S, m : S = short /\ m = n
      OBVIOUS
    <3>3. S # {} => Min(S) \in S /\ \A y \in S : Min(S) <= y
      <4>1. m \in Nat /\ S \subseteq 1..m
        BY <1>2, <3>1, <3>2
      <4> QED
        BY <4>1, MinIndex
    <3>4. short # {} => Min(short) \in Nat /\ \A y \in short : Min(short) <= y /\ y \in Nat
      BY <3>1, <3>2, <3>3
    <3> HIDE DEF short
    <3> QED
      BY <3>4
  <2>4. ASSUME NEW s \in 1..n
        PROVE  (IF s < stop THEN RemoveAt(line.samples[s], field_index) ELSE line.samples[s]) \in Seq(Values)
    <3>1. PICK t \in Seq(Values) : t = line.samples[s]
      BY <1>2 DEF n
    <3>2. CASE s < stop
      <4>1. Len(t) >= field_index
        BY <2>1, <2>3, <3>1, <3>2
      <4>2. PICK f \in Nat \ {0} : f = field_index /\ f <= Len(t)
        BY <2>1, <4>1
      <4>3. SubSeq(t, 1, f - 1) \in Seq(Values) /\ SubSeq(t, f + 1, Len(t)) \in Seq(Values)
        <5>1. \A i \in 1..(f - 1) : t[i] \in Values
          BY <4>2
        <5>2. \A i \in (f + 1)..Len(t) : t[i] \in Values
          BY <4>2
        <5>3. 1 \in Int /\ f - 1 \in Int /\ f + 1 \in Int /\ Len(t) \in Int
          BY <4>2
        <5> QED
          BY <5>1, <5>2, <5>3, SubSeqProperties
      <4>4. RemoveAt(t, f) \in Seq(Values)
        BY <4>3, JoinTyped DEF RemoveAt
      <4> QED
        BY <3>1, <3>2, <4>2, <4>4
    <3>3. CASE ~(s < stop)
      BY <3>1, <3>3
    <3> QED
      BY <3>2, <3>3
  <2> HIDE DEF stop
  <2>5. fixed \in Seq(Seq(Values))
    BY <1>2, <2>4
  <2> HIDE DEF fixed
  <2>6. samples \in Seq(Seq(Values))
    BY <2>5
  <2>7. ignored \in 0..1
    OBVIOUS
  <2> HIDE DEF format, samples, ignored
  <2>8. [line EXCEPT !.format = format, !.samples = samples] \in Lines
    BY <2>2, <2>6, ColumnWritten
  <2>9. GoodFix(Outcome(<<[line EXCEPT !.format = format, !.samples = samples]>>, ignored))
    BY <2>7, <2>8, OutcomeIsGood
  <2> QED
    BY <1>1, <1>4, <2>9, Zenon
<1> QED
  BY <1>3, <1>4

(* and in all cases. *)
LEMMA SamplesFieldFixTyped ==
  ASSUME NEW line \in BodyLines, NEW error \in BodyErrors, line.format = << >> \/ line.samples # << >>
  PROVE  \A o \in FixSamplesField(line, error) : GoodFix(o)
<1>1. FixSamplesField(line, error) \in
        {ignore_error(line), fix_format_gt(line, error), remove_format(line, error)}
  BY DEF FixSamplesField
<1>2. line \in Lines
  BY DEF Lines
<1> QED
  BY <1>1, <1>2, IgnoredIsGood, GenotypeFixTyped, RemoveFormatTyped, Zenon

(* The fix of the error of a line. *)
LEMMA FixTyped ==
  ASSUME NEW line, NEW error,
         \/ line \in MetaLines /\ error \in MetaErrors
         \/ line \in BodyLines /\ error \in BodyErrors,
         FixesOne(line, error)
  PROVE  \A o \in fix(line, error) : GoodFix(o)
<1>1. CASE line \in MetaLines /\ error \in MetaErrors
  <2>1. fix(line, error) = FixMeta(line, error)
    BY <1>1 DEF fix, MetaErrors
  <2> QED
    BY <1>1, <2>1, MetaFixTyped
<1>2. CASE line \in BodyLines /\ error \in BodyErrors
  <2>1. error.type \notin {"MetaSectionError", "DuplicationError"}
    BY <1>2 DEF BodyErrors
  <2>2. \/ fix(line, error) \in {FixId(line, error), FixFilter(line, error), FixInfo(line, error),
                                 FixFormat(line, error), ignore_error(line)}
        \/ error.type = "SamplesFieldBodyError" /\ fix(line, error) = FixSamplesField(line, error)
    BY <2>1 DEF fix
  <2>3. line \in Lines
    BY <1>2 DEF Lines
  <2>4. error.type = "SamplesFieldBodyError" => line.format = << >> \/ line.samples # << >>
    BY DEF FixesOne
  <2> QED
    BY <1>2, <2>2, <2>3, <2>4, IdFixTyped, FilterFixTyped, InfoFixTyped, FormatFixTyped, IgnoredIsGood,
       SamplesFieldFixTyped, Zenon
<1> QED
  BY <1>1, <1>2

-----------------------------------------------------------------------------
(***************************************************************************)
(* The output is what the fixes write.                                     *)
(***************************************************************************)

(* A line of the output is what the fix of its error wrote. *)
FixedBy(before, error, after) == \E o \in fix(before, error) : o.ends = "no" /\ o.written = <<after>>

OutputItems == [at : 1..Len(input), line : Lines]

FixesInv ==
  /\ version \in {"v41", "v42", "v43"}
  /\ stage \in {"validate", "fix", "valid", "unchanged", "escaped", "stopped"}
  /\ status \in {"fixing", "copying", "returned", "throws", "crashes"}
  /\ file \in Seq(Lines)
  /\ input \in Seq(Lines)
  /\ errors \in Seq(ReportItems(version, input))
  /\ output \in Seq(OutputItems)
  /\ ignored_errors \in 0..errors_fixed
  /\ \A k \in 1..Len(output), i \in 1..Len(errors) :
       errors[i].line = output[k].at =>
         FixedBy(input[output[k].at], errors[i].error, output[k].line)

(* The errors of a report, and what a fix makes of them. *)
LEMMA ItemTyped ==
  ASSUME NEW v, NEW lines \in Seq(Lines), NEW x \in ReportItems(v, lines)
  PROVE  /\ x.line \in Nat \ {0} /\ x.error \in Errors
         /\ x.line <= Len(lines) /\ ~IsDuplication(x) =>
              \A o \in fix(lines[x.line], x.error) : GoodFix(o)
<1>1. x.line \in 1..(Len(lines) + 1) /\ Len(lines) \in Nat
  BY DEF ReportItems
<1>2. DuplicateError \in Errors /\ HeaderError \in Errors
  BY PlainError, KeyNames DEF DuplicateError, HeaderError, Irrecoverable, ErrorTypes, ErrorFixes, ErrorFields
<1>3. DuplicateError.type = "DuplicationError"
  BY DEF DuplicateError, Irrecoverable, Error
<1>4. CASE x.line > Len(lines)
  <2>1. x.error = HeaderError
    BY <1>1, <1>4 DEF ReportItems
  <2> QED
    BY <1>1, <1>2, <1>4, <2>1
<1>5. CASE x.line <= Len(lines) /\ x.error = DuplicateError
  BY <1>1, <1>2, <1>3, <1>5 DEF IsDuplication
<1>6. CASE x.line <= Len(lines) /\ x.error # DuplicateError
  <2>1. FixesOne(lines[x.line], x.error) /\ LineError(v, lines, x.line) = <<x.error>>
    BY <1>1, <1>6 DEF ReportItems
  <2>2. PICK at, e : at = x.line /\ e = x.error
    OBVIOUS
  <2>3. at \in 1..Len(lines) /\ FixesOne(lines[at], e) /\ LineError(v, lines, at) = <<e>>
    BY <1>1, <1>6, <2>1, <2>2
  <2>4. \/ lines[at] \in MetaLines /\ e \in MetaErrors
        \/ lines[at] \in BodyLines /\ e \in BodyErrors
    BY <2>3, LineErrorTyped
  <2>5. e \in Errors
    BY <2>4 DEF MetaErrors, BodyErrors
  <2>6. \A o \in fix(lines[at], e) : GoodFix(o)
    BY <2>3, <2>4, FixTyped, Zenon
  <2> QED
    BY <1>1, <2>2, <2>5, <2>6
<1> QED
  BY <1>1, <1>4, <1>5, <1>6

(* A sequence over a set is one over each larger set. *)
LEMMA SeqSubset ==
  ASSUME NEW S, NEW U, S \subseteq U, NEW s \in Seq(S)
  PROVE  s \in Seq(U)
<1>1. PICK n \in Nat : s \in [1..n -> S]
  OBVIOUS
<1>2. s \in [1..n -> U]
  BY <1>1
<1> QED
  BY <1>2

(* RepairTypeOK follows from the invariants. *)
LEMMA InvGivesType == RepairInv /\ FixesInv => RepairTypeOK
<1> SUFFICES ASSUME RepairInv, FixesInv PROVE RepairTypeOK
  OBVIOUS
<1>1. errors \in Seq([line : Nat, error : Errors])
  <2>1. PICK S : S = ReportItems(version, input)
    OBVIOUS
  <2>2. errors \in Seq(S)
    BY <2>1 DEF FixesInv
  <2>3. S \subseteq [line : Nat, error : Errors]
    <3>1. ASSUME NEW x \in S PROVE x \in [line : Nat, error : Errors]
      <4>1. x.line \in Nat /\ x.error \in Errors
        BY <2>1, ItemTyped DEF FixesInv
      <4>2. x = [line |-> x.line, error |-> x.error]
        BY <2>1 DEF ReportItems
      <4> QED
        BY <4>1, <4>2
    <3> QED
      BY <3>1
  <2> QED
    BY <2>2, <2>3, SeqSubset
<1>2. errors_fixed \in 0..Len(errors) /\ current_line \in 0..Len(input) /\ Len(errors) \in Nat
  BY <1>1 DEF RepairInv, PlaceInv
<1>3. ignored_errors \in 0..Len(errors)
  BY <1>2 DEF FixesInv
<1> QED
  BY <1>1, <1>2, <1>3 DEF FixesInv, RepairTypeOK, DebugulatorTypeOK, OutputItems

(* No report has been read. *)
LEMMA FixesInit ==
  ASSUME RepairInit
  PROVE  FixesInv
<1>1. PICK f \in Files : version = f.version /\ file = f.lines
  BY DEF RepairInit
<1>2. /\ input = << >> /\ errors = << >> /\ output = << >> /\ errors_fixed = 0 /\ ignored_errors = 0
      /\ stage = "validate" /\ status = "returned"
  BY DEF RepairInit
<1>3. version \in {"v41", "v42", "v43"} /\ file \in Seq(Lines)
  BY <1>1, FilesAssumption
<1>4. \A S : << >> \in Seq(S)
  OBVIOUS
<1>5. Len(<< >>) = 0
  OBVIOUS
<1>6. 1..0 = {}
  OBVIOUS
<1>7. 0 \in 0..0
  OBVIOUS
<1> QED
  BY <1>2, <1>3, <1>4, <1>5, <1>6, <1>7, Zenon DEF FixesInv

(* A new report, and no output yet. *)
LEMMA FixesValidate ==
  ASSUME RepairInv, FixesInv, Validate
  PROVE  FixesInv'
<1>1. PICK lines, report : lines = file /\ report = ReportOf(version, file)
  OBVIOUS
<1>2. /\ file' = lines /\ input' = lines /\ errors' = report /\ errors_fixed' = 0
      /\ output' = << >> /\ ignored_errors' = 0 /\ version' = version /\ stage' = "fix"
      /\ status' \in {"returned", "fixing"}
  BY <1>1 DEF Validate, Start
<1>3. lines \in Seq(Lines) /\ version \in {"v41", "v42", "v43"}
  BY <1>1 DEF FixesInv
<1>4. report \in Seq(ReportItems(version, lines))
  <2>1. Len(lines) \in Nat /\ \A at \in 1..Len(lines) : HasShape(lines[at])
    BY <1>1 DEF RepairInv, ReadInv
  <2> QED
    BY <1>1, <2>1, ReportFollows
<1>5. \A S : << >> \in Seq(S)
  OBVIOUS
<1>6. Len(<< >>) = 0 /\ 1..0 = {} /\ 0 \in 0..0
  OBVIOUS
<1> QED
  BY <1>2, <1>3, <1>4, <1>5, <1>6 DEF FixesInv

(* One more line of the output. *)
LEMMA FixesAdds ==
  ASSUME FixesInv, UNCHANGED <<version, file, stage, input, errors>>,
         status' \in {"fixing", "copying", "returned", "throws", "crashes"},
         ignored_errors' \in 0..errors_fixed',
         NEW x \in OutputItems, output' = Append(output, x),
         \A i \in 1..Len(errors) : errors[i].line = x.at =>
           FixedBy(input[x.at], errors[i].error, x.line)
  PROVE  FixesInv'
<1>1. output \in Seq(OutputItems)
  BY DEF FixesInv
<1>2. /\ output' \in Seq(OutputItems) /\ Len(output) \in Nat /\ Len(output') = Len(output) + 1
      /\ \A i \in 1..Len(output) : output'[i] = output[i]
      /\ output'[Len(output) + 1] = x
  BY <1>1, AppendProperties
<1>3. OutputItems' = OutputItems
  BY DEF OutputItems
<1>4. ASSUME NEW k \in 1..Len(output'), NEW i \in 1..Len(errors), errors[i].line = output'[k].at
      PROVE  FixedBy(input[output'[k].at], errors[i].error, output'[k].line)
  <2>1. CASE k \in 1..Len(output)
    <3>1. output'[k] = output[k]
      BY <1>2, <2>1
    <3> QED
      BY <1>4, <2>1, <3>1 DEF FixesInv
  <2>2. CASE k = Len(output) + 1
    BY <1>2, <1>4, <2>2
  <2> QED
    BY <1>2, <2>1, <2>2
<1> QED
  BY <1>2, <1>3, <1>4 DEF FixesInv

(* None. *)
LEMMA FixesSame ==
  ASSUME FixesInv, UNCHANGED <<version, input, errors, output>>, file' \in Seq(Lines),
         stage' \in {"validate", "fix", "valid", "unchanged", "escaped", "stopped"},
         status' \in {"fixing", "copying", "returned", "throws", "crashes"},
         ignored_errors' \in 0..errors_fixed'
  PROVE  FixesInv'
<1>1. OutputItems' = OutputItems
  BY DEF OutputItems
<1> QED
  BY <1>1 DEF FixesInv

(* Advance and CopyLine write a line that has no error. *)
LEMMA FixesAdvance ==
  ASSUME RepairInv, FixesInv, Advance \/ CopyLine, UNCHANGED <<version, file, stage>>
  PROVE  FixesInv'
<1>1. PICK cl : cl = current_line
  OBVIOUS
<1>2. PICK x : x = From(cl + 1, input[cl + 1])
  OBVIOUS
<1>3. /\ UNCHANGED <<version, file, stage, input, errors, errors_fixed, ignored_errors, status>>
      /\ cl < Len(input) /\ cl \in 0..Len(input) /\ Len(input) \in Nat /\ input \in Seq(Lines)
  BY <1>1 DEF Advance, CopyLine, RepairInv, PlaceInv, ReadInv, FixesInv
<1>4. \/ output' = output
      \/ output' = Append(output, x) /\ ~Has(errors, cl + 1)
  <2>1. CASE Advance
    BY <1>1, <1>2, <2>1, AdvanceReads DEF Advance, line_index
  <2>2. CASE CopyLine
    <3>1. /\ errors_fixed = Len(errors) /\ IsReport(errors)
          /\ \A k \in 1..Len(errors) : errors[k].line <= cl
      BY <1>1, <2>2, ReportOfInput DEF CopyLine, RepairInv, PlaceInv, ReadInv
    <3>2. ~Has(errors, cl + 1)
      BY <1>3, <3>1 DEF Has, IsReport
    <3> QED
      BY <1>1, <1>2, <2>2, <3>2 DEF CopyLine
  <2> QED
    BY <2>1, <2>2
<1>5. /\ status' \in {"fixing", "copying", "returned", "throws", "crashes"}
      /\ stage' \in {"validate", "fix", "valid", "unchanged", "escaped", "stopped"}
      /\ ignored_errors' \in 0..errors_fixed' /\ file' \in Seq(Lines)
  BY <1>3 DEF FixesInv
<1>6. CASE output' = output
  BY <1>3, <1>5, <1>6, FixesSame
<1>7. CASE output' = Append(output, x) /\ ~Has(errors, cl + 1)
  <2>1. cl + 1 \in 1..Len(input)
    BY <1>3
  <2>2. input[cl + 1] \in Lines
    BY <1>3, <2>1
  <2>3. x \in OutputItems /\ x.at = cl + 1
    BY <1>2, <2>1, <2>2 DEF OutputItems, From
  <2>4. \A i \in 1..Len(errors) : errors[i].line # x.at
    BY <1>7, <2>3 DEF Has
  <2> QED
    BY <1>3, <1>5, <1>7, <2>3, <2>4, FixesAdds
<1> QED
  BY <1>4, <1>6, <1>7

(* FixError writes what the fix makes of the line, or nothing. *)
LEMMA FixesFix ==
  ASSUME RepairInv, FixesInv, FixError, UNCHANGED <<version, file, stage>>
  PROVE  FixesInv'
<1>1. PICK er, ef, cl, in : er = errors /\ ef = errors_fixed /\ cl = current_line /\ in = input
  OBVIOUS
<1>2. PICK e : e = er[ef + 1]
  OBVIOUS
<1>3. PICK o \in fix(in[cl], e.error) :
        /\ output' = output \o [k \in 1..Len(o.written) |-> From(cl, o.written[k])]
        /\ ignored_errors' = ignored_errors + o.ignored
        /\ IF o.ends = "no" THEN errors_fixed' = ef + 1 /\ status' = status
                            ELSE status' = o.ends /\ errors_fixed' = ef
  BY <1>1, <1>2 DEF FixError
<1>4. UNCHANGED <<input, errors>> /\ status = "fixing"
  BY DEF FixError
<1>5. ef + 1 \in 1..Len(er) /\ e.line = cl /\ cl \in 1..Len(in)
  BY <1>1, <1>2, FixReads
<1>6. /\ in \in Seq(Lines) /\ er \in Seq(ReportItems(version, in)) /\ output \in Seq(OutputItems)
      /\ ignored_errors \in 0..ef /\ InReportOrder(er) /\ Len(er) \in Nat /\ ef \in Nat
  BY <1>1 DEF FixesInv, RepairInv, ReadInv, PlaceInv, Follows
<1>7. e \in ReportItems(version, in)
  BY <1>2, <1>5, <1>6
<1>8. /\ status' \in {"fixing", "copying", "returned", "throws", "crashes"} \/ ~GoodFix(o)
      /\ stage' \in {"validate", "fix", "valid", "unchanged", "escaped", "stopped"}
      /\ file' \in Seq(Lines)
  BY <1>3, <1>4 DEF FixesInv, GoodFix
<1>9. CASE IsDuplication(e)
  <2>1. o = Outcome(<< >>, 0)
    BY <1>3, <1>9 DEF IsDuplication, fix
  <2>2. o.written = << >> /\ o.ends = "no" /\ o.ignored = 0
    BY <2>1 DEF Outcome
  <2>3. output' = output /\ errors_fixed' = ef + 1 /\ status' = status /\ ignored_errors' = ignored_errors
    BY <1>3, <1>6, <2>2
  <2> QED
    BY <1>4, <1>6, <1>8, <2>3, FixesSame
<1>10. CASE ~IsDuplication(e)
  <2>1. GoodFix(o)
    <3>1. e.line <= Len(in)
      BY <1>5, <1>6
    <3> QED
      BY <1>3, <1>5, <1>6, <1>7, <1>10, <3>1, ItemTyped
  <2>2. CASE o.ends # "no"
    <3>1. o.written = << >> /\ o.ignored = 0 /\ o.ends \in {"throws", "crashes"}
      BY <2>1, <2>2 DEF GoodFix
    <3>2. output' = output /\ errors_fixed' = ef /\ ignored_errors' = ignored_errors
      BY <1>3, <1>6, <2>2, <3>1
    <3> QED
      BY <1>4, <1>6, <1>8, <2>1, <3>2, FixesSame
  <2>3. CASE o.ends = "no"
    <3>1. o.ignored \in 0..1 /\ \E new \in Lines : o.written = <<new>>
      BY <2>1, <2>3 DEF GoodFix
    <3>2. PICK new \in Lines : o.written = <<new>>
      BY <3>1
    <3>3. PICK x : x = From(cl, new)
      OBVIOUS
    <3>4. x \in OutputItems /\ x.at = cl /\ x.line = new
      BY <1>1, <1>5, <3>3 DEF From, OutputItems
    <3>5. [k \in 1..Len(o.written) |-> From(cl, o.written[k])] = <<x>>
      <4>1. Len(o.written) = 1 /\ o.written[1] = new
        BY <3>2
      <4>2. \A k \in 1..1 : From(cl, o.written[k]) = x
        BY <3>3, <4>1
      <4>3. [k \in 1..Len(o.written) |-> From(cl, o.written[k])] = [k \in 1..1 |-> x]
        BY <4>1, <4>2, Zenon
      <4> QED
        BY <4>3
    <3>6. output' = output \o <<x>> /\ errors_fixed' = ef + 1
      BY <1>3, <2>3, <3>5
    <3>7. output' = Append(output, x)
      <4>1. \A S : \A s \in Seq(S), y \in S : s \o <<y>> = Append(s, y)
        OBVIOUS
      <4> HIDE DEF OutputItems
      <4> QED
        BY <1>6, <3>4, <3>6, <4>1
    <3>8. ignored_errors' \in 0..errors_fixed'
      BY <1>3, <1>6, <3>1, <3>6
    <3>9. ASSUME NEW i \in 1..Len(er), er[i].line = x.at
          PROVE  FixedBy(in[x.at], er[i].error, x.line)
      <4>1. i = ef + 1
        <5>1. er[ef + 1].line = er[i].line /\ ~IsDuplication(er[ef + 1])
          BY <1>2, <1>5, <1>10, <3>4, <3>9
        <5>2. er[i].line \in Nat
          BY <1>5, <3>4, <3>9
        <5>3. ~(i < ef + 1) /\ ~(ef + 1 < i)
          BY <1>5, <1>6, <5>1, <5>2 DEF InReportOrder
        <5> QED
          BY <1>6, <5>3
      <4>2. FixedBy(in[cl], e.error, new)
        BY <1>3, <2>3, <3>2 DEF FixedBy
      <4> QED
        BY <1>2, <3>4, <4>1, <4>2
    <3> QED
      BY <1>1, <1>4, <1>8, <2>1, <3>4, <3>7, <3>8, <3>9, FixesAdds
  <2> QED
    BY <2>2, <2>3
<1> QED
  BY <1>9, <1>10

(* The other steps write no line. *)
LEMMA FixesRest ==
  ASSUME RepairInv, FixesInv,
         \/ (TooShort \/ EndOfReport \/ ReturnIgnored) /\ UNCHANGED <<version, file, stage>>
         \/ ValidatorFails \/ DebugulatorFails \/ NextRound \/ UNCHANGED repairVars
  PROVE  FixesInv'
<1>1. /\ UNCHANGED <<version, input, errors, output, errors_fixed, ignored_errors>>
      /\ file' = file \/ file' = OutputLines
  BY DEF TooShort, EndOfReport, ReturnIgnored, ValidatorFails, DebugulatorFails, NextRound,
         repairVars, debugulatorVars
<1>2. status' = status \/ status' \in {"throws", "copying", "returned"}
  BY DEF TooShort, EndOfReport, ReturnIgnored, ValidatorFails, DebugulatorFails, NextRound,
         repairVars, debugulatorVars
<1>3. stage' = stage \/ stage' \in {"escaped", "stopped", "valid", "unchanged", "validate"}
  BY DEF TooShort, EndOfReport, ReturnIgnored, ValidatorFails, DebugulatorFails, NextRound,
         repairVars, debugulatorVars
<1>4. OutputLines \in Seq(Lines)
  <2>1. output \in Seq(OutputItems)
    BY DEF FixesInv
  <2>2. \A k \in 1..Len(output) : output[k] \in OutputItems
    BY <2>1
  <2>3. \A k \in 1..Len(output) : output[k].line \in Lines
    <3> HIDE DEF Lines
    <3> QED
      BY <2>2 DEF OutputItems
  <2>4. Len(output) \in Nat
    BY <2>1
  <2> QED
    BY <2>3, <2>4 DEF OutputLines
<1>5. file' \in Seq(Lines)
  BY <1>1, <1>4 DEF FixesInv
<1>6. status' \in {"fixing", "copying", "returned", "throws", "crashes"}
  BY <1>2 DEF FixesInv
<1>7. stage' \in {"validate", "fix", "valid", "unchanged", "escaped", "stopped"}
  BY <1>3 DEF FixesInv
<1>8. ignored_errors' \in 0..errors_fixed'
  BY <1>1 DEF FixesInv
<1> QED
  BY <1>1, <1>5, <1>6, <1>7, <1>8, FixesSame

(***************************************************************************)
(* The second invariant of the two programs, for any files: reports, lines *)
(* and counters have their types, and a line of the output that had an     *)
(* error is what Fixer::visit wrote for it.                                *)
(***************************************************************************)
THEOREM FixesInvariant == RepairSpec => []FixesInv
<1>1. RepairInit => FixesInv
  BY FixesInit
<1>2. RepairInv /\ FixesInv /\ [RepairNext]_repairVars => FixesInv'
  <2> SUFFICES ASSUME RepairInv, FixesInv, [RepairNext]_repairVars PROVE FixesInv'
    OBVIOUS
  <2>1. CASE Validate
    BY <2>1, FixesValidate
  <2>2. CASE DebugulatorStep
    <3>1. FixVcfFile /\ UNCHANGED <<version, file, stage>>
      BY <2>2 DEF DebugulatorStep
    <3> QED
      BY <3>1, FixesAdvance, FixesFix, FixesRest DEF FixVcfFile
  <2>3. CASE ValidatorFails \/ DebugulatorFails \/ NextRound \/ UNCHANGED repairVars
    BY <2>3, FixesRest
  <2> QED
    BY <2>1, <2>2, <2>3 DEF RepairNext
<1> QED
  BY <1>1, <1>2, RepairInvariant, PTL DEF RepairSpec

(***************************************************************************)
(* RepairTypeOK, for any files: what validator and debugulator hand to     *)
(* each other, in every round.  No check throws an error that is not one,  *)
(* no fix writes a column that is not one, and no more errors are ignored  *)
(* than there are in the report.                                           *)
(***************************************************************************)
THEOREM RepairTypeCorrect == RepairSpec => []RepairTypeOK
BY RepairInvariant, FixesInvariant, InvGivesType, PTL

(***************************************************************************)
(* check_body_entry_info_confidence_interval reads two values of CIPOS     *)
(* only where there are two, whatever the meta entries of the file say:    *)
(* the checks of a record that come before it refuse all others.           *)
(***************************************************************************)
THEOREM OptionalReadsAreSafe == RepairSpec => []OptionalReadsSafe
<1>1. FixesInv => OptionalReadsSafe
  <2> SUFFICES ASSUME FixesInv, NEW at \in 1..Len(input),
                      input[at].kind = "body", LineError(version, input, at) = Nothing,
                      NEW i \in 1..Len(input[at].info), input[at].info[i].key = "CIPOS"
               PROVE  Len(InfoValue(input[at].info[i])) = 2
    BY Zenon DEF OptionalReadsSafe
  <2>1. input \in Seq(Lines)
    BY DEF FixesInv
  <2> QED
    BY <2>1, ReadsSafe
<1> QED
  BY <1>1, FixesInvariant, PTL

-----------------------------------------------------------------------------
(***************************************************************************)
(* Duplicates.                                                             *)
(***************************************************************************)

(* The line of the output that was fixed for an error. *)
LEMMA OutputOfFix ==
  ASSUME FixesInv, NEW k \in 1..Len(output), ErrorOf(k) # << >>
  PROVE  \E x \in ReportItems(version, input) :
           /\ ErrorOf(k)[1] = x /\ x.line = output[k].at
           /\ FixedBy(input[output[k].at], x.error, output[k].line)
<1>1. PICK S, at : S = ReportItems(version, input) /\ at = output[k].at
  OBVIOUS
<1>2. PICK E, n : E = errors /\ n = Len(errors)
  OBVIOUS
<1>3. E \in Seq(S) /\ n = Len(E) /\ n \in Nat
  BY <1>1, <1>2 DEF FixesInv
<1>4. PICK K : K = {i \in 1..n : E[i].line = at}
  OBVIOUS
<1>5. PICK kept : kept = ErrorOf(k)
  OBVIOUS
<1>6. kept = FlattenSeq([i \in 1..Len(E) |-> IF i \in K THEN <<E[i]>> ELSE << >>])
  <2>1. kept = FlattenSeq([i \in 1..Len(errors) |-> IF errors[i].line = output[k].at THEN <<errors[i]>> ELSE << >>])
    BY <1>5, Zenon DEF ErrorOf, ErrorsAt, FieldsAt
  <2>2. [i \in 1..Len(errors) |-> IF errors[i].line = output[k].at THEN <<errors[i]>> ELSE << >>]
          = [i \in 1..Len(E) |-> IF i \in K THEN <<E[i]>> ELSE << >>]
    BY <1>1, <1>2, <1>4
  <2> QED
    BY <2>1, <2>2, Zenon
<1>7. kept \in Seq(S) /\ \E g : KeptBy(kept, E, K, Len(E), g)
  BY <1>3, <1>6, KeptFields, ZenonT(40)
<1>8. PICK g : KeptBy(kept, E, K, Len(E), g)
  BY <1>7
<1>9. Len(kept) \in Nat /\ 1 \in 1..Len(kept)
  BY <1>5, <1>7
<1>10. PICK i \in 1..n : kept[1] = E[i] /\ E[i].line = at
  BY <1>2, <1>4, <1>8, <1>9 DEF KeptBy
<1>11. E[i] \in S
  BY <1>3, <1>10
<1>12. FixedBy(input[output[k].at], errors[i].error, output[k].line)
  BY <1>1, <1>2, <1>10 DEF FixesInv
<1> QED
  BY <1>1, <1>2, <1>5, <1>10, <1>11, <1>12

(* For an error of INFO or FORMAT that is a line of the body. *)
LEMMA FixedInBody ==
  ASSUME FixesInv, NEW k \in 1..Len(output), ErrorOf(k) # << >>,
         ErrorOf(k)[1].error.type \in {"InfoBodyError", "FormatBodyError"}
  PROVE  /\ input[output[k].at] \in BodyLines
         /\ FixedBy(input[output[k].at], ErrorOf(k)[1].error, output[k].line)
<1>1. PICK x \in ReportItems(version, input) :
           /\ ErrorOf(k)[1] = x /\ x.line = output[k].at
           /\ FixedBy(input[output[k].at], x.error, output[k].line)
  BY OutputOfFix, Zenon
<1>2. x.error.type \in {"InfoBodyError", "FormatBodyError"}
  BY <1>1
<1>3. x.error # DuplicateError /\ x.error # HeaderError
  <2>1. DuplicateError.type = "DuplicationError" /\ HeaderError.type = "HeaderSectionError"
    BY DEF DuplicateError, HeaderError, Irrecoverable, Error
  <2> QED
    BY <1>2, <2>1
<1>4. x.line \in 1..Len(input) /\ LineError(version, input, x.line) = <<x.error>>
  BY <1>3 DEF ReportItems, FixesInv
<1>5. PICK at, e : at = x.line /\ e = x.error
  OBVIOUS
<1>6. input \in Seq(Lines) /\ at \in 1..Len(input) /\ LineError(version, input, at) = <<e>>
  BY <1>4, <1>5 DEF FixesInv
<1>7. input[at] \in BodyLines
  <2>1. \/ input[at] \in MetaLines /\ e \in MetaErrors
        \/ input[at] \in BodyLines /\ e \in BodyErrors
    BY <1>6, LineErrorTyped
  <2> QED
    BY <1>2, <1>5, <2>1 DEF MetaErrors
<1> QED
  BY <1>1, <1>5, <1>7

(* The first index at which a sequence has a value. *)
LEMMA FirstIndex ==
  ASSUME NEW T, NEW s \in Seq(T), NEW i \in 1..Len(s)
  PROVE  \E f \in 1..Len(s) : s[f] = s[i] /\ IsFirst(s, f) /\ f <= i
<1> DEFINE S == {x \in 1..Len(s) : s[x] = s[i]}
<1>1. S \subseteq Nat /\ i \in S
  OBVIOUS
<1>2. PICK f \in S : \A y \in S : f <= y
  <2> HIDE DEF S
  <2> QED
    BY <1>1, LeastNat
<1>3. f \in 1..Len(s) /\ s[f] = s[i] /\ f <= i
  BY <1>1, <1>2
<1>4. ASSUME NEW x \in 1..(f - 1) PROVE s[x] # s[f]
  <2>1. x \in 1..Len(s) /\ ~(f <= x)
    BY <1>3
  <2> QED
    BY <1>2, <1>3, <2>1
<1> QED
  BY <1>3, <1>4 DEF IsFirst

(* What remove_duplicate_key_value_pairs keeps of fields with one value. *)
LEMMA InfoPairs ==
  ASSUME NEW info \in Seq(InfoFields), \A i \in 1..Len(info) : Len(info[i].parts) = 1,
         NEW after, after = remove_duplicate_key_value_pairs(info)
  PROVE  /\ ~HasDuplicates(KeysOf(after))
         /\ \A i \in 1..Len(info) :
              Contains(after, info[i]) <=>
                \A n \in 1..Len(info) : info[n].key = info[i].key => info[n] = info[i]
<1>1. PICK kept, g : /\ kept \in Seq(InfoFields) /\ KeptBy(kept, info, Staying(info), Len(info), g)
                     /\ after = PairsOf(kept)
  BY KeyValuePairsKept, Zenon
<1>2. PICK m \in Nat : m = Len(info)
  OBVIOUS
<1>3. PICK keys : keys = KeysOf(info)
  OBVIOUS
<1>4. keys \in Seq(Keys) /\ Len(keys) = m /\ \A i \in 1..m : keys[i] = info[i].key
  <2>1. ASSUME NEW i \in 1..m PROVE info[i].key \in Keys
    <3>1. info[i] \in InfoFields
      BY <1>2
    <3> QED
      BY <3>1 DEF InfoFields
  <2>2. keys = [i \in 1..m |-> info[i].key]
    BY <1>2, <1>3 DEF KeysOf
  <2> QED
    BY <2>1, <2>2
<1>5. \A i \in 1..m : info[i] = Field(info[i].key, info[i].parts[1])
  <2>1. ASSUME NEW i \in 1..m PROVE info[i] = Field(info[i].key, info[i].parts[1])
    <3>1. PICK f \in InfoFields : f = info[i]
      BY <1>2
    <3>2. PICK p \in Seq(Values) : p = f.parts
      BY DEF InfoFields
    <3>3. Len(p) = 1
      BY <1>2, <3>1, <3>2
    <3>4. p = <<p[1]>>
      BY <3>3
    <3>5. f = [key |-> f.key, parts |-> f.parts]
      BY DEF InfoFields
    <3> QED
      BY <3>1, <3>2, <3>4, <3>5 DEF Field
  <2> QED
    BY <2>1
<1>6. \A i \in 1..m : i \in Staying(info) <=> IsFirst(keys, i) /\ keys[i] \notin Differing(info)
  BY <1>2, <1>3, Zenon DEF Staying
<1>7. \A y : y \in Differing(info) <=>
        \E x \in 1..m : y = keys[x] /\ \E k \in 1..(x - 1) :
          keys[k] = keys[x] /\ info[k].parts[1] # info[x].parts[1]
  BY <1>2, <1>3, Zenon DEF Differing
<1> DEFINE Same(i) == \A n \in 1..m : info[n].key = info[i].key => info[n] = info[i]
<1>8. ASSUME NEW i \in 1..m, i \in Staying(info) PROVE Same(i)
  <2>1. SUFFICES ASSUME NEW n \in 1..m, keys[n] = keys[i] PROVE info[n] = info[i]
    BY <1>4
  <2>2. n >= i
    BY <1>6, <1>8, <2>1 DEF IsFirst
  <2>3. CASE n = i
    BY <2>3
  <2>4. CASE n > i
    <3>1. i \in 1..(n - 1)
      BY <2>4
    <3>2. info[i].parts[1] = info[n].parts[1]
      BY <1>6, <1>7, <1>8, <2>1, <3>1
    <3> QED
      BY <1>4, <1>5, <2>1, <3>2
  <2> QED
    BY <2>2, <2>3, <2>4
<1>9. ASSUME NEW i \in 1..m, Same(i) PROVE \E f \in 1..m : f \in Staying(info) /\ info[f] = info[i]
  <2>1. PICK f \in 1..m : keys[f] = keys[i] /\ IsFirst(keys, f)
    BY <1>4, FirstIndex
  <2>2. info[f] = info[i]
    BY <1>4, <1>9, <2>1
  <2>3. keys[f] \notin Differing(info)
    <3>1. ASSUME NEW x \in 1..m, keys[x] = keys[f], NEW k \in 1..(x - 1), keys[k] = keys[x]
          PROVE  info[k].parts[1] = info[x].parts[1]
      <4>1. k \in 1..m
        OBVIOUS
      <4>2. info[k] = info[i] /\ info[x] = info[i]
        BY <1>4, <1>9, <2>1, <3>1, <4>1
      <4> QED
        BY <4>2
    <3> QED
      BY <1>7, <3>1
  <2> QED
    BY <1>6, <2>1, <2>2, <2>3
<1> HIDE DEF Same
<1>10. Len(kept) \in Nat /\ \A k \in 1..Len(kept) :
         g[k] \in 1..m /\ g[k] \in Staying(info) /\ kept[k] = info[g[k]]
  BY <1>1, <1>2 DEF KeptBy
<1>11. ASSUME NEW f \in 1..m, f \in Staying(info) PROVE \E k \in 1..Len(kept) : kept[k] = info[f]
  <2>1. PICK k \in 1..Len(kept) : g[k] = f
    BY <1>1, <1>2, <1>11 DEF KeptBy
  <2> QED
    BY <1>10, <2>1
<1>12. CASE kept = << >>
  <2>1. after = <<Dot>>
    BY <1>1, <1>12 DEF PairsOf
  <2>2. ~HasDuplicates(KeysOf(after))
    <3>1. Len(after) = 1 /\ Len(KeysOf(after)) = 1
      BY <2>1 DEF KeysOf
    <3>2. 1..(1 - 1) = {}
      OBVIOUS
    <3>3. IsFirst(KeysOf(after), 1)
      BY <3>2 DEF IsFirst
    <3> QED
      BY <3>1, <3>3 DEF HasDuplicates
  <2>3. ASSUME NEW i \in 1..m PROVE ~Contains(after, info[i]) /\ ~Same(i)
    <3>1. Dot # info[i]
      <4>1. PICK e : e = << >>
        OBVIOUS
      <4>2. Len(e) = 0 /\ Dot.parts = e
        BY <4>1 DEF Dot, Flag
      <4>3. Len(info[i].parts) = 1
        BY <1>2
      <4>4. 0 # 1
        OBVIOUS
      <4> QED
        BY <4>2, <4>3, <4>4, Zenon
    <3>2. ~Contains(after, info[i])
      BY <2>1, <3>1 DEF Contains
    <3>3. Len(kept) = 0
      BY <1>12
    <3> QED
      BY <1>9, <1>11, <3>2, <3>3
  <2> QED
    BY <1>2, <2>2, <2>3 DEF Same
<1>13. CASE kept # << >>
  <2>1. after = [k \in 1..Len(kept) |-> Field(kept[k].key, kept[k].parts[1])]
    BY <1>1, <1>13 DEF PairsOf
  <2>2. Len(after) = Len(kept)
    BY <1>10, <2>1
  <2>3. \A k \in 1..Len(kept) : after[k] = info[g[k]]
    BY <1>5, <1>10, <2>1
  <2>4. ~HasDuplicates(KeysOf(after))
    <3>1. Len(KeysOf(after)) = Len(kept)
      BY <1>10, <2>2 DEF KeysOf
    <3>2. ASSUME NEW k \in 1..Len(kept), NEW i \in 1..(k - 1) PROVE KeysOf(after)[i] # KeysOf(after)[k]
      <4>1. i \in 1..Len(kept) /\ i < k
        BY <1>10
      <4>2. g[i] < g[k] /\ g[i] \in 1..m /\ g[k] \in 1..m
        BY <1>1, <1>10, <4>1 DEF KeptBy
      <4>3. IsFirst(keys, g[k])
        BY <1>6, <1>10
      <4>4. g[i] \in 1..(g[k] - 1)
        BY <4>2
      <4>5. keys[g[i]] # keys[g[k]]
        BY <4>3, <4>4 DEF IsFirst
      <4>6. KeysOf(after)[i] = keys[g[i]] /\ KeysOf(after)[k] = keys[g[k]]
        BY <1>4, <2>2, <2>3, <4>1, <4>2 DEF KeysOf
      <4> QED
        BY <4>5, <4>6
    <3> QED
      BY <3>1, <3>2 DEF HasDuplicates, IsFirst
  <2>5. ASSUME NEW i \in 1..m PROVE Contains(after, info[i]) <=> Same(i)
    <3>1. ASSUME Contains(after, info[i]) PROVE Same(i)
      <4>1. PICK k \in 1..Len(kept) : after[k] = info[i]
        BY <2>2, <3>1 DEF Contains
      <4>2. info[g[k]] = info[i] /\ Same(g[k])
        BY <1>8, <1>10, <2>3, <4>1
      <4> QED
        BY <4>2 DEF Same
    <3>2. ASSUME Same(i) PROVE Contains(after, info[i])
      <4>1. PICK k \in 1..Len(kept) : kept[k] = info[i]
        BY <1>9, <1>11, <3>2
      <4>2. after[k] = info[i]
        BY <1>10, <2>3, <4>1
      <4> QED
        BY <2>2, <4>2 DEF Contains
    <3> QED
      BY <3>1, <3>2
  <2> QED
    BY <1>2, <2>4, <2>5 DEF Same
<1> QED
  BY <1>12, <1>13

(* The fix of the duplicates of INFO, where no flag is read past its end. *)
LEMMA InfoFixed ==
  ASSUME NEW line \in BodyLines, NEW after,
         \E o \in FixDuplicateInfo(line) : o.ends = "no" /\ o.written = <<after>>,
         \A i \in 1..Len(line.info) : Len(line.info[i].parts) = 1
  PROVE  after.info = remove_duplicate_key_value_pairs(line.info)
<1>3. PICK o \in FixDuplicateInfo(line) : o.ends = "no" /\ o.written = <<after>>
  OBVIOUS
<1>4. o # Ends("crashes")
  <2>1. Ends("crashes").ends = "crashes"
    BY DEF Ends
  <2> QED
    BY <1>3, <2>1
<1>5. PICK past \in ReadPastEnd(line.info) :
        o = Outcome(<<[line EXCEPT !.info = remove_duplicate_key_value_pairs(past)]>>, 0)
  BY <1>4, Zenon DEF FixDuplicateInfo
<1>6. PICK info \in Seq(InfoFields) : info = line.info
  BY ColumnTypes
<1>7. past = info
  <2>1. {i \in 1..Len(info) : IsFlag(info[i])} = {}
    <3>1. ASSUME NEW i \in 1..Len(info) PROVE ~IsFlag(info[i])
      <4>1. PICK p, empty : p = info[i].parts /\ empty = << >>
        OBVIOUS
      <4>2. Len(p) = 1 /\ Len(empty) = 0
        BY <1>6, <4>1
      <4>3. 0 # 1
        OBVIOUS
      <4> QED
        BY <4>1, <4>2, <4>3, Zenon DEF IsFlag
    <3> QED
      BY <3>1
  <2> DEFINE flags == {i \in 1..Len(info) : IsFlag(info[i])}
  <2>2. PICK h \in [flags -> Garbage] :
          past = [i \in 1..Len(info) |-> IF i \in flags THEN Field(info[i].key, h[i]) ELSE info[i]]
    BY <1>6, Zenon DEF ReadPastEnd
  <2>3. past = [i \in 1..Len(info) |-> info[i]]
    BY <2>1, <2>2
  <2> QED
    BY <2>3
<1>8. PICK fixed : fixed = remove_duplicate_key_value_pairs(info)
  OBVIOUS
<1>9. o.written = <<[line EXCEPT !.info = fixed]>>
  BY <1>5, <1>6, <1>7, <1>8 DEF Outcome
<1>10. after = [line EXCEPT !.info = fixed]
  BY <1>3, <1>9
<1>11. [line EXCEPT !.info = fixed].info = fixed
  BY DEF BodyLines
<1> QED
  BY <1>6, <1>8, <1>10, <1>11

(* InfoDuplicatesFixed follows from the invariant, *)
LEMMA InvGivesInfo == FixesInv => InfoDuplicatesFixed
<1> SUFFICES ASSUME FixesInv, NEW k \in 1..Len(output), ErrorOf(k) # << >>,
                    ErrorOf(k)[1].error = Duplicated("InfoBodyError"),
                    NEW before, before = input[output[k].at].info,
                    NEW after, after = output[k].line.info,
                    \A i \in 1..Len(before) : Len(before[i].parts) = 1
             PROVE  /\ ~HasDuplicates(KeysOf(after))
                    /\ \A i \in 1..Len(before) :
                         Contains(after, before[i]) <=>
                           \A n \in 1..Len(before) : before[n].key = before[i].key => before[n] = before[i]
  BY Zenon DEF InfoDuplicatesFixed
<1>1. PICK e : e = ErrorOf(k)[1].error
  OBVIOUS
<1>2. e = Duplicated("InfoBodyError") /\ e.type = "InfoBodyError"
  <2>1. Duplicated("InfoBodyError").type = "InfoBodyError"
    BY DEF Duplicated, Error
  <2> QED
    BY <1>1, <2>1, Zenon
<1>3. PICK line, fixed : line = input[output[k].at] /\ fixed = output[k].line
  OBVIOUS
<1>4. line \in BodyLines /\ FixedBy(line, e, fixed)
  BY <1>1, <1>2, <1>3, FixedInBody
<1>5. after = remove_duplicate_key_value_pairs(before)
  <2>1. fix(line, e) = FixInfo(line, e)
    BY <1>2 DEF fix
  <2>2. e.error_fix = "DUPLICATE_VALUES"
    BY <1>2 DEF Duplicated, Error
  <2>3. FixInfo(line, e) = FixDuplicateInfo(line)
    BY <2>2 DEF FixInfo
  <2>4. \E o \in FixDuplicateInfo(line) : o.ends = "no" /\ o.written = <<fixed>>
    BY <1>4, <2>1, <2>3 DEF FixedBy
  <2> QED
    BY <1>3, <1>4, <2>4, InfoFixed
<1>6. before \in Seq(InfoFields)
  BY <1>3, <1>4, ColumnTypes
<1> QED
  BY <1>5, <1>6, InfoPairs, Zenon

-----------------------------------------------------------------------------
(* A set of indices with two members has more than one. *)
LEMMA TwoMembers ==
  ASSUME NEW n \in Nat, NEW S, S \subseteq 1..n, NEW a \in S, NEW b \in S, a # b
  PROVE  Cardinality(S) > 1
<1>1. IsFiniteSet(1..n)
  BY FS_Interval
<1>2. IsFiniteSet(S) /\ IsFiniteSet(S \ {a})
  BY <1>1, FS_Subset
<1>3. Cardinality(S) \in Nat /\ Cardinality(S \ {a}) \in Nat
  BY <1>2, FS_CardinalityType
<1>4. Cardinality(S \ {a}) = Cardinality(S) - 1
  BY <1>2, FS_RemoveElement
<1>5. Cardinality(S \ {a}) # 0
  BY <1>2, FS_EmptySet
<1> QED
  BY <1>3, <1>4, <1>5

(* A key whose values differ in a sample is repeated. *)
LEMMA DifferingIsRepeated ==
  ASSUME NEW line \in BodyLines, NEW sample, NEW key, Differ(line.format, sample, key)
  PROVE  key \in RepeatedKeys(line)
<1>1. PICK format \in Seq(Keys) : format = line.format
  BY ColumnTypes
<1>2. PICK n \in Nat : n = Len(format)
  OBVIOUS
<1>3. PICK S : S = IndexesOf(format, key)
  OBVIOUS
<1>4. PICK i \in S : sample[i] # sample[Min(S)]
  BY <1>1, <1>3 DEF Differ
<1>5. S \subseteq 1..n
  BY <1>2, <1>3 DEF IndexesOf
<1>6. Min(S) \in S
  BY <1>4, <1>5, MinIndex
<1>7. Cardinality(S) > 1
  BY <1>4, <1>5, <1>6, TwoMembers
<1>8. key \in ToSet(format)
  <2>1. i \in 1..n /\ format[i] = key
    BY <1>2, <1>3, <1>4 DEF IndexesOf
  <2> QED
    BY <1>2, <2>1 DEF ToSet
<1> QED
  BY <1>1, <1>3, <1>7, <1>8 DEF RepeatedKeys

(* The one key that is repeated. *)
LEMMA OneRepeated ==
  ASSUME NEW line \in BodyLines, Cardinality(RepeatedKeys(line)) = 1
  PROVE  \E key \in Keys : RepeatedKeys(line) = {key}
<1>1. PICK format \in Seq(Keys) : format = line.format
  BY ColumnTypes
<1>2. PICK n \in Nat : n = Len(format)
  OBVIOUS
<1>3. PICK T : T = ToSet(format)
  OBVIOUS
<1>4. T \subseteq Keys
  BY <1>3 DEF ToSet
<1>5. IsFiniteSet(T)
  <2>1. format \in Surjection(1..n, T)
    <3>1. format \in [1..n -> T]
      BY <1>2, <1>3 DEF ToSet
    <3>2. \A t \in T : \E i \in 1..n : format[i] = t
      BY <1>2, <1>3 DEF ToSet
    <3> QED
      BY <3>1, <3>2 DEF Surjection
  <2>2. IsFiniteSet(1..n)
    BY FS_Interval
  <2> QED
    BY <2>1, <2>2, FS_Surjection
<1>6. PICK S : S = RepeatedKeys(line)
  OBVIOUS
<1>7. S \subseteq T
  BY <1>1, <1>3, <1>6 DEF RepeatedKeys
<1>8. IsFiniteSet(S) /\ Cardinality(S) = 1
  BY <1>5, <1>6, <1>7, FS_Subset
<1>9. PICK key : S = {key}
  BY <1>8, FS_Singleton
<1> QED
  BY <1>4, <1>6, <1>7, <1>9

(* The order of the keys has a place for each. *)
LEMMA RankTyped ==
  ASSUME NEW key \in Keys
  PROVE  Rank(key) \in Nat
<1>1. \E i \in 1..Len(KeyOrder) : KeyOrder[i] = key
  <2>1. DOMAIN KeyOrder = 1..16 /\ Len(KeyOrder) = 16
    BY DEF KeyOrder
  <2>2. \E i \in DOMAIN KeyOrder : KeyOrder[i] = key
    BY Zenon DEF Keys, ToSet
  <2> QED
    BY <2>1, <2>2
<1> QED
  BY <1>1 DEF Rank

(* With one repeated key, it is removed exactly if its values differ.      *)
LEMMA RemovedIfDiffering ==
  ASSUME NEW line \in BodyLines, Cardinality(RepeatedKeys(line)) = 1, NEW key \in ToSet(line.format)
  PROVE  key \in get_format_fields_to_remove(line.format, line.samples)
           <=> \E s \in 1..Len(line.samples) : Differ(line.format, line.samples[s], key)
<1>1. PICK r \in Keys : RepeatedKeys(line) = {r}
  BY OneRepeated
<1>2. PICK format, samples : format = line.format /\ samples = line.samples
  OBVIOUS
<1>3. PICK n \in Nat : n = Len(samples)
  BY <1>2, ColumnTypes
<1> DEFINE DifferIn(s) == {k \in ToSet(format) : Differ(format, samples[s], k)}
           found == {s \in 1..Len(samples) : DifferIn(s) # {}}
           first == CHOOSE k \in DifferIn(Min(found)) :
                      \A other \in DifferIn(Min(found)) : Rank(k) <= Rank(other)
<1>4. \A s : DifferIn(s) \subseteq {r}
  BY <1>1, <1>2, DifferingIsRepeated
<1>5. PICK removed : removed = get_format_fields_to_remove(format, samples)
  OBVIOUS
<1>6. removed = IF found = {} THEN {}
                ELSE {first} \cup {k \in DifferIn(Len(samples)) : Rank(k) > Rank(first)}
  BY <1>5, Zenon DEF get_format_fields_to_remove
<1>7. \A s \in 1..n : key \in DifferIn(s) <=> Differ(format, samples[s], key)
  BY <1>2
<1>8. \A s \in 1..n : s \in found <=> DifferIn(s) # {}
  BY <1>3
<1>9. CASE found = {}
  BY <1>2, <1>3, <1>5, <1>6, <1>7, <1>8, <1>9
<1>10. CASE found # {}
  <2>1. Min(found) \in found
    <3>1. found \subseteq 1..n
      BY <1>3
    <3> HIDE DEF found
    <3> QED
      BY <1>10, <3>1, MinIndex
  <2>2. PICK m \in 1..n : m = Min(found) /\ DifferIn(m) # {}
    BY <1>3, <2>1
  <2>3. DifferIn(m) = {r}
    BY <1>4, <2>2
  <2>4. PICK c \in Nat : c = Rank(r)
    BY RankTyped
  <2>5. first = r
    <3>0. Rank(r) <= Rank(r)
      BY <2>4
    <3>1. r \in DifferIn(Min(found)) /\ \A other \in DifferIn(Min(found)) : Rank(r) <= Rank(other)
      <4>1. PICK D : D = DifferIn(Min(found))
        OBVIOUS
      <4>2. D = {r}
        BY <2>2, <2>3, <4>1, Zenon
      <4>3. r \in D /\ \A other \in D : Rank(r) <= Rank(other)
        BY <3>0, <4>2
      <4> QED
        BY <4>1, <4>3, Zenon
    <3> HIDE DEF DifferIn
    <3>2. first \in DifferIn(Min(found))
      BY <3>1, Zenon
    <3> QED
      BY <2>2, <2>3, <3>2
  <2> HIDE DEF first
  <2>6. removed = {r}
    <3>1. \A k \in DifferIn(Len(samples)) : k = r
      BY <1>4
    <3>2. ~(Rank(r) > Rank(first))
      BY <2>4, <2>5
    <3>3. {k \in DifferIn(Len(samples)) : Rank(k) > Rank(first)} = {}
      BY <3>1, <3>2, Zenon
    <3> QED
      BY <1>6, <1>10, <2>5, <3>3
  <2>7. key = r <=> \E s \in 1..n : key \in DifferIn(s)
    BY <1>4, <2>2, <2>3
  <2> QED
    BY <1>2, <1>3, <1>5, <1>7, <2>6, <2>7
<1> QED
  BY <1>9, <1>10

(* FORMAT without its repeated key, *)
LEMMA FormatFixed ==
  ASSUME NEW line \in BodyLines, Cardinality(RepeatedKeys(line)) = 1,
         NEW format, format = FlattenSeq(OptionsOf(line, line.format))
  PROVE  /\ ~HasDuplicates(format)
         /\ \A key \in ToSet(line.format) :
              key \in ToSet(format) <=>
                ~\E s \in 1..Len(line.samples) : Differ(line.format, line.samples[s], key)
<1>1. PICK before \in Seq(Keys) : before = line.format
  BY ColumnTypes
<1>2. PICK removed : removed = get_format_fields_to_remove(line.format, line.samples)
  OBVIOUS
<1>3. PICK n \in Nat : n = Len(before)
  OBVIOUS
<1>4. PICK K : K = {i \in 1..Len(before) : StaysInFormat(line, i)}
  OBVIOUS
<1>5. \A i \in 1..n : i \in K <=> IsFirst(before, i) /\ before[i] \notin removed
  BY <1>1, <1>2, <1>3, <1>4 DEF StaysInFormat
<1>6. format \in Seq(Keys) /\ \E g : KeptBy(format, before, K, Len(before), g)
  BY <1>1, <1>4, FormatPairsKept, Zenon
<1>7. PICK g : KeptBy(format, before, K, n, g)
  BY <1>3, <1>6
<1>8. PICK m \in Nat : m = Len(format)
  BY <1>6
<1>9. /\ \A i, k \in 1..m : i < k => g[i] < g[k]
      /\ \A k \in 1..m : g[k] \in 1..n /\ g[k] \in K /\ format[k] = before[g[k]]
      /\ \A i \in 1..n : i \in K => \E k \in 1..m : g[k] = i
  BY <1>7, <1>8 DEF KeptBy
<1>10. ~HasDuplicates(format)
  <2>1. ASSUME NEW k \in 1..m, NEW i \in 1..(k - 1) PROVE format[i] # format[k]
    <3>1. i \in 1..m /\ i < k
      OBVIOUS
    <3>2. g[i] \in 1..(g[k] - 1)
      BY <1>9, <3>1
    <3>3. IsFirst(before, g[k])
      BY <1>5, <1>9
    <3> QED
      BY <1>9, <3>1, <3>2, <3>3 DEF IsFirst
  <2> QED
    BY <1>8, <2>1 DEF HasDuplicates, IsFirst
<1>11. ASSUME NEW key \in ToSet(before) PROVE key \in ToSet(format) <=> key \notin removed
  <2>1. PICK i \in 1..n : before[i] = key
    BY <1>3, <1>11 DEF ToSet
  <2>2. PICK f \in 1..n : before[f] = key /\ IsFirst(before, f)
    BY <1>3, <2>1, FirstIndex
  <2>3. key \in ToSet(format) <=> \E k \in 1..m : format[k] = key
    BY <1>8, <1>6 DEF ToSet
  <2>4. ASSUME key \notin removed PROVE \E k \in 1..m : format[k] = key
    <3>1. f \in K
      BY <1>5, <2>2, <2>4
    <3>2. PICK k \in 1..m : g[k] = f
      BY <1>9, <3>1
    <3>3. format[k] = key
      BY <1>9, <2>2, <3>2
    <3> QED
      BY <3>3
  <2>5. ASSUME NEW k \in 1..m, format[k] = key PROVE key \notin removed
    BY <1>5, <1>9, <2>5
  <2> QED
    BY <2>3, <2>4, <2>5
<1> QED
  BY <1>1, <1>2, <1>10, <1>11, RemovedIfDiffering, Zenon

(* FormatDuplicatesFixed follows from the invariant. *)
LEMMA InvGivesFormat == FixesInv => FormatDuplicatesFixed
<1> SUFFICES ASSUME FixesInv, NEW k \in 1..Len(output), ErrorOf(k) # << >>,
                    ErrorOf(k)[1].error = Duplicated("FormatBodyError"),
                    NEW before, before = input[output[k].at],
                    NEW after, after = output[k].line,
                    Cardinality(RepeatedKeys(before)) = 1
             PROVE  /\ ~HasDuplicates(after.format)
                    /\ \A key \in ToSet(before.format) :
                         key \in ToSet(after.format) <=>
                           ~\E s \in 1..Len(before.samples) : Differ(before.format, before.samples[s], key)
  BY Zenon DEF FormatDuplicatesFixed
<1>1. PICK e : e = ErrorOf(k)[1].error
  OBVIOUS
<1>2. e.type = "FormatBodyError" /\ e.error_fix = "DUPLICATE_VALUES"
  <2>1. Duplicated("FormatBodyError").type = "FormatBodyError"
        /\ Duplicated("FormatBodyError").error_fix = "DUPLICATE_VALUES"
    BY DEF Duplicated, Error
  <2> QED
    BY <1>1, <2>1, Zenon
<1>3. before \in BodyLines /\ FixedBy(before, e, after)
  BY <1>1, <1>2, FixedInBody
<1>4. fix(before, e) = remove_duplicate_format_sample_pairs(before)
  <2>1. fix(before, e) = FixFormat(before, e)
    BY <1>2 DEF fix
  <2> QED
    BY <1>2, <2>1 DEF FixFormat
<1>5. PICK o \in remove_duplicate_format_sample_pairs(before) : o.ends = "no" /\ o.written = <<after>>
  BY <1>3, <1>4 DEF FixedBy
<1>6. PICK format : format = FlattenSeq(OptionsOf(before, before.format))
  OBVIOUS
<1>7. o # Ends("throws")
  <2>1. Ends("throws").ends = "throws"
    BY DEF Ends
  <2> QED
    BY <1>5, <2>1
<1>8. o \in Write([before EXCEPT !.format = format, !.samples = FixedSamples(before)])
  BY <1>5, <1>6, <1>7, FormatPairs, Zenon
<1>9. o.written = <<[before EXCEPT !.format = format, !.samples = FixedSamples(before)]>>
  BY <1>8 DEF Write, Outcome
<1>10. after = [before EXCEPT !.format = format, !.samples = FixedSamples(before)]
  BY <1>5, <1>9
<1>11. after.format = format
  BY <1>3, <1>10 DEF BodyLines
<1> QED
  BY <1>3, <1>6, <1>11, FormatFixed, Zenon

(***************************************************************************)
(* remove_duplicate_key_value_pairs leaves each key of INFO once, exactly  *)
(* if all its values are the same: for any INFO with one value per field.  *)
(***************************************************************************)
THEOREM InfoDuplicatesAreFixed == RepairSpec => []InfoDuplicatesFixed
BY FixesInvariant, InvGivesInfo, PTL

(***************************************************************************)
(* remove_duplicate_format_sample_pairs leaves the one repeated key of a   *)
(* FORMAT once, exactly if its values are the same in every sample: for    *)
(* any number of samples, of any length.                                   *)
(***************************************************************************)
THEOREM FormatDuplicatesAreFixed == RepairSpec => []FormatDuplicatesFixed
BY FixesInvariant, InvGivesFormat, PTL

-----------------------------------------------------------------------------
(***************************************************************************)
(* Nothing else is lost.                                                   *)
(***************************************************************************)

(* The fields that two sequences keep are at the same places, as far as    *)
(* the same places of both are kept.                                       *)
Alike(kept, s, K, n, g, both, t, J, l, h) ==
  /\ n \in Nat /\ l \in Nat /\ n <= l /\ Len(kept) \in Nat /\ Len(both) \in Nat
  /\ \A i \in 1..n : i \in K <=> i \in J
  /\ KeptBy(kept, s, K, n, g)
  /\ KeptBy(both, t, J, l, h)

InStep(kept, g, both, h) == \A k \in 1..Len(kept) : k <= Len(both) /\ h[k] = g[k]

(* InStep says so. *)
LEMMA KeptAlike ==
  ASSUME NEW kept, NEW s, NEW K, NEW n, NEW g, NEW both, NEW t, NEW J, NEW l, NEW h,
         Alike(kept, s, K, n, g, both, t, J, l, h)
  PROVE  InStep(kept, g, both, h)
<1>0. /\ n \in Nat /\ l \in Nat /\ n <= l /\ Len(kept) \in Nat /\ Len(both) \in Nat
      /\ \A i \in 1..n : i \in K <=> i \in J
      /\ KeptBy(kept, s, K, n, g) /\ KeptBy(both, t, J, l, h)
  BY DEF Alike
<1>1. PICK a \in Nat, b \in Nat : a = Len(kept) /\ b = Len(both)
  BY <1>0
<1>2. /\ \A k \in 1..a : g[k] \in 1..n /\ g[k] \in K
      /\ \A i, k \in 1..a : i < k => g[i] < g[k]
      /\ \A i \in 1..n : i \in K => \E k \in 1..a : g[k] = i
  BY <1>0, <1>1 DEF KeptBy
<1>3. /\ \A k \in 1..b : h[k] \in 1..l /\ h[k] \in J
      /\ \A i, k \in 1..b : i < k => h[i] < h[k]
      /\ \A i \in 1..l : i \in J => \E k \in 1..b : h[k] = i
  BY <1>0, <1>1 DEF KeptBy
<1> DEFINE Bad == {k \in 1..a : ~(k <= b /\ h[k] = g[k])}
<1>4. Bad = {}
  <2>1. SUFFICES ASSUME Bad # {} PROVE FALSE
    OBVIOUS
  <2>2. Bad \subseteq Nat
    BY <1>1
  <2>3. PICK k \in Bad : \A y \in Bad : k <= y
    <3> HIDE DEF Bad
    <3> QED
      BY <2>1, <2>2, LeastNat
  <2>4. k \in 1..a /\ ~(k <= b /\ h[k] = g[k])
    OBVIOUS
  <2>5. \A j \in 1..a : j < k => j <= b /\ h[j] = g[j]
    BY <2>3, <2>4
  <2> HIDE DEF Bad
  <2>6. PICK x \in 1..n : x = g[k] /\ x \in K /\ x \in J /\ x \in 1..l
    BY <1>0, <1>2, <2>4
  <2>7. PICK p \in 1..b : h[p] = x
    BY <1>3, <2>6
  <2>8. ~(p < k)
    <3>1. SUFFICES ASSUME p < k PROVE FALSE
      OBVIOUS
    <3>2. p \in 1..a
      BY <1>1, <2>4, <3>1
    <3>3. g[p] = x /\ g[p] < g[k]
      BY <1>2, <2>4, <2>5, <2>7, <3>1, <3>2
    <3> QED
      BY <2>6, <3>3
  <2>9. p # k
    BY <2>4, <2>6, <2>7
  <2>10. k < p /\ k \in 1..b
    BY <1>1, <2>4, <2>7, <2>8, <2>9
  <2>11. PICK y \in 1..l : y = h[k] /\ y < x /\ y \in J
    BY <1>3, <2>7, <2>10
  <2>12. y \in 1..n /\ y \in K
    BY <1>0, <2>6, <2>11
  <2>13. PICK j \in 1..a : g[j] = y
    BY <1>2, <2>12
  <2>14. j < k
    <3>1. SUFFICES ASSUME ~(j < k) PROVE FALSE
      OBVIOUS
    <3>2. j = k \/ k < j
      BY <1>1, <2>4, <3>1
    <3>3. k < j => g[k] < g[j]
      BY <1>2, <2>4
    <3> QED
      BY <2>6, <2>11, <2>13, <3>2, <3>3
  <2>15. j \in 1..b /\ h[j] = y
    BY <1>1, <2>5, <2>13, <2>14
  <2>16. h[j] < h[k]
    BY <1>3, <2>10, <2>14, <2>15
  <2> QED
    BY <2>11, <2>15, <2>16
<1> QED
  BY <1>1, <1>4 DEF InStep

(* The value of a key whose first place is known. *)
FirstPlace(line, f, key) ==
  /\ line.format \in Seq(Keys) /\ f \in 1..Len(line.format)
  /\ IsFirst(line.format, f) /\ line.format[f] = key

(* It is the value at that place, if the sample is long enough. *)
LEMMA ValueAt ==
  ASSUME NEW line, NEW f, NEW key, FirstPlace(line, f, key), NEW s
  PROVE  ValueOf(line, s, key) = IF f <= Len(line.samples[s]) THEN <<line.samples[s][f]>> ELSE << >>
<1>0. PICK T : T = Keys
  OBVIOUS
<1>1. PICK format \in Seq(T) : /\ format = line.format /\ f \in 1..Len(format)
                               /\ IsFirst(format, f) /\ format[f] = key
  BY <1>0 DEF FirstPlace
<1>2. PICK n \in Nat : n = Len(format)
  OBVIOUS
<1>3. PICK I : I = IndexesOf(format, key)
  OBVIOUS
<1>4. I \subseteq 1..n /\ f \in I /\ \A i \in 1..n : i \in I => format[i] = key
  BY <1>1, <1>2, <1>3 DEF IndexesOf
<1>5. PICK m \in 1..n : m = Min(I) /\ m \in I /\ m <= f
  BY <1>4, MinIndex
<1>6. ~(m < f)
  <2>1. SUFFICES ASSUME m < f PROVE FALSE
    OBVIOUS
  <2>2. f \in 1..n /\ m \in 1..(f - 1)
    BY <1>1, <1>2, <2>1
  <2>3. format[m] = key /\ format[f] = key
    BY <1>1, <1>4, <1>5
  <2> QED
    BY <1>1, <2>2, <2>3 DEF IsFirst
<1>7. Min(I) = f
  BY <1>1, <1>2, <1>5, <1>6
<1> QED
  BY <1>1, <1>3, <1>7, Zenon DEF ValueOf

(* FORMAT and a sample that keep the same places keep the values in step.  *)
KeptInStep(before, after, s, K, g, J, both, h) ==
  /\ before.format \in Seq(Keys) /\ after.format \in Seq(Keys)
  /\ before.samples[s] \in Seq(Values) /\ both \in Seq(Values)
  /\ Len(before.samples[s]) >= Len(before.format)
  /\ \A i \in 1..Len(before.format) : (i \in K <=> i \in J) /\ (i \in K => IsFirst(before.format, i))
  /\ KeptBy(after.format, before.format, K, Len(before.format), g)
  /\ KeptBy(both, before.samples[s], J, Len(before.samples[s]), h)
  /\ both # << >> => after.samples[s] = both

ValuesKept(before, after, s) ==
  \A key \in ToSet(after.format) : ValueOf(after, s, key) = ValueOf(before, s, key)

(* So every key that stays has the value it had. *)
LEMMA ValuesInStep ==
  ASSUME NEW before, NEW after, NEW s, NEW K, NEW g, NEW J, NEW both, NEW h,
         KeptInStep(before, after, s, K, g, J, both, h)
  PROVE  ValuesKept(before, after, s)
<1> SUFFICES ASSUME NEW key \in ToSet(after.format) PROVE ValueOf(after, s, key) = ValueOf(before, s, key)
  BY DEF ValuesKept
<1>0. PICK T, V : T = Keys /\ V = Values
  OBVIOUS
<1> /\ before.format \in Seq(T) /\ after.format \in Seq(T)
    /\ before.samples[s] \in Seq(V) /\ both \in Seq(V)
    /\ Len(before.samples[s]) >= Len(before.format)
    /\ \A i \in 1..Len(before.format) : (i \in K <=> i \in J) /\ (i \in K => IsFirst(before.format, i))
    /\ KeptBy(after.format, before.format, K, Len(before.format), g)
    /\ KeptBy(both, before.samples[s], J, Len(before.samples[s]), h)
    /\ both # << >> => after.samples[s] = both
  BY <1>0 DEF KeptInStep
<1>1. PICK format \in Seq(T), kept \in Seq(T) : format = before.format /\ kept = after.format
  OBVIOUS
<1>2. PICK sample \in Seq(V) : sample = before.samples[s]
  OBVIOUS
<1>3. PICK n \in Nat, l \in Nat : n = Len(format) /\ l = Len(sample) /\ n <= l
  BY <1>1, <1>2
<1>4. PICK k \in 1..Len(kept) : kept[k] = key
  BY <1>1 DEF ToSet
<1>5. KeptBy(kept, format, K, n, g) /\ KeptBy(both, sample, J, l, h)
  BY <1>1, <1>2, <1>3
<1>6. k <= Len(both) /\ h[k] = g[k]
  <2>1. \A i \in 1..n : i \in K <=> i \in J
    BY <1>1, <1>3
  <2>2. InStep(kept, g, both, h)
    <3>1. Alike(kept, format, K, n, g, both, sample, J, l, h)
      BY <1>3, <1>5, <2>1 DEF Alike
    <3> QED
      BY <3>1, KeptAlike, Zenon
  <2> QED
    BY <1>4, <2>2 DEF InStep
<1>7. PICK f \in 1..n : f = g[k] /\ f \in K /\ format[f] = key
  <2>1. g[k] \in 1..n /\ g[k] \in K /\ kept[k] = format[g[k]]
    BY <1>5 DEF KeptBy
  <2> QED
    BY <1>4, <2>1
<1>8. IsFirst(format, f)
  BY <1>1, <1>3, <1>7
<1>9. IsFirst(kept, k)
  <2>1. SUFFICES ASSUME NEW j \in 1..(k - 1) PROVE kept[j] # kept[k]
    BY DEF IsFirst
  <2>2. j \in 1..Len(kept) /\ j < k
    BY <1>1
  <2>3. g[j] \in 1..n /\ g[j] < f /\ kept[j] = format[g[j]]
    <3>1. g[j] \in 1..n /\ g[j] < g[k] /\ kept[j] = format[g[j]]
      BY <1>5, <2>2 DEF KeptBy
    <3> QED
      BY <1>7, <3>1
  <2>4. g[j] \in 1..(f - 1)
    BY <2>3
  <2>5. format[g[j]] # format[f]
    BY <1>8, <2>4 DEF IsFirst
  <2> QED
    BY <1>4, <1>7, <2>3, <2>5
<1>10. ValueOf(before, s, key) = <<sample[f]>>
  <2>1. ValueOf(before, s, key) = IF f <= Len(before.samples[s]) THEN <<before.samples[s][f]>> ELSE << >>
    <3>1. FirstPlace(before, f, key)
      BY <1>0, <1>1, <1>3, <1>7, <1>8 DEF FirstPlace
    <3> QED
      BY <3>1, ValueAt, Zenon
  <2>2. f <= Len(before.samples[s])
    BY <1>2, <1>3
  <2> QED
    BY <1>2, <2>1, <2>2, Zenon
<1>11. k \in 1..Len(both) /\ both[k] = sample[f] /\ both # << >>
  <2>1. k \in 1..Len(both)
    BY <1>1, <1>6
  <2>2. both[k] = sample[h[k]]
    BY <1>5, <2>1 DEF KeptBy
  <2> QED
    BY <1>6, <1>7, <2>1, <2>2
<1>12. ValueOf(after, s, key) = <<both[k]>>
  <2>1. ValueOf(after, s, key) = IF k <= Len(after.samples[s]) THEN <<after.samples[s][k]>> ELSE << >>
    <3>1. FirstPlace(after, k, key)
      BY <1>0, <1>1, <1>4, <1>9 DEF FirstPlace
    <3> QED
      BY <3>1, ValueAt, Zenon
  <2> QED
    BY <1>11, <2>1
<1> QED
  BY <1>10, <1>11, <1>12

(* What NothingElseLost asks of one line. *)
LineKept(before, after, e) ==
  /\ ToSet(after.ids) = ToSet(before.ids)
  /\ ToSet(after.filter) \ {"0", "."} = ToSet(before.filter) \ {"0", "."}
  /\ (NoShortSamples(before) /\ (e.type = "SamplesFieldBodyError" => ~HasDuplicates(before.format)))
       => SamplesKept(before, after, e)
  /\ (e.error_fix = "DUPLICATE_VALUES"
        => \A i \in 1..Len(before.info) : Len(before.info[i].parts) = 1)
       => InfoKept(before, after, e)

(* What a fix writes. *)
Writes(fixes, after) == \E o \in fixes : o.ends = "no" /\ o.written = <<after>>

(* One line, with an error ignored or not, *)
LEMMA WritesOne ==
  ASSUME NEW new, NEW after, Writes(Write(new), after) \/ Writes(ignore_error(new), after)
  PROVE  after = new
<1>1. PICK o \in Write(new) \cup ignore_error(new) : o.written = <<after>>
  BY DEF Writes
<1>2. o.written = <<new>>
  BY DEF Write, ignore_error, Outcome
<1> QED
  BY <1>1, <1>2

(* or none. *)
LEMMA EndsWritesNothing ==
  ASSUME NEW how \in {"throws", "crashes"}, NEW after
  PROVE  ~Writes({Ends(how)}, after)
BY DEF Writes, Ends

(* Columns that a fix leaves alone. *)
LEMMA SamplesUntouched ==
  ASSUME NEW before, NEW after, NEW e, after.format = before.format, after.samples = before.samples
  PROVE  SamplesKept(before, after, e)
<1>1. \A s, key : ValueOf(after, s, key) = ValueOf(before, s, key)
  BY Zenon DEF ValueOf
<1> QED
  BY <1>1 DEF SamplesKept

(* So is INFO, *)
LEMMA InfoUntouched ==
  ASSUME NEW before, NEW after, NEW e, after.info = before.info
  PROVE  InfoKept(before, after, e)
BY DEF InfoKept, Contains

(* and the whole line. *)
LEMMA LineUntouched ==
  ASSUME NEW line, NEW e
  PROVE  LineKept(line, line, e)
BY SamplesUntouched, InfoUntouched DEF LineKept

(* What remove_fields leaves of the set of the fields. *)
LeftOf(s, removed) == {s[i] : i \in (1..Len(s)) \ removed}

(* It is that set, or the empty column where nothing is left. *)
LEMMA RemovedSet ==
  ASSUME NEW T, NEW s \in Seq(T), NEW empty_column, NEW removed
  PROVE  IF LeftOf(s, removed) = {}
           THEN remove_fields(s, empty_column, removed) = empty_column
           ELSE ToSet(remove_fields(s, empty_column, removed)) = LeftOf(s, removed)
<1>0. PICK kept, g : RemovedTo(T, s, empty_column, removed, kept, g)
  BY RemoveFieldsKeeps, Zenon
<1>1. /\ kept \in Seq(T) /\ KeptBy(kept, s, (1..Len(s)) \ removed, Len(s), g)
      /\ remove_fields(s, empty_column, removed) = IF kept = << >> THEN empty_column ELSE kept
  BY <1>0 DEF RemovedTo
<1>2. PICK left : left = LeftOf(s, removed)
  OBVIOUS
<1>3. PICK n \in Nat, m \in Nat : n = Len(s) /\ m = Len(kept)
  BY <1>1
<1>4. /\ \A k \in 1..m : g[k] \in 1..n /\ g[k] \notin removed /\ kept[k] = s[g[k]]
      /\ \A i \in 1..n : i \notin removed => \E k \in 1..m : g[k] = i
  BY <1>1, <1>3 DEF KeptBy
<1>5. ToSet(kept) = {kept[k] : k \in 1..m}
  BY <1>1, <1>3 DEF ToSet
<1>6. \A x : x \in left <=> \E i \in 1..n : i \notin removed /\ x = s[i]
  BY <1>2, <1>3 DEF LeftOf
<1>7. \A x : x \in left <=> \E k \in 1..m : x = kept[k]
  BY <1>4, <1>6
<1>8. ToSet(kept) = left
  BY <1>5, <1>7
<1>9. kept = << >> <=> left = {}
  <2>1. CASE kept = << >>
    BY <1>3, <1>7, <2>1
  <2>2. CASE kept # << >>
    <3>1. 1 \in 1..m
      BY <1>1, <1>3, <2>2, EmptySeq
    <3> QED
      BY <1>7, <2>2, <3>1
  <2> QED
    BY <2>1, <2>2
<1> QED
  BY <1>1, <1>2, <1>8, <1>9

(* Without its duplicates a column has the same set of fields. *)
LEMMA DuplicatesRemoved ==
  ASSUME NEW T, NEW s \in Seq(T)
  PROVE  ToSet(remove_duplicate_strings(s)) = ToSet(s)
<1>1. PICK removed : removed = {i \in 1..Len(s) : ~IsFirst(s, i)}
  OBVIOUS
<1>2. remove_duplicate_strings(s) = remove_fields(s, << >>, removed)
  BY <1>1 DEF remove_duplicate_strings
<1>3. PICK left : left = LeftOf(s, removed)
  OBVIOUS
<1>4. left = ToSet(s)
  <2>1. ASSUME NEW i \in 1..Len(s) PROVE s[i] \in left
    <3>1. PICK f \in 1..Len(s) : s[f] = s[i] /\ IsFirst(s, f)
      BY FirstIndex
    <3> QED
      BY <1>1, <1>3, <3>1 DEF LeftOf
  <2>2. left \subseteq ToSet(s)
    BY <1>3 DEF ToSet, LeftOf
  <2>3. ToSet(s) = {s[i] : i \in 1..Len(s)}
    BY DEF ToSet
  <2> QED
    BY <2>1, <2>2, <2>3
<1>5. IF left = {} THEN remove_fields(s, << >>, removed) = << >>
                   ELSE ToSet(remove_fields(s, << >>, removed)) = left
  BY <1>3, RemovedSet, Zenon
<1>6. ToSet(<< >>) = {}
  BY DEF ToSet
<1> QED
  BY <1>2, <1>4, <1>5, <1>6

(* The fixes of ID, *)
LEMMA IdKept ==
  ASSUME NEW line \in BodyLines, NEW e, NEW after, Writes(FixId(line, e), after)
  PROVE  LineKept(line, after, e)
<1>1. PICK fixed : fixed = remove_duplicate_strings(line.ids)
  OBVIOUS
<1>2. FixId(line, e) = Write([line EXCEPT !.ids = fixed]) \/ FixId(line, e) = ignore_error(line)
  BY <1>1, Zenon DEF FixId
<1>3. after = [line EXCEPT !.ids = fixed] \/ after = line
  BY <1>2, WritesOne
<1>4. CASE after = [line EXCEPT !.ids = fixed]
  <2>1. /\ after.ids = fixed /\ after.filter = line.filter /\ after.info = line.info
        /\ after.format = line.format /\ after.samples = line.samples
    BY <1>4 DEF BodyLines
  <2>2. ToSet(fixed) = ToSet(line.ids)
    BY <1>1, ColumnTypes, DuplicatesRemoved
  <2> QED
    BY <2>1, <2>2, SamplesUntouched, InfoUntouched, Zenon DEF LineKept
<1> QED
  BY <1>3, <1>4, LineUntouched

(* of FILTER, *)
LEMMA FilterKept ==
  ASSUME NEW line \in BodyLines, NEW e, NEW after, Writes(FixFilter(line, e), after)
  PROVE  LineKept(line, after, e)
<1>1. PICK unique, others : /\ unique = remove_duplicate_strings(line.filter)
                            /\ others = remove_fields(line.filter, <<".">>, IndexesOf(line.filter, "0"))
  OBVIOUS
<1>2. \/ FixFilter(line, e) = Write([line EXCEPT !.filter = unique])
      \/ FixFilter(line, e) = Write([line EXCEPT !.filter = others])
      \/ FixFilter(line, e) = ignore_error(line)
  BY <1>1 DEF FixFilter
<1>3. (\E x \in {unique, others} : after = [line EXCEPT !.filter = x]) \/ after = line
  BY <1>2, WritesOne
<1>4. ASSUME NEW x \in {unique, others}, after = [line EXCEPT !.filter = x] PROVE LineKept(line, after, e)
  <2>1. /\ after.ids = line.ids /\ after.filter = x /\ after.info = line.info
        /\ after.format = line.format /\ after.samples = line.samples
    BY <1>4 DEF BodyLines
  <2>2. PICK filter \in Seq(Text) : filter = line.filter
    BY ColumnTypes
  <2>3. ToSet(unique) = ToSet(filter)
    BY <1>1, <2>2, DuplicatesRemoved
  <2>4. ToSet(others) \ {"0", "."} = ToSet(filter) \ {"0", "."}
    <3>1. PICK removed, left : removed = IndexesOf(filter, "0") /\ left = LeftOf(filter, removed)
      OBVIOUS
    <3>2. IF left = {} THEN others = <<".">> ELSE ToSet(others) = left
      BY <1>1, <2>2, <3>1, RemovedSet, Zenon
    <3>3. left = ToSet(filter) \ {"0"}
      BY <3>1 DEF IndexesOf, ToSet, LeftOf
    <3>4. ToSet(<<".">>) = {"."}
      BY DEF ToSet
    <3> QED
      BY <3>2, <3>3, <3>4
  <2>5. ToSet(x) \ {"0", "."} = ToSet(line.filter) \ {"0", "."}
    BY <2>2, <2>3, <2>4
  <2> QED
    BY <2>1, <2>5, SamplesUntouched, InfoUntouched, Zenon DEF LineKept
<1> QED
  BY <1>3, <1>4, LineUntouched

(* The first of several checks that finds something. *)
JoinOf(g, x, t, u, S) == x \in S /\ t \in Seq(S) /\ u \in Seq(S) /\ g = <<x>> \o t \o u

(* It is the first of all that they find. *)
LEMMA FirstOfJoin ==
  ASSUME NEW S, NEW x, NEW t, NEW u, NEW g, JoinOf(g, x, t, u, S)
  PROVE  g # << >> /\ g[1] = x
<1> x \in S /\ t \in Seq(S) /\ u \in Seq(S) /\ g = <<x>> \o t \o u
  BY DEF JoinOf
<1>1. PICK a : a = <<x>> \o t
  OBVIOUS
<1>2. <<x>> \in Seq(S) /\ Len(<<x>>) = 1 /\ <<x>>[1] = x
  OBVIOUS
<1>3. a \in Seq(S) /\ Len(a) = 1 + Len(t) /\ Len(t) \in Nat
  BY <1>1, <1>2, ConcatProperties
<1>4. a[1] = x
  BY <1>1, <1>2, <1>3, ConcatProperties
<1>5. g \in Seq(S) /\ Len(g) = Len(a) + Len(u) /\ Len(u) \in Nat
  BY <1>1, <1>3, ConcatProperties
<1>6. g[1] = a[1]
  BY <1>1, <1>3, <1>5, ConcatProperties
<1> QED
  BY <1>3, <1>4, <1>5, <1>6

(* An INFO with an empty field has an error of the grammar. *)
LEMMA EmptyKeyRefused ==
  ASSUME NEW source, NEW line \in BodyLines, NEW e, BodyError(source, line) = <<e>>,
         NEW i \in 1..Len(line.info), line.info[i].key = ""
  PROVE  e.field = ""
<1> DEFINE Refused == line.info = << >> \/ \E x \in 1..Len(line.info) :
             line.info[x].key = "" \/ \E p \in 1..Len(line.info[x].parts) :
               line.info[x].parts[p] = << >> \/ Contains(line.info[x].parts[p], Illegal)
           info == Throw(Refused, Irrecoverable("InfoBodyError", ""))
           format == Throw(line.format # << >> /\ (Contains(line.format, "") \/ line.samples = << >>),
                           Irrecoverable("FormatBodyError", ""))
           samples == SamplesRefused(line)
<1>1. grammar_record(line) = info \o format \o samples
  BY Zenon DEF grammar_record, SamplesRefused
<1>2. PICK first : first = Irrecoverable("InfoBodyError", "")
  OBVIOUS
<1>3. info = <<first>>
  BY <1>2 DEF Throw
<1>4. format = << >> \/ format = <<Irrecoverable("FormatBodyError", "")>>
  BY DEF Throw, Nothing
<1>5. samples \in Seq(BodyErrors) /\ format \in Seq(BodyErrors) /\ first \in BodyErrors
  BY <1>2, SamplesRefusedTyped, IrrecoverableError, TypeNames, ThrowTyped
<1> HIDE DEF info, format, samples
<1>6. PICK g : g = grammar_record(line)
  OBVIOUS
<1>7. g \in Seq(BodyErrors)
  BY <1>6, GrammarTyped
<1>8. PICK t, u : t = format /\ u = samples
  OBVIOUS
<1>9. g = <<first>> \o t \o u
  BY <1>1, <1>3, <1>6, <1>8, Zenon
<1>10. g # << >> /\ g[1] = first
  <2>1. t \in Seq(BodyErrors) /\ u \in Seq(BodyErrors) /\ first \in BodyErrors
    BY <1>5, <1>8, Zenon
  <2>2. JoinOf(g, first, t, u, BodyErrors)
    BY <1>9, <2>1, Zenon DEF JoinOf
  <2> QED
    BY <2>2, FirstOfJoin, Zenon
<1>11. e = first
  BY <1>6, <1>10 DEF BodyError, FirstThrown, Nothing
<1> QED
  BY <1>2, <1>11 DEF Irrecoverable, Error

(* What Front leaves. *)
LEMMA FrontKeeps ==
  ASSUME NEW S, NEW s \in Seq(S), NEW i \in 1..Len(s), i # Len(s)
  PROVE  Front(s) \in Seq(S) /\ i \in 1..Len(Front(s)) /\ Front(s)[i] = s[i]
<1>1. PICK n \in Nat : n = Len(s)
  OBVIOUS
<1>2. 1 <= i /\ i <= n - 1 /\ n - 1 \in Nat
  BY <1>1
<1>3. \A k \in 1..(n - 1) : k \in 1..n
  BY <1>1
<1>4. \A k \in 1..(n - 1) : s[k] \in S
  BY <1>1, <1>3, ElementOfSeq
<1>5. Front(s) = [k \in 1..(n - 1) |-> s[k]]
  BY <1>1, <1>2, <1>3 DEF Front
<1>6. Front(s) \in Seq(S) /\ Len(Front(s)) = n - 1
  BY <1>2, <1>4, <1>5
<1> QED
  BY <1>2, <1>5, <1>6

(* string_split loses at most an empty field. *)
LEMMA SplitKeeps ==
  ASSUME NEW info \in Seq(InfoFields), NEW fields, fields = string_split(info),
         NEW i \in 1..Len(info), info[i].key # ""
  PROVE  fields \in Seq(InfoFields) /\ i \in 1..Len(fields) /\ fields[i] = info[i]
<1>0. PICK S : S = InfoFields
  OBVIOUS
<1>1. CASE fields = info
  BY <1>1
<1>2. CASE fields = Front(info) /\ Last(info) = Flag("")
  <2>1. Last(info) = info[Len(info)]
    BY DEF Last
  <2>2. Flag("").key = ""
    BY DEF Flag
  <2>3. i # Len(info)
    BY <1>2, <2>1, <2>2, Zenon
  <2>4. info \in Seq(S)
    BY <1>0
  <2>5. fields \in Seq(S) /\ i \in 1..Len(fields) /\ fields[i] = info[i]
    BY <1>2, <2>3, <2>4, FrontKeeps, Zenon
  <2> QED
    BY <1>0, <2>5
<1> QED
  BY <1>1, <1>2, Zenon DEF string_split

(* replace_fields keeps a field of another key, *)
LEMMA ReplaceKeeps ==
  ASSUME NEW S, NEW fields \in Seq(S), NEW i \in 1..Len(fields), NEW key, NEW value, fields[i].key # key
  PROVE  Contains(replace_fields(fields, key, value), fields[i])
<1>1. PICK n \in Nat : n = Len(fields)
  OBVIOUS
<1>2. PICK replaced : replaced = replace_fields(fields, key, value)
  OBVIOUS
<1>3. replaced = [k \in 1..n |-> IF fields[k].key = key THEN Field(key, value) ELSE fields[k]]
  BY <1>1, <1>2 DEF replace_fields
<1>4. Len(replaced) = n /\ replaced[i] = fields[i]
  BY <1>1, <1>3
<1> QED
  BY <1>1, <1>2, <1>4 DEF Contains

(* and remove_fields one that is not to be removed. *)
LEMMA RemoveKeeps ==
  ASSUME NEW S, NEW fields \in Seq(S), NEW empty_column, NEW removed
  PROVE  \A i \in 1..Len(fields) : i \notin removed =>
           Contains(remove_fields(fields, empty_column, removed), fields[i])
<1>0. PICK kept, g : RemovedTo(S, fields, empty_column, removed, kept, g)
  BY RemoveFieldsKeeps, Zenon
<1>1. /\ kept \in Seq(S) /\ KeptBy(kept, fields, (1..Len(fields)) \ removed, Len(fields), g)
      /\ remove_fields(fields, empty_column, removed) = IF kept = << >> THEN empty_column ELSE kept
  BY <1>0 DEF RemovedTo
<1> SUFFICES ASSUME NEW i \in 1..Len(fields), i \notin removed
             PROVE  Contains(remove_fields(fields, empty_column, removed), fields[i])
  OBVIOUS
<1>2. PICK k \in 1..Len(kept) : kept[k] = fields[i]
  BY <1>1 DEF KeptBy
<1>3. kept # << >>
  BY <1>2
<1> QED
  BY <1>1, <1>2, <1>3 DEF Contains

(* of INFO, *)
LEMMA InfoLineKept ==
  ASSUME NEW line \in BodyLines, NEW e \in BodyErrors, NEW after, Writes(FixInfo(line, e), after),
         e.field = "" \/ \A i \in 1..Len(line.info) : line.info[i].key # ""
  PROVE  LineKept(line, after, e)
<1>1. PICK info \in Seq(InfoFields) : info = line.info
  BY ColumnTypes
<1>2. PICK fields : fields = string_split(info)
  OBVIOUS
<1> DEFINE ofField == {i \in 1..Len(fields) : fields[i].key = e.field /\ e.field # ""}
           replaced == replace_fields(fields, e.field, e.expected_value)
           removed == remove_fields(fields, <<Dot>>, ofField)
<1>3. CASE e.error_fix = "DUPLICATE_VALUES"
  <2>1. FixInfo(line, e) = FixDuplicateInfo(line)
    BY <1>3 DEF FixInfo
  <2>2. \E x : after = [line EXCEPT !.info = x]
    <3>1. PICK o \in FixDuplicateInfo(line) : o.ends = "no" /\ o.written = <<after>>
      BY <2>1 DEF Writes
    <3>2. Ends("crashes").ends = "crashes"
      BY DEF Ends
    <3>3. PICK past \in ReadPastEnd(line.info) :
            o = Outcome(<<[line EXCEPT !.info = remove_duplicate_key_value_pairs(past)]>>, 0)
      BY <3>1, <3>2, Zenon DEF FixDuplicateInfo
    <3>4. PICK x : x = remove_duplicate_key_value_pairs(past)
      OBVIOUS
    <3>5. PICK new : new = [line EXCEPT !.info = x]
      OBVIOUS
    <3>6. o = Outcome(<<new>>, 0)
      BY <3>3, <3>4, <3>5
    <3>7. Writes(Write(new), after)
      BY <3>1, <3>6, Zenon DEF Writes, Write
    <3>8. after = new
      BY <3>7, WritesOne, Zenon
    <3> QED
      BY <3>5, <3>8
  <2>3. /\ after.ids = line.ids /\ after.filter = line.filter
        /\ after.format = line.format /\ after.samples = line.samples
    BY <2>2 DEF BodyLines
  <2>4. ASSUME \A i \in 1..Len(line.info) : Len(line.info[i].parts) = 1
        PROVE  InfoKept(line, after, e)
    <3>1. after.info = remove_duplicate_key_value_pairs(line.info)
      BY <1>3, <2>1, <2>4, InfoFixed DEF Writes
    <3>2. \A i \in 1..Len(info) :
            Contains(after.info, info[i]) <=>
              \A n \in 1..Len(info) : info[n].key = info[i].key => info[n] = info[i]
      BY <1>1, <2>4, <3>1, InfoPairs, Zenon
    <3> QED
      BY <1>1, <1>3, <3>2, Zenon DEF InfoKept
  <2> QED
    BY <1>3, <2>3, <2>4, SamplesUntouched, Zenon DEF LineKept
<1>4. CASE e.error_fix # "DUPLICATE_VALUES"
  <2>1. \/ FixInfo(line, e) = {Ends("crashes")}
        \/ FixInfo(line, e) = Write([line EXCEPT !.info = replaced])
        \/ FixInfo(line, e) = Write([line EXCEPT !.info = removed])
    BY <1>1, <1>2, <1>4 DEF FixInfo
  <2>2. PICK x \in {replaced, removed} : after = [line EXCEPT !.info = x]
    BY <2>1, WritesOne, EndsWritesNothing
  <2>3. /\ after.ids = line.ids /\ after.filter = line.filter /\ after.info = x
        /\ after.format = line.format /\ after.samples = line.samples
    BY <2>2 DEF BodyLines
  <2>4. ASSUME NEW i \in 1..Len(info), info[i].key # e.field PROVE Contains(x, info[i])
    <3>1. info[i].key # ""
      BY <1>1, <2>4
    <3>2. fields \in Seq(InfoFields) /\ i \in 1..Len(fields) /\ fields[i] = info[i]
      BY <1>2, <3>1, SplitKeeps
    <3>3. i \notin ofField
      BY <2>4, <3>2
    <3>4. Contains(removed, info[i])
      BY <3>2, <3>3, RemoveKeeps
    <3>5. Contains(replaced, info[i])
      BY <2>4, <3>2, ReplaceKeeps
    <3> HIDE DEF replaced, removed
    <3> QED
      BY <2>2, <3>4, <3>5
  <2> HIDE DEF replaced, removed
  <2>5. InfoKept(line, after, e)
    BY <1>1, <2>3, <2>4, Zenon DEF InfoKept
  <2> QED
    BY <2>3, <2>5, SamplesUntouched, Zenon DEF LineKept
<1> QED
  BY <1>3, <1>4

(* of FORMAT, *)
LEMMA FormatLineKept ==
  ASSUME NEW line \in BodyLines, NEW e, e.type = "FormatBodyError", NEW after,
         Writes(FixFormat(line, e), after)
  PROVE  LineKept(line, after, e)
<1>1. PICK format : format = FlattenSeq(OptionsOf(line, line.format))
  OBVIOUS
<1>2. PICK samples : samples = FixedSamples(line)
  OBVIOUS
<1>3. PICK new : new = [line EXCEPT !.format = format, !.samples = samples]
  OBVIOUS
<1>4. FixFormat(line, e) \in {{Ends("throws")}, Write(new), ignore_error(line)}
  BY <1>1, <1>2, <1>3, FormatPairs, Zenon DEF FixFormat
<1>5. after = new \/ after = line
  BY <1>4, WritesOne, EndsWritesNothing
<1>6. CASE after = new
  <2>1. /\ after.ids = line.ids /\ after.filter = line.filter /\ after.info = line.info
        /\ after.format = format /\ after.samples = samples
    BY <1>3, <1>6 DEF BodyLines
  <2>2. ASSUME NoShortSamples(line) PROVE SamplesKept(line, after, e)
    <3>1. line.format \in Seq(Keys) /\ line.samples \in Seq(Seq(Values))
      BY ColumnTypes
    <3>2. PICK n \in Nat : n = Len(line.samples)
      BY <3>1
    <3>3. Len(samples) = n
      BY <1>2, <3>2 DEF FixedSamples
    <3>4. ASSUME NEW s \in 1..n PROVE ValuesKept(line, after, s)
      <4>1. PICK sample : sample = line.samples[s]
        OBVIOUS
      <4>2. sample \in Seq(Values) /\ Len(sample) >= Len(line.format)
        BY <2>2, <3>1, <3>2, <4>1 DEF NoShortSamples
      <4>3. PICK both : both = FlattenSeq(OptionsOf(line, sample))
        OBVIOUS
      <4>4. both # << >> => samples[s] = both
        BY <1>2, <3>2, <4>1, <4>3, Zenon DEF FixedSamples
      <4>5. PICK K, J : /\ K = {i \in 1..Len(line.format) : StaysInFormat(line, i)}
                        /\ J = {i \in 1..Len(sample) : StaysInFormat(line, i)}
        OBVIOUS
      <4>6. format \in Seq(Keys) /\ \E g : KeptBy(format, line.format, K, Len(line.format), g)
        BY <1>1, <3>1, <4>5, FormatPairsKept, Zenon
      <4>7. PICK g : KeptBy(format, line.format, K, Len(line.format), g)
        BY <4>6
      <4>8. both \in Seq(Values) /\ \E h : KeptBy(both, sample, J, Len(sample), h)
        BY <4>2, <4>3, <4>5, FormatPairsKept, Zenon
      <4>9. PICK h : KeptBy(both, sample, J, Len(sample), h)
        BY <4>8
      <4>10. \A i \in 1..Len(line.format) : (i \in K <=> i \in J) /\ (i \in K => IsFirst(line.format, i))
        <5>1. PICK a \in Nat, b \in Nat : a = Len(line.format) /\ b = Len(sample) /\ a <= b
          BY <3>1, <4>2
        <5>2. \A i \in 1..a : i \in 1..b
          BY <5>1
        <5>3. \A i : StaysInFormat(line, i) => IsFirst(line.format, i)
          BY DEF StaysInFormat
        <5> QED
          BY <4>5, <5>1, <5>2, <5>3
      <4>11. KeptInStep(line, after, s, K, g, J, both, h)
        BY <2>1, <3>1, <4>1, <4>2, <4>4, <4>6, <4>7, <4>8, <4>9, <4>10, Zenon DEF KeptInStep
      <4> QED
        BY <4>11, ValuesInStep, Zenon
    <3> QED
      BY <2>1, <3>2, <3>3, <3>4 DEF SamplesKept, KeptKeys, ValuesKept
  <2> QED
    BY <2>1, <2>2, InfoUntouched, Zenon DEF LineKept
<1> QED
  BY <1>5, <1>6, LineUntouched

(* A genotype replaced leaves the other values in their places. *)
GenotypeSet(line, after, s, missing) ==
  /\ line.format \in Seq(Keys) /\ line.samples[s] \in Seq(Values) /\ line.samples[s] # << >>
  /\ line.format[1] = "GT" /\ after.format = line.format
  /\ after.samples[s] = [line.samples[s] EXCEPT ![1] = missing]

ValuesKeptBut(before, after, s, others) ==
  \A key \in ToSet(after.format) \ others : ValueOf(after, s, key) = ValueOf(before, s, key)

(* All other keys keep their values. *)
LEMMA GenotypeReplaced ==
  ASSUME NEW line, NEW after, NEW missing, NEW s, GenotypeSet(line, after, s, missing)
  PROVE  ValuesKeptBut(line, after, s, {"", "GT"})
<1>0. /\ line.format \in Seq(Keys) /\ line.samples[s] \in Seq(Values) /\ line.samples[s] # << >>
      /\ line.format[1] = "GT" /\ after.format = line.format
      /\ after.samples[s] = [line.samples[s] EXCEPT ![1] = missing]
  BY DEF GenotypeSet
<1> SUFFICES ASSUME NEW key \in ToSet(line.format), key # "GT"
             PROVE  ValueOf(after, s, key) = ValueOf(line, s, key)
  BY <1>0 DEF ValuesKeptBut
<1>1. PICK T, V : T = Keys /\ V = Values
  OBVIOUS
<1>2. PICK format \in Seq(T), sample \in Seq(V) : format = line.format /\ sample = line.samples[s]
  BY <1>0, <1>1
<1>3. PICK i \in 1..Len(format) : format[i] = key
  BY <1>2 DEF ToSet
<1>4. PICK f \in 1..Len(format) : format[f] = key /\ IsFirst(format, f)
  BY <1>3, FirstIndex
<1>5. f # 1
  BY <1>0, <1>2, <1>4
<1>6. FirstPlace(line, f, key) /\ FirstPlace(after, f, key)
  BY <1>0, <1>2, <1>4 DEF FirstPlace
<1>7. ValueOf(line, s, key) = IF f <= Len(line.samples[s]) THEN <<line.samples[s][f]>> ELSE << >>
  BY <1>6, ValueAt, Zenon
<1>8. ValueOf(after, s, key) = IF f <= Len(after.samples[s]) THEN <<after.samples[s][f]>> ELSE << >>
  BY <1>6, ValueAt, Zenon
<1>9. PICK new : new = after.samples[s]
  OBVIOUS
<1>10. new = [sample EXCEPT ![1] = missing]
  BY <1>0, <1>2, <1>9
<1>11. Len(new) = Len(sample) /\ \A j \in 1..Len(sample) : j # 1 => new[j] = sample[j]
  BY <1>10
<1> QED
  BY <1>2, <1>4, <1>5, <1>7, <1>8, <1>9, <1>11

(* of genotypes, *)
LEMMA GenotypeLineKept ==
  ASSUME NEW line \in BodyLines, NEW e, e.field = "GT", NEW after, Writes(fix_format_gt(line, e), after)
  PROVE  LineKept(line, after, e)
<1> DEFINE repeat == IF e.field_cardinality <= -1 THEN 1 ELSE e.field_cardinality
<1>1. PICK missing : missing = [k \in 1..repeat |-> Missing]
  OBVIOUS
<1>2. PICK samples : samples = [s \in 1..Len(line.samples) |-> [line.samples[s] EXCEPT ![1] = missing]]
  OBVIOUS
<1>3. PICK new : new = [line EXCEPT !.samples = samples]
  OBVIOUS
<1>4. \/ fix_format_gt(line, e) \in {{Ends("crashes")}, ignore_error(line)}
      \/ /\ ~Contains(line.samples, << >>) /\ line.format[1] = "GT"
         /\ fix_format_gt(line, e) = Write(new)
  BY <1>1, <1>2, <1>3 DEF fix_format_gt
<1> HIDE DEF repeat
<1>5. after = line \/ (after = new /\ ~Contains(line.samples, << >>) /\ line.format[1] = "GT")
  BY <1>4, WritesOne, EndsWritesNothing
<1>6. CASE after = new /\ ~Contains(line.samples, << >>) /\ line.format[1] = "GT"
  <2>1. /\ after.ids = line.ids /\ after.filter = line.filter /\ after.info = line.info
        /\ after.format = line.format /\ after.samples = samples
    BY <1>3, <1>6 DEF BodyLines
  <2>2. line.samples \in Seq(Seq(Values))
    BY ColumnTypes
  <2>3. PICK n \in Nat : n = Len(line.samples)
    BY <2>2
  <2>4. Len(samples) = n
    BY <1>2, <2>3
  <2>5. ASSUME NEW s \in 1..n PROVE ValuesKeptBut(line, after, s, {"", e.field})
    <3>1. line.format \in Seq(Keys) /\ line.samples[s] \in Seq(Values)
      BY <2>2, <2>3, ColumnTypes
    <3>2. line.samples[s] # << >>
      BY <1>6, <2>3 DEF Contains
    <3>3. after.samples[s] = [line.samples[s] EXCEPT ![1] = missing]
      BY <1>2, <2>1, <2>3
    <3>4. GenotypeSet(line, after, s, missing)
      BY <1>6, <2>1, <3>1, <3>2, <3>3, Zenon DEF GenotypeSet
    <3> QED
      BY <3>4, GenotypeReplaced, Zenon
  <2>6. SamplesKept(line, after, e)
    BY <2>1, <2>3, <2>4, <2>5 DEF SamplesKept, KeptKeys, ValuesKeptBut
  <2> QED
    BY <2>1, <2>6, InfoUntouched, Zenon DEF LineKept
<1> QED
  BY <1>5, <1>6, LineUntouched

(* One field taken out of a sample. *)
LEMMA RemoveAtKept ==
  ASSUME NEW V, NEW t \in Seq(V), NEW p \in 1..Len(t)
  PROVE  /\ RemoveAt(t, p) \in Seq(V)
         /\ \E h : KeptBy(RemoveAt(t, p), t, (1..Len(t)) \ {p}, Len(t), h)
<1>1. PICK n \in Nat : n = Len(t) /\ p \in 1..n
  OBVIOUS
<1>2. PICK a, b : a = SubSeq(t, 1, p - 1) /\ b = SubSeq(t, p + 1, n)
  OBVIOUS
<1>3. \A i \in 1..n : t[i] \in V
  BY <1>1
<1>4. p - 1 \in Nat /\ p + 1 \in Nat /\ p \in Nat /\ p <= n
  BY <1>1
<1>5. a \in Seq(V) /\ Len(a) = p - 1 /\ \A i \in 1..(p - 1) : a[i] = t[i]
  <2>1. \A i \in 1..(p - 1) : t[i] \in V
    BY <1>1, <1>3
  <2> QED
    BY <1>2, <1>4, <2>1, SubSeqProperties
<1>6. b \in Seq(V) /\ Len(b) = n - p /\ \A i \in 1..(n - p) : b[i] = t[p + i]
  <2>1. \A i \in (p + 1)..n : t[i] \in V
    BY <1>1, <1>3
  <2> QED
    BY <1>2, <1>4, <2>1, SubSeqProperties
<1>7. PICK kept : kept = RemoveAt(t, p)
  OBVIOUS
<1>8. kept = a \o b
  BY <1>1, <1>2, <1>7 DEF RemoveAt
<1>9. /\ kept \in Seq(V) /\ Len(kept) = n - 1
      /\ \A i \in 1..(n - 1) : kept[i] = IF i <= p - 1 THEN a[i] ELSE b[i - (p - 1)]
  <2>1. /\ kept \in Seq(V) /\ Len(kept) = Len(a) + Len(b)
        /\ \A i \in 1..(Len(a) + Len(b)) : kept[i] = IF i <= Len(a) THEN a[i] ELSE b[i - Len(a)]
    BY <1>5, <1>6, <1>8, ConcatProperties
  <2>2. Len(a) + Len(b) = n - 1
    BY <1>4, <1>5, <1>6
  <2> QED
    BY <1>5, <2>1, <2>2
<1>10. \A i \in 1..(n - 1) : kept[i] = IF i < p THEN t[i] ELSE t[i + 1]
  <2>1. SUFFICES ASSUME NEW i \in 1..(n - 1) PROVE kept[i] = IF i < p THEN t[i] ELSE t[i + 1]
    OBVIOUS
  <2>2. CASE i < p
    BY <1>4, <1>5, <1>9, <2>2
  <2>3. CASE ~(i < p)
    <3>1. i - (p - 1) \in 1..(n - p) /\ p + (i - (p - 1)) = i + 1 /\ ~(i <= p - 1)
      BY <1>4, <2>3
    <3> QED
      BY <1>6, <1>9, <2>3, <3>1
  <2> QED
    BY <2>2, <2>3
<1>11. PICK h : h = [i \in 1..(n - 1) |-> IF i < p THEN i ELSE i + 1]
  OBVIOUS
<1>12. PICK K : K = (1..n) \ {p}
  OBVIOUS
<1>13. h \in [1..(n - 1) -> 1..n]
  BY <1>4, <1>11
<1>14. \A i, k \in 1..(n - 1) : i < k => h[i] < h[k]
  BY <1>4, <1>11
<1>15. \A k \in 1..(n - 1) : h[k] \in K /\ kept[k] = t[h[k]]
  BY <1>4, <1>10, <1>11, <1>12
<1>16. \A i \in 1..n : i \in K => \E k \in 1..(n - 1) : h[k] = i
  <2>1. SUFFICES ASSUME NEW i \in 1..n, i # p PROVE \E k \in 1..(n - 1) : h[k] = i
    BY <1>12
  <2>2. CASE i < p
    <3>1. i \in 1..(n - 1) /\ h[i] = i
      BY <1>4, <1>11, <2>2
    <3> QED
      BY <3>1
  <2>3. CASE p < i
    <3>1. i - 1 \in 1..(n - 1) /\ h[i - 1] = i
      BY <1>4, <1>11, <2>3
    <3> QED
      BY <3>1
  <2> QED
    BY <1>4, <2>1, <2>2, <2>3
<1>17. KeptBy(kept, t, K, n, h)
  BY <1>9, <1>13, <1>14, <1>15, <1>16 DEF KeptBy
<1> QED
  BY <1>1, <1>7, <1>9, <1>12, <1>17

(* Where FORMAT has a key once, at p, *)
OnlyAt(format, p, field) ==
  /\ format \in Seq(Keys) /\ p \in 1..Len(format) /\ ~HasDuplicates(format)
  /\ IndexesOf(format, field) = {p}

(* the other keys stay in FORMAT *)
OtherKeys(format, field, empty) ==
  (ToSet(format) \ {field}) \cup (IF Len(format) = 1 THEN {empty} ELSE {})

(* when it is removed. *)
LEMMA FieldRemoved ==
  ASSUME NEW format, NEW p, NEW field, OnlyAt(format, p, field), NEW empty
  PROVE  ToSet(remove_fields(format, <<empty>>, {p})) = OtherKeys(format, field, empty)
<1>1. PICK T : T = Keys
  OBVIOUS
<1>2. format \in Seq(T) /\ p \in 1..Len(format) /\ IndexesOf(format, field) = {p}
  BY <1>1 DEF OnlyAt
<1>3. PICK n \in Nat : n = Len(format)
  BY <1>2
<1>4. \A i \in 1..n : format[i] = field <=> i = p
  BY <1>2, <1>3 DEF IndexesOf
<1>5. PICK removed, left : removed = {p} /\ left = LeftOf(format, removed)
  OBVIOUS
<1>6. PICK kept : kept = remove_fields(format, <<empty>>, {p})
  OBVIOUS
<1>7. IF left = {} THEN kept = <<empty>> ELSE ToSet(kept) = left
  BY <1>2, <1>5, <1>6, RemovedSet, Zenon
<1>8. ToSet(format) = {format[i] : i \in 1..n}
  BY <1>2, <1>3 DEF ToSet
<1>9. left = {format[i] : i \in (1..n) \ {p}}
  BY <1>3, <1>5 DEF LeftOf
<1>10. left = ToSet(format) \ {field}
  BY <1>4, <1>8, <1>9
<1>11. left = {} <=> n = 1
  <2>1. n = 1 => left = {}
    BY <1>2, <1>3, <1>9
  <2>2. n # 1 => \E i \in 1..n : i # p
    <3>1. n # 1 => 1 \in 1..n /\ 2 \in 1..n
      BY <1>2, <1>3
    <3> QED
      BY <3>1
  <2>3. n # 1 => left # {}
    BY <1>9, <2>2
  <2> QED
    BY <2>1, <2>3
<1>12. ToSet(<<empty>>) = {empty}
  BY DEF ToSet
<1> QED
  BY <1>3, <1>6, <1>7, <1>10, <1>11, <1>12 DEF OtherKeys

(* and keep their values. *)
FieldTaken(line, after, s, p, field, empty) ==
  /\ OnlyAt(line.format, p, field)
  /\ line.samples[s] \in Seq(Values) /\ Len(line.samples[s]) >= Len(line.format)
  /\ empty \in Keys /\ after.format = remove_fields(line.format, <<empty>>, {p})
  /\ after.samples[s] = RemoveAt(line.samples[s], p)

(* They stay in step with the samples. *)
LEMMA RemovedInStep ==
  ASSUME NEW line, NEW after, NEW s, NEW p, NEW field, NEW empty, FieldTaken(line, after, s, p, field, empty)
  PROVE  ValuesKeptBut(line, after, s, {empty, field})
<1>1. PICK T, V : T = Keys /\ V = Values
  OBVIOUS
<1>2. PICK format, sample : format = line.format /\ sample = line.samples[s]
  OBVIOUS
<1>3. /\ format \in Seq(T) /\ p \in 1..Len(format) /\ ~HasDuplicates(format)
      /\ sample \in Seq(V) /\ Len(sample) >= Len(format) /\ empty \in T
      /\ after.format = remove_fields(format, <<empty>>, {p})
      /\ after.samples[s] = RemoveAt(sample, p)
  BY <1>1, <1>2 DEF FieldTaken, OnlyAt
<1>4. PICK n \in Nat, l \in Nat : n = Len(format) /\ l = Len(sample) /\ n <= l /\ p \in 1..n /\ p \in 1..l
  BY <1>3
<1>5. PICK removed, column : removed = {p} /\ column = <<empty>>
  OBVIOUS
<1>6. format \in Seq(T)
  BY <1>3
<1>7. PICK kept, g : /\ kept \in Seq(T) /\ KeptBy(kept, format, (1..Len(format)) \ removed, Len(format), g)
                     /\ remove_fields(format, column, removed)
                          = IF kept = << >> THEN column ELSE kept
  <2>1. PICK kept, g : RemovedTo(T, format, column, removed, kept, g)
    BY <1>6, RemoveFieldsKeeps, Zenon
  <2> QED
    BY <2>1 DEF RemovedTo
<1>8. CASE kept = << >>
  <2>1. after.format = <<empty>>
    BY <1>3, <1>5, <1>7, <1>8
  <2>2. ToSet(after.format) = {empty}
    BY <2>1 DEF ToSet
  <2> QED
    BY <2>2 DEF ValuesKeptBut
<1>9. CASE kept # << >>
  <2>1. after.format = kept
    BY <1>3, <1>5, <1>7, <1>9
  <2>2. PICK both : both = RemoveAt(sample, p)
    OBVIOUS
  <2>3. PICK K, J : K = (1..Len(format)) \ removed /\ J = (1..Len(sample)) \ {p}
    OBVIOUS
  <2>4. both \in Seq(V) /\ \E h : KeptBy(both, sample, J, Len(sample), h)
    BY <1>3, <1>4, <2>2, <2>3, RemoveAtKept
  <2>5. PICK h : KeptBy(both, sample, J, Len(sample), h)
    BY <2>4
  <2>6. \A i \in 1..Len(format) : (i \in K <=> i \in J) /\ (i \in K => IsFirst(format, i))
    <3>1. \A i \in 1..Len(format) : IsFirst(format, i)
      BY <1>3 DEF HasDuplicates
    <3>2. \A i \in 1..n : i \in 1..l
      BY <1>4
    <3> QED
      BY <1>4, <1>5, <2>3, <3>1, <3>2
  <2>7. KeptBy(kept, format, K, Len(format), g)
    BY <1>7, <2>3
  <2>8. KeptInStep(line, after, s, K, g, J, both, h)
    BY <1>1, <1>2, <1>3, <1>7, <2>1, <2>2, <2>4, <2>5, <2>6, <2>7, Zenon DEF KeptInStep
  <2>9. ValuesKept(line, after, s)
    BY <2>8, ValuesInStep, Zenon
  <2> QED
    BY <2>9 DEF ValuesKept, ValuesKeptBut
<1> QED
  BY <1>8, <1>9

(* An outcome with one line writes it. *)
LEMMA WritesOutcome ==
  ASSUME NEW new, NEW count, NEW after, Writes({Outcome(<<new>>, count)}, after)
  PROVE  after = new
<1>1. Outcome(<<new>>, count).written = <<after>>
  BY DEF Writes
<1>2. Outcome(<<new>>, count).written = <<new>>
  BY DEF Outcome
<1> QED
  BY <1>1, <1>2

(* Without duplicates a key has one index. *)
LEMMA SingleIndex ==
  ASSUME NEW T, NEW s \in Seq(T), ~HasDuplicates(s), NEW key, NEW p \in IndexesOf(s, key)
  PROVE  IndexesOf(s, key) = {p}
<1>1. PICK n \in Nat : n = Len(s)
  OBVIOUS
<1>2. \A i \in 1..n, k \in 1..n : k < i => s[k] # s[i]
  BY <1>1 DEF HasDuplicates, IsFirst
<1>3. IndexesOf(s, key) = {i \in 1..n : s[i] = key}
  BY <1>1 DEF IndexesOf
<1>4. p \in 1..n /\ s[p] = key
  BY <1>3
<1>5. ASSUME NEW i \in 1..n, s[i] = key PROVE i = p
  BY <1>2, <1>4, <1>5
<1> QED
  BY <1>3, <1>4, <1>5

(* of a field of the samples, *)
LEMMA FieldLineKept ==
  ASSUME NEW line \in BodyLines, NEW e, e.type = "SamplesFieldBodyError", NEW after,
         Writes(remove_format(line, e), after)
  PROVE  LineKept(line, after, e)
<1> DEFINE indexes == IndexesOf(line.format, e.field)
           field_index == Max(indexes)
           n     == Len(line.samples)
           short == {s \in 1..n : Len(line.samples[s]) < field_index}
           stop  == IF short = {} THEN n + 1 ELSE Min(short)
           fixed == [s \in 1..n |-> IF s < stop THEN RemoveAt(line.samples[s], field_index)
                                                 ELSE line.samples[s]]
           format == remove_fields(line.format, <<"">>, indexes)
           samples == IF stop = n THEN Append(fixed, << >>) ELSE fixed
           ignored == IF short = {} THEN 0 ELSE 1
<1>1. remove_format(line, e)
        = IF indexes = {} THEN ignore_error(line)
          ELSE {Outcome(<<[line EXCEPT !.format = format, !.samples = samples]>>, ignored)}
  BY Zenon DEF remove_format
<1>2. PICK new, count : new = [line EXCEPT !.format = format, !.samples = samples] /\ count = ignored
  OBVIOUS
<1>3. PICK cols, smps : cols = format /\ smps = samples
  OBVIOUS
<1>4. after = line \/ (indexes # {} /\ after = new)
  <2> HIDE DEF indexes, format, samples, ignored
  <2>1. indexes = {} => Writes(ignore_error(line), after)
    BY <1>1
  <2>2. indexes # {} => Writes({Outcome(<<new>>, count)}, after)
    BY <1>1, <1>2
  <2>3. Writes({Outcome(<<new>>, count)}, after) => after = new
    BY WritesOutcome
  <2> QED
    BY <2>1, <2>2, <2>3, WritesOne
<1>5. CASE indexes # {} /\ after = new
  <2>1. new = [line EXCEPT !.format = cols, !.samples = smps]
    BY <1>2, <1>3, Zenon
  <2>2. /\ after.ids = line.ids /\ after.filter = line.filter /\ after.info = line.info
        /\ after.format = cols /\ after.samples = smps
    <3> HIDE DEF indexes, format, samples, ignored
    <3> QED
      BY <1>5, <2>1 DEF BodyLines
  <2>3. ASSUME NoShortSamples(line), ~HasDuplicates(line.format) PROVE SamplesKept(line, after, e)
    <3> HIDE DEF format, samples, ignored
    <3>1. /\ line.format \in Seq(Keys) /\ line.samples \in Seq(Seq(Values))
          /\ Len(line.format) \in Nat /\ n \in Nat
      BY ColumnTypes
    <3>2. PICK p : p = field_index
      OBVIOUS
    <3>3. p \in 1..Len(line.format) /\ p \in indexes
      <4>1. indexes \subseteq 1..Len(line.format) /\ indexes # {}
        BY <1>5 DEF IndexesOf
      <4> HIDE DEF indexes
      <4> QED
        BY <3>1, <3>2, <4>1, MaxIndex
    <3>4. indexes = {p}
      BY <2>3, <3>1, <3>3, SingleIndex
    <3>5. short = {}
      <4>1. \A s \in 1..n : Len(line.samples[s]) >= Len(line.format) /\ Len(line.samples[s]) \in Nat
        BY <2>3, <3>1 DEF NoShortSamples
      <4>2. \A s \in 1..n : ~(Len(line.samples[s]) < p)
        <5> HIDE DEF n
        <5> QED
          BY <3>1, <3>3, <4>1
      <4> QED
        BY <3>2, <4>2
    <3> HIDE DEF indexes, field_index, n, short
    <3>6. stop = n + 1
      BY <3>5
    <3>7. fixed = [s \in 1..n |-> RemoveAt(line.samples[s], p)]
      <4>1. \A s \in 1..n : s < stop
        BY <3>1, <3>6
      <4> HIDE DEF stop
      <4> QED
        BY <3>2, <4>1
    <3>8. smps = [s \in 1..n |-> RemoveAt(line.samples[s], p)]
      <4>1. stop # n
        BY <3>1, <3>6
      <4> HIDE DEF stop, fixed
      <4> QED
        BY <1>3, <3>7, <4>1 DEF samples
    <3> HIDE DEF stop, fixed
    <3>9. OnlyAt(line.format, p, e.field)
      BY <2>3, <3>1, <3>3, <3>4 DEF OnlyAt, indexes
    <3>10. PICK empty \in Keys : empty = ""
      BY KeyNames
    <3>11. cols = remove_fields(line.format, <<empty>>, {p})
      BY <1>3, <3>4, <3>10, Zenon DEF format
    <3>12. Len(smps) = n
      BY <3>1, <3>8
    <3>13. ASSUME NEW s \in 1..n PROVE ValuesKeptBut(line, after, s, {empty, e.field})
      <4>1. line.samples[s] \in Seq(Values) /\ Len(line.samples[s]) >= Len(line.format)
        BY <2>3, <3>1 DEF n, NoShortSamples
      <4>2. smps[s] = RemoveAt(line.samples[s], p)
        BY <3>8
      <4>3. FieldTaken(line, after, s, p, e.field, empty)
        BY <2>2, <3>9, <3>10, <3>11, <4>1, <4>2, Zenon DEF FieldTaken
      <4> QED
        BY <4>3, RemovedInStep, Zenon
    <3>14. ToSet(cols) = (ToSet(line.format) \ {e.field}) \cup (IF Len(line.format) = 1 THEN {empty} ELSE {})
      <4>1. ToSet(remove_fields(line.format, <<empty>>, {p})) = OtherKeys(line.format, e.field, empty)
        BY <3>9, FieldRemoved, Zenon
      <4> QED
        BY <3>11, <4>1, Zenon DEF OtherKeys
    <3> QED
      BY <2>2, <3>10, <3>12, <3>13, <3>14, Zenon DEF SamplesKept, KeptKeys, ValuesKeptBut, n
  <2> HIDE DEF indexes, format, samples, ignored
  <2> QED
    BY <2>2, <2>3, InfoUntouched, Zenon DEF LineKept
<1> HIDE DEF indexes
<1> QED
  BY <1>4, <1>5, LineUntouched

(* and of any error of a record. *)
LEMMA FixKept ==
  ASSUME NEW line \in BodyLines, NEW e \in BodyErrors, NEW after, FixedBy(line, e, after),
         FixesOne(line, e), e.field = "" \/ \A i \in 1..Len(line.info) : line.info[i].key # ""
  PROVE  LineKept(line, after, e)
<1>1. Writes(fix(line, e), after)
  BY Zenon DEF Writes, FixedBy
<1>2. e.type \notin {"MetaSectionError", "DuplicationError"}
  BY DEF BodyErrors
<1>3. CASE e.type = "IdBodyError"
  <2>1. fix(line, e) = FixId(line, e)
    BY <1>3 DEF fix
  <2> QED
    BY <1>1, <2>1, IdKept
<1>4. CASE e.type = "FilterBodyError"
  <2>1. fix(line, e) = FixFilter(line, e)
    BY <1>4 DEF fix
  <2> QED
    BY <1>1, <2>1, FilterKept
<1>5. CASE e.type = "InfoBodyError"
  <2>1. fix(line, e) = FixInfo(line, e)
    BY <1>5 DEF fix
  <2> QED
    BY <1>1, <2>1, InfoLineKept
<1>6. CASE e.type = "FormatBodyError"
  <2>1. fix(line, e) = FixFormat(line, e)
    BY <1>6 DEF fix
  <2> QED
    BY <1>1, <1>6, <2>1, FormatLineKept
<1>7. CASE e.type = "SamplesFieldBodyError"
  <2>1. fix(line, e) = FixSamplesField(line, e)
    BY <1>7 DEF fix
  <2>2. line.format = << >> \/ line.samples # << >>
    BY <1>7 DEF FixesOne
  <2>3. \/ fix(line, e) = ignore_error(line)
        \/ e.field = "GT" /\ fix(line, e) = fix_format_gt(line, e)
        \/ fix(line, e) = remove_format(line, e)
    BY <2>1, <2>2, Zenon DEF FixSamplesField
  <2>4. CASE fix(line, e) = ignore_error(line)
    BY <1>1, <2>4, WritesOne, LineUntouched
  <2>5. CASE e.field = "GT" /\ fix(line, e) = fix_format_gt(line, e)
    BY <1>1, <2>5, GenotypeLineKept
  <2>6. CASE fix(line, e) = remove_format(line, e)
    BY <1>1, <1>7, <2>6, FieldLineKept
  <2> QED
    BY <2>3, <2>4, <2>5, <2>6
<1>8. CASE e.type \notin {"IdBodyError", "FilterBodyError", "InfoBodyError", "FormatBodyError",
                         "SamplesFieldBodyError"}
  <2>1. fix(line, e) = ignore_error(line)
    BY <1>2, <1>8 DEF fix
  <2> QED
    BY <1>1, <2>1, WritesOne, LineUntouched
<1> QED
  BY <1>3, <1>4, <1>5, <1>6, <1>7, <1>8

(* The error of a line that was fixed. *)
LEMMA FixedError ==
  ASSUME FixesInv, NEW k \in 1..Len(output), ErrorOf(k) # << >>, NEW e, e = ErrorOf(k)[1].error
  PROVE  /\ FixedBy(input[output[k].at], e, output[k].line)
         /\ output[k].at \in 1..Len(input)
         /\ LineError(version, input, output[k].at) = <<e>>
<1>1. PICK x \in ReportItems(version, input) :
           /\ ErrorOf(k)[1] = x /\ x.line = output[k].at
           /\ FixedBy(input[output[k].at], x.error, output[k].line)
  BY OutputOfFix, Zenon
<1>2. x.error = e
  BY <1>1
<1>3. output[k].at \in 1..Len(input) /\ Len(input) \in Nat
  <2>1. output \in Seq(OutputItems) /\ input \in Seq(Lines)
    BY DEF FixesInv
  <2>2. output[k] \in OutputItems
    BY <2>1, ElementOfSeq, Zenon
  <2>3. output[k].at \in 1..Len(input)
    BY <2>2 DEF OutputItems
  <2> QED
    BY <2>1, <2>3
<1>4. e # DuplicateError
  <2>1. SUFFICES ASSUME e = DuplicateError PROVE FALSE
    OBVIOUS
  <2>2. DuplicateError.type = "DuplicationError"
    BY DEF DuplicateError, Irrecoverable, Error
  <2>3. fix(input[output[k].at], e) = {Outcome(<< >>, 0)}
    BY <2>1, <2>2 DEF fix
  <2>4. PICK after : after = output[k].line
    OBVIOUS
  <2>5. Outcome(<< >>, 0).written = <<after>>
    BY <1>1, <1>2, <2>3, <2>4 DEF FixedBy
  <2> QED
    BY <2>5 DEF Outcome
<1>5. x.line # Len(input) + 1
  BY <1>1, <1>3
<1> QED
  BY <1>1, <1>2, <1>3, <1>4, <1>5 DEF ReportItems

(* NothingElseLost follows from the invariant. *)
LEMMA InvGivesKept == FixesInv => NothingElseLost
<1> SUFFICES ASSUME FixesInv, NEW k \in 1..Len(output), ErrorOf(k) # << >>,
                    NEW line, line = input[output[k].at], NEW after, after = output[k].line,
                    NEW e, e = ErrorOf(k)[1].error, line.kind = "body"
             PROVE  LineKept(line, after, e)
  BY Zenon DEF NothingElseLost, LineKept
<1>1. PICK at : at = output[k].at
  OBVIOUS
<1>2. FixedBy(line, e, after) /\ at \in 1..Len(input) /\ LineError(version, input, at) = <<e>>
  BY <1>1, FixedError
<1>3. input \in Seq(Lines)
  BY DEF FixesInv
<1>4. line \in BodyLines /\ e \in BodyErrors
  <2>1. \/ line \in MetaLines /\ e \in MetaErrors
        \/ line \in BodyLines /\ e \in BodyErrors
    BY <1>1, <1>2, <1>3, LineErrorTyped
  <2> QED
    BY <2>1 DEF MetaLines
<1>5. PICK source : source = SourceOf(version, input)
  OBVIOUS
<1>6. BodyError(source, line) = <<e>>
  BY <1>1, <1>2, <1>5 DEF LineError
<1>7. FixesOne(line, e)
  BY <1>6, BodyErrorFixes
<1>8. e.field = "" \/ \A i \in 1..Len(line.info) : line.info[i].key # ""
  BY <1>4, <1>6, EmptyKeyRefused
<1> QED
  BY <1>2, <1>4, <1>7, <1>8, FixKept, Zenon

(***************************************************************************)
(* No fix loses what its error is not about: ID and FILTER keep their      *)
(* values, INFO the fields of the other keys, and FORMAT and the samples   *)
(* the values of the other keys in step, for files of any length with any  *)
(* number of samples.                                                      *)
(***************************************************************************)
THEOREM NothingElseIsLost == RepairSpec => []NothingElseLost
BY FixesInvariant, InvGivesKept, PTL

-----------------------------------------------------------------------------
(***************************************************************************)
(* Errors that are found again.  What an error says of its line (Concerns, *)
(* MetaWrong) no longer holds of the line that its fix wrote, and the      *)
(* lines whose fix gave up are counted (CountInv).                         *)
(***************************************************************************)

(* What an error says first. *)
IsError(e, type, error_fix, field) ==
  e.type = type /\ e.error_fix = error_fix /\ e.field = field

(* The errors by what they say. *)
LEMMA ErrorSays ==
  ASSUME NEW type, NEW field, NEW value, NEW cardinality
  PROVE  /\ IsError(Irrecoverable(type, field), type, "IRRECOVERABLE_VALUE", field)
         /\ IsError(Duplicated(type), type, "DUPLICATE_VALUES", "")
         /\ IsError([Irrecoverable(type, field) EXCEPT !.field_cardinality = cardinality],
                    type, "IRRECOVERABLE_VALUE", field)
         /\ IsError(Expecting(type, field, value), type, "RECOVERABLE_VALUE", field)
         /\ Expecting(type, field, value).expected_value = <<value>>
         /\ Escape.type = "std::exception"
BY DEF IsError, Irrecoverable, Duplicated, Expecting, Escape, Error

(* Who found an error: a check that throws it, *)
LEMMA ThrownHere ==
  ASSUME NEW c, NEW x, NEW e, Contains(Throw(c, x), e)
  PROVE  c /\ e = x
<1>1. PICK i \in 1..Len(Throw(c, x)) : Throw(c, x)[i] = e
  BY DEF Contains
<1>2. CASE c
  <2>1. Throw(c, x) = <<x>>
    BY <1>2 DEF Throw
  <2>2. e = x
    BY <1>1, <2>1
  <2> QED
    BY <1>2, <2>2, Zenon
<1>3. CASE ~c
  <2>1. Throw(c, x) = << >>
    BY <1>3 DEF Throw, Nothing
  <2> QED
    BY <1>1, <2>1
<1> QED
  BY <1>2, <1>3

(* none that finds nothing, *)
LEMMA NothingThrown == ASSUME NEW e PROVE ~Contains(Nothing, e)
BY DEF Contains, Nothing

(* one that throws it always, *)
LEMMA OneThrown == ASSUME NEW x, NEW e, Contains(<<x>>, e) PROVE e = x
BY DEF Contains

(* one of two checks, *)
LEMMA ThrownByOne ==
  ASSUME NEW T, NEW s \in Seq(T), NEW t \in Seq(T), NEW e, Contains(s \o t, e)
  PROVE  Contains(s, e) \/ Contains(t, e)
<1>1. PICK u : u = s \o t
  OBVIOUS
<1>2. Len(u) = Len(s) + Len(t) /\ Len(s) \in Nat /\ Len(t) \in Nat
      /\ \A i \in 1..Len(u) : u[i] = IF i <= Len(s) THEN s[i] ELSE t[i - Len(s)]
  BY <1>1, ConcatProperties
<1>3. PICK i \in 1..Len(u) : u[i] = e
  BY <1>1 DEF Contains
<1>4. CASE i <= Len(s)
  BY <1>2, <1>3, <1>4 DEF Contains
<1>5. CASE ~(i <= Len(s))
  <2>1. i - Len(s) \in 1..Len(t) /\ t[i - Len(s)] = e
    BY <1>2, <1>3, <1>5
  <2> QED
    BY <2>1 DEF Contains
<1> QED
  BY <1>4, <1>5

(* and one turn of a loop. *)
LEMMA ThrownInTurn ==
  ASSUME NEW T, NEW n \in Nat, NEW seqs, seqs = [i \in 1..n |-> seqs[i]],
         \A i \in 1..n : seqs[i] \in Seq(T), NEW e, Contains(FlattenSeq(seqs), e)
  PROVE  \E i \in 1..n : Contains(seqs[i], e)
<1>1. seqs \in [1..n -> Seq(T)]
  OBVIOUS
<1> QED
  BY <1>1, FlattenContains

(* std::stold cannot read the value, or the error is the one of the field. *)
LEMMA UnitIntervalThrows ==
  ASSUME NEW value \in Values, NEW error \in BodyErrors, NEW e,
         Contains(check_unit_interval(value, error), e)
  PROVE  e \in {Escape, error}
<1> DEFINE Check(i) == CASE value[i] = Missing  -> <<Escape>>
                         [] value[i] = Fraction -> Nothing
                         [] OTHER               -> Throw(value[i] \notin {0, 1}, error)
           seqs == [i \in 1..Len(value) |-> Check(i)]
<1>1. check_unit_interval(value, error) = FlattenSeq(seqs)
  BY Zenon DEF check_unit_interval, Each
<1>2. Len(value) \in Nat
  BY DEF Values
<1>3. ASSUME NEW i \in 1..Len(value)
      PROVE  Check(i) \in Seq(BodyErrors) /\ (Contains(Check(i), e) => e \in {Escape, error})
  <2>1. <<Escape>> \in Seq(BodyErrors) /\ (Contains(<<Escape>>, e) => e = Escape)
    BY EscapeError, OneThrown
  <2>2. /\ Throw(value[i] \notin {0, 1}, error) \in Seq(BodyErrors)
        /\ Contains(Throw(value[i] \notin {0, 1}, error), e) => e = error
    BY ThrowTyped, ThrownHere
  <2> QED
    BY <2>1, <2>2, NothingTyped, NothingThrown
<1> HIDE DEF Check
<1>4. /\ seqs = [i \in 1..Len(value) |-> seqs[i]]
      /\ \A i \in 1..Len(value) : seqs[i] = Check(i) /\ seqs[i] \in Seq(BodyErrors)
  BY <1>3
<1> HIDE DEF seqs
<1>5. Contains(FlattenSeq(seqs), e)
  BY <1>1
<1>6. PICK i \in 1..Len(value) : Contains(seqs[i], e)
  BY <1>2, <1>4, <1>5, ThrownInTurn
<1> QED
  BY <1>3, <1>4, <1>6

(* What is wrong with a record that has an error: END or SVLEN is not the  *)
(* number that it should be,                                               *)
EndWrong(line, e) ==
  /\ e.field = "END" /\ e.expected_value = <<ExpectedEnd(line)>>
  /\ \E i \in 1..Len(line.info) :
       line.info[i].key = "END" /\ InfoValue(line.info[i]) # <<ExpectedEnd(line)>>

SizeAt(line, a) == line.alternates[a].size - line.reference

SvlenWrongAt(line, value, e) ==
  /\ e.field = "SVLEN" /\ Len(value) = Len(line.alternates)
  /\ \E a \in 1..Len(line.alternates) :
       e.expected_value = <<SizeAt(line, a)>> /\ value[a] # SizeAt(line, a)

SvlenWrong(line, e) ==
  \E i \in 1..Len(line.info) :
    line.info[i].key = "SVLEN" /\ SvlenWrongAt(line, InfoValue(line.info[i]), e)

(* a key of INFO is repeated, or has a value that it must not have. *)
InfoWrong(line, e) ==
  /\ e.error_fix = "DUPLICATE_VALUES" => HasDuplicates(KeysOf(line.info))
  /\ e.error_fix = "RECOVERABLE_VALUE" => EndWrong(line, e) \/ SvlenWrong(line, e)
  /\ e.error_fix = "IRRECOVERABLE_VALUE" =>
       e.field = "" \/ (e.field # "." /\ \E i \in 1..Len(line.info) : line.info[i].key = e.field)

(* SVLEN against the size of each allele. *)
LEMMA SvlenThrows ==
  ASSUME NEW line \in BodyLines, NEW value, Len(value) = Len(line.alternates), NEW e,
         Contains(check_svlen(line, value), e)
  PROVE  \/ e = Escape
         \/ IsError(e, "InfoBodyError", "IRRECOVERABLE_VALUE", "SVLEN")
         \/ IsError(e, "InfoBodyError", "RECOVERABLE_VALUE", "SVLEN") /\ SvlenWrongAt(line, value, e)
<1> DEFINE Wrong(a) == value[a] # SizeAt(line, a)
           Right(a) == Expecting("InfoBodyError", "SVLEN", SizeAt(line, a))
           Bad == Irrecoverable("InfoBodyError", "SVLEN")
           Check(i) ==
             CASE line.alternates[i].form = "bases" -> Throw(Wrong(i), Right(i))
               [] line.alternates[i].form \in {"<INS", "<DUP", "<DEL"} /\ value[i] \in Specials -> <<Escape>>
               [] line.alternates[i].form \in {"<INS", "<DUP"} /\ value[i] \notin Specials -> Throw(value[i] < 0, Bad)
               [] line.alternates[i].form = "<DEL" /\ value[i] \notin Specials -> Throw(value[i] > 0, Bad)
               [] OTHER -> Nothing
           n == Len(line.alternates)
           seqs == [i \in 1..n |-> Check(i)]
<1>1. check_svlen(line, value) = FlattenSeq(seqs)
  BY Zenon DEF check_svlen, Each, SizeAt
<1>2. n \in Nat /\ line.reference \in Nat /\ line.alternates \in Seq(AlleleTypes)
  BY ColumnTypes
<1>3. "SVLEN" \in ErrorFields /\ "InfoBodyError" \in BodyTypes
  BY KeyNames DEF ErrorFields, BodyTypes, ErrorTypes
<1>4. \A i \in 1..n : SizeAt(line, i) \in Int
  <2> SUFFICES ASSUME NEW i \in 1..n PROVE SizeAt(line, i) \in Int
    OBVIOUS
  <2>1. PICK a \in AlleleTypes : a = line.alternates[i]
    BY <1>2
  <2>2. line.alternates[i].size \in Nat
    BY <2>1 DEF AlleleTypes
  <2> QED
    BY <1>2, <2>2 DEF SizeAt
<1>5. Bad \in BodyErrors /\ \A i \in 1..n : Right(i) \in BodyErrors
  BY <1>3, <1>4, ExpectingError, IrrecoverableError
<1>6. ASSUME NEW i \in 1..n
      PROVE  /\ Check(i) \in Seq(BodyErrors)
             /\ Contains(Check(i), e) => (e \in {Escape, Bad} \/ (e = Right(i) /\ Wrong(i)))
  <2>1. Right(i) \in BodyErrors
    BY <1>5
  <2> HIDE DEF Bad, Right, Wrong
  <2>2. <<Escape>> \in Seq(BodyErrors) /\ Nothing \in Seq(BodyErrors)
    BY EscapeError, NothingTyped
  <2>3. \A c : Throw(c, Bad) \in Seq(BodyErrors) /\ Throw(c, Right(i)) \in Seq(BodyErrors)
    BY <1>5, <2>1, ThrowTyped
  <2>4. \A c : Contains(Throw(c, Bad), e) => e = Bad
    BY ThrownHere
  <2>5. Contains(Throw(Wrong(i), Right(i)), e) => (Wrong(i) /\ e = Right(i))
    BY ThrownHere
  <2>6. Contains(<<Escape>>, e) => e = Escape
    BY OneThrown
  <2> QED
    BY <2>2, <2>3, <2>4, <2>5, <2>6, NothingThrown, Zenon
<1> HIDE DEF Check
<1>7. seqs = [i \in 1..n |-> seqs[i]] /\ \A i \in 1..n : seqs[i] = Check(i) /\ seqs[i] \in Seq(BodyErrors)
  <2> HIDE DEF n
  <2> QED
    BY <1>6
<1> HIDE DEF seqs, n
<1>8. Contains(FlattenSeq(seqs), e)
  BY <1>1
<1>9. PICK i \in 1..n : Contains(seqs[i], e)
  BY <1>2, <1>7, <1>8, ThrownInTurn
<1>10. e \in {Escape, Bad} \/ (e = Right(i) /\ Wrong(i))
  BY <1>6, <1>7, <1>9
<1>11. CASE e = Bad
  BY <1>11, ErrorSays
<1>12. CASE e = Right(i) /\ Wrong(i)
  <2>1. IsError(e, "InfoBodyError", "RECOVERABLE_VALUE", "SVLEN") /\ e.expected_value = <<SizeAt(line, i)>>
    BY <1>12, ErrorSays, Zenon
  <2>2. SvlenWrongAt(line, value, e)
    BY <1>9, <1>12, <2>1, Zenon DEF SvlenWrongAt, IsError, n
  <2> QED
    BY <2>1, <2>2
<1> QED
  BY <1>10, <1>11, <1>12

(* A tag with a meaning of its own. *)
LEMMA StrictInfoThrows ==
  ASSUME NEW line \in BodyLines, NEW i \in 1..Len(line.info), NEW e,
         Contains(strict_validation_info_predefined_tags(line, line.info[i].key, InfoValue(line.info[i])), e)
  PROVE  \/ e = Escape
         \/ IsError(e, "InfoBodyError", "IRRECOVERABLE_VALUE", line.info[i].key)
         \/ e.type = "InfoBodyError" /\ e.error_fix = "RECOVERABLE_VALUE"
              /\ (EndWrong(line, e) \/ SvlenWrong(line, e))
<1>1. PICK key, value : key = line.info[i].key /\ value = InfoValue(line.info[i])
  OBVIOUS
<1>2. value \in Values
  <2>1. PICK field \in InfoFields : field = line.info[i]
    BY ColumnTypes
  <2>2. InfoValue(field) \in Values
    BY InfoFieldTyped
  <2> QED
    BY <1>1, <2>1, <2>2
<1>3. Contains(strict_validation_info_predefined_tags(line, key, value), e)
  BY <1>1
<1> DEFINE Wrong == IsPrecise(line) /\ value # <<ExpectedEnd(line)>>
           Right == Expecting("InfoBodyError", "END", ExpectedEnd(line))
           svlen == key = "SVLEN" /\ Len(value) = Len(line.alternates)
<1>4. \/ key = "AF" /\ Contains(check_unit_interval(value, Irrecoverable("InfoBodyError", "AF")), e)
      \/ key = "END" /\ Contains(Throw(Wrong, Right), e)
      \/ svlen /\ Contains(check_svlen(line, value), e)
      \/ Contains(Nothing, e)
  BY <1>3, Zenon DEF strict_validation_info_predefined_tags
<1>5. CASE key = "AF" /\ Contains(check_unit_interval(value, Irrecoverable("InfoBodyError", "AF")), e)
  <2>1. Irrecoverable("InfoBodyError", "AF") \in BodyErrors
    BY IrrecoverableError, KeyNames DEF ErrorFields, BodyTypes, ErrorTypes
  <2>2. e \in {Escape, Irrecoverable("InfoBodyError", "AF")}
    BY <1>2, <1>5, <2>1, UnitIntervalThrows
  <2>3. IsError(Irrecoverable("InfoBodyError", "AF"), "InfoBodyError", "IRRECOVERABLE_VALUE", "AF")
    BY ErrorSays
  <2>4. line.info[i].key = "AF"
    BY <1>1, <1>5
  <2> QED
    BY <2>2, <2>3, <2>4
<1>6. CASE key = "END" /\ Contains(Throw(Wrong, Right), e)
  <2>1. Wrong /\ e = Right
    BY <1>6, ThrownHere, Zenon
  <2>2. IsError(e, "InfoBodyError", "RECOVERABLE_VALUE", "END") /\ e.expected_value = <<ExpectedEnd(line)>>
    BY <2>1, ErrorSays, Zenon
  <2>3. EndWrong(line, e)
    BY <1>1, <1>6, <2>1, <2>2, Zenon DEF EndWrong, IsError
  <2> QED
    BY <2>2, <2>3 DEF IsError
<1>7. CASE svlen /\ Contains(check_svlen(line, value), e)
  <2>1. \/ e = Escape
        \/ IsError(e, "InfoBodyError", "IRRECOVERABLE_VALUE", "SVLEN")
        \/ IsError(e, "InfoBodyError", "RECOVERABLE_VALUE", "SVLEN") /\ SvlenWrongAt(line, value, e)
    BY <1>7, SvlenThrows
  <2>2. SvlenWrongAt(line, value, e) => SvlenWrong(line, e)
    BY <1>1, <1>7, Zenon DEF SvlenWrong
  <2> QED
    BY <1>1, <1>7, <2>1, <2>2, Zenon DEF IsError
<1> QED
  BY <1>4, <1>5, <1>6, <1>7, NothingThrown, Zenon

(* A field of INFO. *)
LEMMA InfoFieldThrows ==
  ASSUME NEW source, NEW line \in BodyLines, NEW i \in 1..Len(line.info), NEW e,
         Contains(check_info_field(source, line, line.info[i]), e)
  PROVE  e = Escape \/ (e.type = "InfoBodyError" /\ InfoWrong(line, e))
<1>1. PICK field \in InfoFields : field = line.info[i]
  BY ColumnTypes
<1>2. field.key # "."
  <2>1. field.key = "." => check_info_field(source, line, field) = Nothing
    BY DEF check_info_field
  <2> QED
    BY <1>1, <2>1, NothingThrown
<1> DEFINE strict == strict_validation_info_predefined_tags(line, field.key, InfoValue(field))
           error == Irrecoverable("InfoBodyError", field.key)
<1>3. PICK c : check_info_field(source, line, field) = Throw(c, error) \o strict
  BY <1>2, Zenon DEF check_info_field
<1>4. Throw(c, error) \in Seq(BodyErrors) /\ strict \in Seq(BodyErrors)
  <2>1. field.key \in ErrorFields /\ "InfoBodyError" \in BodyTypes
    BY DEF InfoFields, ErrorFields, BodyTypes, ErrorTypes
  <2>2. error \in BodyErrors
    BY <2>1, IrrecoverableError
  <2> HIDE DEF error
  <2>3. InfoValue(field) \in Values
    BY InfoFieldTyped
  <2> QED
    BY <2>2, <2>3, ThrowTyped, StrictInfoTyped
<1>5. Contains(Throw(c, error), e) \/ Contains(strict, e)
  <2> HIDE DEF strict, error
  <2>1. PICK s, t : s = Throw(c, error) /\ t = strict
    OBVIOUS
  <2>2. Contains(s \o t, e)
    BY <1>1, <1>3, <2>1, Zenon
  <2>3. s \in Seq(BodyErrors) /\ t \in Seq(BodyErrors)
    BY <1>4, <2>1
  <2>4. Contains(s, e) \/ Contains(t, e)
    BY <2>2, <2>3, ThrownByOne, ZenonT(40)
  <2> QED
    BY <2>1, <2>4
<1>6. Contains(Throw(c, error), e) => IsError(e, "InfoBodyError", "IRRECOVERABLE_VALUE", field.key)
  <2>1. IsError(error, "InfoBodyError", "IRRECOVERABLE_VALUE", field.key)
    BY ErrorSays
  <2> HIDE DEF error
  <2> QED
    BY <2>1, ThrownHere
<1>7. Contains(strict, e) =>
        \/ e = Escape
        \/ IsError(e, "InfoBodyError", "IRRECOVERABLE_VALUE", field.key)
        \/ e.type = "InfoBodyError" /\ e.error_fix = "RECOVERABLE_VALUE"
             /\ (EndWrong(line, e) \/ SvlenWrong(line, e))
  BY <1>1, StrictInfoThrows, Zenon
<1> HIDE DEF strict, error
<1>8. CASE IsError(e, "InfoBodyError", "IRRECOVERABLE_VALUE", field.key)
  <2>1. e.type = "InfoBodyError" /\ e.error_fix = "IRRECOVERABLE_VALUE" /\ e.field = field.key
    BY <1>8 DEF IsError
  <2>2. \E k \in 1..Len(line.info) : line.info[k].key = e.field
    BY <1>1, <2>1, Zenon
  <2>3. e.error_fix # "DUPLICATE_VALUES" /\ e.error_fix # "RECOVERABLE_VALUE"
    BY <2>1
  <2> QED
    BY <1>2, <2>1, <2>2, <2>3, Zenon DEF InfoWrong
<1>9. CASE e.type = "InfoBodyError" /\ e.error_fix = "RECOVERABLE_VALUE"
             /\ (EndWrong(line, e) \/ SvlenWrong(line, e))
  <2>1. e.error_fix # "DUPLICATE_VALUES" /\ e.error_fix # "IRRECOVERABLE_VALUE"
    BY <1>9
  <2> QED
    BY <1>9, <2>1, Zenon DEF InfoWrong
<1> QED
  BY <1>5, <1>6, <1>7, <1>8, <1>9, Zenon

(* INFO. *)
LEMMA InfoThrows ==
  ASSUME NEW source, NEW line \in BodyLines, NEW e, Contains(check_info(source, line), e)
  PROVE  e = Escape \/ (e.type = "InfoBodyError" /\ InfoWrong(line, e))
<1> DEFINE n == Len(line.info)
           Check(k, i) == IF line.info[i].key = KeyOrder[k]
                            THEN check_info_field(source, line, line.info[i]) ELSE Nothing
           seqs == [k \in 1..Len(KeyOrder) |-> FlattenSeq([i \in 1..n |-> Check(k, i)])]
           repeated == source.version = "v43" /\ HasDuplicates(KeysOf(line.info))
           first == Throw(repeated, Duplicated("InfoBodyError"))
<1>1. check_info(source, line) = first \o FlattenSeq(seqs)
  BY Zenon DEF check_info, Each
<1>2. first \in Seq(BodyErrors)
  BY DuplicatedError, ThrowTyped DEF BodyTypes, ErrorTypes
<1>3. Contains(first, e) => (e.type = "InfoBodyError" /\ InfoWrong(line, e))
  <2> SUFFICES ASSUME Contains(first, e) PROVE e.type = "InfoBodyError" /\ InfoWrong(line, e)
    OBVIOUS
  <2>1. repeated /\ e = Duplicated("InfoBodyError")
    BY ThrownHere, Zenon
  <2>2. IsError(e, "InfoBodyError", "DUPLICATE_VALUES", "")
    BY <2>1, ErrorSays
  <2>3. e.type = "InfoBodyError" /\ e.error_fix = "DUPLICATE_VALUES"
    BY <2>2 DEF IsError
  <2>4. e.error_fix # "RECOVERABLE_VALUE" /\ e.error_fix # "IRRECOVERABLE_VALUE"
    BY <2>3
  <2> QED
    BY <2>1, <2>3, <2>4, Zenon DEF InfoWrong
<1>4. n \in Nat /\ \A i \in 1..n : line.info[i] \in InfoFields
  BY ColumnTypes
<1>5. \A k, i : i \in 1..n => Check(k, i) \in Seq(BodyErrors)
  BY <1>4, InfoFieldTyped, NothingTyped
<1>6. \A k, i : (i \in 1..n /\ Contains(Check(k, i), e)) =>
                  e = Escape \/ (e.type = "InfoBodyError" /\ InfoWrong(line, e))
  BY InfoFieldThrows, NothingThrown, Zenon
<1> HIDE DEF Check, n, first
<1>7. ASSUME NEW k \in 1..Len(KeyOrder)
      PROVE  /\ FlattenSeq([i \in 1..n |-> Check(k, i)]) \in Seq(BodyErrors)
             /\ Contains(FlattenSeq([i \in 1..n |-> Check(k, i)]), e) => \E i \in 1..n : Contains(Check(k, i), e)
  <2> DEFINE fields == [i \in 1..n |-> Check(k, i)]
  <2>1. fields = [i \in 1..n |-> fields[i]] /\ \A i \in 1..n : fields[i] \in Seq(BodyErrors) /\ fields[i] = Check(k, i)
    BY <1>5
  <2> HIDE DEF fields
  <2>2. FlattenSeq(fields) \in Seq(BodyErrors)
    BY <1>4, <2>1, LoopTyped
  <2>3. Contains(FlattenSeq(fields), e) => \E i \in 1..n : Contains(fields[i], e)
    BY <1>4, <2>1, ThrownInTurn
  <2>4. Contains(FlattenSeq(fields), e) => \E i \in 1..n : Contains(Check(k, i), e)
    BY <2>1, <2>3
  <2> QED
    BY <2>2, <2>4 DEF fields
<1>8. /\ seqs = [k \in 1..Len(KeyOrder) |-> seqs[k]]
      /\ \A k \in 1..Len(KeyOrder) :
           seqs[k] \in Seq(BodyErrors) /\ (Contains(seqs[k], e) => \E i \in 1..n : Contains(Check(k, i), e))
  BY <1>7, Zenon
<1>9. Len(KeyOrder) \in Nat
  BY DEF KeyOrder
<1> HIDE DEF seqs
<1>10. FlattenSeq(seqs) \in Seq(BodyErrors)
  BY <1>8, <1>9, LoopTyped
<1>11. Contains(first, e) \/ Contains(FlattenSeq(seqs), e)
  <2>1. PICK s, t : s = first /\ t = FlattenSeq(seqs)
    OBVIOUS
  <2>2. Contains(s \o t, e)
    BY <1>1, <2>1, Zenon
  <2>3. s \in Seq(BodyErrors) /\ t \in Seq(BodyErrors)
    BY <1>2, <1>10, <2>1
  <2> QED
    BY <2>1, <2>2, <2>3, ThrownByOne, ZenonT(40)
<1>12. Contains(FlattenSeq(seqs), e) => \E k \in 1..Len(KeyOrder) : Contains(seqs[k], e)
  BY <1>8, <1>9, ThrownInTurn
<1> QED
  BY <1>3, <1>6, <1>8, <1>11, <1>12, Zenon

(* The predefined tags that a meta entry is compared with. *)
MetaTags(v, line) ==
  IF line.column = "INFO" THEN InfoTags([version |-> v]) ELSE FormatTags([version |-> v])

NumberWrong(v, line) ==
  line.id \in DOMAIN MetaTags(v, line) /\ MetaTags(v, line)[line.id].Number \notin {Missing, line.Number}

TypeWrong(v, line) ==
  line.id \in DOMAIN MetaTags(v, line) /\ MetaTags(v, line)[line.id].Type # line.Type

(* What is wrong with a meta entry that has an error. *)
MetaWrong(v, line, e) ==
  \/ e.error_fix = "IRRECOVERABLE_VALUE"
  \/ /\ e.error_fix = "RECOVERABLE_VALUE" /\ e.field = "Number" /\ NumberWrong(v, line)
     /\ e.expected_value = <<MetaTags(v, line)[line.id].Number>>
  \/ /\ e.error_fix = "RECOVERABLE_VALUE" /\ e.field = "Type" /\ TypeWrong(v, line)
     /\ e.expected_type = MetaTags(v, line)[line.id].Type

(* It is the one of the error; with none, Number and Type are right. *)
LEMMA MetaThrows ==
  ASSUME NEW v, NEW line
  PROVE  /\ MetaError(v, line) = Nothing => ~NumberWrong(v, line) /\ ~TypeWrong(v, line)
         /\ \A e : MetaError(v, line) = <<e>> => MetaWrong(v, line, e)
<1> DEFINE tags == MetaTags(v, line)
           e1 == Irrecoverable("MetaSectionError", "")
           e2 == Expecting("MetaSectionError", "Number", tags[line.id].Number)
           e3 == [Error("MetaSectionError", "RECOVERABLE_VALUE", "Type")
                    EXCEPT !.expected_type = tags[line.id].Type]
<1>1. PICK c1 : MetaError(v, line)
        = FirstThrown(Throw(c1, e1) \o Throw(NumberWrong(v, line), e2) \o Throw(TypeWrong(v, line), e3))
  BY Zenon DEF MetaError, MetaTags, NumberWrong, TypeWrong
<1>2. e1.error_fix = "IRRECOVERABLE_VALUE"
  BY DEF Irrecoverable, Error
<1>3. e2.error_fix = "RECOVERABLE_VALUE" /\ e2.field = "Number" /\ e2.expected_value = <<tags[line.id].Number>>
  BY DEF Expecting, Error
<1>4. e3.error_fix = "RECOVERABLE_VALUE" /\ e3.field = "Type" /\ e3.expected_type = tags[line.id].Type
  BY DEF Error
<1>5. PICK T : e1 \in T /\ e2 \in T /\ e3 \in T
  <2>1. e1 \in {e1, e2, e3} /\ e2 \in {e1, e2, e3} /\ e3 \in {e1, e2, e3}
    OBVIOUS
  <2> HIDE DEF e1, e2, e3
  <2> QED
    BY <2>1
<1> HIDE DEF e1, e2, e3, tags
<1>6. PICK t1, t2, t3 : t1 = Throw(c1, e1) /\ t2 = Throw(NumberWrong(v, line), e2) /\ t3 = Throw(TypeWrong(v, line), e3)
  OBVIOUS
<1>7. t1 \in Seq(T) /\ t2 \in Seq(T) /\ t3 \in Seq(T)
  BY <1>5, <1>6, ThrowTyped
<1>8. PICK t12 : t12 = t1 \o t2
  OBVIOUS
<1>9. t12 \in Seq(T)
  BY <1>7, <1>8, JoinTyped
<1>10. PICK s : s = t12 \o t3
  OBVIOUS
<1>11. s \in Seq(T)
  BY <1>7, <1>9, <1>10, JoinTyped
<1>12. MetaError(v, line) = FirstThrown(s)
  BY <1>1, <1>6, <1>8, <1>10
<1>13. MetaError(v, line) = Nothing => ~NumberWrong(v, line) /\ ~TypeWrong(v, line)
  <2> SUFFICES ASSUME MetaError(v, line) = Nothing PROVE ~NumberWrong(v, line) /\ ~TypeWrong(v, line)
    OBVIOUS
  <2>1. s = << >>
    BY <1>12 DEF FirstThrown, Nothing
  <2>2. t12 = << >> /\ t3 = << >>
    BY <1>7, <1>9, <1>10, <2>1, JoinEmpty
  <2>3. t2 = << >>
    BY <1>7, <1>8, <2>2, JoinEmpty
  <2> QED
    BY <1>6, <2>2, <2>3 DEF Throw
<1>14. ASSUME NEW e, MetaError(v, line) = <<e>> PROVE MetaWrong(v, line, e)
  <2>1. s # << >> /\ e = s[1]
    BY <1>12, <1>14 DEF FirstThrown, Nothing
  <2>2. Contains(s, e)
    <3>1. 1 \in 1..Len(s)
      BY <1>11, <2>1
    <3> QED
      BY <2>1, <3>1 DEF Contains
  <2>3. Contains(t12, e) \/ Contains(t3, e)
    BY <1>7, <1>9, <1>10, <2>2, ThrownByOne
  <2>4. Contains(t1, e) \/ Contains(t2, e) \/ Contains(t3, e)
    BY <1>7, <1>8, <2>3, ThrownByOne
  <2>5. e = e1 \/ (NumberWrong(v, line) /\ e = e2) \/ (TypeWrong(v, line) /\ e = e3)
    BY <1>6, <2>4, ThrownHere
  <2> QED
    BY <1>2, <1>3, <1>4, <2>5, Zenon DEF MetaWrong, tags
<1> QED
  BY <1>13, <1>14

(* A genotype is one value, of any text, whatever the file says of GT. *)
LEMMA GenotypeMatches ==
  ASSUME NEW source, source.meta_entries \in Seq(MetaLines), NEW line,
         \A i \in 1..Len(source.meta_entries) :
           MetaError(source.version, source.meta_entries[i]) = Nothing,
         NEW value
  PROVE  MatchesMetaOrTags(source, line, "FORMAT", "GT", value, FormatTags(source))
<1> DEFINE entries == DescribedBy(source, "FORMAT", "GT")
           tags == FormatTags(source)
<1>1. "GT" \in DOMAIN tags /\ tags["GT"].Number = 1 /\ tags["GT"].Type = "String"
  BY DEF FormatTags, format_v43, format_v41_v42, Tag
<1>2. 1 \notin {A, R, G, Missing}
  <2>1. 1 \in Int
    OBVIOUS
  <2> QED
    BY <2>1, ColumnConstants, Zenon
<1>3. is_valid_cardinality(line, 1) = 1
  BY <1>2 DEF is_valid_cardinality
<1>4. ASSUME NEW tag, tag.Number = 1, tag.Type = "String" PROVE FieldMatches(line, "GT", value, tag)
  <2>1. SizeOf("GT", value) = 1
    BY DEF SizeOf
  <2>2. check_field_cardinality(line, 1, 1)
    BY <1>3 DEF check_field_cardinality
  <2>3. \A token : check_value_type("String", token)
    BY DEF check_value_type
  <2>4. check_field_type(value, "String")
    BY <2>3 DEF check_field_type
  <2> QED
    BY <1>4, <2>1, <2>2, <2>4 DEF FieldMatches
<1>5. CASE entries = << >>
  <2>1. FieldMatches(line, "GT", value, tags["GT"])
    BY <1>1, <1>4
  <2>2. tags["GT"].Type # "Integer"
    BY <1>1
  <2> QED
    BY <1>5, <2>1, <2>2, Zenon DEF MatchesMetaOrTags, check_predefined_tag
<1>6. CASE entries # << >>
  <2>1. entries \in Seq(MetaLines) /\ 1 \in 1..Len(entries)
    BY <1>6, DescribedTyped, EmptySeq
  <2>2. PICK entry : entry = entries[1]
    OBVIOUS
  <2>3. /\ entry.column = "FORMAT" /\ entry.id = "GT"
        /\ \E i \in 1..Len(source.meta_entries) : entry = source.meta_entries[i]
    BY <2>1, <2>2, DescribedTyped
  <2>4. MetaError(source.version, entry) = Nothing
    BY <2>3
  <2>5. MetaTags(source.version, entry) = tags
    <3>1. FormatTags([version |-> source.version]) = tags
      BY DEF FormatTags
    <3> QED
      BY <2>3, <3>1 DEF MetaTags
  <2>6. ~NumberWrong(source.version, entry) /\ ~TypeWrong(source.version, entry)
    BY <2>4, MetaThrows
  <2> HIDE DEF tags
  <2>7. entry.Number = 1 /\ entry.Type = "String"
    BY <1>1, <1>2, <2>3, <2>5, <2>6 DEF NumberWrong, TypeWrong
  <2>8. FieldMatches(line, "GT", value, entry)
    BY <1>4, <2>7
  <2> QED
    BY <1>6, <2>2, <2>8 DEF MatchesMetaOrTags
<1> QED
  BY <1>5, <1>6

(* What the validator knows of a file: entries that have no error. *)
KnownSource(source) ==
  /\ source.meta_entries \in Seq(MetaLines)
  /\ \A i \in 1..Len(source.meta_entries) :
       MetaError(source.version, source.meta_entries[i]) = Nothing

(* A genotype that is not missing, or is not there at all. *)
GenotypeWrongIn(sample) == sample = << >> \/ \E i \in 1..Len(sample[1]) : sample[1][i] # Missing

(* What is wrong with a record that has an error of a sample: a genotype,  *)
(* or the value of another key of FORMAT.                                  *)
FieldWrong(line, e) ==
  IF e.field = "GT" THEN \E s \in 1..Len(line.samples) : GenotypeWrongIn(line.samples[s])
                    ELSE e.field # "" /\ e.field \in ToSet(line.format)

SampleThrown(line, sample, e) ==
  \/ e.type \in {"std::exception", "SamplesBodyError"}
  \/ e.type = "SamplesFieldBodyError" /\ e.field = "GT" /\ GenotypeWrongIn(sample)
  \/ e.type = "SamplesFieldBodyError" /\ e.field # "GT" /\ e.field \in ToSet(line.format)

(* Genotypes. *)
LEMMA AllelesThrow ==
  ASSUME NEW line, NEW sample, NEW e, Contains(check_sample_alleles(line, sample), e)
  PROVE  SampleThrown(line, sample, e)
<1>1. /\ \E i \in 1..Len(sample[1]) : sample[1][i] # Missing
      /\ e = Genotype(get_ploidy(line.chromosome))
  BY ThrownHere, Zenon DEF check_sample_alleles
<1>2. IsError(e, "SamplesFieldBodyError", "IRRECOVERABLE_VALUE", "GT")
  BY <1>1, ErrorSays DEF Genotype
<1> QED
  BY <1>1, <1>2, Zenon DEF SampleThrown, GenotypeWrongIn, IsError

(* One value of a sample. *)
LEMMA SubfieldThrows ==
  ASSUME NEW source, KnownSource(source), NEW line \in BodyLines, NEW sample,
         NEW key \in Keys, key \in ToSet(line.format), NEW value \in Values, NEW e,
         Contains(check_subfield(source, line, key, value), e)
  PROVE  SampleThrown(line, sample, e)
<1> source.meta_entries \in Seq(MetaLines)
  BY DEF KnownSource
<1> DEFINE entries == DescribedBy(source, "FORMAT", key)
           number  == IF entries = << >> THEN -1 ELSE is_valid_cardinality(line, entries[1].Number)
           error   == Irrecoverable("SamplesFieldBodyError", key)
           counted == [error EXCEPT !.field_cardinality = number]
           last == IF key = "GP" \/ (key = "CNP" /\ source.version = "v43")
                     THEN check_unit_interval(value, error) ELSE Nothing
           wrong == ~MatchesMetaOrTags(source, line, "FORMAT", key, value, FormatTags(source))
           first == Throw(wrong, counted)
<1>1. check_subfield(source, line, key, value) = first \o last
  BY Zenon DEF check_subfield
<1>2. number \in Int
  <2>1. CASE entries = << >>
    BY <2>1
  <2>2. CASE entries # << >>
    <3>1. entries \in Seq(MetaLines)
      BY DescribedTyped
    <3>2. entries[1] \in MetaLines
      <4> HIDE DEF entries
      <4> QED
        BY <2>2, <3>1
    <3>3. entries[1].Number \in Numbers
      BY <3>2 DEF MetaLines
    <3>4. is_valid_cardinality(line, entries[1].Number) \in Int
      BY <3>3, CardinalityTyped
    <3> QED
      BY <2>2, <3>4
  <2> QED
    BY <2>1, <2>2
<1> HIDE DEF entries, number
<1>3. error \in BodyErrors
  BY IrrecoverableError, TypeNames
<1>4. counted \in BodyErrors
  BY <1>2, GenotypeError, TypeNames
<1>5. /\ IsError(error, "SamplesFieldBodyError", "IRRECOVERABLE_VALUE", key)
      /\ IsError(counted, "SamplesFieldBodyError", "IRRECOVERABLE_VALUE", key)
  BY ErrorSays
<1>6. wrong => key # "GT"
  BY GenotypeMatches DEF KnownSource
<1> HIDE DEF error, counted, wrong
<1>7. first \in Seq(BodyErrors) /\ (Contains(first, e) => wrong /\ e = counted)
  BY <1>4, ThrowTyped, ThrownHere
<1>8. last \in Seq(BodyErrors)
  BY <1>3, UnitIntervalTyped, NothingTyped
<1>9. Contains(last, e) => key # "GT" /\ e \in {Escape, error}
  <2>1. CASE key = "GP" \/ (key = "CNP" /\ source.version = "v43")
    BY <1>3, <2>1, UnitIntervalThrows
  <2>2. CASE ~(key = "GP" \/ (key = "CNP" /\ source.version = "v43"))
    BY <2>2, NothingThrown
  <2> QED
    BY <2>1, <2>2
<1> HIDE DEF first, last
<1>10. Contains(first, e) \/ Contains(last, e)
  <2>1. PICK s, t : s = first /\ t = last
    OBVIOUS
  <2>2. Contains(s \o t, e)
    BY <1>1, <2>1, Zenon
  <2>3. s \in Seq(BodyErrors) /\ t \in Seq(BodyErrors)
    BY <1>7, <1>8, <2>1
  <2> QED
    BY <2>1, <2>2, <2>3, ThrownByOne, ZenonT(40)
<1>11. key # "GT" /\ e \in {Escape, error, counted}
  BY <1>6, <1>7, <1>9, <1>10
<1>12. CASE e = Escape
  BY <1>12, ErrorSays DEF SampleThrown
<1>13. CASE e \in {error, counted}
  <2>1. IsError(e, "SamplesFieldBodyError", "IRRECOVERABLE_VALUE", key)
    BY <1>5, <1>13
  <2> QED
    BY <1>11, <2>1, Zenon DEF SampleThrown, IsError
<1> QED
  BY <1>11, <1>12, <1>13

(* A sample. *)
LEMMA SampleThrows ==
  ASSUME NEW source, KnownSource(source), NEW line \in BodyLines,
         NEW sample \in Seq(Values), NEW e, Contains(check_sample(source, line, sample), e)
  PROVE  SampleThrown(line, sample, e)
<1> source.meta_entries \in Seq(MetaLines)
  BY DEF KnownSource
<1> DEFINE n == Min({Len(sample), Len(line.format)})
           seqs == [j \in 1..n |-> check_subfield(source, line, line.format[j], sample[j])]
           first == Throw(Len(sample) > Len(line.format), Irrecoverable("SamplesBodyError", ""))
           second == IF line.format[1] = "GT" THEN check_sample_alleles(line, sample) ELSE Nothing
<1>1. check_sample(source, line, sample) = first \o second \o FlattenSeq(seqs)
  BY Zenon DEF check_sample, Each
<1>2. first \in Seq(BodyErrors) /\ second \in Seq(BodyErrors)
  BY IrrecoverableError, TypeNames, ThrowTyped, AllelesTyped, NothingTyped
<1>3. line.format \in Seq(Keys)
  BY ColumnTypes
<1>4. n \in Nat /\ n <= Len(sample) /\ n <= Len(line.format)
  <2>1. PICK a \in Nat, b \in Nat : a = Len(sample) /\ b = Len(line.format)
    BY <1>3
  <2>2. \E x \in {a, b} : \A y \in {a, b} : x <= y
    <3>1. CASE a <= b
      BY <3>1
    <3>2. CASE b <= a
      BY <3>2
    <3> QED
      BY <3>1, <3>2
  <2>3. Min({a, b}) \in {a, b} /\ \A y \in {a, b} : Min({a, b}) <= y
    BY <2>2, Zenon DEF Min
  <2> QED
    BY <2>1, <2>3
<1> HIDE DEF n
<1>5. ASSUME NEW j \in 1..n
      PROVE  /\ check_subfield(source, line, line.format[j], sample[j]) \in Seq(BodyErrors)
             /\ Contains(check_subfield(source, line, line.format[j], sample[j]), e) => SampleThrown(line, sample, e)
  <2>1. PICK key \in Keys, value \in Values : key = line.format[j] /\ value = sample[j]
    BY <1>3, <1>4
  <2>2. key \in ToSet(line.format)
    BY <1>3, <1>4, <2>1 DEF ToSet
  <2>3. check_subfield(source, line, key, value) \in Seq(BodyErrors)
    BY SubfieldTyped
  <2>4. Contains(check_subfield(source, line, key, value), e) => SampleThrown(line, sample, e)
    BY <2>2, SubfieldThrows
  <2> QED
    BY <2>1, <2>3, <2>4
<1>6. Contains(first, e) => SampleThrown(line, sample, e)
  <2> SUFFICES ASSUME Contains(first, e) PROVE SampleThrown(line, sample, e)
    OBVIOUS
  <2>1. e = Irrecoverable("SamplesBodyError", "")
    BY ThrownHere, Zenon
  <2>2. IsError(e, "SamplesBodyError", "IRRECOVERABLE_VALUE", "")
    BY <2>1, ErrorSays
  <2> QED
    BY <2>2 DEF SampleThrown, IsError
<1>7. Contains(second, e) => SampleThrown(line, sample, e)
  BY AllelesThrow, NothingThrown
<1>8. /\ seqs = [j \in 1..n |-> seqs[j]]
      /\ \A j \in 1..n : seqs[j] \in Seq(BodyErrors) /\ (Contains(seqs[j], e) => SampleThrown(line, sample, e))
  BY <1>5, Zenon
<1> HIDE DEF seqs, first, second
<1>9. FlattenSeq(seqs) \in Seq(BodyErrors)
  BY <1>4, <1>8, LoopTyped
<1>10. Contains(FlattenSeq(seqs), e) => SampleThrown(line, sample, e)
  <2>1. Contains(FlattenSeq(seqs), e) => \E j \in 1..n : Contains(seqs[j], e)
    BY <1>4, <1>8, ThrownInTurn
  <2> QED
    BY <1>8, <2>1
<1>11. PICK s, t, u : s = first /\ t = second /\ u = FlattenSeq(seqs)
  OBVIOUS
<1>12. PICK st : st = s \o t
  OBVIOUS
<1>13. s \in Seq(BodyErrors) /\ t \in Seq(BodyErrors) /\ u \in Seq(BodyErrors)
  BY <1>2, <1>9, <1>11
<1>14. st \in Seq(BodyErrors)
  BY <1>12, <1>13, JoinTyped
<1>15. Contains(st \o u, e)
  BY <1>1, <1>11, <1>12
<1>16. Contains(st, e) \/ Contains(u, e)
  BY <1>13, <1>14, <1>15, ThrownByOne
<1>17. Contains(st, e) => Contains(s, e) \/ Contains(t, e)
  BY <1>12, <1>13, ThrownByOne
<1> QED
  BY <1>6, <1>7, <1>10, <1>11, <1>16, <1>17

(* What the error of a record says of its columns. *)
Concerns(line, e) ==
  \/ e.type \notin {"IdBodyError", "FilterBodyError", "InfoBodyError", "FormatBodyError", "SamplesFieldBodyError"}
  \/ e.type = "IdBodyError" /\ HasDuplicates(line.ids)
  \/ e.type = "FilterBodyError" /\ e.error_fix = "DUPLICATE_VALUES" /\ e.field = "" /\ HasDuplicates(line.filter)
  \/ e.type = "FilterBodyError" /\ e.error_fix # "DUPLICATE_VALUES" /\ e.field = "0" /\ Contains(line.filter, "0")
  \/ e.type = "InfoBodyError" /\ InfoWrong(line, e)
  \/ e.type = "FormatBodyError" /\ (e.error_fix = "DUPLICATE_VALUES" => HasDuplicates(line.format))
  \/ e.type = "SamplesFieldBodyError" /\ FieldWrong(line, e)

(* The error of a sample is one of its record. *)
LEMMA SampleConcerns ==
  ASSUME NEW line, NEW s \in 1..Len(line.samples), NEW e, SampleThrown(line, line.samples[s], e),
         e.field # "" \/ e.field \notin ToSet(line.format)
  PROVE  Concerns(line, e)
<1>1. CASE e.type \in {"std::exception", "SamplesBodyError"}
  BY <1>1 DEF Concerns
<1>2. CASE e.type = "SamplesFieldBodyError" /\ e.field = "GT" /\ GenotypeWrongIn(line.samples[s])
  BY <1>2, Zenon DEF Concerns, FieldWrong
<1>3. CASE e.type = "SamplesFieldBodyError" /\ e.field # "GT" /\ e.field \in ToSet(line.format)
  BY <1>3, Zenon DEF Concerns, FieldWrong
<1> QED
  BY <1>1, <1>2, <1>3, Zenon DEF SampleThrown

(* The samples. *)
LEMMA SamplesOf ==
  ASSUME NEW line \in BodyLines
  PROVE  Len(line.samples) \in Nat /\ \A s \in 1..Len(line.samples) : line.samples[s] \in Seq(Values)
BY ColumnTypes

(* Their checks. *)
LEMMA SamplesThrow ==
  ASSUME NEW source, KnownSource(source), NEW line \in BodyLines, "" \notin ToSet(line.format),
         NEW e, Contains(check_samples(source, line), e)
  PROVE  Concerns(line, e)
<1> source.meta_entries \in Seq(MetaLines)
  BY DEF KnownSource
<1> DEFINE n == Len(line.samples)
           seqs == [i \in 1..n |-> check_sample(source, line, line.samples[i])]
           first == Throw(Len(line.samples) # source.samples_names, Irrecoverable("SamplesBodyError", ""))
<1>1. check_samples(source, line) = first \o FlattenSeq(seqs)
  BY Zenon DEF check_samples, Each
<1>2. first \in Seq(BodyErrors)
  BY IrrecoverableError, TypeNames, ThrowTyped
<1>3. n \in Nat /\ \A i \in 1..n : line.samples[i] \in Seq(Values)
  BY SamplesOf
<1>4. Contains(first, e) => Concerns(line, e)
  <2> SUFFICES ASSUME Contains(first, e) PROVE Concerns(line, e)
    OBVIOUS
  <2>1. e = Irrecoverable("SamplesBodyError", "")
    BY ThrownHere, Zenon
  <2>2. IsError(e, "SamplesBodyError", "IRRECOVERABLE_VALUE", "")
    BY <2>1, ErrorSays
  <2> QED
    BY <2>2 DEF Concerns, IsError
<1>5. ASSUME NEW i \in 1..n
      PROVE  /\ check_sample(source, line, line.samples[i]) \in Seq(BodyErrors)
             /\ Contains(check_sample(source, line, line.samples[i]), e) => Concerns(line, e)
  <2>1. PICK sample \in Seq(Values) : sample = line.samples[i]
    BY <1>3
  <2>2. check_sample(source, line, sample) \in Seq(BodyErrors)
    BY SampleTyped
  <2>3. Contains(check_sample(source, line, sample), e) => SampleThrown(line, sample, e)
    BY SampleThrows
  <2>4. SampleThrown(line, sample, e) => Concerns(line, e)
    BY <2>1, SampleConcerns
  <2> QED
    BY <2>1, <2>2, <2>3, <2>4
<1> HIDE DEF n
<1>6. /\ seqs = [i \in 1..n |-> seqs[i]]
      /\ \A i \in 1..n : seqs[i] \in Seq(BodyErrors) /\ (Contains(seqs[i], e) => Concerns(line, e))
  BY <1>5, Zenon
<1> HIDE DEF seqs, first
<1>7. FlattenSeq(seqs) \in Seq(BodyErrors)
  BY <1>3, <1>6, LoopTyped
<1>8. Contains(FlattenSeq(seqs), e) => Concerns(line, e)
  <2>1. Contains(FlattenSeq(seqs), e) => \E i \in 1..n : Contains(seqs[i], e)
    BY <1>3, <1>6, ThrownInTurn
  <2> QED
    BY <1>6, <2>1
<1>9. PICK s, t : s = first /\ t = FlattenSeq(seqs)
  OBVIOUS
<1>10. s \in Seq(BodyErrors) /\ t \in Seq(BodyErrors) /\ Contains(s \o t, e)
  BY <1>1, <1>2, <1>7, <1>9
<1>11. Contains(s, e) \/ Contains(t, e)
  BY <1>10, ThrownByOne
<1> QED
  BY <1>4, <1>8, <1>9, <1>11

(* What the grammar refuses in a sample. *)
LEMMA GrammarSampleTyped ==
  ASSUME NEW format, NEW sample
  PROVE  grammar_sample(format, sample) \in Seq(BodyErrors)
<1>0. -1 \in Int
  OBVIOUS
<1>1. Genotype(-1) \in BodyErrors
  BY <1>0, GenotypeError, TypeNames DEF Genotype
<1>2. Irrecoverable("SamplesBodyError", "") \in BodyErrors
  BY IrrecoverableError, TypeNames
<1>3. \A x : Throw(x, Genotype(-1)) \in Seq(BodyErrors)
            /\ Throw(x, Irrecoverable("SamplesBodyError", "")) \in Seq(BodyErrors)
  BY <1>1, <1>2, ThrowTyped
<1> QED
  BY <1>3, JoinTyped, Zenon DEF grammar_sample

(* Its genotype, or a value. *)
LEMMA GrammarSampleThrows ==
  ASSUME NEW line, NEW sample, NEW e, NEW format, Contains(grammar_sample(format, sample), e)
  PROVE  (SampleThrown(line, sample, e) /\ e.field # "") \/ e.type = "SamplesBodyError"
<1>0. -1 \in Int
  OBVIOUS
<1>1. Genotype(-1) \in BodyErrors
  BY <1>0, GenotypeError, TypeNames DEF Genotype
<1>2. Irrecoverable("SamplesBodyError", "") \in BodyErrors
  BY IrrecoverableError, TypeNames
<1> DEFINE illegal == sample = << >> \/ \E i \in 1..Len(sample[1]) :
             sample[1][i] = Illegal /\ MayBeGenotype(format, SubSeq(sample[1], 1, i - 1))
<1>3. PICK d : grammar_sample(format, sample)
        = Throw(illegal, Genotype(-1)) \o Throw(d, Irrecoverable("SamplesBodyError", ""))
  BY Zenon DEF grammar_sample
<1>4. PICK s, t : s = Throw(illegal, Genotype(-1)) /\ t = Throw(d, Irrecoverable("SamplesBodyError", ""))
  OBVIOUS
<1>5. s \in Seq(BodyErrors) /\ t \in Seq(BodyErrors)
  BY <1>1, <1>2, <1>4, ThrowTyped
<1>6. Contains(s \o t, e)
  BY <1>3, <1>4
<1>7. Contains(s, e) \/ Contains(t, e)
  BY <1>5, <1>6, ThrownByOne
<1>8. CASE Contains(s, e)
  <2>1. illegal /\ e = Genotype(-1)
    BY <1>4, <1>8, ThrownHere, Zenon
  <2>2. IsError(e, "SamplesFieldBodyError", "IRRECOVERABLE_VALUE", "GT")
    BY <2>1, ErrorSays DEF Genotype
  <2>3. GenotypeWrongIn(sample)
    BY <2>1, MissingIsNoText DEF GenotypeWrongIn
  <2>4. e.type = "SamplesFieldBodyError" /\ e.field = "GT" /\ e.field # ""
    BY <2>2 DEF IsError
  <2> QED
    BY <2>3, <2>4, Zenon DEF SampleThrown
<1>9. CASE Contains(t, e)
  <2>1. e = Irrecoverable("SamplesBodyError", "")
    BY <1>4, <1>9, ThrownHere
  <2>2. IsError(e, "SamplesBodyError", "IRRECOVERABLE_VALUE", "")
    BY <2>1, ErrorSays
  <2> QED
    BY <2>2 DEF IsError
<1> QED
  BY <1>7, <1>8, <1>9

(* What it refuses in a record. *)
LEMMA GrammarThrows ==
  ASSUME NEW line \in BodyLines, NEW e, Contains(grammar_record(line), e)
  PROVE  Concerns(line, e)
<1>1. PICK c, d : grammar_record(line) = Throw(c, Irrecoverable("InfoBodyError", ""))
                 \o Throw(d, Irrecoverable("FormatBodyError", "")) \o SamplesRefused(line)
  BY Zenon DEF grammar_record, SamplesRefused
<1>2. \A x : Throw(x, Irrecoverable("InfoBodyError", "")) \in Seq(BodyErrors)
             /\ Throw(x, Irrecoverable("FormatBodyError", "")) \in Seq(BodyErrors)
  BY IrrecoverableError, TypeNames, ThrowTyped
<1>3. PICK s, t, u : /\ s = Throw(c, Irrecoverable("InfoBodyError", ""))
                     /\ t = Throw(d, Irrecoverable("FormatBodyError", ""))
                     /\ u = SamplesRefused(line)
  OBVIOUS
<1>4. s \in Seq(BodyErrors) /\ t \in Seq(BodyErrors) /\ u \in Seq(BodyErrors)
  BY <1>2, <1>3, SamplesRefusedTyped
<1>5. PICK st : st = s \o t
  OBVIOUS
<1>6. st \in Seq(BodyErrors)
  BY <1>4, <1>5, JoinTyped
<1>7. Contains(st \o u, e)
  BY <1>1, <1>3, <1>5
<1>8. Contains(st, e) \/ Contains(u, e)
  BY <1>4, <1>6, <1>7, ThrownByOne
<1>9. Contains(st, e) => Contains(s, e) \/ Contains(t, e)
  BY <1>4, <1>5, ThrownByOne
<1>10. CASE Contains(s, e)
  <2>1. e = Irrecoverable("InfoBodyError", "")
    BY <1>3, <1>10, ThrownHere
  <2>2. IsError(e, "InfoBodyError", "IRRECOVERABLE_VALUE", "")
    BY <2>1, ErrorSays
  <2>3. e.type = "InfoBodyError" /\ e.error_fix = "IRRECOVERABLE_VALUE" /\ e.field = ""
    BY <2>2 DEF IsError
  <2>4. InfoWrong(line, e)
    BY <2>3 DEF InfoWrong
  <2> QED
    BY <2>3, <2>4, Zenon DEF Concerns
<1>11. CASE Contains(t, e)
  <2>1. e = Irrecoverable("FormatBodyError", "")
    BY <1>3, <1>11, ThrownHere
  <2>2. IsError(e, "FormatBodyError", "IRRECOVERABLE_VALUE", "")
    BY <2>1, ErrorSays
  <2>3. e.type = "FormatBodyError" /\ e.error_fix # "DUPLICATE_VALUES"
    BY <2>2 DEF IsError
  <2> QED
    BY <2>3, Zenon DEF Concerns
<1>12. CASE Contains(u, e)
  <2> DEFINE n == Len(line.samples)
             seqs == [i \in 1..n |-> grammar_sample(line.format, line.samples[i])]
  <2>1. u = FlattenSeq(seqs)
    BY <1>3, Zenon DEF SamplesRefused, Each
  <2>2. n \in Nat
    BY ColumnTypes
  <2>3. \A i \in 1..n : grammar_sample(line.format, line.samples[i]) \in Seq(BodyErrors)
    BY GrammarSampleTyped
  <2>4. /\ seqs = [i \in 1..n |-> seqs[i]]
        /\ \A i \in 1..n : seqs[i] \in Seq(BodyErrors) /\ seqs[i] = grammar_sample(line.format, line.samples[i])
    BY <2>3, Zenon
  <2> HIDE DEF seqs
  <2>5. PICK i \in 1..n : Contains(seqs[i], e)
    <3> HIDE DEF n
    <3> QED
      BY <1>12, <2>1, <2>2, <2>4, ThrownInTurn
  <2>6. Contains(grammar_sample(line.format, line.samples[i]), e)
    BY <2>4, <2>5
  <2>7. (SampleThrown(line, line.samples[i], e) /\ e.field # "") \/ e.type = "SamplesBodyError"
    BY <2>6, GrammarSampleThrows, Zenon
  <2>8. e.type = "SamplesBodyError" => Concerns(line, e)
    BY DEF Concerns
  <2> QED
    BY <2>5, <2>7, <2>8, SampleConcerns
<1> QED
  BY <1>8, <1>9, <1>10, <1>11, <1>12

(* ID and FILTER. *)
LEMMA IdThrows ==
  ASSUME NEW source, NEW line, NEW e, Contains(check_ids(source, line), e)
  PROVE  Concerns(line, e)
<1>1. HasDuplicates(line.ids) /\ e = Duplicated("IdBodyError")
  BY ThrownHere, Zenon DEF check_ids
<1>2. IsError(e, "IdBodyError", "DUPLICATE_VALUES", "")
  BY <1>1, ErrorSays
<1> QED
  BY <1>1, <1>2, Zenon DEF Concerns, IsError

(* Of FILTER, a repeated value or a 0. *)
LEMMA FilterThrows ==
  ASSUME NEW source, NEW line, NEW e, Contains(check_filter(source, line), e)
  PROVE  Concerns(line, e)
<1> DEFINE repeated == source.version = "v43" /\ HasDuplicates(line.filter)
<1>1. PICK s, t : /\ s = Throw(repeated, Duplicated("FilterBodyError"))
                  /\ t = Throw(Contains(line.filter, "0"), Irrecoverable("FilterBodyError", "0"))
  OBVIOUS
<1>2. Contains(s \o t, e)
  BY <1>1, Zenon DEF check_filter
<1>3. s \in Seq(BodyErrors) /\ t \in Seq(BodyErrors)
  BY <1>1, DuplicatedError, IrrecoverableError, TypeNames, ThrowTyped
<1>4. Contains(s, e) \/ Contains(t, e)
  BY <1>2, <1>3, ThrownByOne
<1>5. CASE Contains(s, e)
  <2>1. repeated /\ e = Duplicated("FilterBodyError")
    BY <1>1, <1>5, ThrownHere, Zenon
  <2>2. IsError(e, "FilterBodyError", "DUPLICATE_VALUES", "")
    BY <2>1, ErrorSays
  <2> QED
    BY <2>1, <2>2, Zenon DEF Concerns, IsError
<1>6. CASE Contains(t, e)
  <2>1. Contains(line.filter, "0") /\ e = Irrecoverable("FilterBodyError", "0")
    BY <1>1, <1>6, ThrownHere, Zenon
  <2>2. IsError(e, "FilterBodyError", "IRRECOVERABLE_VALUE", "0")
    BY <2>1, ErrorSays
  <2>3. e.type = "FilterBodyError" /\ e.error_fix # "DUPLICATE_VALUES" /\ e.field = "0"
    BY <2>2 DEF IsError
  <2> QED
    BY <2>1, <2>3, Zenon DEF Concerns
<1> QED
  BY <1>4, <1>5, <1>6

(* FORMAT. *)
LEMMA FormatThrows ==
  ASSUME NEW source, NEW line, NEW e, Contains(check_format(source, line), e)
  PROVE  Concerns(line, e)
<1> DEFINE repeated == source.version = "v43" /\ HasDuplicates(line.format)
           misplaced == Contains(line.format, "GT") /\ line.format[1] # "GT"
<1>1. PICK s, t : /\ s = Throw(misplaced, Irrecoverable("FormatBodyError", ""))
                  /\ t = Throw(repeated, Duplicated("FormatBodyError"))
  OBVIOUS
<1>2. Contains(s \o t, e)
  BY <1>1, Zenon DEF check_format
<1>3. s \in Seq(BodyErrors) /\ t \in Seq(BodyErrors)
  <2> HIDE DEF repeated, misplaced
  <2> QED
    BY <1>1, DuplicatedError, IrrecoverableError, TypeNames, ThrowTyped
<1>4. Contains(s, e) \/ Contains(t, e)
  BY <1>2, <1>3, ThrownByOne
<1>5. CASE Contains(t, e)
  <2>1. repeated /\ e = Duplicated("FormatBodyError")
    BY <1>1, <1>5, ThrownHere, Zenon
  <2>2. IsError(e, "FormatBodyError", "DUPLICATE_VALUES", "")
    BY <2>1, ErrorSays
  <2> QED
    BY <2>1, <2>2, Zenon DEF Concerns, IsError
<1>6. CASE Contains(s, e)
  <2>1. e = Irrecoverable("FormatBodyError", "")
    BY <1>1, <1>6, ThrownHere, Zenon
  <2>2. IsError(e, "FormatBodyError", "IRRECOVERABLE_VALUE", "")
    BY <2>1, ErrorSays
  <2>3. e.type = "FormatBodyError" /\ e.error_fix # "DUPLICATE_VALUES"
    BY <2>2 DEF IsError
  <2> QED
    BY <2>3, Zenon DEF Concerns
<1> QED
  BY <1>4, <1>5, <1>6

(* The columns that are not fixed. *)
LEMMA OtherThrows ==
  ASSUME NEW line, NEW e,
         \/ Contains(check_chromosome(line), e)
         \/ Contains(check_alternate_alleles(line), e)
         \/ Contains(check_quality(line), e)
  PROVE  Concerns(line, e)
<1>1. \/ e = Irrecoverable("ChromosomeBodyError", "")
      \/ e = Irrecoverable("AlternateAllelesBodyError", "")
      \/ e = Irrecoverable("QualityBodyError", "")
  BY ThrownHere, Zenon DEF check_chromosome, check_alternate_alleles, check_quality
<1>2. PICK type \in {"ChromosomeBodyError", "AlternateAllelesBodyError", "QualityBodyError"} :
        e = Irrecoverable(type, "")
  BY <1>1
<1>3. e.type = type
  BY <1>2 DEF Irrecoverable, Error
<1> QED
  BY <1>3 DEF Concerns

(* One of many checks. *)
FoundBy(T, a, b, c, d, f, e) ==
  /\ a \in Seq(T) /\ b \in Seq(T) /\ c \in Seq(T) /\ d \in Seq(T) /\ f \in Seq(T)
  /\ Contains(a \o b \o c \o d \o f, e)

(* One of them found it. *)
LEMMA ThrownByOneOf ==
  ASSUME NEW T, NEW a, NEW b, NEW c, NEW d, NEW f, NEW e, FoundBy(T, a, b, c, d, f, e)
  PROVE  Contains(a, e) \/ Contains(b, e) \/ Contains(c, e) \/ Contains(d, e) \/ Contains(f, e)
<1> /\ a \in Seq(T) /\ b \in Seq(T) /\ c \in Seq(T) /\ d \in Seq(T) /\ f \in Seq(T)
    /\ Contains(a \o b \o c \o d \o f, e)
  BY DEF FoundBy
<1>1. PICK ab : ab = a \o b
  OBVIOUS
<1>2. ab \in Seq(T) /\ (Contains(ab, e) => Contains(a, e) \/ Contains(b, e))
  BY <1>1, JoinTyped, ThrownByOne
<1>3. PICK abc : abc = ab \o c
  OBVIOUS
<1>4. abc \in Seq(T) /\ (Contains(abc, e) => Contains(ab, e) \/ Contains(c, e))
  BY <1>2, <1>3, JoinTyped, ThrownByOne
<1>5. PICK abcd : abcd = abc \o d
  OBVIOUS
<1>6. abcd \in Seq(T) /\ (Contains(abcd, e) => Contains(abc, e) \/ Contains(d, e))
  BY <1>4, <1>5, JoinTyped, ThrownByOne
<1>7. Contains(abcd \o f, e)
  BY <1>1, <1>3, <1>5
<1>8. Contains(abcd, e) \/ Contains(f, e)
  BY <1>6, <1>7, ThrownByOne
<1> QED
  BY <1>2, <1>4, <1>6, <1>8

(* The constructor of Record. *)
LEMMA RecordThrows ==
  ASSUME NEW source, KnownSource(source), NEW line \in BodyLines, "" \notin ToSet(line.format),
         NEW e, Contains(Record(source, line), e)
  PROVE  Concerns(line, e)
<1> source.meta_entries \in Seq(MetaLines)
  BY DEF KnownSource
<1>1. PICK a1, a2, a3, a4, a5 :
        /\ a1 = check_chromosome(line) /\ a2 = check_ids(source, line)
        /\ a3 = check_alternate_alleles(line) /\ a4 = check_quality(line)
        /\ a5 = check_filter(source, line)
  OBVIOUS
<1>2. PICK b, c, d : /\ b = check_info(source, line)
                     /\ c = check_format(source, line)
                     /\ d = check_samples(source, line)
  OBVIOUS
<1>3. PICK a : a = a1 \o a2 \o a3 \o a4 \o a5
  OBVIOUS
<1>4. Record(source, line) = ((a \o b) \o c) \o d
  BY <1>1, <1>2, <1>3, Zenon DEF Record
<1>5. /\ a \in Seq(BodyErrors) /\ b \in Seq(BodyErrors)
      /\ c \in Seq(BodyErrors) /\ d \in Seq(BodyErrors)
  BY <1>1, <1>2, <1>3, RecordParts
<1>6. a1 \in Seq(BodyErrors) /\ a2 \in Seq(BodyErrors)
  BY <1>1, IrrecoverableError, DuplicatedError, TypeNames, ThrowTyped DEF check_chromosome, check_ids
<1>7. a3 \in Seq(BodyErrors)
  <2>1. Irrecoverable("AlternateAllelesBodyError", "") \in BodyErrors
    BY IrrecoverableError, TypeNames
  <2> QED
    BY <1>1, <2>1, ThrowTyped, Zenon DEF check_alternate_alleles
<1>8. a4 \in Seq(BodyErrors)
  BY <1>1, IrrecoverableError, TypeNames, ThrowTyped DEF check_quality
<1>9. a5 \in Seq(BodyErrors)
  <2>1. \A x : Throw(x, Duplicated("FilterBodyError")) \in Seq(BodyErrors)
    BY DuplicatedError, TypeNames, ThrowTyped
  <2>2. \A x : Throw(x, Irrecoverable("FilterBodyError", "0")) \in Seq(BodyErrors)
    BY IrrecoverableError, TypeNames, ThrowTyped
  <2> QED
    BY <1>1, <2>1, <2>2, JoinTyped, Zenon DEF check_filter
<1>10. PICK ab : ab = a \o b
  OBVIOUS
<1>11. ab \in Seq(BodyErrors) /\ (Contains(ab, e) => Contains(a, e) \/ Contains(b, e))
  BY <1>5, <1>10, JoinTyped, ThrownByOne
<1>12. PICK abc : abc = ab \o c
  OBVIOUS
<1>13. abc \in Seq(BodyErrors) /\ (Contains(abc, e) => Contains(ab, e) \/ Contains(c, e))
  BY <1>5, <1>11, <1>12, JoinTyped, ThrownByOne
<1>14. Contains(abc \o d, e)
  BY <1>4, <1>10, <1>12
<1>15. Contains(abc, e) \/ Contains(d, e)
  BY <1>5, <1>13, <1>14, ThrownByOne
<1>16. Contains(a, e) =>
         Contains(a1, e) \/ Contains(a2, e) \/ Contains(a3, e) \/ Contains(a4, e) \/ Contains(a5, e)
  <2> SUFFICES ASSUME Contains(a, e)
               PROVE  Contains(a1, e) \/ Contains(a2, e) \/ Contains(a3, e) \/ Contains(a4, e) \/ Contains(a5, e)
    OBVIOUS
  <2>1. Contains(a1 \o a2 \o a3 \o a4 \o a5, e)
    BY <1>3, Zenon
  <2>2. FoundBy(BodyErrors, a1, a2, a3, a4, a5, e)
    BY <1>6, <1>7, <1>8, <1>9, <2>1, Zenon DEF FoundBy
  <2> QED
    BY <2>2, ThrownByOneOf, Zenon
<1>17. Contains(a, e) => Concerns(line, e)
  BY <1>1, <1>16, IdThrows, FilterThrows, OtherThrows
<1>18. Contains(b, e) => Concerns(line, e)
  <2>1. Escape.type = "std::exception"
    BY ErrorSays
  <2>2. e = Escape => Concerns(line, e)
    BY <2>1 DEF Concerns
  <2>3. e.type = "InfoBodyError" /\ InfoWrong(line, e) => Concerns(line, e)
    BY DEF Concerns
  <2> QED
    BY <1>2, <2>2, <2>3, InfoThrows
<1>19. Contains(c, e) => Concerns(line, e)
  BY <1>2, FormatThrows
<1>20. Contains(d, e) => Concerns(line, e)
  BY <1>2, SamplesThrow
<1> QED
  BY <1>11, <1>13, <1>15, <1>17, <1>18, <1>19, <1>20

(* FORMAT has no empty key where the grammar has nothing to say. *)
LEMMA NoEmptyKey ==
  ASSUME NEW line \in BodyLines, grammar_record(line) = Nothing
  PROVE  "" \notin ToSet(line.format)
<1> DEFINE refused == line.format # << >> /\ (Contains(line.format, "") \/ line.samples = << >>)
<1>1. PICK c : grammar_record(line) = Throw(c, Irrecoverable("InfoBodyError", ""))
                 \o Throw(refused, Irrecoverable("FormatBodyError", "")) \o SamplesRefused(line)
  BY Zenon DEF grammar_record, SamplesRefused
<1>2. \A x : Throw(x, Irrecoverable("InfoBodyError", "")) \in Seq(BodyErrors)
             /\ Throw(x, Irrecoverable("FormatBodyError", "")) \in Seq(BodyErrors)
  BY IrrecoverableError, TypeNames, ThrowTyped
<1>3. PICK s, t, u : /\ s = Throw(c, Irrecoverable("InfoBodyError", ""))
                     /\ t = Throw(refused, Irrecoverable("FormatBodyError", ""))
                     /\ u = SamplesRefused(line)
  OBVIOUS
<1>4. s \in Seq(BodyErrors) /\ t \in Seq(BodyErrors) /\ u \in Seq(BodyErrors)
  <2> HIDE DEF refused
  <2> QED
    BY <1>2, <1>3, SamplesRefusedTyped
<1>5. PICK st : st = s \o t
  OBVIOUS
<1>6. st \in Seq(BodyErrors)
  BY <1>4, <1>5, JoinTyped
<1>7. st \o u = << >>
  BY <1>1, <1>3, <1>5 DEF Nothing
<1>8. st = << >>
  BY <1>4, <1>6, <1>7, JoinEmpty
<1>9. t = << >>
  BY <1>4, <1>5, <1>8, JoinEmpty
<1>10. ~refused
  <2> HIDE DEF refused
  <2>1. <<Irrecoverable("FormatBodyError", "")>> # << >>
    OBVIOUS
  <2> QED
    BY <1>3, <1>9, <2>1, Zenon DEF Throw
<1>11. PICK format \in Seq(Keys) : format = line.format
  BY ColumnTypes
<1>12. PICK empty : empty = ""
  OBVIOUS
<1>13. format = << >> \/ ~Contains(format, empty)
  BY <1>10, <1>11, <1>12
<1>14. empty \notin ToSet(format)
  <2>1. empty \in ToSet(format) => Contains(format, empty) /\ format # << >>
    BY DEF ToSet, Contains
  <2> QED
    BY <1>13, <2>1
<1> QED
  BY <1>11, <1>12, <1>14

(* The error of a record says what is wrong with it. *)
LEMMA BodyErrorConcerns ==
  ASSUME NEW source, KnownSource(source), NEW line \in BodyLines, NEW e, BodyError(source, line) = <<e>>
  PROVE  Concerns(line, e)
<1> source.meta_entries \in Seq(MetaLines)
  BY DEF KnownSource
<1>1. CASE grammar_record(line) # Nothing
  <2>1. PICK checks \in Seq(BodyErrors) : checks = grammar_record(line)
    BY GrammarTyped
  <2>2. checks # << >> /\ e = checks[1]
    BY <1>1, <2>1 DEF BodyError, FirstThrown, Nothing
  <2>3. 1 \in 1..Len(checks)
    BY <2>2
  <2>4. Contains(checks, e)
    BY <2>2, <2>3 DEF Contains
  <2> QED
    BY <2>1, <2>4, GrammarThrows
<1>2. CASE grammar_record(line) = Nothing
  <2>1. PICK checks \in Seq(BodyErrors) : checks = Record(source, line)
    BY RecordTyped
  <2>2. checks # << >> /\ e = checks[1]
    BY <1>2, <2>1 DEF BodyError, FirstThrown, Nothing
  <2>3. 1 \in 1..Len(checks)
    BY <2>2
  <2>4. Contains(checks, e)
    BY <2>2, <2>3 DEF Contains
  <2>5. "" \notin ToSet(line.format)
    BY <1>2, NoEmptyKey
  <2> QED
    BY <2>1, <2>4, <2>5, RecordThrows
<1> QED
  BY <1>1, <1>2

(* A fix that writes a line and does not count its error as ignored. *)
FixesIt(fixes, after) == \E o \in fixes : o.ends = "no" /\ o.ignored = 0 /\ o.written = <<after>>

(* Write does so, ignore_error and the end of the process do not. *)
LEMMA FixesByWriting ==
  ASSUME NEW new, NEW after
  PROVE  /\ FixesIt(Write(new), after) => after = new
         /\ ~FixesIt(ignore_error(new), after)
         /\ \A how \in {"throws", "crashes"} : ~FixesIt({Ends(how)}, after)
<1>1. FixesIt(Write(new), after) => Writes(Write(new), after)
  BY DEF FixesIt, Writes
<1>2. ~FixesIt(ignore_error(new), after)
  BY DEF FixesIt, ignore_error, Outcome
<1>3. ASSUME NEW how \in {"throws", "crashes"} PROVE ~FixesIt({Ends(how)}, after)
  BY DEF FixesIt, Ends
<1> QED
  BY <1>1, <1>2, <1>3, WritesOne

(* Where only the first of equal fields are kept, none is repeated. *)
FirstOnly(kept, s, K, n, g) ==
  /\ Len(kept) \in Nat /\ n \in Nat
  /\ KeptBy(kept, s, K, n, g) /\ \A i \in K : IsFirst(s, i)

(* No value is left twice. *)
LEMMA FirstOnlyUnique ==
  ASSUME NEW kept, NEW s, NEW K, NEW n, NEW g, FirstOnly(kept, s, K, n, g)
  PROVE  ~HasDuplicates(kept)
<1>1. PICK m \in Nat : m = Len(kept)
  BY DEF FirstOnly
<1>2. n \in Nat
  BY DEF FirstOnly
<1>3. /\ \A i, k \in 1..m : i < k => g[i] < g[k]
      /\ \A k \in 1..m : g[k] \in 1..n /\ IsFirst(s, g[k]) /\ kept[k] = s[g[k]]
  BY <1>1 DEF FirstOnly, KeptBy
<1>4. ASSUME NEW k \in 1..m, NEW i \in 1..(k - 1) PROVE kept[i] # kept[k]
  <2>1. i \in 1..m /\ i < k
    OBVIOUS
  <2>2. g[i] \in 1..(g[k] - 1)
    BY <1>2, <1>3, <2>1
  <2> QED
    BY <1>3, <2>1, <2>2 DEF IsFirst
<1> QED
  BY <1>1, <1>4 DEF HasDuplicates, IsFirst

(* remove_duplicate_strings leaves no duplicates, *)
LEMMA NoDuplicatesLeft ==
  ASSUME NEW T, NEW s \in Seq(T)
  PROVE  ~HasDuplicates(remove_duplicate_strings(s))
<1>1. PICK removed : removed = {i \in 1..Len(s) : ~IsFirst(s, i)}
  OBVIOUS
<1>2. remove_duplicate_strings(s) = remove_fields(s, << >>, removed)
  BY <1>1 DEF remove_duplicate_strings
<1>3. PICK kept, g : RemovedTo(T, s, << >>, removed, kept, g)
  BY RemoveFieldsKeeps, Zenon
<1>4. PICK K : K = (1..Len(s)) \ removed
  OBVIOUS
<1>5. kept \in Seq(T) /\ KeptBy(kept, s, K, Len(s), g) /\ remove_duplicate_strings(s) = kept
  BY <1>2, <1>3, <1>4 DEF RemovedTo
<1>6. Len(kept) \in Nat /\ Len(s) \in Nat
  BY <1>5
<1>7. \A i \in K : IsFirst(s, i)
  BY <1>1, <1>4
<1>8. FirstOnly(kept, s, K, Len(s), g)
  BY <1>5, <1>6, <1>7 DEF FirstOnly
<1> QED
  BY <1>5, <1>8, FirstOnlyUnique, Zenon

(* nor does remove_duplicate_format_sample_pairs in FORMAT, *)
LEMMA NoFormatDuplicatesLeft ==
  ASSUME NEW line \in BodyLines
  PROVE  ~HasDuplicates(FlattenSeq(OptionsOf(line, line.format)))
<1>1. PICK before \in Seq(Keys) : before = line.format
  BY ColumnTypes
<1>2. PICK format : format = FlattenSeq(OptionsOf(line, before))
  OBVIOUS
<1>3. PICK K : K = {i \in 1..Len(before) : StaysInFormat(line, i)}
  OBVIOUS
<1>4. format \in Seq(Keys) /\ \E g : KeptBy(format, before, K, Len(before), g)
  BY <1>2, <1>3, FormatPairsKept, Zenon
<1>5. PICK g : KeptBy(format, before, K, Len(before), g)
  BY <1>4
<1>6. \A i \in K : IsFirst(before, i)
  BY <1>1, <1>3 DEF StaysInFormat
<1>7. Len(format) \in Nat /\ Len(before) \in Nat
  BY <1>4
<1>8. FirstOnly(format, before, K, Len(before), g)
  BY <1>5, <1>6, <1>7 DEF FirstOnly
<1>9. ~HasDuplicates(format)
  BY <1>8, FirstOnlyUnique, Zenon
<1> QED
  BY <1>1, <1>2, <1>9

(* and remove_duplicate_key_value_pairs leaves each key of INFO once. *)
LEMMA NoInfoDuplicatesLeft ==
  ASSUME NEW T, NEW info \in Seq(T)
  PROVE  ~HasDuplicates(KeysOf(remove_duplicate_key_value_pairs(info)))
<1>1. PICK kept, g : /\ kept \in Seq(T) /\ KeptBy(kept, info, Staying(info), Len(info), g)
                     /\ remove_duplicate_key_value_pairs(info) = PairsOf(kept)
  BY KeyValuePairsKept, Zenon
<1>2. PICK m \in Nat, n \in Nat : m = Len(kept) /\ n = Len(info)
  BY <1>1
<1>3. PICK keys, K : keys = KeysOf(info) /\ K = Staying(info)
  OBVIOUS
<1>4. \A i \in 1..n : keys[i] = info[i].key
  BY <1>2, <1>3 DEF KeysOf
<1>5. \A i \in K : IsFirst(keys, i)
  BY <1>3 DEF Staying
<1>6. CASE kept = << >>
  <2>1. PICK unique : unique = KeysOf(<<Dot>>)
    OBVIOUS
  <2>2. Len(unique) = 1
    BY <2>1 DEF KeysOf
  <2>3. ~HasDuplicates(unique)
    BY <2>2 DEF HasDuplicates, IsFirst
  <2> QED
    BY <1>1, <1>6, <2>1, <2>3 DEF PairsOf
<1>7. CASE kept # << >>
  <2>1. PICK pairs : pairs = PairsOf(kept)
    OBVIOUS
  <2>2. pairs = [k \in 1..m |-> Field(kept[k].key, kept[k].parts[1])]
    BY <1>2, <1>7, <2>1 DEF PairsOf
  <2>3. Len(pairs) = m /\ \A k \in 1..m : pairs[k] = Field(kept[k].key, kept[k].parts[1])
    BY <2>2
  <2>4. \A k \in 1..m : pairs[k].key = kept[k].key
    BY <2>3 DEF Field
  <2>5. PICK unique : unique = KeysOf(pairs)
    OBVIOUS
  <2>6. Len(unique) = m /\ \A k \in 1..m : unique[k] = kept[k].key
    BY <2>3, <2>4, <2>5 DEF KeysOf
  <2>7. KeptBy(unique, keys, K, n, g)
    <3>1. /\ g \in [1..m -> 1..n]
          /\ \A i, k \in 1..m : i < k => g[i] < g[k]
          /\ \A k \in 1..m : g[k] \in K /\ kept[k] = info[g[k]]
          /\ \A i \in 1..n : i \in K => \E k \in 1..m : g[k] = i
      BY <1>1, <1>2, <1>3 DEF KeptBy
    <3>2. \A k \in 1..m : unique[k] = keys[g[k]]
      BY <1>4, <2>6, <3>1
    <3> QED
      BY <2>6, <3>1, <3>2 DEF KeptBy
  <2>8. FirstOnly(unique, keys, K, n, g)
    BY <1>5, <2>6, <2>7 DEF FirstOnly
  <2>9. ~HasDuplicates(unique)
    BY <2>8, FirstOnlyUnique, Zenon
  <2> QED
    BY <1>1, <2>1, <2>5, <2>9
<1> QED
  BY <1>6, <1>7

(* ID, FILTER and FORMAT. *)
LEMMA IdNotAgain ==
  ASSUME NEW line \in BodyLines, NEW e, NEW after, FixesIt(FixId(line, e), after)
  PROVE  ~HasDuplicates(after.ids)
<1>1. PICK fixed : fixed = remove_duplicate_strings(line.ids)
  OBVIOUS
<1>2. FixId(line, e) = Write([line EXCEPT !.ids = fixed]) \/ FixId(line, e) = ignore_error(line)
  BY <1>1, Zenon DEF FixId
<1>3. after = [line EXCEPT !.ids = fixed]
  BY <1>2, FixesByWriting
<1>4. after.ids = fixed
  BY <1>3 DEF BodyLines
<1> QED
  BY <1>1, <1>4, ColumnTypes, NoDuplicatesLeft

(* FILTER. *)
LEMMA FilterNotAgain ==
  ASSUME NEW line \in BodyLines, NEW e, e.error_fix = "DUPLICATE_VALUES" => e.field = "",
         NEW after, FixesIt(FixFilter(line, e), after)
  PROVE  IF e.error_fix = "DUPLICATE_VALUES" THEN ~HasDuplicates(after.filter)
                                             ELSE ~Contains(after.filter, "0")
<1>1. PICK filter \in Seq(Text) : filter = line.filter
  BY ColumnTypes
<1>2. CASE e.error_fix = "DUPLICATE_VALUES"
  <2>1. PICK fixed : fixed = remove_duplicate_strings(filter)
    OBVIOUS
  <2>2. FixFilter(line, e) = Write([line EXCEPT !.filter = fixed])
    BY <1>1, <1>2, <2>1 DEF FixFilter
  <2>3. after = [line EXCEPT !.filter = fixed]
    BY <2>2, FixesByWriting
  <2>4. after.filter = fixed
    BY <2>3 DEF BodyLines
  <2> QED
    BY <1>2, <2>1, <2>4, NoDuplicatesLeft
<1>3. CASE e.error_fix # "DUPLICATE_VALUES"
  <2>1. PICK zero, dot : zero = "0" /\ dot = "."
    OBVIOUS
  <2>2. PICK none : none = <<dot>>
    OBVIOUS
  <2>3. PICK removed : removed = IndexesOf(filter, zero)
    OBVIOUS
  <2>4. PICK others : others = remove_fields(filter, none, removed)
    OBVIOUS
  <2>5. FixFilter(line, e) = Write([line EXCEPT !.filter = others]) \/ FixFilter(line, e) = ignore_error(line)
    BY <1>1, <1>3, <2>1, <2>2, <2>3, <2>4, Zenon DEF FixFilter
  <2>6. after = [line EXCEPT !.filter = others]
    BY <2>5, FixesByWriting
  <2>7. after.filter = others
    BY <2>6 DEF BodyLines
  <2>8. PICK kept, g : RemovedTo(Text, filter, none, removed, kept, g)
    BY RemoveFieldsKeeps, Zenon
  <2>9. /\ others = IF kept = << >> THEN none ELSE kept
        /\ \A k \in 1..Len(kept) : g[k] \in 1..Len(filter) /\ g[k] \notin removed /\ kept[k] = filter[g[k]]
    BY <2>4, <2>8 DEF RemovedTo, KeptBy
  <2>10. ~Contains(kept, zero)
    BY <2>3, <2>9 DEF Contains, IndexesOf
  <2>11. ~Contains(none, zero)
    <3>1. zero # dot
      BY <2>1
    <3> QED
      BY <2>2, <3>1, OneThrown
  <2> QED
    BY <1>3, <2>1, <2>7, <2>9, <2>10, <2>11
<1> QED
  BY <1>2, <1>3

(* FORMAT. *)
LEMMA FormatNotAgain ==
  ASSUME NEW line \in BodyLines, NEW e, NEW after, FixesIt(FixFormat(line, e), after)
  PROVE  ~HasDuplicates(after.format)
<1>1. PICK format : format = FlattenSeq(OptionsOf(line, line.format))
  OBVIOUS
<1>2. PICK samples : samples = FixedSamples(line)
  OBVIOUS
<1>3. PICK new : new = [line EXCEPT !.format = format, !.samples = samples]
  OBVIOUS
<1>4. FixFormat(line, e) \in {{Ends("throws")}, Write(new), ignore_error(line)}
  BY <1>1, <1>2, <1>3, FormatPairs, Zenon DEF FixFormat
<1>5. after = new
  BY <1>4, FixesByWriting
<1>6. after.format = format
  BY <1>3, <1>5 DEF BodyLines
<1> QED
  BY <1>1, <1>6, NoFormatDuplicatesLeft

(* A column of INFO without the fields of a key. *)
KeyTaken(fields, key, removed, info) ==
  /\ fields \in Seq(InfoFields) /\ info = remove_fields(fields, <<Dot>>, removed)
  /\ \A i \in 1..Len(fields) : fields[i].key = key => i \in removed

(* The key is gone, unless it is that of the empty column. *)
LEMMA KeyRemoved ==
  ASSUME NEW fields, NEW key, NEW removed, NEW info, KeyTaken(fields, key, removed, info)
  PROVE  \A i \in 1..Len(info) : info[i].key # key \/ info[i].key = "."
<1> /\ fields \in Seq(InfoFields) /\ info = remove_fields(fields, <<Dot>>, removed)
    /\ \A i \in 1..Len(fields) : fields[i].key = key => i \in removed
  BY DEF KeyTaken
<1> SUFFICES ASSUME NEW i \in 1..Len(info) PROVE info[i].key # key \/ info[i].key = "."
  OBVIOUS
<1>1. PICK none : none = <<Dot>>
  OBVIOUS
<1>2. PICK kept, g : RemovedTo(InfoFields, fields, none, removed, kept, g)
  BY RemoveFieldsKeeps, Zenon
<1>3. /\ info = IF kept = << >> THEN none ELSE kept
      /\ \A k \in 1..Len(kept) : g[k] \in 1..Len(fields) /\ g[k] \notin removed /\ kept[k] = fields[g[k]]
  BY <1>1, <1>2 DEF RemovedTo, KeptBy
<1>4. CASE info = kept
  BY <1>3, <1>4
<1>5. CASE info = none
  <2>1. info[i] = Dot
    BY <1>1, <1>5
  <2>2. Dot.key = "."
    BY DEF Dot, Flag
  <2> QED
    BY <2>1, <2>2
<1> QED
  BY <1>3, <1>4, <1>5

(* A column of INFO with the fields of a key replaced. *)
LEMMA KeyReplaced ==
  ASSUME NEW fields \in Seq(InfoFields), NEW key, NEW value,
         NEW info, info = replace_fields(fields, key, value), NEW i \in 1..Len(info), info[i].key = key
  PROVE  InfoValue(info[i]) = value
<1>1. PICK n \in Nat : n = Len(fields)
  OBVIOUS
<1>2. info = [k \in 1..n |-> IF fields[k].key = key THEN Field(key, value) ELSE fields[k]]
  BY <1>1 DEF replace_fields
<1>3. Len(info) = n /\ info[i] = IF fields[i].key = key THEN Field(key, value) ELSE fields[i]
  BY <1>1, <1>2
<1>4. info[i] = Field(key, value)
  BY <1>3
<1>5. Field(key, value).parts = <<value>>
  BY DEF Field
<1>6. info[i].parts = <<value>>
  BY <1>4, <1>5
<1> QED
  BY <1>6 DEF InfoValue

(* The fields of INFO, as they are split. *)
LEMMA SplitTyped ==
  ASSUME NEW info \in Seq(InfoFields)
  PROVE  string_split(info) \in Seq(InfoFields)
<1>1. info # << >> => Front(info) \in Seq(InfoFields)
  BY DEF Front
<1> QED
  BY <1>1 DEF string_split

(* The repeated keys of INFO. *)
LEMMA InfoKeysNotAgain ==
  ASSUME NEW line \in BodyLines, NEW after, FixesIt(FixDuplicateInfo(line), after)
  PROVE  ~HasDuplicates(KeysOf(after.info))
<1>1. PICK o \in FixDuplicateInfo(line) : o.ends = "no" /\ o.written = <<after>>
  BY DEF FixesIt
<1>2. Ends("crashes").ends = "crashes"
  BY DEF Ends
<1>3. PICK past \in ReadPastEnd(line.info) :
        o = Outcome(<<[line EXCEPT !.info = remove_duplicate_key_value_pairs(past)]>>, 0)
  BY <1>1, <1>2, Zenon DEF FixDuplicateInfo
<1>4. PICK x : x = remove_duplicate_key_value_pairs(past)
  OBVIOUS
<1>5. PICK new : new = [line EXCEPT !.info = x]
  OBVIOUS
<1>6. o = Outcome(<<new>>, 0)
  BY <1>3, <1>4, <1>5
<1>7. Writes(Write(new), after)
  BY <1>1, <1>6, Zenon DEF Writes, Write
<1>8. after = new
  BY <1>7, WritesOne, Zenon
<1>9. after.info = x
  BY <1>5, <1>8 DEF BodyLines
<1>10. past \in Seq(InfoFields)
  BY ColumnTypes, PastEndTyped
<1> QED
  BY <1>4, <1>9, <1>10, NoInfoDuplicatesLeft

(* END and SVLEN are what they should be once they are replaced. *)
LEMMA ValueNotAgain ==
  ASSUME NEW line \in BodyLines, NEW e, EndWrong(line, e) \/ SvlenWrong(line, e),
         NEW info, NEW after, after = [line EXCEPT !.info = info],
         \A i \in 1..Len(info) : info[i].key = e.field => InfoValue(info[i]) = e.expected_value,
         NEW f, f.field = e.field
  PROVE  ~EndWrong(after, f) /\ ~SvlenWrong(after, f)
<1>1. /\ after.info = info /\ after.position = line.position
      /\ after.reference = line.reference /\ after.alternates = line.alternates
  BY DEF BodyLines
<1>2. ExpectedEnd(after) = ExpectedEnd(line) /\ \A a : SizeAt(after, a) = SizeAt(line, a)
  BY <1>1 DEF ExpectedEnd, SizeAt
<1>3. EndWrong(line, e) => e.field = "END" /\ e.expected_value = <<ExpectedEnd(line)>>
  BY DEF EndWrong
<1>4. SvlenWrong(line, e) =>
        e.field = "SVLEN" /\ \E a \in 1..Len(line.alternates) : e.expected_value = <<SizeAt(line, a)>>
  BY Zenon DEF SvlenWrong, SvlenWrongAt
<1>5. EndWrong(after, f) => FALSE
  <2> SUFFICES ASSUME EndWrong(after, f) PROVE FALSE
    OBVIOUS
  <2>1. f.field = "END"
    BY DEF EndWrong
  <2>2. PICK i \in 1..Len(info) : info[i].key = "END" /\ InfoValue(info[i]) # <<ExpectedEnd(line)>>
    BY <1>1, <1>2 DEF EndWrong
  <2>3. e.expected_value = <<ExpectedEnd(line)>>
    BY <1>3, <1>4, <2>1
  <2> QED
    BY <2>1, <2>2, <2>3
<1>6. SvlenWrong(after, f) => FALSE
  <2> SUFFICES ASSUME SvlenWrong(after, f) PROVE FALSE
    OBVIOUS
  <2>1. PICK i \in 1..Len(info) : info[i].key = "SVLEN" /\ SvlenWrongAt(after, InfoValue(info[i]), f)
    BY <1>1 DEF SvlenWrong
  <2>2. f.field = "SVLEN" /\ Len(InfoValue(info[i])) = Len(line.alternates)
    BY <1>1, <2>1 DEF SvlenWrongAt
  <2>3. PICK a \in 1..Len(line.alternates) : InfoValue(info[i])[a] # SizeAt(line, a)
    BY <1>1, <1>2, <2>1 DEF SvlenWrongAt
  <2>4. PICK b \in 1..Len(line.alternates) : e.expected_value = <<SizeAt(line, b)>>
    BY <1>3, <1>4, <2>2
  <2>5. InfoValue(info[i]) = <<SizeAt(line, b)>>
    BY <2>1, <2>2, <2>4
  <2>6. PICK value, x : value = InfoValue(info[i]) /\ x = SizeAt(line, b)
    OBVIOUS
  <2>7. value = <<x>>
    BY <2>5, <2>6
  <2>8. Len(value) = 1 /\ value[1] = x
    BY <2>7
  <2>9. Len(line.alternates) = 1
    BY <2>2, <2>6, <2>8
  <2>10. a = 1 /\ b = 1
    BY <2>9
  <2> QED
    BY <2>3, <2>6, <2>8, <2>10
<1> QED
  BY <1>5, <1>6

(* INFO, but for what its grammar refuses. *)
LEMMA InfoNotAgain ==
  ASSUME NEW line \in BodyLines, NEW e, e.error_fix \in ErrorFixes, InfoWrong(line, e),
         NEW after, FixesIt(FixInfo(line, e), after), NEW f, SameError(f, e), InfoWrong(after, f)
  PROVE  e.error_fix = "IRRECOVERABLE_VALUE" /\ e.field = ""
<1>1. f.error_fix = e.error_fix /\ f.field = e.field
  BY DEF SameError
<1>2. PICK info \in Seq(InfoFields) : info = line.info
  BY ColumnTypes
<1>3. PICK fields \in Seq(InfoFields) : fields = string_split(info)
  BY SplitTyped
<1>4. CASE e.error_fix = "DUPLICATE_VALUES"
  <2>1. FixInfo(line, e) = FixDuplicateInfo(line)
    BY <1>4 DEF FixInfo
  <2>2. HasDuplicates(KeysOf(after.info))
    BY <1>1, <1>4 DEF InfoWrong
  <2> QED
    BY <2>1, <2>2, InfoKeysNotAgain
<1>5. CASE e.error_fix = "RECOVERABLE_VALUE"
  <2>1. PICK replaced : replaced = replace_fields(fields, e.field, e.expected_value)
    OBVIOUS
  <2>2. FixInfo(line, e) = {Ends("crashes")} \/ FixInfo(line, e) = Write([line EXCEPT !.info = replaced])
    BY <1>2, <1>3, <1>5, <2>1 DEF FixInfo
  <2>3. after = [line EXCEPT !.info = replaced]
    BY <2>2, FixesByWriting
  <2>4. \A i \in 1..Len(replaced) : replaced[i].key = e.field => InfoValue(replaced[i]) = e.expected_value
    BY <2>1, KeyReplaced
  <2>5. EndWrong(line, e) \/ SvlenWrong(line, e)
    BY <1>5 DEF InfoWrong
  <2>6. EndWrong(after, f) \/ SvlenWrong(after, f)
    BY <1>1, <1>5 DEF InfoWrong
  <2> QED
    BY <1>1, <2>3, <2>4, <2>5, <2>6, ValueNotAgain
<1>6. CASE e.error_fix = "IRRECOVERABLE_VALUE" /\ e.field # ""
  <2>1. PICK ofField : ofField = {i \in 1..Len(fields) : fields[i].key = e.field /\ e.field # ""}
    OBVIOUS
  <2>2. PICK removed : removed = remove_fields(fields, <<Dot>>, ofField)
    OBVIOUS
  <2>3. FixInfo(line, e) = {Ends("crashes")} \/ FixInfo(line, e) = Write([line EXCEPT !.info = removed])
    BY <1>2, <1>3, <1>6, <2>1, <2>2 DEF FixInfo
  <2>4. after = [line EXCEPT !.info = removed]
    BY <2>3, FixesByWriting
  <2>5. after.info = removed
    BY <2>4 DEF BodyLines
  <2>6. f.field # "." /\ \E i \in 1..Len(after.info) : after.info[i].key = f.field
    BY <1>1, <1>6 DEF InfoWrong
  <2>7. PICK i \in 1..Len(removed) : removed[i].key = e.field /\ e.field # "."
    BY <1>1, <2>5, <2>6
  <2>8. \A k \in 1..Len(fields) : fields[k].key = e.field => k \in ofField
    BY <1>6, <2>1
  <2>9. removed[i].key # e.field \/ removed[i].key = "."
    <3>1. KeyTaken(fields, e.field, ofField, removed)
      BY <2>2, <2>8, Zenon DEF KeyTaken
    <3>2. \A k \in 1..Len(removed) : removed[k].key # e.field \/ removed[k].key = "."
      BY ONLY <3>1, KeyRemoved
    <3> QED
      BY <3>2
  <2> QED
    BY <2>7, <2>9
<1> QED
  BY <1>4, <1>5, <1>6 DEF ErrorFixes

(* A genotype that was replaced is missing. *)
GenotypeMissing(before, after, repeat) ==
  /\ repeat \in Nat /\ before \in Seq(Values) /\ before # << >>
  /\ after = [before EXCEPT ![1] = [k \in 1..repeat |-> Missing]]

(* No check of a genotype finds it wrong. *)
LEMMA MissingIsRight ==
  ASSUME NEW before, NEW after, NEW repeat, GenotypeMissing(before, after, repeat)
  PROVE  ~GenotypeWrongIn(after)
<1> USE DEF GenotypeMissing
<1>1. PICK missing : missing = [k \in 1..repeat |-> Missing]
  OBVIOUS
<1>2. PICK T : T = Values
  OBVIOUS
<1>3. before \in Seq(T) /\ Len(before) \in Nat /\ Len(before) # 0
  BY <1>2
<1>4. after = [before EXCEPT ![1] = missing]
  BY <1>1
<1>5. after # << >> /\ after[1] = missing
  BY <1>3, <1>4
<1>6. Len(missing) = repeat /\ \A i \in 1..repeat : missing[i] = Missing
  BY <1>1
<1> QED
  BY <1>5, <1>6, Zenon DEF GenotypeWrongIn

(* A fix of the genotypes. *)
LEMMA GenotypeNotAgain ==
  ASSUME NEW line \in BodyLines, NEW e, e.field_cardinality \in Int, NEW after,
         FixesIt(fix_format_gt(line, e), after), NEW s \in 1..Len(after.samples)
  PROVE  ~GenotypeWrongIn(after.samples[s])
<1>1. PICK repeat : repeat = IF e.field_cardinality <= -1 THEN 1 ELSE e.field_cardinality
  OBVIOUS
<1>2. repeat \in Nat
  BY <1>1
<1>3. PICK missing : missing = [k \in 1..repeat |-> Missing]
  OBVIOUS
<1>4. PICK samples : samples = [x \in 1..Len(line.samples) |-> [line.samples[x] EXCEPT ![1] = missing]]
  OBVIOUS
<1>5. PICK new : new = [line EXCEPT !.samples = samples]
  OBVIOUS
<1>6. \/ fix_format_gt(line, e) \in {{Ends("crashes")}, ignore_error(line)}
      \/ ~Contains(line.samples, << >>) /\ fix_format_gt(line, e) = Write(new)
  BY <1>1, <1>3, <1>4, <1>5 DEF fix_format_gt
<1>7. after = new /\ ~Contains(line.samples, << >>)
  BY <1>6, FixesByWriting
<1>8. after.samples = samples
  BY <1>5, <1>7 DEF BodyLines
<1>9. PICK n \in Nat : n = Len(line.samples)
  BY SamplesOf
<1>10. Len(samples) = n
  BY <1>4, <1>9
<1>11. s \in 1..n /\ samples[s] = [line.samples[s] EXCEPT ![1] = missing]
  BY <1>4, <1>8, <1>9, <1>10
<1>12. line.samples[s] \in Seq(Values) /\ line.samples[s] # << >>
  BY <1>7, <1>9, <1>11, SamplesOf DEF Contains
<1>13. GenotypeMissing(line.samples[s], samples[s], repeat)
  BY <1>2, <1>3, <1>11, <1>12, Zenon DEF GenotypeMissing
<1> QED
  BY <1>8, <1>13, MissingIsRight, Zenon

(* A fix of another key of the samples takes it out of FORMAT. *)
LEMMA FieldNotAgain ==
  ASSUME NEW line \in BodyLines, NEW e, NEW after, FixesIt(remove_format(line, e), after), e.field # ""
  PROVE  e.field \notin ToSet(after.format)
<1> DEFINE indexes == IndexesOf(line.format, e.field)
           field_index == Max(indexes)
           n     == Len(line.samples)
           short == {s \in 1..n : Len(line.samples[s]) < field_index}
           stop  == IF short = {} THEN n + 1 ELSE Min(short)
           fixed == [s \in 1..n |-> IF s < stop THEN RemoveAt(line.samples[s], field_index)
                                                 ELSE line.samples[s]]
           format == remove_fields(line.format, <<"">>, indexes)
           samples == IF stop = n THEN Append(fixed, << >>) ELSE fixed
           ignored == IF short = {} THEN 0 ELSE 1
<1>1. remove_format(line, e)
        = IF indexes = {} THEN ignore_error(line)
          ELSE {Outcome(<<[line EXCEPT !.format = format, !.samples = samples]>>, ignored)}
  BY Zenon DEF remove_format
<1>2. PICK cols, smps, count, idx : cols = format /\ smps = samples /\ count = ignored /\ idx = indexes
  OBVIOUS
<1>3. PICK new : new = [line EXCEPT !.format = cols, !.samples = smps]
  OBVIOUS
<1>4. FixesIt({Outcome(<<new>>, count)}, after)
  <2> HIDE DEF indexes, format, samples, ignored
  <2>1. remove_format(line, e) = IF idx = {} THEN ignore_error(line) ELSE {Outcome(<<new>>, count)}
    BY <1>1, <1>2, <1>3, Zenon
  <2> QED
    BY <2>1, FixesByWriting
<1> HIDE DEF format, samples, ignored
<1>5. after = new
  <2>1. Writes({Outcome(<<new>>, count)}, after)
    BY <1>4, Zenon DEF FixesIt, Writes
  <2> QED
    BY <2>1, WritesOutcome
<1>6. after.format = cols
  BY <1>3, <1>5 DEF BodyLines
<1>7. PICK T, empty, none : T = Keys /\ empty = "" /\ none = <<empty>>
  OBVIOUS
<1>8. PICK before \in Seq(T) : before = line.format
  BY <1>7, ColumnTypes
<1>9. cols = remove_fields(before, none, idx)
  BY <1>2, <1>7, <1>8, Zenon DEF format
<1>10. idx = {i \in 1..Len(before) : before[i] = e.field}
  BY <1>2, <1>8 DEF IndexesOf
<1>11. PICK left : left = LeftOf(before, idx)
  OBVIOUS
<1>12. e.field \notin left
  BY <1>10, <1>11 DEF LeftOf
<1>13. IF left = {} THEN cols = none ELSE ToSet(cols) = left
  BY <1>9, <1>11, RemovedSet, Zenon
<1>14. ToSet(none) = {empty}
  <2>1. none = <<empty>>
    BY <1>7
  <2> QED
    BY ONLY <2>1 DEF ToSet
<1>15. e.field # empty
  BY <1>7
<1>16. ToSet(after.format) = {empty} \/ ToSet(after.format) = left
  BY <1>6, <1>13, <1>14, Zenon
<1> QED
  BY <1>12, <1>15, <1>16, Zenon

(***************************************************************************)
(* The line that a fix writes, and does not count as ignored, has no error *)
(* like the one it was fixed for, unless that is one of the grammar of     *)
(* INFO.                                                                   *)
(***************************************************************************)
LEMMA NotAgain ==
  ASSUME NEW line \in BodyLines, NEW e \in BodyErrors, Concerns(line, e), FixesOne(line, e),
         NEW after, FixesIt(fix(line, e), after), NEW f, SameError(f, e), Concerns(after, f)
  PROVE  e.type = "InfoBodyError" /\ e.error_fix = "IRRECOVERABLE_VALUE" /\ e.field = ""
<1>1. f.type = e.type /\ f.error_fix = e.error_fix /\ f.field = e.field
  BY DEF SameError
<1>2. /\ e.type \notin {"MetaSectionError", "DuplicationError"}
      /\ e.error_fix \in ErrorFixes /\ e.field_cardinality \in Int
  BY DEF BodyErrors, Errors
<1>3. CASE e.type = "IdBodyError"
  <2>1. FixesIt(FixId(line, e), after)
    BY <1>3 DEF fix
  <2>2. HasDuplicates(after.ids)
    BY <1>1, <1>3 DEF Concerns
  <2> QED
    BY <2>1, <2>2, IdNotAgain
<1>4. CASE e.type = "FilterBodyError"
  <2>1. FixesIt(FixFilter(line, e), after)
    BY <1>4 DEF fix
  <2>2. e.error_fix = "DUPLICATE_VALUES" => e.field = ""
    BY <1>4 DEF Concerns
  <2>3. IF e.error_fix = "DUPLICATE_VALUES" THEN HasDuplicates(after.filter)
                                            ELSE Contains(after.filter, "0")
    BY <1>1, <1>4 DEF Concerns
  <2> QED
    BY <2>1, <2>2, <2>3, FilterNotAgain
<1>5. CASE e.type = "InfoBodyError"
  <2>1. FixesIt(FixInfo(line, e), after)
    BY <1>5 DEF fix
  <2>2. InfoWrong(line, e) /\ InfoWrong(after, f)
    BY <1>1, <1>5 DEF Concerns
  <2> QED
    BY <1>2, <1>5, <2>1, <2>2, InfoNotAgain
<1>6. CASE e.type = "FormatBodyError"
  <2>1. FixesIt(FixFormat(line, e), after)
    BY <1>6 DEF fix
  <2>2. e.error_fix = "DUPLICATE_VALUES"
    <3>1. e.error_fix # "DUPLICATE_VALUES" => FixFormat(line, e) = ignore_error(line)
      BY DEF FixFormat
    <3> QED
      BY <2>1, <3>1, FixesByWriting
  <2>3. HasDuplicates(after.format)
    BY <1>1, <1>6, <2>2 DEF Concerns
  <2> QED
    BY <2>1, <2>3, FormatNotAgain
<1>7. CASE e.type = "SamplesFieldBodyError"
  <2>1. fix(line, e) = FixSamplesField(line, e)
    BY <1>7 DEF fix
  <2>2. line.format = << >> \/ line.samples # << >>
    BY <1>7 DEF FixesOne
  <2>3. \/ fix(line, e) = ignore_error(line)
        \/ e.field = "GT" /\ fix(line, e) = fix_format_gt(line, e)
        \/ e.field # "GT" /\ fix(line, e) = remove_format(line, e)
    BY <2>1, <2>2, Zenon DEF FixSamplesField
  <2>4. FieldWrong(after, f)
    BY <1>1, <1>7 DEF Concerns
  <2>5. CASE fix(line, e) = ignore_error(line)
    BY <2>5, FixesByWriting
  <2>6. CASE e.field = "GT" /\ fix(line, e) = fix_format_gt(line, e)
    <3>1. \E s \in 1..Len(after.samples) : GenotypeWrongIn(after.samples[s])
      BY <1>1, <2>4, <2>6 DEF FieldWrong
    <3> QED
      BY <1>2, <2>6, <3>1, GenotypeNotAgain
  <2>7. CASE e.field # "GT" /\ fix(line, e) = remove_format(line, e)
    <3>1. e.field # "" /\ e.field \in ToSet(after.format)
      BY <1>1, <2>4, <2>7 DEF FieldWrong
    <3> QED
      BY <2>7, <3>1, FieldNotAgain
  <2> QED
    BY <2>3, <2>5, <2>6, <2>7
<1>8. CASE e.type \notin {"IdBodyError", "FilterBodyError", "InfoBodyError", "FormatBodyError",
                         "SamplesFieldBodyError"}
  <2>1. fix(line, e) = ignore_error(line)
    BY <1>2, <1>8 DEF fix
  <2> QED
    BY <2>1, FixesByWriting
<1> QED
  BY <1>3, <1>4, <1>5, <1>6, <1>7, <1>8

(* The same for a meta entry. *)
LEMMA MetaNotAgain ==
  ASSUME NEW v, NEW line \in MetaLines, NEW e, e.type = "MetaSectionError", MetaError(v, line) = <<e>>,
         NEW after, FixesIt(fix(line, e), after), NEW f, SameError(f, e), MetaError(v, after) = <<f>>
  PROVE  FALSE
<1>1. f.error_fix = e.error_fix /\ f.field = e.field
  BY DEF SameError
<1>2. MetaWrong(v, line, e) /\ MetaWrong(v, after, f)
  BY MetaThrows
<1>3. FixesIt(FixMeta(line, e), after)
  BY DEF fix
<1>4. e.error_fix = "RECOVERABLE_VALUE"
  <2>1. e.error_fix = "IRRECOVERABLE_VALUE" => FixMeta(line, e) = ignore_error(line)
    BY DEF FixMeta
  <2> QED
    BY <1>2, <1>3, <2>1, FixesByWriting DEF MetaWrong
<1>5. CASE e.field = "Number"
  <2>1. PICK number : number = e.expected_value[1]
    OBVIOUS
  <2>2. after = [line EXCEPT !.Number = number]
    <3>1. FixMeta(line, e) = Write([line EXCEPT !.Number = number])
      BY <1>4, <1>5, <2>1 DEF FixMeta
    <3> QED
      BY <1>3, <3>1, FixesByWriting
  <2>3. after.Number = number /\ after.id = line.id /\ after.column = line.column
    BY <2>2 DEF MetaLines
  <2>4. MetaTags(v, after) = MetaTags(v, line)
    BY <2>3 DEF MetaTags
  <2>5. number = MetaTags(v, line)[line.id].Number
    BY <1>2, <1>4, <1>5, <2>1 DEF MetaWrong
  <2>6. NumberWrong(v, after)
    BY <1>1, <1>2, <1>4, <1>5 DEF MetaWrong
  <2> QED
    BY <2>3, <2>4, <2>5, <2>6 DEF NumberWrong
<1>6. CASE e.field = "Type"
  <2>1. PICK type : type = e.expected_type
    OBVIOUS
  <2>2. after = [line EXCEPT !.Type = type]
    <3>1. FixMeta(line, e) = Write([line EXCEPT !.Type = type])
      BY <1>4, <1>6, <2>1 DEF FixMeta
    <3> QED
      BY <1>3, <3>1, FixesByWriting
  <2>3. after.Type = type /\ after.id = line.id /\ after.column = line.column
    BY <2>2 DEF MetaLines
  <2>4. MetaTags(v, after) = MetaTags(v, line)
    BY <2>3 DEF MetaTags
  <2>5. type = MetaTags(v, line)[line.id].Type
    BY <1>2, <1>4, <1>6, <2>1 DEF MetaWrong
  <2>6. TypeWrong(v, after)
    BY <1>1, <1>2, <1>4, <1>6 DEF MetaWrong
  <2> QED
    BY <2>3, <2>4, <2>5, <2>6 DEF TypeWrong
<1> QED
  BY <1>2, <1>4, <1>5, <1>6 DEF MetaWrong

(* A line of the output whose error was ignored, and those lines. *)
IsIgnored(in, er, x) ==
  /\ \E i \in 1..Len(er) : er[i].line = x.at
  /\ \A i \in 1..Len(er) : er[i].line = x.at => ~FixesIt(fix(in[x.at], er[i].error), x.line)

IgnoredOf(in, er, out) == {k \in 1..Len(out) : IsIgnored(in, er, out[k])}

CountInv == Cardinality(IgnoredOf(input, errors, output)) <= ignored_errors

(* They are finitely many. *)
LEMMA IgnoredFinite ==
  ASSUME NEW in, NEW er, NEW out, Len(out) \in Nat
  PROVE  /\ IsFiniteSet(IgnoredOf(in, er, out)) /\ Cardinality(IgnoredOf(in, er, out)) \in Nat
         /\ \A S : S \subseteq IgnoredOf(in, er, out) =>
              Cardinality(S) <= Cardinality(IgnoredOf(in, er, out))
<1>1. IgnoredOf(in, er, out) \subseteq 1..Len(out)
  BY DEF IgnoredOf
<1>2. IsFiniteSet(1..Len(out))
  BY FS_Interval
<1>3. IsFiniteSet(IgnoredOf(in, er, out))
  BY <1>1, <1>2, FS_Subset
<1> QED
  BY <1>3, FS_Subset, FS_CardinalityType

(* A line more in the output is one more of them, or none. *)
LEMMA IgnoredGrows ==
  ASSUME NEW in, NEW er, NEW T, NEW out \in Seq(T), NEW x \in T
  PROVE  /\ ~IsIgnored(in, er, x) => IgnoredOf(in, er, Append(out, x)) = IgnoredOf(in, er, out)
         /\ Cardinality(IgnoredOf(in, er, Append(out, x))) <= Cardinality(IgnoredOf(in, er, out)) + 1
<1>1. PICK n \in Nat : n = Len(out)
  OBVIOUS
<1>2. PICK more : more = Append(out, x)
  OBVIOUS
<1>3. Len(more) = n + 1 /\ more[n + 1] = x /\ \A k \in 1..n : more[k] = out[k]
  BY <1>1, <1>2, AppendProperties
<1>4. PICK S, U : S = IgnoredOf(in, er, out) /\ U = IgnoredOf(in, er, more)
  OBVIOUS
<1>5. S = {k \in 1..n : IsIgnored(in, er, out[k])}
  BY <1>1, <1>4 DEF IgnoredOf
<1>6. U = {k \in 1..(n + 1) : IsIgnored(in, er, more[k])}
  BY <1>3, <1>4 DEF IgnoredOf
<1>7. \A k : k \in 1..(n + 1) <=> k \in 1..n \/ k = n + 1
  BY <1>1
<1>8. U \subseteq S \cup {n + 1} /\ S \subseteq U
  BY <1>3, <1>5, <1>6, <1>7
<1>9. ~IsIgnored(in, er, x) => n + 1 \notin U
  BY <1>3, <1>6
<1>10. IsFiniteSet(S) /\ Cardinality(S) \in Nat /\ IsFiniteSet(U) /\ Cardinality(U) \in Nat
  BY <1>1, <1>3, <1>4, IgnoredFinite
<1>11. PICK W : W = S \cup {n + 1}
  OBVIOUS
<1>12. IsFiniteSet(W) /\ Cardinality(W) <= Cardinality(S) + 1
  <2>1. IsFiniteSet(W) /\ Cardinality(W) = IF n + 1 \in S THEN Cardinality(S) ELSE Cardinality(S) + 1
    BY <1>10, <1>11, FS_AddElement
  <2> QED
    BY <1>10, <2>1
<1>13. Cardinality(U) <= Cardinality(W) /\ Cardinality(W) \in Nat
  BY <1>8, <1>11, <1>12, FS_Subset, FS_CardinalityType
<1>14. Cardinality(U) <= Cardinality(S) + 1
  BY <1>10, <1>12, <1>13
<1>15. ~IsIgnored(in, er, x) => U = S
  BY <1>8, <1>9
<1> QED
  BY <1>2, <1>4, <1>14, <1>15

(* Advance and CopyLine write lines that have no error. *)
LEMMA CountAdvance ==
  ASSUME RepairInv, FixesInv, CountInv, Advance \/ CopyLine
  PROVE  CountInv'
<1>1. PICK cl : cl = current_line
  OBVIOUS
<1>2. PICK x : x = From(cl + 1, input[cl + 1])
  OBVIOUS
<1>3. /\ UNCHANGED <<input, errors, ignored_errors>>
      /\ cl < Len(input) /\ cl \in 0..Len(input) /\ Len(input) \in Nat /\ input \in Seq(Lines)
      /\ output \in Seq(OutputItems)
  BY <1>1 DEF Advance, CopyLine, RepairInv, PlaceInv, ReadInv, FixesInv
<1>4. \/ output' = output
      \/ output' = Append(output, x) /\ ~Has(errors, cl + 1)
  <2>1. CASE Advance
    BY <1>1, <1>2, <2>1, AdvanceReads DEF Advance, line_index
  <2>2. CASE CopyLine
    <3>1. /\ errors_fixed = Len(errors) /\ IsReport(errors)
          /\ \A k \in 1..Len(errors) : errors[k].line <= cl
      BY <1>1, <2>2, ReportOfInput DEF CopyLine, RepairInv, PlaceInv, ReadInv
    <3>2. ~Has(errors, cl + 1)
      BY <1>3, <3>1 DEF Has, IsReport
    <3> QED
      BY <1>1, <1>2, <2>2, <3>2 DEF CopyLine
  <2> QED
    BY <2>1, <2>2
<1>5. CASE output' = output
  BY <1>3, <1>5 DEF CountInv
<1>6. CASE output' = Append(output, x) /\ ~Has(errors, cl + 1)
  <2>1. cl + 1 \in 1..Len(input)
    BY <1>3
  <2>2. input[cl + 1] \in Lines
    BY <1>3, <2>1
  <2>3. x \in OutputItems /\ x.at = cl + 1
    BY <1>2, <2>1, <2>2 DEF OutputItems, From
  <2>4. ~IsIgnored(input, errors, x)
    BY <1>6, <2>3 DEF Has, IsIgnored
  <2>5. IgnoredOf(input, errors, output') = IgnoredOf(input, errors, output)
    BY <1>3, <1>6, <2>3, <2>4, IgnoredGrows
  <2> QED
    BY <1>3, <2>5, Zenon DEF CountInv
<1> QED
  BY <1>4, <1>5, <1>6

(* FixError counts a line whose error it ignores. *)
LEMMA CountFix ==
  ASSUME RepairInv, FixesInv, CountInv, FixError
  PROVE  CountInv'
<1>1. PICK er, ef, cl, in : er = errors /\ ef = errors_fixed /\ cl = current_line /\ in = input
  OBVIOUS
<1>2. PICK e : e = er[ef + 1]
  OBVIOUS
<1>3. PICK o \in fix(in[cl], e.error) :
        /\ output' = output \o [k \in 1..Len(o.written) |-> From(cl, o.written[k])]
        /\ ignored_errors' = ignored_errors + o.ignored
  BY <1>1, <1>2 DEF FixError
<1>4. input' = in /\ errors' = er
  BY <1>1 DEF FixError
<1>5. ef + 1 \in 1..Len(er) /\ e.line = cl /\ cl \in 1..Len(in)
  BY <1>1, <1>2, FixReads
<1>6. /\ in \in Seq(Lines) /\ er \in Seq(ReportItems(version, in)) /\ output \in Seq(OutputItems)
      /\ ignored_errors \in Nat
  BY <1>1 DEF FixesInv
<1>7. e \in ReportItems(version, in)
  BY <1>2, <1>5, <1>6
<1>8. Cardinality(IgnoredOf(in, er, output)) <= ignored_errors /\ Len(output) \in Nat
  BY <1>1, <1>6 DEF CountInv
<1>9. SUFFICES Cardinality(IgnoredOf(in, er, output')) <= ignored_errors'
  BY <1>4 DEF CountInv
<1>10. ASSUME o.written = << >>, o.ignored = 0
       PROVE  Cardinality(IgnoredOf(in, er, output')) <= ignored_errors'
  <2>1. output' = output /\ ignored_errors' = ignored_errors
    BY <1>3, <1>6, <1>10
  <2> QED
    BY <1>8, <2>1
<1>11. CASE IsDuplication(e)
  <2>1. o = Outcome(<< >>, 0)
    BY <1>3, <1>11 DEF IsDuplication, fix
  <2>2. o.written = << >> /\ o.ignored = 0
    BY <2>1 DEF Outcome
  <2> QED
    BY <1>10, <2>2
<1>12. CASE ~IsDuplication(e)
  <2>1. GoodFix(o)
    <3>1. e.line <= Len(in)
      BY <1>5, <1>6
    <3> QED
      BY <1>3, <1>5, <1>6, <1>7, <1>12, <3>1, ItemTyped
  <2>2. CASE o.ends # "no"
    <3>1. o.written = << >> /\ o.ignored = 0
      BY <2>1, <2>2 DEF GoodFix
    <3> QED
      BY <1>10, <3>1
  <2>3. CASE o.ends = "no"
    <3>1. o.ignored \in 0..1 /\ \E new \in Lines : o.written = <<new>>
      BY <2>1, <2>3 DEF GoodFix
    <3>2. PICK new \in Lines : o.written = <<new>>
      BY <3>1
    <3>3. PICK x : x = From(cl, new)
      OBVIOUS
    <3>4. x \in OutputItems /\ x.at = cl /\ x.line = new
      BY <1>1, <1>5, <3>3 DEF From, OutputItems
    <3>5. [k \in 1..Len(o.written) |-> From(cl, o.written[k])] = <<x>>
      <4>1. Len(o.written) = 1 /\ o.written[1] = new
        BY <3>2
      <4>2. \A k \in 1..1 : From(cl, o.written[k]) = x
        BY <3>3, <4>1
      <4>3. [k \in 1..Len(o.written) |-> From(cl, o.written[k])] = [k \in 1..1 |-> x]
        BY <4>1, <4>2, Zenon
      <4> QED
        BY <4>3
    <3>6. output' = Append(output, x)
      <4>1. output' = output \o <<x>>
        BY <1>3, <3>5
      <4>2. \A S : \A s \in Seq(S), y \in S : s \o <<y>> = Append(s, y)
        OBVIOUS
      <4> HIDE DEF OutputItems
      <4> QED
        BY <1>6, <3>4, <4>1, <4>2
    <3>7. IsIgnored(in, er, x) => o.ignored = 1
      <4>1. SUFFICES ASSUME IsIgnored(in, er, x), o.ignored = 0 PROVE FALSE
        BY <3>1
      <4>2. er[ef + 1].line = x.at
        BY <1>2, <1>5, <3>4
      <4>3. ~FixesIt(fix(in[x.at], er[ef + 1].error), x.line)
        BY <1>5, <4>1, <4>2 DEF IsIgnored
      <4>4. ~FixesIt(fix(in[cl], e.error), new)
        BY <1>2, <3>4, <4>3
      <4> QED
        BY <1>3, <2>3, <3>2, <4>1, <4>4 DEF FixesIt
    <3>8. PICK S, U : S = IgnoredOf(in, er, output) /\ U = IgnoredOf(in, er, output')
      OBVIOUS
    <3>9. (~IsIgnored(in, er, x) => U = S) /\ Cardinality(U) <= Cardinality(S) + 1
      BY <1>6, <3>4, <3>6, <3>8, IgnoredGrows
    <3>10. Cardinality(S) \in Nat /\ Cardinality(S) <= ignored_errors
      BY <1>8, <3>8, IgnoredFinite
    <3>11. Len(output') \in Nat
      BY <1>6, <3>4, <3>6, AppendProperties
    <3>12. Cardinality(U) \in Nat
      BY <3>8, <3>11, IgnoredFinite
    <3>13. CASE IsIgnored(in, er, x)
      BY <1>3, <1>6, <3>7, <3>8, <3>9, <3>10, <3>12, <3>13
    <3>14. CASE ~IsIgnored(in, er, x)
      <4>1. U = S
        BY <3>9, <3>14, Zenon
      <4>2. ignored_errors' >= ignored_errors /\ ignored_errors' \in Nat
        BY <1>3, <1>6, <3>1
      <4> QED
        BY <1>6, <3>8, <3>10, <4>1, <4>2
    <3> QED
      BY <3>13, <3>14
  <2> QED
    BY <2>2, <2>3
<1> QED
  BY <1>11, <1>12

(* Every file has a source of which the validator knows. *)
LEMMA SourceIsKnown ==
  ASSUME NEW v, NEW lines \in Seq(Lines)
  PROVE  KnownSource(SourceOf(v, lines))
<1>1. /\ SourceOf(v, lines).version = v /\ SourceOf(v, lines).meta_entries \in Seq(MetaLines)
      /\ \A i \in 1..Len(SourceOf(v, lines).meta_entries) :
           MetaError(v, SourceOf(v, lines).meta_entries[i]) = Nothing
  BY SourceTyped
<1> QED
  BY <1>1, Zenon DEF KnownSource

(* A fix keeps the kind of its line. *)
LEMMA FixKeepsKind ==
  ASSUME NEW line \in BodyLines \cup MetaLines, NEW e, e.type # "DuplicationError", FixesOne(line, e),
         NEW after, FixesIt(fix(line, e), after)
  PROVE  after.kind = line.kind
<1>1. PICK o \in fix(line, e) : o.ends = "no" /\ o.written = <<after>>
  BY DEF FixesIt
<1>2. IsOneLine(line, o)
  BY <1>1, FixIsOneLine, Zenon DEF FixesOne
<1>3. PICK new : o.written = <<new>> /\ SameVariants(line, new)
  BY <1>1, <1>2 DEF IsOneLine
<1>4. new = after
  BY <1>1, <1>3
<1>5. "kind" \in DOMAIN line
  BY DEF BodyLines, MetaLines
<1>6. new["kind"] = line["kind"]
  BY <1>3, <1>5 DEF SameVariants
<1> QED
  BY <1>4, <1>6

(***************************************************************************)
(* The error of a line that was fixed, and not ignored, is not the error   *)
(* of the line that was written, wherever that is and whatever the lines   *)
(* around it are now.                                                      *)
(***************************************************************************)
LEMMA NotFoundAgain ==
  ASSUME NEW v, NEW lines \in Seq(Lines), NEW at \in 1..Len(lines), NEW e, LineError(v, lines, at) = <<e>>,
         NEW new \in Seq(Lines), NEW k \in 1..Len(new), FixesIt(fix(lines[at], e), new[k]),
         NEW f, LineError(v, new, k) = <<f>>, SameError(f, e)
  PROVE  e.type = "InfoBodyError" /\ e.error_fix = "IRRECOVERABLE_VALUE" /\ e.field = ""
<1>1. FixesOne(lines[at], e)
  <2>0. LineError(v, lines, at) # << >>
    OBVIOUS
  <2>1. PICK x : LineError(v, lines, at) = <<x>> /\ FixesOne(lines[at], x)
    BY <2>0, LineErrorIsOne, Zenon
  <2>2. x = e
    BY <2>1
  <2> QED
    BY <2>1, <2>2
<1>2. \/ lines[at] \in MetaLines /\ e \in MetaErrors
      \/ lines[at] \in BodyLines /\ e \in BodyErrors
  BY LineErrorTyped
<1>3. PICK line, after : line = lines[at] /\ after = new[k]
  OBVIOUS
<1>4. e.type # "DuplicationError"
  BY <1>2 DEF MetaErrors, BodyErrors
<1>5. after.kind = line.kind
  <2>1. line \in BodyLines \cup MetaLines /\ FixesOne(line, e) /\ FixesIt(fix(line, e), after)
    BY <1>1, <1>2, <1>3
  <2> QED
    BY <1>4, <2>1, FixKeepsKind
<1>6. CASE line \in MetaLines /\ e \in MetaErrors
  <2>1. line.kind = "meta" /\ e.type = "MetaSectionError"
    BY <1>6 DEF MetaLines, MetaErrors
  <2>2. MetaError(v, line) = <<e>>
    BY <1>3, <2>1 DEF LineError
  <2>3. MetaError(v, after) = <<f>>
    BY <1>3, <1>5, <2>1 DEF LineError
  <2>4. FixesIt(fix(line, e), after)
    BY <1>3
  <2> QED
    BY <1>6, <2>1, <2>2, <2>3, <2>4, MetaNotAgain
<1>7. CASE line \in BodyLines /\ e \in BodyErrors
  <2>1. line.kind = "body"
    BY <1>7 DEF BodyLines
  <2>2. BodyError(SourceOf(v, lines), line) = <<e>>
    BY <1>3, <2>1 DEF LineError
  <2>3. BodyError(SourceOf(v, new), after) = <<f>>
    BY <1>3, <1>5, <2>1 DEF LineError
  <2>4. after \in Lines
    BY <1>3
  <2>5. after \in BodyLines
    BY <1>5, <2>1, <2>4 DEF Lines, MetaLines, HeaderLines
  <2>6. KnownSource(SourceOf(v, lines)) /\ KnownSource(SourceOf(v, new))
    BY SourceIsKnown
  <2>7. Concerns(line, e)
    BY <1>7, <2>2, <2>6, BodyErrorConcerns
  <2>8. Concerns(after, f)
    BY <2>3, <2>5, <2>6, BodyErrorConcerns
  <2>9. FixesIt(fix(line, e), after) /\ FixesOne(line, e)
    BY <1>1, <1>3
  <2> QED
    BY <1>7, <2>7, <2>8, <2>9, NotAgain
<1> QED
  BY <1>2, <1>3, <1>6, <1>7

(* The lines of the output. *)
LEMMA OutputTyped ==
  ASSUME FixesInv
  PROVE  /\ OutputLines \in Seq(Lines) /\ Len(output) \in Nat /\ Len(OutputLines) = Len(output)
         /\ \A k \in 1..Len(output) : OutputLines[k] = output[k].line
<1>1. output \in Seq(OutputItems)
  BY DEF FixesInv
<1>2. PICK T, S, out : T = OutputItems /\ S = Lines /\ out = output
  OBVIOUS
<1>3. PICK n \in Nat : n = Len(out) /\ \A k \in 1..n : out[k] \in T
  BY <1>1, <1>2
<1>4. \A x \in T : x.line \in S
  BY <1>2 DEF OutputItems
<1>5. \A k \in 1..n : out[k].line \in S
  BY <1>3, <1>4
<1>6. OutputLines = [k \in 1..n |-> out[k].line]
  BY <1>2, <1>3 DEF OutputLines
<1> QED
  BY <1>2, <1>3, <1>5, <1>6

(* The errors of a line of the output are there if it has one. *)
LEMMA ErrorIsThere ==
  ASSUME FixesInv, NEW k \in 1..Len(output), ErrorOf(k) # << >>
  PROVE  \E i \in 1..Len(errors) : errors[i].line = output[k].at
<1> SUFFICES ASSUME \A i \in 1..Len(errors) : errors[i].line # output[k].at PROVE FALSE
  OBVIOUS
<1>1. PICK n \in Nat : n = Len(errors)
  BY DEF FixesInv
<1>2. ErrorOf(k) = FlattenSeq([i \in 1..n |-> IF errors[i].line = output[k].at THEN <<errors[i]>> ELSE << >>])
  BY <1>1, Zenon DEF ErrorOf, ErrorsAt, FieldsAt
<1>3. PICK seqs : seqs = [i \in 1..n |-> IF errors[i].line = output[k].at THEN <<errors[i]>> ELSE << >>]
  OBVIOUS
<1>4. \A i \in 1..n : seqs[i] = << >>
  BY <1>1, <1>3
<1>5. \A S : << >> \in Seq(S)
  OBVIOUS
<1>6. seqs \in [1..n -> Seq(Nat)]
  BY <1>3, <1>4, <1>5
<1>7. PICK kept : kept = FlattenSeq(seqs)
  OBVIOUS
<1>8. kept \in Seq(Nat) /\ \A x : Contains(kept, x) <=> \E i \in 1..n : Contains(seqs[i], x)
  BY <1>6, <1>7, FlattenContains
<1>9. kept # << >>
  BY <1>2, <1>3, <1>7
<1>10. Contains(kept, kept[1])
  BY <1>8, <1>9 DEF Contains
<1>11. \A x : ~Contains(<< >>, x)
  BY DEF Contains
<1> QED
  BY <1>4, <1>8, <1>10, <1>11

(* A line that has its error still was ignored. *)
LEMMA StillThereIsIgnored ==
  ASSUME FixesInv, NEW k \in StillThere, ~SyntacticInfo(k)
  PROVE  k \in IgnoredOf(input, errors, output)
<1>1. /\ k \in 1..Len(output) /\ ErrorOf(k) # << >> /\ ErrorNow(k) # Nothing
      /\ SameError(ErrorNow(k)[1], ErrorOf(k)[1].error)
  BY Zenon DEF StillThere
<1>2. PICK e, at, after : e = ErrorOf(k)[1].error /\ at = output[k].at /\ after = output[k].line
  OBVIOUS
<1>3. FixedBy(input[at], e, after) /\ at \in 1..Len(input) /\ LineError(version, input, at) = <<e>>
  BY <1>1, <1>2, FixedError
<1>4. /\ OutputLines \in Seq(Lines) /\ k \in 1..Len(OutputLines) /\ OutputLines[k] = after
      /\ input \in Seq(Lines) /\ errors \in Seq(ReportItems(version, input))
  BY <1>1, <1>2, OutputTyped DEF FixesInv
<1>5. PICK f : LineError(version, OutputLines, k) = <<f>>
  <2>1. LineError(version, OutputLines, k) # << >>
    BY <1>1 DEF ErrorNow, Nothing
  <2> QED
    BY <2>1, LineErrorIsOne, Zenon
<1>6. SameError(f, e)
  <2>1. ErrorNow(k)[1] = f
    BY <1>5 DEF ErrorNow
  <2> QED
    BY <1>1, <1>2, <2>1
<1>7. ~FixesIt(fix(input[at], e), after)
  <2> SUFFICES ASSUME FixesIt(fix(input[at], e), after) PROVE FALSE
    OBVIOUS
  <2>1. PICK lines, new : lines = input /\ new = OutputLines
    OBVIOUS
  <2>2. /\ lines \in Seq(Lines) /\ at \in 1..Len(lines) /\ LineError(version, lines, at) = <<e>>
        /\ new \in Seq(Lines) /\ k \in 1..Len(new) /\ FixesIt(fix(lines[at], e), new[k])
        /\ LineError(version, new, k) = <<f>>
    BY <1>3, <1>4, <1>5, <2>1
  <2>3. e.type = "InfoBodyError" /\ e.error_fix = "IRRECOVERABLE_VALUE" /\ e.field = ""
    BY <1>6, <2>2, NotFoundAgain
  <2> QED
    BY <1>2, <2>3 DEF SyntacticInfo
<1>8. ASSUME NEW i \in 1..Len(errors), errors[i].line = at
      PROVE  ~FixesIt(fix(input[at], errors[i].error), after)
  <2>1. PICK x \in ReportItems(version, input) : x = errors[i]
    BY <1>4, <1>8
  <2>2. x.error = DuplicateError \/ LineError(version, input, at) = <<x.error>>
    BY <1>3, <1>8, <2>1 DEF ReportItems
  <2>3. CASE x.error = DuplicateError
    <3>1. DuplicateError.type = "DuplicationError"
      BY DEF DuplicateError, Irrecoverable, Error
    <3>2. fix(input[at], x.error) = {Outcome(<< >>, 0)}
      BY <2>3, <3>1 DEF fix
    <3>3. ~FixesIt({Outcome(<< >>, 0)}, after)
      BY DEF FixesIt, Outcome
    <3> QED
      BY <2>1, <3>2, <3>3
  <2>4. CASE LineError(version, input, at) = <<x.error>>
    <3>1. x.error = e
      BY <1>3, <2>4
    <3> QED
      BY <1>7, <2>1, <3>1
  <2> QED
    BY <2>2, <2>3, <2>4
<1>9. \E i \in 1..Len(errors) : errors[i].line = at
  BY <1>1, <1>2, ErrorIsThere
<1>10. IsIgnored(input, errors, output[k])
  BY <1>2, <1>8, <1>9 DEF IsIgnored
<1> QED
  BY <1>1, <1>10 DEF IgnoredOf

(* IgnoredCounted follows from the invariants. *)
LEMMA InvGivesCounted == FixesInv /\ CountInv => IgnoredCounted
<1> SUFFICES ASSUME FixesInv, CountInv
             PROVE  Cardinality({k \in StillThere : ~SyntacticInfo(k)}) <= ignored_errors
  BY DEF IgnoredCounted
<1>1. PICK S, U : S = {k \in StillThere : ~SyntacticInfo(k)} /\ U = IgnoredOf(input, errors, output)
  OBVIOUS
<1>2. S \subseteq U
  BY <1>1, StillThereIsIgnored
<1>3. PICK in, er, out : in = input /\ er = errors /\ out = output
  OBVIOUS
<1>4. Len(out) \in Nat /\ U = IgnoredOf(in, er, out)
  BY <1>1, <1>3, OutputTyped
<1>5. IsFiniteSet(U) /\ Cardinality(U) \in Nat
  BY <1>4, IgnoredFinite
<1>6. IsFiniteSet(S) /\ Cardinality(S) <= Cardinality(U)
  BY <1>2, <1>5, FS_Subset
<1>7. Cardinality(S) \in Nat
  BY <1>6, FS_CardinalityType
<1>8. Cardinality(U) <= ignored_errors
  BY <1>1 DEF CountInv
<1>9. ignored_errors \in Int
  BY DEF FixesInv
<1>10. Cardinality(S) <= ignored_errors
  BY <1>5, <1>6, <1>7, <1>8, <1>9
<1> QED
  BY <1>1, <1>10, Zenon

(***************************************************************************)
(* The third invariant of the two programs, for any files: every line of   *)
(* the output whose error fix_vcf_file gave up on is counted.              *)
(***************************************************************************)
THEOREM CountInvariant == RepairSpec => []CountInv
<1>2. \A in, er : Cardinality(IgnoredOf(in, er, << >>)) = 0
  <2>1. \A in, er : IgnoredOf(in, er, << >>) = {}
    BY DEF IgnoredOf
  <2> QED
    BY <2>1, FS_EmptySet
<1>3. RepairInit => CountInv
  <2>1. RepairInit => output = << >> /\ ignored_errors = 0
    BY DEF RepairInit
  <2>2. 0 <= 0
    OBVIOUS
  <2> QED
    BY <1>2, <2>1, <2>2 DEF CountInv
<1>4. RepairInv /\ FixesInv /\ CountInv /\ [RepairNext]_repairVars => CountInv'
  <2> SUFFICES ASSUME RepairInv, FixesInv, CountInv, [RepairNext]_repairVars PROVE CountInv'
    OBVIOUS
  <2>1. CASE Validate
    <3>1. output' = << >> /\ ignored_errors' = 0
      BY <2>1 DEF Validate, Start
    <3> QED
      BY <1>2, <3>1 DEF CountInv
  <2>2. ASSUME UNCHANGED <<input, errors, output, ignored_errors>> PROVE CountInv'
    BY <2>2 DEF CountInv
  <2>3. CASE DebugulatorStep
    <3>1. FixVcfFile
      BY <2>3 DEF DebugulatorStep
    <3>2. CASE Advance \/ CopyLine
      BY <3>2, CountAdvance
    <3>3. CASE FixError
      BY <3>3, CountFix
    <3>4. CASE TooShort \/ EndOfReport \/ ReturnIgnored
      BY <2>2, <3>4 DEF TooShort, EndOfReport, ReturnIgnored
    <3> QED
      BY <3>1, <3>2, <3>3, <3>4 DEF FixVcfFile
  <2>4. CASE ValidatorFails \/ DebugulatorFails \/ NextRound \/ UNCHANGED repairVars
    BY <2>2, <2>4 DEF ValidatorFails, DebugulatorFails, NextRound, repairVars, debugulatorVars
  <2> QED
    BY <2>1, <2>3, <2>4 DEF RepairNext
<1> QED
  BY <1>3, <1>4, RepairInvariant, FixesInvariant, PTL DEF RepairSpec

(***************************************************************************)
(* fix_vcf_file counts every error that it could not fix, for files of any *)
(* length: an error of the report that is found again in the fixed file,   *)
(* but for those of the grammar in INFO, is one of its ignored errors.     *)
(***************************************************************************)
THEOREM IgnoredAreCounted == RepairSpec => []IgnoredCounted
BY FixesInvariant, CountInvariant, InvGivesCounted, PTL
=============================================================================
