------------------------------ MODULE MCRepair ------------------------------
(***************************************************************************)
(* Repair on files of a few lines: each of the families below puts one     *)
(* part of a record through all its small cases.                           *)
(***************************************************************************)
EXTENDS Repair

CONSTANTS
  MaxInfo,   (* bound: the number of INFO fields of a line                 *)
  Versions

MCContigPloidies == [Y |-> 1]

Bases1 == [form |-> "bases", size |-> 1]
Bases2 == [form |-> "bases", size |-> 2]
Deletion == [form |-> "<DEL", size |-> 5]
Insertion == [form |-> "<INS", size |-> 5]

Plain ==
  [kind |-> "body", chromosome |-> "1", position |-> 5, ids |-> <<"a">>,
   reference |-> 2, alternates |-> <<Bases1>>, quality |-> 1,
   filter |-> <<"PASS">>, info |-> <<Dot>>, format |-> << >>, samples |-> << >>]

Header(n) == [kind |-> "header", samples |-> n]
Meta(column, id, number, type) ==
  [kind |-> "meta", column |-> column, id |-> id, Number |-> number, Type |-> type]

(* Columns before INFO, the errors that cannot be fixed among them. *)
FirstColumns ==
  {[Plain EXCEPT !.chromosome = c, !.ids = ids, !.alternates = alts, !.quality = q, !.filter = filter] :
     c \in {"1", "a:b"},
     ids \in {<<"a">>, <<"a", "b", "a">>},
     alts \in {<<Bases1>>, <<Bases1, Bases1>>, <<[form |-> "reference", size |-> 2]>>,
               <<[form |-> ".", size |-> 1], Bases1>>},
     q \in {-1, 1},
     filter \in {<<"PASS">>, <<"0">>, <<"q", "0">>, <<"q", "q">>, <<"0", "0", "q">>}}

InfoPool ==
  {Flag("DB"), Flag(""), Field("DB", <<Word>>), Field("AF", <<Fraction>>), Field("AF", <<2>>),
   Field("AF", <<Missing>>), Field("CIPOS", <<0, 1>>), Field("CIPOS", <<1>>),
   Field("DP", <<-1>>), Field("END", <<6>>), Field("END", <<7>>),
   Field("IMPRECISE", <<0>>), Field("SVLEN", <<-1>>), Field("SVLEN", <<1, Missing>>),
   Field("XX", <<1>>), Field("XX", <<Illegal>>), [key |-> "XX", parts |-> << <<1>>, <<2>> >>]}

Infos ==
  {[Plain EXCEPT !.info = info, !.alternates = alts] :
     info \in (BoundedSeq(InfoPool, MaxInfo) \ {<<Flag("")>>})
                \cup {<<Flag("DB"), Flag(""), Field("XX", <<1>>)>>, <<Flag(""), Flag("DB"), Flag("")>>},
     alts \in {<<Bases1>>, <<Deletion>>, <<Bases1, Insertion>>}}

(* Values of a sample for each key. *)
Pool(key) ==
  CASE key = "GT" -> {<<0, 1>>, <<3, Missing>>, <<Illegal>>, <<1, Illegal>>, <<Word, Illegal>>}
    [] key = "DP" -> {<<1>>, <<2>>, <<Word>>}
    [] key = "GP" -> {<<0, Fraction, 0>>, <<Fraction>>}
    [] OTHER      -> {<<1>>, <<2>>}

SamplesOf(format) ==
  UNION {{s \in [1..n -> UNION {Pool(key) : key \in ToSet(format)}] :
            \A j \in 1..n : s[j] \in Pool(format[j])} : n \in 1..Len(format)}

OneSample ==
  UNION {{[Plain EXCEPT !.format = format, !.samples = <<sample>>] : sample \in SamplesOf(format)} :
           format \in {<<"GT">>, <<"GP">>, <<"GT", "GP">>, <<"DP", "GT">>}}

TwoSamples ==
  UNION {{[Plain EXCEPT !.format = format, !.samples = <<s, t>>] :
            s \in SamplesOf(format), t \in SamplesOf(format)} :
           format \in {<<"GT", "DP">>, <<"DP", "XX">>, <<"DP", "DP">>, <<"XX", "DP", "DP">>}}

(* Values that GP cannot be read of, under it or under the key before it,  *)
(* in samples that may be short.                                           *)
MissingSamples ==
  LET dps  == {<<1>>, <<1, 2>>, <<Missing, Missing, Missing>>}
      gps  == {<<0, Fraction, 0>>, <<2, 0, 0>>, <<Missing, 0, Missing>>}
      pool == {<< <<1>> >>} \cup {<< <<1>>, dp>> : dp \in dps}
                \cup {<< <<1>>, dp, gp>> : dp \in dps, gp \in gps}
  IN  {[Plain EXCEPT !.format = <<"XX", "DP", "GP">>, !.samples = <<s, t>>] : s \in pool, t \in pool}

(* Two repeated keys. *)
RepeatedKeysSamples ==
  LET format == <<"XX", "XY", "XX", "XY">>
      full   == [1..4 -> {<<1>>, <<2>>}]
  IN  {[Plain EXCEPT !.format = format, !.samples = <<s, t>>] : s \in full, t \in full}

(* Records that may be the same variant. *)
VariantPool ==
  {Plain, [Plain EXCEPT !.position = 6], [Plain EXCEPT !.ids = <<"b">>],
   [Plain EXCEPT !.alternates = <<Bases1, Bases2>>],
   [Plain EXCEPT !.filter = <<"0">>], [Plain EXCEPT !.quality = -1]}
IsOrdered(lines) == \A i \in 1..(Len(lines) - 1) : lines[i].position <= lines[i + 1].position
Variants == {lines \in [1..3 -> VariantPool] : IsOrdered(lines)}

Metas ==
  {<<Meta("FORMAT", "DP", n, type)>> : n \in {1, 2}, type \in {"Integer", "Float", "Flag"}}
    \cup {<<Meta("INFO", "XX", 2, "Integer"), Meta("FORMAT", "XX", 1, "Integer")>>, << >>}

MCFiles ==
  [version : Versions,
   lines : {<<Header(0), line>> : line \in FirstColumns \cup Infos}
      \cup {<<Header(1), line>> : line \in OneSample}
      \cup {<<Header(2), line>> : line \in TwoSamples \cup MissingSamples \cup RepeatedKeysSamples}
      \cup {<<Header(0)>> \o lines : lines \in Variants}
      \cup Metas
      \cup {<<Meta("INFO", "CIPOS", n, "Integer"), Header(0), [Plain EXCEPT !.info = <<Field("CIPOS", v)>>]>> :
              n \in {1, 2}, v \in {<<0>>, <<0, 1>>}}
      \cup {meta \o <<Header(2), line>> :
              meta \in Metas,
              line \in {[Plain EXCEPT !.format = <<"DP", "XX">>, !.samples = << <<dp, xx>>, <<dp>> >>,
                                      !.info = <<Field("XX", <<1>>)>>] :
                          dp \in {<<1>>, <<1, 2>>}, xx \in {<<1>>, <<1, 2>>}}}]
=============================================================================
