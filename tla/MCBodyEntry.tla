---------------------------- MODULE MCBodyEntry ----------------------------
(* BodyEntry on two contigs and two positions.  "10" is contig 1 and "9"   *)
(* is contig 2, as std::string::compare ranks them.                        *)
EXTENDS BodyEntry

CONSTANTS contig1, contig2, filter

MCCores(c, ps) == [chromosome : {c}, position : ps, allele : {1}]
MCRecordCores == {<<x>> : x \in MCCores(1, 1..2) \cup MCCores(2, 1..2)}
                   \cup {<<x, x>> : x \in MCCores(2, {2})}

Plain(c, p, cores, uses) ==
  [contig |-> c, position |-> p, cores |-> cores,
   built |-> "yes", checks |-> "pass", uses |-> uses]

At(c, p) == <<[chromosome |-> c, position |-> p, allele |-> 1]>>

(* contig1 is described in the meta section, contig2 and the filter are    *)
(* not.  The last ones are a record whose variant moves when normalised,   *)
(* one with the same alternate allele twice, and those that end early: in  *)
(* a warning, an exception of the optional checks, an Error or an          *)
(* exception of the constructor.                                           *)
MCBodyRecords ==
  {Plain(1, p, At(1, p), <<contig1>>) : p \in 1..2}
    \cup {Plain(2, p, At(2, p), <<contig2>>) : p \in 1..2}
    \cup {Plain(1, 1, At(1, 2), <<contig1, filter>>),
          Plain(2, 2, At(2, 2) \o At(2, 2), <<contig2, filter>>),
          [Plain(1, 1, At(1, 1), <<contig1>>) EXCEPT !.checks = "warn"],
          [Plain(1, 1, At(1, 1), <<contig1>>) EXCEPT !.checks = "escape"],
          [Plain(1, 1, At(1, 1), <<contig1>>) EXCEPT !.built = "throws"],
          [Plain(2, 1, At(2, 1), <<contig2>>) EXCEPT !.built = "escapes"]}
MCDescribed == {contig1}
MCMetaKeys == {contig1, contig2, filter}

(* Ordinary records only. *)
MCOrdinaryRecords ==
  {r \in MCBodyRecords : r.built = "yes" /\ r.checks = "pass" /\ Len(r.cores) = 1}
=============================================================================
