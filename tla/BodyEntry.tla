----------------------------- MODULE BodyEntry -----------------------------
(***************************************************************************)
(* What the parser does at the end of a line of the body section that      *)
(* follows the grammar (action record_end of vcf.ragel): the Record is     *)
(* built and checked, then its place in the order of the file, then it is  *)
(* looked up among the previous records, then come the optional checks.    *)
(* Composes ContigOrder (check_sorted), RecordCache (check_duplicates) and *)
(* the definitions already found in the meta section (ParsingState).       *)
(* Lines are numbered from the first line of the body.                     *)
(***************************************************************************)
EXTENDS RecordCache, ContigOrder, FiniteSetsExt

CONSTANTS
  BodyRecords,  (* the records a file may have, see BodyConstants          *)
  MetaKeys,     (* (column, id) pairs that records use                     *)
  Described,    (* the ones described by an entry of the meta section      *)
  MaxRecords    (* bound: how many records a file has                      *)

(* `built': the Record is built, throws an Error, or an exception of the   *)
(* standard library.  `checks': the optional checks on its own fields      *)
(* pass, throw a warning, or an exception.  `uses': its contig, symbolic   *)
(* alleles, filters, INFO and FORMAT fields, in that order.                *)
BodyRecord == [contig : Contigs, position : LogPositions, cores : RecordCores,
               built : {"yes", "throws", "escapes"},
               checks : {"pass", "warn", "escape"}, uses : Seq(MetaKeys)]

ASSUME BodyConstants ==
  /\ MaxRecords \in Nat
  /\ Described \subseteq MetaKeys
  /\ \A r \in BodyRecords :
       /\ r \in BodyRecord
       /\ \A i \in 1..Len(r.cores) : /\ r.cores[i].chromosome = r.contig
                                     /\ r.cores[i].position >= r.position

VARIABLES
  phase,             (* where record_end is                                *)
  defined_metadata,  (* ParsingState: keys known to be described           *)
  outcome,           (* history: each record and its verdict, by line      *)
  errors,            (* errors reported on records, DuplicationErrors apart *)
  warnings

bodyVars == <<phase, defined_metadata, outcome, errors, warnings>>
allVars == <<cacheVars, orderVars, bodyVars>>

n_lines == Len(outcome)

(* ParsingState::record, once a line of the body was handled. *)
record == outcome[n_lines].record

BodyInit ==
  /\ CacheInit
  /\ OrderInit
  /\ phase = "idle"
  /\ defined_metadata = {}
  /\ outcome = << >>
  /\ errors = {}
  /\ warnings = {}
-----------------------------------------------------------------------------
(* The next line of the file ends and record_end starts. *)
BodyLine == phase = "idle" /\ n_lines < MaxRecords

Ended(r, verdict) == outcome' = Append(outcome, [record |-> r, verdict |-> verdict])

(* handle_error, for an error on the line that just ended. *)
LineError(what) == errors' = errors \cup {[line |-> n_lines + 1, what |-> what]}

(* An exception that is no Error and that nothing before main catches ends *)
(* the run of the validator: std::stoi and std::stof on a position or      *)
(* quality out of range, std::stold on a missing value of AF or GP.        *)
BuildEscapes(r) ==
  /\ BodyLine
  /\ r.built = "escapes"
  /\ Ended(r, "escaped")
  /\ phase' = "escaped"
  /\ UNCHANGED <<cacheVars, orderVars, defined_metadata, errors, warnings>>

(* The constructor of Record throws. *)
RecordThrows(r) ==
  /\ BodyLine
  /\ r.built = "throws"
  /\ Ended(r, "not built")
  /\ LineError("record")
  /\ UNCHANGED <<cacheVars, orderVars, phase, defined_metadata, warnings>>

Place(r) == [contig |-> r.contig, position |-> r.position]

(* handle_body_line as it would be if the Error of check_sorted were       *)
(* handled there and the record went on to check_duplicates.               *)
MutantRecordBuilt(r) ==
  /\ BodyLine
  /\ r.built = "yes"
  /\ check_sorted(Place(r))
  /\ IF refused' # refused
       THEN Ended(r, "refused") /\ LineError("order")
       ELSE Ended(r, "accepted") /\ UNCHANGED errors
  /\ CheckDuplicates(n_lines + 1, r.cores)
  /\ phase' = "duplicates"
  /\ UNCHANGED <<defined_metadata, warnings>>

(* A bug that loses the Error of check_sorted. *)
MutantErrorLost(r) ==
  /\ BodyLine
  /\ r.built = "yes"
  /\ check_sorted(Place(r))
  /\ IF refused' # refused
       THEN Ended(r, "refused") /\ UNCHANGED <<cacheVars, phase>>
       ELSE /\ Ended(r, "accepted")
            /\ CheckDuplicates(n_lines + 1, r.cores)
            /\ phase' = "duplicates"
  /\ UNCHANGED <<defined_metadata, errors, warnings>>

(* The Record is built and check_sorted called.  When that throws, neither *)
(* check_duplicates nor the optional checks see the record.                *)
RecordBuilt(r) ==
  /\ BodyLine
  /\ r.built = "yes"
  /\ check_sorted(Place(r))
  /\ \/ /\ refused' # refused
        /\ Ended(r, "refused")
        /\ LineError("order")
        /\ UNCHANGED <<cacheVars, phase>>
     \/ /\ refused' = refused
        /\ Ended(r, "accepted")
        /\ CheckDuplicates(n_lines + 1, r.cores)
        /\ phase' = "duplicates"
        /\ UNCHANGED errors
  /\ UNCHANGED <<defined_metadata, warnings>>

(* check_duplicates goes through the cores of the record. *)
DuplicateCheck ==
  /\ phase = "duplicates"
  /\ CheckCore
  /\ phase' = IF todo' = << >> THEN "optional" ELSE phase
  /\ UNCHANGED <<orderVars, defined_metadata, outcome, errors, warnings>>

(* The first use that no meta entry describes, or 0.  A described use is   *)
(* looked up once and then remembered.                                     *)
FirstUndefined(uses) ==
  LET undefined == {i \in 1..Len(uses) : uses[i] \notin defined_metadata \cup Described}
  IN  IF undefined = {} THEN 0 ELSE Min(undefined)

(* A bug in which one missing definition is remembered as a found one. *)
MutantMetaChecks(uses) ==
  LET stop == FirstUndefined(uses)
  IN  /\ defined_metadata' = defined_metadata \cup {uses[i] : i \in 1..Len(uses)}
      /\ warnings' = warnings \cup {[line |-> n_lines, what |-> uses[i]] : i \in {stop} \ {0}}

(* The checks against the meta section: the first missing definition       *)
(* throws, so that the uses after it are not looked at.                    *)
MetaChecks(uses) ==
  LET stop == FirstUndefined(uses)
      seen == IF stop = 0 THEN 1..Len(uses) ELSE 1..(stop - 1)
  IN  /\ defined_metadata' = defined_metadata \cup {uses[i] : i \in seen}
      /\ warnings' = warnings \cup {[line |-> n_lines, what |-> uses[i]] : i \in {stop} \ {0}}

(* optional_check_body_entry: the checks on the record itself come first,  *)
(* and the first of all checks that throws is the only one heard of.       *)
OptionalCheck ==
  /\ phase = "optional"
  /\ \/ /\ record.checks = "pass"
        /\ MetaChecks(record.uses)
        /\ phase' = "idle"
     \/ /\ record.checks = "warn"
        /\ warnings' = warnings \cup {[line |-> n_lines, what |-> "record"]}
        /\ phase' = "idle"
        /\ UNCHANGED defined_metadata
     \/ /\ record.checks = "escape"
        /\ phase' = "escaped"
        /\ UNCHANGED <<defined_metadata, warnings>>
  /\ UNCHANGED <<cacheVars, orderVars, outcome, errors>>

BodyNext ==
  \/ \E r \in BodyRecords : BuildEscapes(r) \/ RecordThrows(r) \/ RecordBuilt(r)
  \/ DuplicateCheck
  \/ OptionalCheck

BodySpec == BodyInit /\ [][BodyNext]_allVars
-----------------------------------------------------------------------------
Verdicts == {"escaped", "not built", "refused", "accepted"}

BodyTypeOK ==
  /\ CacheTypeOK
  /\ OrderTypeOK
  /\ phase \in {"idle", "duplicates", "optional", "escaped"}
  /\ defined_metadata \subseteq Described
  /\ outcome \in Seq([record : BodyRecords, verdict : Verdicts])
  /\ errors \subseteq [line : Nat, what : {"record", "order"}]
  /\ warnings \subseteq [line : Nat, what : MetaKeys \cup {"record"}]

AcceptedLines == {n \in 1..n_lines : outcome[n].verdict = "accepted"}

(* The lines that record_end is done with. *)
HandledLines == 1..(IF phase = "idle" THEN n_lines ELSE n_lines - 1)

(***************************************************************************)
(* A record that was refused or could not be built is never compared with  *)
(* others, neither then nor when a later record is looked up: every cached *)
(* variant, and every DuplicationError, is about a line that was accepted. *)
(* (record_end leaves through its outer catch before check_duplicates.)    *)
(***************************************************************************)
OnlyAcceptedCompared ==
  /\ \A e \in cache : e.line \in AcceptedLines
  /\ \A d \in duplicates : d.line \in AcceptedLines

(***************************************************************************)
(* Every line that was not accepted has an error of its own, and no other  *)
(* line has (the one an exception escaped from is never done with).        *)
(***************************************************************************)
ErrorPerLostRecord ==
  \A n \in HandledLines :
    (\E x \in errors : x.line = n) <=> outcome[n].verdict \in {"not built", "refused"}

(***************************************************************************)
(* The memory of well defined meta data never hides a missing definition,  *)
(* however many records used the same name before: a handled line has a    *)
(* warning exactly when it was accepted and something about it warns.      *)
(***************************************************************************)
WarnedWhenDue ==
  \A n \in HandledLines :
    (\E w \in warnings : w.line = n) <=>
      /\ n \in AcceptedLines
      /\ LET r == outcome[n].record
         IN  r.checks = "warn" \/ \E i \in 1..Len(r.uses) : r.uses[i] \notin Described

(* The contigs of the accepted records came in the order of their names,   *)
(* with cores where the records are and one kind of allele at each place.  *)
PlainFile ==
  /\ \A i, k \in 1..Len(accepted) : i < k => accepted[i].contig <= accepted[k].contig
  /\ \A e \in fed : e.core.position = outcome[e.line].record.position
  /\ \A e, f \in fed :
       (e.core.chromosome = f.core.chromosome /\ e.core.position = f.core.position)
         => e.core = f.core

(***************************************************************************)
(* What the order check and the cache guarantee together: in a file whose  *)
(* contigs come in the order of their names, every repetition of an        *)
(* accepted variant is reported with any capacity, because what            *)
(* check_sorted lets through reaches the cache in the order by which       *)
(* shrink_to_fit erases.                                                   *)
(***************************************************************************)
PlainFilesComplete ==
  PlainFile =>
    \A e, f \in fed : (e.ord < f.ord /\ e.core = f.core) => Reported(f)

(***************************************************************************)
(* record_cache.hpp: a limited cache "can be configured to store only the  *)
(* last `n' elements", so only duplicates "farther apart than the          *)
(* capacity" may be missed.                                                *)
(***************************************************************************)
NearDuplicatesFound ==
  \A e, f \in fed :
    /\ e.core = f.core
    /\ e.ord < f.ord
    /\ f.ord - e.ord <= capacity
    => Reported(f)

(***************************************************************************)
(* check_contig_meta's comment: a missing 'contig' entry is notified "only *)
(* once".                                                                  *)
(***************************************************************************)
MissingContigOnce ==
  \A v, w \in warnings :
    v.what = w.what /\ v.what = outcome[v.line].record.uses[1] => v = w
=============================================================================
