----------------------------- MODULE RecordCache -----------------------------
(***************************************************************************)
(* The cache of variants already read (inc/vcf/record_cache.hpp), with     *)
(* which the parser looks for duplicated variants.                         *)
(*                                                                         *)
(* The code keeps a std::multiset<RecordCore>.  Its order is               *)
(* RecordCore::operator<, and an element is inserted after the elements    *)
(* equal to it, so the multiset is a set of entries ordered by core and    *)
(* then by arrival: `ord' numbers the arrivals and stands for the identity *)
(* of an element.  Chromosomes and alleles are strings in the code; here   *)
(* each is its rank in std::string::compare's order ("10" ranks before     *)
(* "9"), and the reference and alternate allele are ranked as one pair.    *)
(***************************************************************************)
EXTENDS Integers, Sequences, FiniteSets

CONSTANTS
  Chromosomes,  (* ranks of the chromosome names                           *)
  Positions,    (* normalised positions                                    *)
  Alleles,      (* ranks of the (reference, alternate) pairs               *)
  Capacities,   (* the values of the constructor's parameter to explore    *)
  RecordCores,  (* what normalize may return: non-empty sequences of cores *)
  MaxCores      (* bound: how many cores are handed to the cache in a run  *)

Core == [chromosome : Chromosomes, position : Positions, allele : Alleles]

ASSUME CacheConstants ==
  /\ Chromosomes \subseteq Nat
  /\ Positions \subseteq Nat
  /\ Alleles \subseteq Nat
  /\ Capacities \subseteq Nat
  /\ RecordCores \subseteq Seq(Core) \ {<< >>}
  /\ MaxCores \in Nat

VARIABLES
  capacity,    (* the member `capacity'; 0 means `unlimited'                *)
  cache,       (* the multiset                                              *)
  todo,        (* cores of the record being checked that are still to come  *)
  line,        (* the line of the record being checked                      *)
  count,       (* history: how many cores were handed to the cache          *)
  fed,         (* history: every entry handed to the cache                  *)
  duplicates   (* history: every DuplicationError returned                  *)

cacheVars == <<capacity, cache, todo, line, count, fed, duplicates>>

Entry == [core : Core, line : Nat, ord : Nat]

(* An error about the occurrence `occ', on line `line', that was raised    *)
(* when the core number `by' was checked.                                  *)
DuplicationError == [line : Nat, occ : Nat, by : Nat]

unlimited == capacity = 0
-----------------------------------------------------------------------------
(* RecordCore::operator<. *)
CoreLess(a, b) ==
  \/ a.chromosome < b.chromosome
  \/ /\ a.chromosome = b.chromosome
     /\ \/ a.position < b.position
        \/ a.position = b.position /\ a.allele < b.allele

(* The order of the multiset. *)
EntryLess(e, f) ==
  CoreLess(e.core, f.core) \/ (e.core = f.core /\ e.ord < f.ord)

(* std::multiset::equal_range. *)
equal_range(core) == {e \in cache : e.core = core}

(* A shrink that erases from the other end: used only to mutate the model. *)
MutantShrink(c) ==
  {e \in c : unlimited \/ Cardinality({f \in c : EntryLess(f, e)}) < capacity}

(* A shrink whose loop bound is off by one.  *)
MutantShrinkOneMore(c) ==
  {e \in c : unlimited \/ Cardinality({f \in c : EntryLess(e, f)}) <= capacity}

(* shrink_to_fit: erases from cache.begin(), so an entry stays exactly     *)
(* when fewer than `capacity' entries come after it.                       *)
shrink_to_fit(c) ==
  {e \in c : unlimited \/ Cardinality({f \in c : EntryLess(e, f)}) < capacity}

(* A bug that numbers lines from the one before the first. *)
MutantNewEntry == [core |-> Head(todo), line |-> line - 2, ord |-> count + 1]

(* The entry that the core at the head of `todo' becomes. *)
NewEntry == [core |-> Head(todo), line |-> line, ord |-> count + 1]

About(e, new) == [line |-> e.line, occ |-> e.ord, by |-> new.ord]

(* A bug that always reports the earlier occurrences too. *)
MutantErrors(new) ==
  {About(e, new) : e \in {x \in equal_range(new.core) \cup {new} :
                             equal_range(new.core) # {}}}

(* A bug that blames the new line for the first occurrence as well. *)
MutantErrorsLine(new) ==
  LET range == equal_range(new.core)
      only  == \E e \in range : range = {e}
  IN  {About([e EXCEPT !.line = @ + 1], new) : e \in {x \in range : only}}
        \cup {About(new, new) : e \in range}

(* The errors for one core: one about the first occurrence when it is the  *)
(* only match (++range.first = range.second), and one about the new one    *)
(* whenever there is a match.                                              *)
CoreErrors(new) ==
  LET range == equal_range(new.core)
      only  == \E e \in range : range = {e}
  IN  {About(e, new) : e \in {x \in range : only}}
        \cup {About(new, new) : e \in range}
-----------------------------------------------------------------------------
CacheInit ==
  /\ capacity \in Capacities
  /\ cache = {}
  /\ todo = << >>
  /\ line = 0
  /\ count = 0
  /\ fed = {}
  /\ duplicates = {}

(* check_duplicates(record) is called: the record is normalised. *)
CheckDuplicates(ln, cores) ==
  /\ todo = << >>
  /\ todo' = cores
  /\ line' = ln
  /\ UNCHANGED <<capacity, cache, count, fed, duplicates>>

(* One iteration of the loop over the cores.  The last one is followed by  *)
(* shrink_to_fit.                                                          *)
CheckCore ==
  /\ todo # << >>
  /\ LET new == NewEntry
     IN  /\ duplicates' = duplicates \cup CoreErrors(new)
         /\ cache' = IF Tail(todo) = << >>
                       THEN shrink_to_fit(cache \cup {new})
                       ELSE cache \cup {new}
         /\ fed' = fed \cup {new}
  /\ count' = count + 1
  /\ todo' = Tail(todo)
  /\ UNCHANGED <<capacity, line>>

(* A record of any content comes on the next line. *)
NewRecord ==
  \E cores \in RecordCores :
    /\ count + Len(cores) <= MaxCores
    /\ CheckDuplicates(line + 1, cores)

CacheNext == NewRecord \/ CheckCore

CacheSpec == CacheInit /\ [][CacheNext]_cacheVars
-----------------------------------------------------------------------------
CacheTypeOK ==
  /\ capacity \in Nat
  /\ cache \subseteq Entry
  /\ fed \subseteq Entry
  /\ duplicates \subseteq DuplicationError
  /\ todo \in Seq(Core)
  /\ line \in Nat
  /\ count \in Nat

(* Two different occurrences of one variant. *)
Twins(e, f) == e # f /\ e.core = f.core

(* An occurrence that some error is about. *)
Reported(e) == \E d \in duplicates : d.occ = e.ord

(* Every core was at least as large as the ones before it. *)
SortedInput ==
  \A e, f \in fed : e.ord < f.ord => ~CoreLess(f.core, e.core)

(***************************************************************************)
(* Between two calls of check_duplicates the cache holds at most           *)
(* `capacity' cores (shrink_to_fit), however many cores a record had.      *)
(***************************************************************************)
CacheBounded ==
  todo = << >> /\ ~unlimited => Cardinality(cache) <= capacity

(***************************************************************************)
(* No false alarms, whatever the capacity and the order of the input:      *)
(* every DuplicationError names the line of an occurrence of a variant     *)
(* that really occurs at least twice.                                      *)
(***************************************************************************)
NoFalseDuplicates ==
  \A d \in duplicates :
    \E e \in fed : /\ e.ord = d.occ
                   /\ e.line = d.line
                   /\ \E f \in fed : Twins(e, f)

(***************************************************************************)
(* The promise of check_duplicates for an unlimited cache: every           *)
(* occurrence of a repeated variant is reported, and none of them twice,   *)
(* in whatever order the occurrences come.                                 *)
(***************************************************************************)
EachOccurrenceOnce ==
  unlimited =>
    /\ \A e \in fed : (\E f \in fed : Twins(e, f)) => Reported(e)
    /\ \A d1, d2 \in duplicates : d1.occ = d2.occ => d1 = d2

(***************************************************************************)
(* A cache of any capacity is enough when the cores come in the order of   *)
(* RecordCore::operator<: every repetition of a variant is reported, even  *)
(* though earlier entries are erased all the time.                         *)
(***************************************************************************)
SortedComplete ==
  SortedInput =>
    \A e, f \in fed : (e.ord < f.ord /\ e.core = f.core) => Reported(f)

(***************************************************************************)
(* What a limited cache really remembers, for cores in any order: a        *)
(* repetition is reported as long as fewer than `capacity' of the cores    *)
(* seen so far rank above the earlier occurrence.  What counts is the rank *)
(* by RecordCore::operator<, not how long ago the occurrence was.          *)
(***************************************************************************)
RankedComplete ==
  \A e, f \in fed :
    /\ e.core = f.core
    /\ e.ord < f.ord
    /\ unlimited \/ Cardinality({g \in fed : g.ord < f.ord /\ EntryLess(e, g)}) < capacity
    => Reported(f)
=============================================================================
