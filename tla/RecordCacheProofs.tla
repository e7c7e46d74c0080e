-------------------------- MODULE RecordCacheProofs --------------------------
(***************************************************************************)
(* Proofs about RecordCache, for every set of capacities, every set of     *)
(* records and every length of the input.                                  *)
(***************************************************************************)
EXTENDS RecordCache, NatLemmas, FiniteSetTheorems, TLAPS

(* Every entry the cache holds was handed to it, arrival numbers are       *)
(* unique and up to `count', and an unlimited cache forgets nothing.       *)
HistoryInv ==
  /\ cache \subseteq fed
  /\ \A e \in fed : e.ord \in 1..count
  /\ \A e, f \in fed : e.ord = f.ord => e = f
  /\ unlimited => cache = fed

(* While the input is sorted, the entry that came last is in the cache:    *)
(* nothing comes after it, so shrink_to_fit never erases it.               *)
LastIsCached ==
  SortedInput /\ fed # {} => \E e \in cache : e.ord = count

(* An entry that fewer than `capacity' of all the cores rank above is      *)
(* still in the cache.                                                     *)
RankedAreCached ==
  /\ IsFiniteSet(fed)
  /\ \A e \in fed :
       Cardinality({g \in fed : EntryLess(e, g)}) < capacity => e \in cache

(* The inductive invariant. *)
CacheInv ==
  /\ CacheTypeOK
  /\ HistoryInv
  /\ NoFalseDuplicates
  /\ EachOccurrenceOnce
  /\ LastIsCached
  /\ SortedComplete
  /\ RankedAreCached
  /\ RankedComplete
  /\ CacheBounded
-----------------------------------------------------------------------------
(* operator< is total on cores: two cores neither of which is less are     *)
(* equal (RecordCore::operator== and operator< agree).                     *)
LEMMA CoreLessTotal ==
  ASSUME NEW a \in Core, NEW b \in Core, ~CoreLess(a, b), ~CoreLess(b, a)
  PROVE  a = b
<1>1. /\ a.chromosome \in Nat /\ b.chromosome \in Nat
      /\ a.position \in Nat /\ b.position \in Nat
      /\ a.allele \in Nat /\ b.allele \in Nat
  BY CacheConstants DEF Core
<1>2. /\ a.chromosome = b.chromosome
      /\ a.position = b.position
      /\ a.allele = b.allele
  BY <1>1 DEF CoreLess
<1> QED
  BY <1>2 DEF Core

(* shrink_to_fit only erases, an unlimited cache erases nothing, and an    *)
(* entry that nothing comes after stays.                                   *)
LEMMA ShrinkKeeps ==
  ASSUME NEW c, capacity \in Nat
  PROVE  /\ shrink_to_fit(c) \subseteq c
         /\ unlimited => shrink_to_fit(c) = c
         /\ \A e \in c : (\A f \in c : ~EntryLess(e, f)) => e \in shrink_to_fit(c)
<1>1. shrink_to_fit(c) \subseteq c
  BY DEF shrink_to_fit
<1>2. unlimited => shrink_to_fit(c) = c
  BY DEF shrink_to_fit
<1>3. ASSUME NEW e \in c, \A f \in c : ~EntryLess(e, f)
      PROVE  e \in shrink_to_fit(c)
  <2>1. {f \in c : EntryLess(e, f)} = {}
    BY <1>3
  <2>2. Cardinality({f \in c : EntryLess(e, f)}) = 0
    BY <2>1, FS_EmptySet
  <2> QED
    BY <2>2 DEF shrink_to_fit, unlimited
<1> QED
  BY <1>1, <1>2, <1>3
-----------------------------------------------------------------------------
(* What one iteration of the loop of check_duplicates does, with the new   *)
(* entry and its effect on the cache named.                                *)
LEMMA CheckCoreEffect ==
  ASSUME CacheTypeOK, CheckCore
  PROVE  /\ NewEntry \in Entry
         /\ NewEntry.ord = count + 1
         /\ NewEntry.line = line
         /\ fed' = fed \cup {NewEntry}
         /\ duplicates' = duplicates \cup CoreErrors(NewEntry)
         /\ cache' \subseteq cache \cup {NewEntry}
         /\ unlimited => cache' = cache \cup {NewEntry}
         /\ (\A f \in cache \cup {NewEntry} : ~EntryLess(NewEntry, f)) => NewEntry \in cache'
         /\ count' = count + 1
         /\ todo' \in Seq(Core)
         /\ UNCHANGED <<capacity, line>>
<1>1. Head(todo) \in Core /\ Tail(todo) \in Seq(Core)
  BY DEF CacheTypeOK, CheckCore
<1>2. NewEntry \in Entry /\ NewEntry.ord = count + 1 /\ NewEntry.line = line
  BY <1>1 DEF NewEntry, Entry, CacheTypeOK
<1>3. cache' = cache \cup {NewEntry} \/ cache' = shrink_to_fit(cache \cup {NewEntry})
  BY DEF CheckCore
<1>4. capacity \in Nat
  BY DEF CacheTypeOK
<1>5. /\ cache' \subseteq cache \cup {NewEntry}
      /\ unlimited => cache' = cache \cup {NewEntry}
      /\ (\A f \in cache \cup {NewEntry} : ~EntryLess(NewEntry, f)) => NewEntry \in cache'
  <2> DEFINE C == cache \cup {NewEntry}
  <2>1. /\ shrink_to_fit(C) \subseteq C
        /\ unlimited => shrink_to_fit(C) = C
        /\ \A e \in C : (\A f \in C : ~EntryLess(e, f)) => e \in shrink_to_fit(C)
    BY <1>4, ShrinkKeeps
  <2>2. NewEntry \in C
    OBVIOUS
  <2> HIDE DEF C
  <2>3. cache' = C \/ cache' = shrink_to_fit(C)
    BY <1>3 DEF C
  <2> QED
    BY <2>1, <2>2, <2>3 DEF C
<1> QED
  BY <1>1, <1>2, <1>5 DEF CheckCore

(* The errors of one iteration, told apart by the matches in the cache. *)
LEMMA CoreErrorsMembers ==
  ASSUME NEW new, NEW d \in CoreErrors(new)
  PROVE  /\ equal_range(new.core) # {}
         /\ \/ d = About(new, new)
            \/ \E e \in equal_range(new.core) :
                 equal_range(new.core) = {e} /\ d = About(e, new)
BY DEF CoreErrors

(* A match makes the new occurrence reported, a single match itself too. *)
LEMMA CoreErrorsNew ==
  ASSUME NEW new, NEW e \in equal_range(new.core)
  PROVE  /\ About(new, new) \in CoreErrors(new)
         /\ equal_range(new.core) = {e} => About(e, new) \in CoreErrors(new)
BY DEF CoreErrors
-----------------------------------------------------------------------------
(* A parser that is being constructed has an empty cache. *)
LEMMA InitCacheInv == CacheInit => CacheInv
<1> SUFFICES ASSUME CacheInit PROVE CacheInv
  OBVIOUS
<1>1. CacheTypeOK
  BY CacheConstants DEF CacheInit, CacheTypeOK
<1>2. HistoryInv
  BY DEF CacheInit, HistoryInv
<1>3. NoFalseDuplicates /\ EachOccurrenceOnce /\ LastIsCached /\ SortedComplete
  BY DEF CacheInit, NoFalseDuplicates, EachOccurrenceOnce, LastIsCached, SortedComplete
<1>4. RankedAreCached /\ RankedComplete
  BY FS_EmptySet DEF CacheInit, RankedAreCached, RankedComplete
<1>5. CacheBounded
  BY <1>1, FS_EmptySet DEF CacheInit, CacheBounded, CacheTypeOK
<1> QED
  BY <1>1, <1>2, <1>3, <1>4, <1>5 DEF CacheInv

(* The parts of the invariant that speak of the cache and its history only *)
(* change with them.                                                       *)
LEMMA CacheInvFrame ==
  ASSUME CacheInv, UNCHANGED <<capacity, cache, count, fed, duplicates>>, CacheTypeOK',
         todo' = << >> => todo = << >>
  PROVE  CacheInv'
<1>1. HistoryInv' /\ NoFalseDuplicates' /\ EachOccurrenceOnce'
  BY DEF CacheInv, HistoryInv, NoFalseDuplicates, Twins, EachOccurrenceOnce, Reported, unlimited
<1>2. LastIsCached' /\ SortedComplete'
  BY DEF CacheInv, LastIsCached, SortedInput, SortedComplete, Reported
<1>3. RankedAreCached' /\ RankedComplete'
  BY DEF CacheInv, RankedAreCached, RankedComplete, Reported, unlimited
<1>4. CacheBounded'
  BY DEF CacheInv, CacheBounded, unlimited
<1> QED
  BY <1>1, <1>2, <1>3, <1>4 DEF CacheInv

(* Normalising the next record changes nothing in the cache. *)
LEMMA CheckDuplicatesCacheInv ==
  ASSUME CacheInv, NEW ln \in Nat, NEW cores \in RecordCores, CheckDuplicates(ln, cores)
  PROVE  CacheInv'
<1>1. UNCHANGED <<capacity, cache, count, fed, duplicates>>
  BY DEF CheckDuplicates
<1>2. todo' \in Seq(Core) /\ line' \in Nat
  BY CacheConstants DEF CheckDuplicates
<1>3. CacheTypeOK'
  BY <1>1, <1>2 DEF CacheInv, CacheTypeOK
<1>4. todo = << >>
  BY DEF CheckDuplicates
<1> QED
  BY <1>1, <1>3, <1>4, CacheInvFrame

(* A step of another part of the parser changes nothing in the cache. *)
LEMMA StutterCacheInv == CacheInv /\ UNCHANGED cacheVars => CacheInv'
<1> SUFFICES ASSUME CacheInv, UNCHANGED cacheVars PROVE CacheInv'
  OBVIOUS
<1>1. CacheTypeOK'
  BY DEF CacheInv, CacheTypeOK, cacheVars
<1> QED
  BY <1>1, CacheInvFrame DEF cacheVars

(* The loop of check_duplicates keeps the types. *)
LEMMA CheckCoreTypeOK == CacheTypeOK /\ CheckCore => CacheTypeOK'
<1> SUFFICES ASSUME CacheTypeOK, CheckCore PROVE CacheTypeOK'
  OBVIOUS
<1>1. CoreErrors(NewEntry) \subseteq DuplicationError
  <2>1. NewEntry \in Entry
    BY CheckCoreEffect
  <2>2. \A e \in equal_range(NewEntry.core) : e \in Entry
    BY DEF equal_range, CacheTypeOK
  <2>3. \A d \in CoreErrors(NewEntry) : \E e \in Entry : d = About(e, NewEntry)
    BY <2>1, <2>2, CoreErrorsMembers
  <2> QED
    BY <2>1, <2>3 DEF About, DuplicationError, Entry
<1>2. fed' \subseteq Entry /\ cache' \subseteq Entry
  BY CheckCoreEffect DEF CacheTypeOK
<1>3. duplicates' \subseteq DuplicationError
  BY <1>1, CheckCoreEffect DEF CacheTypeOK
<1>4. todo' \in Seq(Core) /\ count' \in Nat /\ line' \in Nat /\ capacity' \in Nat
  BY CheckCoreEffect DEF CacheTypeOK
<1> QED
  BY <1>2, <1>3, <1>4 DEF CacheTypeOK

(* Entries are numbered by arrival, and the cache holds only such entries. *)
LEMMA CheckCoreHistoryInv == CacheTypeOK /\ HistoryInv /\ CheckCore => HistoryInv'
<1> SUFFICES ASSUME CacheTypeOK, HistoryInv, CheckCore PROVE HistoryInv'
  OBVIOUS
<1> DEFINE new == NewEntry
<1>0. /\ new \in Entry /\ new.ord = count + 1
      /\ fed' = fed \cup {new}
      /\ cache' \subseteq cache \cup {new}
      /\ unlimited => cache' = cache \cup {new}
      /\ count' = count + 1
      /\ UNCHANGED capacity
      /\ count \in Nat
  BY CheckCoreEffect DEF CacheTypeOK
<1> HIDE DEF new
<1>1. cache' \subseteq fed'
  BY <1>0 DEF HistoryInv
<1>2. \A e \in fed' : e.ord \in 1..count'
  BY <1>0 DEF HistoryInv
<1>3. ASSUME NEW e \in fed', NEW f \in fed', e.ord = f.ord PROVE e = f
  <2>1. \A x \in fed : x.ord # new.ord
    BY <1>0 DEF HistoryInv
  <2> QED
    BY <1>0, <1>3, <2>1 DEF HistoryInv
<1>4. unlimited' => cache' = fed'
  BY <1>0 DEF HistoryInv, unlimited
<1> QED
  BY <1>1, <1>2, <1>3, <1>4 DEF HistoryInv
-----------------------------------------------------------------------------
(* The matches of the new core are occurrences that came before it. *)
LEMMA MatchesAreTwins ==
  ASSUME CacheTypeOK, HistoryInv, CheckCore, NEW e \in equal_range(NewEntry.core)
  PROVE  /\ e \in fed /\ e \in fed' /\ NewEntry \in fed'
         /\ Twins(e, NewEntry) /\ Twins(NewEntry, e)
<1>1. e \in fed /\ e.core = NewEntry.core
  BY DEF equal_range, HistoryInv
<1>2. e.ord # NewEntry.ord
  BY <1>1, CheckCoreEffect DEF HistoryInv, CacheTypeOK
<1> QED
  BY <1>1, <1>2, CheckCoreEffect DEF Twins

(* The errors of one iteration are about occurrences with a twin. *)
LEMMA CheckCoreNoFalseDuplicates ==
  CacheTypeOK /\ HistoryInv /\ NoFalseDuplicates /\ CheckCore => NoFalseDuplicates'
<1> SUFFICES ASSUME CacheTypeOK, HistoryInv, NoFalseDuplicates, CheckCore,
                    NEW d \in duplicates'
             PROVE  \E e \in fed' : /\ e.ord = d.occ
                                    /\ e.line = d.line
                                    /\ \E f \in fed' : Twins(e, f)
  BY DEF NoFalseDuplicates, Twins
<1>1. fed \subseteq fed' /\ duplicates' = duplicates \cup CoreErrors(NewEntry)
  BY CheckCoreEffect
<1>2. CASE d \in duplicates
  BY <1>1, <1>2 DEF NoFalseDuplicates
<1>3. CASE d \in CoreErrors(NewEntry)
  <2>1. PICK m \in equal_range(NewEntry.core) : TRUE
    BY <1>3, CoreErrorsMembers
  <2>2. CASE d = About(NewEntry, NewEntry)
    BY <2>1, <2>2, MatchesAreTwins DEF About
  <2>3. CASE \E e \in equal_range(NewEntry.core) : d = About(e, NewEntry)
    BY <2>3, MatchesAreTwins DEF About
  <2> QED
    BY <1>3, <2>2, <2>3, CoreErrorsMembers
<1> QED
  BY <1>1, <1>2, <1>3

(* With an unlimited cache the matches of the new core are all of its      *)
(* earlier occurrences, so the number of matches tells which of them have  *)
(* been reported: none when there is one match, all when there are more.   *)
LEMMA CheckCoreEachOccurrenceOnce ==
  /\ CacheTypeOK /\ HistoryInv /\ NoFalseDuplicates /\ EachOccurrenceOnce
  /\ CheckCore
  => EachOccurrenceOnce'
<1> SUFFICES ASSUME CacheTypeOK, HistoryInv, NoFalseDuplicates, EachOccurrenceOnce,
                    CheckCore, unlimited
             PROVE  /\ \A e \in fed' : (\E f \in fed' : Twins(e, f)) => Reported(e)'
                    /\ \A d1, d2 \in duplicates' : d1.occ = d2.occ => d1 = d2
  BY CheckCoreEffect DEF EachOccurrenceOnce, unlimited, Twins, Reported
<1> DEFINE new == NewEntry
           range == equal_range(new.core)
<1>1. /\ fed' = fed \cup {new} /\ duplicates' = duplicates \cup CoreErrors(new)
      /\ new.ord = count + 1 /\ count \in Nat
  BY CheckCoreEffect DEF CacheTypeOK
<1>2. \A e \in fed : e \in range <=> e.core = new.core
  BY DEF equal_range, HistoryInv
<1>3. range \subseteq fed
  BY DEF equal_range, HistoryInv
<1>4. \A e \in fed : e.ord # new.ord
  BY <1>1 DEF HistoryInv
<1>5. \A d \in duplicates : d.occ # new.ord
  BY <1>4 DEF NoFalseDuplicates
<1>6. \A e \in fed : Reported(e) => (\E f \in fed : Twins(e, f))
  BY DEF NoFalseDuplicates, Reported, HistoryInv, Twins
<1>7. \A e \in range : range = {e} => ~Reported(e)
  BY <1>2, <1>3, <1>6 DEF Twins
<1>8. \A d \in CoreErrors(new) :
        d = About(new, new) \/ \E e \in range : range = {e} /\ d = About(e, new)
  BY CoreErrorsMembers
<1>9. \A e \in range : /\ About(new, new) \in CoreErrors(new)
                       /\ range = {e} => About(e, new) \in CoreErrors(new)
  BY CoreErrorsNew
<1> HIDE DEF new, range
<1>10. ASSUME NEW e \in fed', NEW f \in fed', Twins(e, f)
       PROVE  Reported(e)'
  <2>1. CASE e \in fed /\ f \in fed
    BY <1>1, <1>10, <2>1 DEF EachOccurrenceOnce, Reported
  <2>2. CASE e = new
    <3>1. f \in range
      BY <1>1, <1>2, <1>10, <2>2 DEF Twins
    <3>2. About(new, new) \in duplicates'
      BY <1>1, <1>9, <3>1
    <3>3. About(new, new).occ = e.ord
      BY <2>2 DEF About
    <3> QED
      BY <3>2, <3>3 DEF Reported
  <2>3. CASE e \in fed /\ f = new
    <3>1. e \in range
      BY <1>2, <1>10, <2>3 DEF Twins
    <3>2. CASE range = {e}
      BY <1>1, <1>9, <3>1, <3>2 DEF Reported, About
    <3>3. CASE range # {e}
      <4>1. PICK x \in range : x # e
        BY <3>1, <3>3
      <4>2. Twins(e, x) /\ x \in fed
        BY <1>2, <1>3, <3>1, <4>1 DEF Twins
      <4> QED
        BY <1>1, <2>3, <4>2 DEF EachOccurrenceOnce, Reported
    <3> QED
      BY <3>2, <3>3
  <2> QED
    BY <1>1, <2>1, <2>2, <2>3
<1>11. ASSUME NEW d1 \in duplicates', NEW d2 \in duplicates', d1.occ = d2.occ
       PROVE  d1 = d2
  <2>1. CASE d1 \in duplicates /\ d2 \in duplicates
    BY <1>11, <2>1 DEF EachOccurrenceOnce
  <2>2. \A d \in duplicates, x \in CoreErrors(new) : d.occ # x.occ
    BY <1>5, <1>7, <1>8 DEF Reported, About
  <2>3. \A x, y \in CoreErrors(new) : x.occ = y.occ => x = y
    BY <1>3, <1>4, <1>8 DEF About
  <2> QED
    BY <1>1, <1>11, <2>1, <2>2, <2>3
<1> QED
  BY <1>10, <1>11
-----------------------------------------------------------------------------
(* When the input stays sorted, nothing in the cache comes after the new   *)
(* entry.                                                                  *)
LEMMA NewEntryIsLast ==
  ASSUME CacheTypeOK, HistoryInv, CheckCore, SortedInput'
  PROVE  /\ \A f \in cache \cup {NewEntry} : ~EntryLess(NewEntry, f)
         /\ SortedInput
<1>1. /\ NewEntry \in Entry /\ NewEntry.ord = count + 1 /\ count \in Nat
      /\ fed' = fed \cup {NewEntry}
  BY CheckCoreEffect DEF CacheTypeOK
<1>2. \A e, f \in fed' : e.ord < f.ord => ~CoreLess(f.core, e.core)
  BY DEF SortedInput
<1>3. \A f \in fed : f.ord \in 1..count
  BY DEF HistoryInv
<1>4. SortedInput
  BY <1>1, <1>2 DEF SortedInput
<1>5. ASSUME NEW f \in cache PROVE ~EntryLess(NewEntry, f)
  <2>1. f \in fed /\ f.ord \in 1..count
    BY <1>3 DEF HistoryInv
  <2>2. ~CoreLess(NewEntry.core, f.core)
    BY <1>1, <1>2, <2>1
  <2> QED
    BY <1>1, <2>1, <2>2 DEF EntryLess
<1>6. ~EntryLess(NewEntry, NewEntry)
  <2>1. /\ NewEntry.core.chromosome \in Nat /\ NewEntry.core.position \in Nat
        /\ NewEntry.core.allele \in Nat
    BY <1>1, CacheConstants DEF Entry, Core
  <2> QED
    BY <1>1, <2>1 DEF EntryLess, CoreLess
<1> QED
  BY <1>4, <1>5, <1>6

(* While the input is sorted the newest entry survives shrink_to_fit. *)
LEMMA CheckCoreLastIsCached ==
  CacheTypeOK /\ HistoryInv /\ CheckCore => LastIsCached'
<1> SUFFICES ASSUME CacheTypeOK, HistoryInv, CheckCore, SortedInput'
             PROVE  \E e \in cache' : e.ord = count'
  BY DEF LastIsCached
<1>1. NewEntry \in cache'
  BY NewEntryIsLast, CheckCoreEffect
<1> QED
  BY <1>1, CheckCoreEffect

(* A repeated core equals the core that came last, which is in the cache:  *)
(* between two equal cores of a sorted input there are only equal cores.   *)
LEMMA CheckCoreSortedComplete ==
  CacheTypeOK /\ HistoryInv /\ LastIsCached /\ SortedComplete /\ CheckCore => SortedComplete'
<1> SUFFICES ASSUME CacheTypeOK, HistoryInv, LastIsCached, SortedComplete, CheckCore,
                    SortedInput',
                    NEW e \in fed', NEW f \in fed', e.ord < f.ord, e.core = f.core
             PROVE  Reported(f)'
  BY DEF SortedComplete, Reported
<1>1. /\ NewEntry \in Entry /\ NewEntry.ord = count + 1 /\ count \in Nat
      /\ fed' = fed \cup {NewEntry}
      /\ duplicates' = duplicates \cup CoreErrors(NewEntry)
  BY CheckCoreEffect DEF CacheTypeOK
<1>2. \A x \in fed : x \in Entry /\ x.ord \in 1..count
  BY DEF HistoryInv, CacheTypeOK
<1>3. SortedInput
  BY NewEntryIsLast
<1>4. CASE f \in fed
  <2>1. e \in fed
    BY <1>1, <1>2, <1>4
  <2> QED
    BY <1>1, <1>3, <1>4, <2>1 DEF SortedComplete, Reported
<1>5. CASE f = NewEntry
  <2>1. e \in fed
    BY <1>1, <1>5
  <2>2. PICK l \in cache : l.ord = count
    BY <1>3, <2>1 DEF LastIsCached
  <2>3. l \in fed
    BY DEF HistoryInv
  <2>4. l.core \in Core /\ e.core \in Core
    BY <1>2, <2>1, <2>3 DEF Entry
  <2>5. ~CoreLess(f.core, l.core)
    BY <1>1, <1>2, <1>5, <2>2, <2>3 DEF SortedInput
  <2>6. ~CoreLess(l.core, e.core)
    <3>1. CASE e = l
      BY <2>5, <3>1
    <3>2. CASE e # l
      <4>1. e.ord < l.ord
        BY <1>2, <2>1, <2>2, <2>3, <3>2 DEF HistoryInv
      <4> QED
        BY <1>3, <2>1, <2>3, <4>1 DEF SortedInput
    <3> QED
      BY <3>1, <3>2
  <2>7. l.core = e.core
    BY <2>4, <2>5, <2>6, CoreLessTotal
  <2>8. l \in equal_range(NewEntry.core)
    BY <1>5, <2>2, <2>7 DEF equal_range
  <2>9. About(NewEntry, NewEntry) \in CoreErrors(NewEntry)
    BY <2>8, CoreErrorsNew
  <2> QED
    BY <1>1, <1>5, <2>9 DEF Reported, About
<1> QED
  BY <1>1, <1>4, <1>5
-----------------------------------------------------------------------------
(* A set of entries has at most as many members above an entry as a larger *)
(* finite one.                                                             *)
LEMMA AboveMonotone ==
  ASSUME NEW S, NEW T, S \subseteq T, IsFiniteSet(T), NEW e
  PROVE  /\ Cardinality({g \in S : EntryLess(e, g)}) \in Nat
         /\ Cardinality({g \in T : EntryLess(e, g)}) \in Nat
         /\ Cardinality({g \in S : EntryLess(e, g)})
              <= Cardinality({g \in T : EntryLess(e, g)})
<1> DEFINE A == {g \in S : EntryLess(e, g)}
           B == {g \in T : EntryLess(e, g)}
<1>1. A \subseteq B /\ B \subseteq T
  OBVIOUS
<1>2. IsFiniteSet(B)
  BY <1>1, FS_Subset
<1>3. IsFiniteSet(A) /\ Cardinality(A) <= Cardinality(B)
  BY <1>1, <1>2, FS_Subset
<1>4. Cardinality(A) \in Nat /\ Cardinality(B) \in Nat
  BY <1>2, <1>3, FS_CardinalityType
<1> QED
  BY <1>3, <1>4

(* An entry erased by shrink_to_fit has `capacity' entries above it in the *)
(* cache, hence among all the cores, and their number never decreases.     *)
LEMMA CheckCoreRankedAreCached ==
  CacheTypeOK /\ HistoryInv /\ RankedAreCached /\ CheckCore => RankedAreCached'
<1> SUFFICES ASSUME CacheTypeOK, HistoryInv, RankedAreCached, CheckCore
             PROVE  RankedAreCached'
  OBVIOUS
<1> DEFINE C == cache \cup {NewEntry}
<1>1. fed' = fed \cup {NewEntry} /\ capacity' = capacity /\ capacity \in Nat
  BY CheckCoreEffect DEF CacheTypeOK
<1>2. IsFiniteSet(fed')
  BY <1>1, FS_AddElement DEF RankedAreCached
<1>3. C \subseteq fed'
  BY <1>1 DEF HistoryInv
<1>4. ASSUME NEW e \in fed', Cardinality({g \in fed' : EntryLess(e, g)}) < capacity
      PROVE  e \in cache'
  <2>1. e \in C
    <3>1. CASE e \in fed
      <4>1. fed \subseteq fed'
        BY <1>1
      <4>2. Cardinality({g \in fed : EntryLess(e, g)}) < capacity
        BY <1>1, <1>2, <1>4, <4>1, AboveMonotone
      <4> QED
        BY <3>1, <4>2 DEF RankedAreCached
    <3> QED
      BY <1>1, <3>1
  <2> HIDE DEF C
  <2>2. Cardinality({g \in C : EntryLess(e, g)}) < capacity
    <3> DEFINE a == Cardinality({g \in C : EntryLess(e, g)})
               b == Cardinality({g \in fed' : EntryLess(e, g)})
    <3>1. a \in Nat /\ b \in Nat /\ a <= b
      BY <1>2, <1>3, AboveMonotone
    <3>2. b < capacity
      BY <1>4
    <3> HIDE DEF a, b
    <3>3. a < capacity
      BY <1>1, <3>1, <3>2
    <3> QED
      BY <3>3 DEF a
  <2>3. e \in shrink_to_fit(C)
    BY <2>1, <2>2 DEF shrink_to_fit
  <2>4. cache' = C \/ cache' = shrink_to_fit(C)
    BY DEF CheckCore, C
  <2> QED
    BY <2>1, <2>3, <2>4
<1> QED
  BY <1>1, <1>2, <1>4 DEF RankedAreCached

(* The new core finds an earlier occurrence that is still cached. *)
LEMMA CheckCoreRankedComplete ==
  CacheTypeOK /\ HistoryInv /\ RankedAreCached /\ RankedComplete /\ CheckCore
  => RankedComplete'
<1> SUFFICES ASSUME CacheTypeOK, HistoryInv, RankedAreCached, RankedComplete, CheckCore,
                    NEW e \in fed', NEW f \in fed', e.core = f.core, e.ord < f.ord,
                    unlimited \/ Cardinality({g \in fed' : g.ord < f.ord /\ EntryLess(e, g)}) < capacity
             PROVE  Reported(f)'
  BY CheckCoreEffect DEF RankedComplete, unlimited, Reported
<1> DEFINE above == {g \in fed : g.ord < f.ord /\ EntryLess(e, g)}
<1>1. /\ NewEntry \in Entry /\ NewEntry.ord = count + 1 /\ count \in Nat
      /\ fed' = fed \cup {NewEntry}
      /\ duplicates' = duplicates \cup CoreErrors(NewEntry)
  BY CheckCoreEffect DEF CacheTypeOK
<1>2. \A x \in fed : x.ord \in 1..count
  BY DEF HistoryInv
<1>3. e \in fed
  BY <1>1, <1>2
<1>4. {g \in fed' : g.ord < f.ord /\ EntryLess(e, g)} = above
  BY <1>1, <1>2
<1>5. unlimited \/ Cardinality(above) < capacity
  BY <1>4
<1>6. CASE f \in fed
  BY <1>1, <1>3, <1>5, <1>6 DEF RankedComplete, Reported
<1>7. CASE f = NewEntry
  <2>1. above = {g \in fed : EntryLess(e, g)}
    BY <1>1, <1>2, <1>7
  <2>2. e \in cache
    BY <1>3, <1>5, <2>1 DEF RankedAreCached, HistoryInv
  <2>3. e \in equal_range(NewEntry.core)
    BY <1>7, <2>2 DEF equal_range
  <2>4. About(NewEntry, NewEntry) \in duplicates'
    BY <1>1, <2>3, CoreErrorsNew
  <2>5. About(NewEntry, NewEntry).occ = f.ord
    BY <1>7 DEF About
  <2> QED
    BY <2>4, <2>5 DEF Reported
<1> QED
  BY <1>1, <1>6, <1>7

-----------------------------------------------------------------------------
(* operator< is irreflexive and transitive. *)
LEMMA CoreLessOrder ==
  ASSUME NEW a \in Core, NEW b \in Core, NEW c \in Core
  PROVE  /\ ~CoreLess(a, a)
         /\ CoreLess(a, b) /\ CoreLess(b, c) => CoreLess(a, c)
<1>1. \A x \in Core : x.chromosome \in Nat /\ x.position \in Nat /\ x.allele \in Nat
  BY CacheConstants DEF Core
<1> QED
  BY <1>1 DEF CoreLess

(* The multiset is ordered: one of two of its entries with different       *)
(* arrival numbers comes before the other, and an entry before it comes    *)
(* before all that come after.                                             *)
LEMMA EntryLessOrder ==
  ASSUME NEW e \in Entry, NEW f \in Entry
  PROVE  /\ ~EntryLess(e, e)
         /\ e.ord # f.ord => EntryLess(e, f) \/ EntryLess(f, e)
         /\ \A g \in Entry : EntryLess(e, f) /\ EntryLess(f, g) => EntryLess(e, g)
<1>1. \A x \in Entry : x.core \in Core /\ x.ord \in Nat
  BY DEF Entry
<1>2. ~EntryLess(e, e)
  BY <1>1, CoreLessOrder DEF EntryLess
<1>3. e.ord # f.ord => EntryLess(e, f) \/ EntryLess(f, e)
  BY <1>1, CoreLessTotal DEF EntryLess
<1>4. ASSUME NEW g \in Entry, EntryLess(e, f), EntryLess(f, g)
      PROVE  EntryLess(e, g)
  <2>1. e.core \in Core /\ f.core \in Core /\ g.core \in Core
    BY <1>1
  <2>2. CoreLess(e.core, f.core) /\ CoreLess(f.core, g.core) => CoreLess(e.core, g.core)
    BY <2>1, CoreLessOrder
  <2> QED
    BY <1>1, <1>4, <2>2 DEF EntryLess
<1> QED
  BY <1>2, <1>3, <1>4

(* shrink_to_fit leaves at most `capacity' entries: all that it leaves     *)
(* come after the lowest one it leaves, and those are fewer than           *)
(* `capacity'.                                                             *)
LEMMA ShrinkBounds ==
  ASSUME NEW c \in SUBSET Entry, IsFiniteSet(c), capacity \in Nat, ~unlimited,
         \A e, f \in c : e.ord = f.ord => e = f
  PROVE  Cardinality(shrink_to_fit(c)) <= capacity
<1> DEFINE Above(e) == {f \in c : EntryLess(e, f)}
           S == shrink_to_fit(c)
           Ranks == {Cardinality(Above(e)) : e \in S}
<1>1. S \subseteq c /\ \A e \in S : Cardinality(Above(e)) < capacity
  BY DEF shrink_to_fit
<1>2. \A e \in c : IsFiniteSet(Above(e)) /\ Cardinality(Above(e)) \in Nat
  <2>1. \A e \in c : Above(e) \in SUBSET c
    OBVIOUS
  <2> QED
    BY <2>1, FS_Subset, FS_CardinalityType
<1>3. CASE S = {}
  BY <1>3, FS_EmptySet
<1>4. CASE S # {}
  <2>1. Ranks \subseteq Nat /\ Ranks # {} /\ \A r \in Ranks : r <= capacity
    <3>1. PICK e \in S : TRUE
      BY <1>4
    <3>2. Cardinality(Above(e)) \in Ranks
      OBVIOUS
    <3>3. ASSUME NEW r \in Ranks PROVE r \in Nat /\ r <= capacity
      <4>1. PICK x \in S : r = Cardinality(Above(x))
        OBVIOUS
      <4>2. x \in c /\ r < capacity
        BY <1>1, <4>1
      <4>3. r \in Nat
        BY <1>2, <4>1, <4>2
      <4> HIDE DEF Above, S, Ranks
      <4> QED
        BY <4>2, <4>3
    <3> QED
      BY <3>2, <3>3
  <2>2. PICK r \in Ranks : \A q \in Ranks : q <= r
    BY <2>1, GreatestNat
  <2>3. PICK m \in S : r = Cardinality(Above(m))
    OBVIOUS
  <2>4. \A e \in S : Cardinality(Above(e)) <= Cardinality(Above(m))
    BY <2>2, <2>3
  <2>5. m \in c /\ m \in Entry /\ m \notin Above(m)
    BY <1>1, EntryLessOrder
  <2>6. ASSUME NEW e \in S, e # m
        PROVE  e \in Above(m)
    <3>1. e \in c /\ e \in Entry /\ e.ord # m.ord
      BY <1>1, <2>5, <2>6
    <3>2. CASE EntryLess(e, m)
      <4>1. Above(m) \cup {m} \in SUBSET Above(e)
        <5>1. m \in Above(e)
          BY <2>5, <3>2
        <5>2. ASSUME NEW g \in Above(m) PROVE g \in Above(e)
          BY <2>5, <3>1, <3>2, EntryLessOrder
        <5> QED
          BY <5>1, <5>2
      <4>2. Cardinality(Above(m) \cup {m}) = Cardinality(Above(m)) + 1
        BY <1>2, <2>5, FS_AddElement
      <4>3. Cardinality(Above(m) \cup {m}) <= Cardinality(Above(e))
        BY <1>2, <3>1, <4>1, FS_Subset
      <4>4. Cardinality(Above(e)) <= Cardinality(Above(m))
        BY <2>4
      <4>5. Cardinality(Above(e)) \in Nat /\ Cardinality(Above(m)) \in Nat
        BY <1>2, <2>5, <3>1
      <4> HIDE DEF Above
      <4> QED
        BY <4>2, <4>3, <4>4, <4>5
    <3>3. CASE EntryLess(m, e)
      BY <3>1, <3>3
    <3> QED
      BY <2>5, <3>1, <3>2, <3>3, EntryLessOrder
  <2>7. S \in SUBSET (Above(m) \cup {m})
    BY <2>6
  <2>8. /\ IsFiniteSet(Above(m) \cup {m})
        /\ Cardinality(Above(m) \cup {m}) = Cardinality(Above(m)) + 1
    BY <1>2, <2>5, FS_AddElement
  <2>9. /\ IsFiniteSet(S)
        /\ Cardinality(S) <= Cardinality(Above(m) \cup {m})
    BY <2>7, <2>8, FS_Subset
  <2>10. Cardinality(Above(m)) < capacity /\ Cardinality(Above(m)) \in Nat
    BY <1>1, <1>2, <2>5
  <2>11. Cardinality(S) \in Nat
    BY <2>9, FS_CardinalityType
  <2> HIDE DEF Above, S
  <2>12. Cardinality(S) <= capacity
    BY <2>8, <2>9, <2>10, <2>11
  <2> QED
    BY <2>12 DEF S
<1> QED
  BY <1>3, <1>4

(* The last iteration of the loop is followed by shrink_to_fit. *)
LEMMA CheckCoreBounded ==
  CacheTypeOK /\ HistoryInv /\ RankedAreCached /\ CheckCore => CacheBounded'
<1> SUFFICES ASSUME CacheTypeOK, HistoryInv, RankedAreCached, CheckCore,
                    todo' = << >>, ~unlimited
             PROVE  Cardinality(cache') <= capacity
  BY CheckCoreEffect DEF CacheBounded, unlimited
<1> DEFINE C == cache \cup {NewEntry}
<1>1. cache' = shrink_to_fit(C)
  BY DEF CheckCore
<1>2. fed' = fed \cup {NewEntry} /\ NewEntry \in Entry
  BY CheckCoreEffect
<1>3. IsFiniteSet(fed')
  BY <1>2, FS_AddElement DEF RankedAreCached
<1>4. C \in SUBSET fed' /\ C \in SUBSET Entry
  BY <1>2 DEF HistoryInv, CacheTypeOK
<1>5. IsFiniteSet(C)
  BY <1>3, <1>4, FS_Subset
<1>6. \A e, f \in C : e.ord = f.ord => e = f
  BY <1>4, CheckCoreHistoryInv DEF HistoryInv
<1>7. capacity \in Nat
  BY DEF CacheTypeOK
<1> HIDE DEF C
<1> QED
  BY <1>1, <1>4, <1>5, <1>6, <1>7, ShrinkBounds

(* One iteration of the loop of check_duplicates keeps the invariant. *)
LEMMA CheckCoreCacheInv == CacheInv /\ CheckCore => CacheInv'
  BY CheckCoreTypeOK, CheckCoreHistoryInv, CheckCoreNoFalseDuplicates,
     CheckCoreEachOccurrenceOnce, CheckCoreLastIsCached, CheckCoreSortedComplete,
     CheckCoreRankedAreCached, CheckCoreRankedComplete, CheckCoreBounded
     DEF CacheInv
-----------------------------------------------------------------------------
(***************************************************************************)
(* CacheInv is an invariant of the cache: check_duplicates preserves it    *)
(* one core at a time.                                                     *)
(***************************************************************************)
THEOREM CacheInvariant == CacheSpec => []CacheInv
<1>1. CacheInv /\ [CacheNext]_cacheVars => CacheInv'
  <2> SUFFICES ASSUME CacheInv, [CacheNext]_cacheVars PROVE CacheInv'
    OBVIOUS
  <2>1. CASE NewRecord
    <3>1. line + 1 \in Nat
      BY DEF CacheInv, CacheTypeOK
    <3> QED
      BY <2>1, <3>1, CheckDuplicatesCacheInv DEF NewRecord
  <2>2. CASE CheckCore
    BY <2>2, CheckCoreCacheInv
  <2>3. CASE UNCHANGED cacheVars
    BY <2>3, StutterCacheInv
  <2> QED
    BY <2>1, <2>2, <2>3 DEF CacheNext
<1> QED
  BY <1>1, InitCacheInv, PTL DEF CacheSpec

(* Type correctness of the cache (record_cache.hpp). *)
THEOREM CacheTypeCorrect == CacheSpec => []CacheTypeOK
<1>1. CacheInv => CacheTypeOK
  BY DEF CacheInv
<1> QED
  BY <1>1, CacheInvariant, PTL

(* check_duplicates never reports a variant that occurs once, whatever the *)
(* capacity.                                                               *)
THEOREM NoFalseAlarm == CacheSpec => []NoFalseDuplicates
<1>1. CacheInv => NoFalseDuplicates
  BY DEF CacheInv
<1> QED
  BY <1>1, CacheInvariant, PTL

(* An unlimited cache reports every occurrence of a repeated variant, each *)
(* exactly once: what the comment of check_duplicates promises.            *)
THEOREM UnlimitedExact == CacheSpec => []EachOccurrenceOnce
<1>1. CacheInv => EachOccurrenceOnce
  BY DEF CacheInv
<1> QED
  BY <1>1, CacheInvariant, PTL

(* On input sorted by RecordCore::operator<, a cache of any capacity       *)
(* reports every repetition.                                               *)
THEOREM SortedInputComplete == CacheSpec => []SortedComplete
<1>1. CacheInv => SortedComplete
  BY DEF CacheInv
<1> QED
  BY <1>1, CacheInvariant, PTL

(* A limited cache reports a repetition as long as fewer than `capacity'   *)
(* cores rank above its earlier occurrence, in whatever order they came.   *)
THEOREM RankedInputComplete == CacheSpec => []RankedComplete
<1>1. CacheInv => RankedComplete
  BY DEF CacheInv
<1> QED
  BY <1>1, CacheInvariant, PTL

(* Between two records the cache never holds more than `capacity' cores,   *)
(* however many cores a record brought: shrink_to_fit erases enough.       *)
THEOREM CacheIsBounded == CacheSpec => []CacheBounded
<1>1. CacheInv => CacheBounded
  BY DEF CacheInv
<1> QED
  BY <1>1, CacheInvariant, PTL
=============================================================================
