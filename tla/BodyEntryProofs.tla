-------------------------- MODULE BodyEntryProofs --------------------------
(***************************************************************************)
(* What the handling of a body line guarantees as a whole, for every set   *)
(* of records and a body section of any length: its parts keep the         *)
(* invariants they were shown to have alone, and only accepted records     *)
(* reach the cache.  HandledInv says what is found about a line as it      *)
(* ends, PlaceInv that what the cache was handed belongs to the record of  *)
(* its line and that records are accepted in the order of their lines:     *)
(* each lost record has its error, each record its warnings, and a plain   *)
(* file the errors of all its duplicates.                                  *)
(*                                                                         *)
(* The first part is about check_sorted alone: it implements OrderedLog,   *)
(* for every set of contigs and positions.                                 *)
(***************************************************************************)
EXTENDS BodyEntry, RecordCacheProofs

(***************************************************************************)
(* The order of the records.                                               *)
(***************************************************************************)

(* The inductive invariant: the bookkeeping means what it should, and the  *)
(* accepted records are in order.  The order of the log is needed to see   *)
(* that comparing with the last record is enough.                          *)
OrderInv ==
  /\ OrderTypeOK
  /\ MapMeaning
  /\ Log!GroupedByContig(accepted)
  /\ Log!AscendingInContig(accepted)
-----------------------------------------------------------------------------
(* What Append does to a sequence, index by index. *)
LEMMA AppendIndex ==
  ASSUME NEW S, NEW s \in Seq(S), NEW r \in S
  PROVE  /\ Append(s, r) \in Seq(S)
         /\ Len(s) \in Nat
         /\ Len(Append(s, r)) = Len(s) + 1
         /\ \A i \in 1..Len(s) : Append(s, r)[i] = s[i]
         /\ Append(s, r)[Len(s) + 1] = r
         /\ s # << >> <=> Len(s) > 0
  OBVIOUS

(* A sequence with an index is not empty. *)
LEMMA IndexedNotEmpty ==
  ASSUME NEW n \in Nat, NEW m \in 1..n
  PROVE  n > 0
  OBVIOUS

(* Positions are numbers. *)
LEMMA LocatedPosition ==
  ASSUME NEW r \in Log!Located
  PROVE  r.position \in Nat
  BY OrderConstants DEF Log!Located

(* A record of a contig that the log does not have extends it. *)
LEMMA AppendNewContig ==
  ASSUME NEW s \in Seq(Log!Located), NEW r \in Log!Located,
         Log!GroupedByContig(s), Log!AscendingInContig(s),
         \A i \in 1..Len(s) : s[i].contig # r.contig
  PROVE  Log!GroupedByContig(Append(s, r)) /\ Log!AscendingInContig(Append(s, r))
<1> DEFINE t == Append(s, r)
<1>1. /\ Len(s) \in Nat /\ Len(t) = Len(s) + 1 /\ t[Len(s) + 1] = r
      /\ \A i \in 1..Len(s) : t[i] = s[i]
  BY AppendIndex
<1> HIDE DEF t
<1>2. ASSUME NEW i \in 1..Len(t), NEW k \in 1..Len(t), NEW j \in i..k,
             t[i].contig = t[k].contig
      PROVE  t[j].contig = t[i].contig
  <2>1. CASE k \in 1..Len(s)
    <3>1. i \in 1..Len(s) /\ j \in 1..Len(s)
      BY <1>1, <2>1
    <3> QED
      BY <1>1, <1>2, <2>1, <3>1 DEF Log!GroupedByContig
  <2>2. CASE k = Len(s) + 1
    <3>1. i = Len(s) + 1
      BY <1>1, <1>2, <2>2
    <3>2. j = i
      BY <1>1, <2>2, <3>1
    <3> QED
      BY <3>2
  <2> QED
    BY <1>1, <2>1, <2>2
<1>3. ASSUME NEW i \in 1..Len(t), NEW k \in 1..Len(t), i < k,
             t[i].contig = t[k].contig
      PROVE  t[i].position <= t[k].position
  <2>1. i \in 1..Len(s)
    BY <1>1, <1>3
  <2>2. k \in 1..Len(s)
    BY <1>1, <1>3, <2>1
  <2> QED
    BY <1>1, <1>3, <2>1, <2>2 DEF Log!AscendingInContig
<1> QED
  BY <1>2, <1>3 DEF Log!GroupedByContig, Log!AscendingInContig, t

(* A record of a contig that is in the log, but not at its end, breaks the *)
(* block of that contig.                                                   *)
LEMMA AppendFinishedContig ==
  ASSUME NEW s \in Seq(Log!Located), NEW r \in Log!Located,
         NEW m \in 1..Len(s), s[m].contig = r.contig,
         s[Len(s)].contig # r.contig
  PROVE  ~Log!GroupedByContig(Append(s, r))
<1> DEFINE t == Append(s, r)
           n == Len(s)
<1>1. /\ n \in Nat /\ Len(t) = n + 1 /\ t[n + 1] = r
      /\ \A i \in 1..n : t[i] = s[i]
  BY AppendIndex
<1> HIDE DEF t, n
<1>2. m \in 1..Len(t) /\ n + 1 \in 1..Len(t) /\ n \in m..(n + 1) /\ n \in 1..n /\ m \in 1..n
  BY <1>1 DEF n
<1>3. t[m].contig = t[n + 1].contig /\ t[n].contig # t[m].contig
  BY <1>1, <1>2 DEF n
<1> QED
  BY <1>2, <1>3 DEF Log!GroupedByContig, t

(* A record of the contig at the end of the log keeps the blocks, and the  *)
(* comparison with the last record decides whether positions still ascend. *)
LEMMA AppendSameContig ==
  ASSUME NEW s \in Seq(Log!Located), NEW r \in Log!Located, Len(s) > 0,
         Log!GroupedByContig(s), Log!AscendingInContig(s),
         s[Len(s)].contig = r.contig
  PROVE  /\ Log!GroupedByContig(Append(s, r))
         /\ Log!AscendingInContig(Append(s, r)) <=> ~(r.position < s[Len(s)].position)
<1> DEFINE t == Append(s, r)
           n == Len(s)
<1>1. /\ n \in Nat /\ Len(t) = n + 1 /\ t[n + 1] = r
      /\ \A i \in 1..n : t[i] = s[i]
  BY AppendIndex
<1>2. n \in 1..n
  BY <1>1
<1>3. \A i \in 1..n : s[i].position \in Nat
  <2>1. \A i \in 1..n : s[i] \in Log!Located
    OBVIOUS
  <2> QED
    BY <2>1, LocatedPosition
<1>4. r.position \in Nat
  BY LocatedPosition
<1>5. s[n].contig = r.contig
  OBVIOUS
<1>6. \A i, k \in 1..n : \A j \in i..k : s[i].contig = s[k].contig => s[j].contig = s[i].contig
  BY DEF Log!GroupedByContig
<1>7. \A i, k \in 1..n : i < k /\ s[i].contig = s[k].contig => s[i].position <= s[k].position
  BY DEF Log!AscendingInContig
<1> HIDE DEF t, n
<1>8. ASSUME NEW i \in 1..Len(t), NEW k \in 1..Len(t), NEW j \in i..k,
             t[i].contig = t[k].contig
      PROVE  t[j].contig = t[i].contig
  <2>1. CASE k \in 1..n
    <3>1. i \in 1..n /\ j \in 1..n
      BY <1>1, <2>1
    <3> QED
      BY <1>1, <1>6, <1>8, <2>1, <3>1
  <2>2. CASE k = n + 1 /\ j = n + 1
    BY <1>8, <2>2
  <2>3. CASE k = n + 1 /\ j \in 1..n
    <3>1. i \in 1..n /\ j \in i..n
      BY <1>1, <2>3
    <3>2. s[i].contig = s[n].contig
      BY <1>1, <1>5, <1>8, <2>3, <3>1
    <3> QED
      BY <1>1, <1>2, <1>6, <2>3, <3>1, <3>2
  <2> QED
    BY <1>1, <2>1, <2>2, <2>3
<1>9. ASSUME ~(r.position < s[n].position),
             NEW i \in 1..Len(t), NEW k \in 1..Len(t), i < k,
             t[i].contig = t[k].contig
      PROVE  t[i].position <= t[k].position
  <2>1. i \in 1..n
    BY <1>1, <1>9
  <2>2. CASE k \in 1..n
    BY <1>1, <1>7, <1>9, <2>1, <2>2
  <2>3. CASE k = n + 1
    <3>1. s[i].contig = s[n].contig
      BY <1>1, <1>5, <1>9, <2>1, <2>3
    <3>2. s[i].position <= s[n].position
      BY <1>1, <1>2, <1>3, <1>7, <2>1, <3>1
    <3> QED
      BY <1>1, <1>2, <1>3, <1>4, <1>9, <2>1, <2>3, <3>2
  <2> QED
    BY <1>1, <2>2, <2>3
<1>10. ASSUME r.position < s[n].position
       PROVE  \E i, k \in 1..Len(t) : /\ i < k /\ t[i].contig = t[k].contig
                                      /\ ~(t[i].position <= t[k].position)
  <2>1. n \in 1..Len(t) /\ n + 1 \in 1..Len(t) /\ n < n + 1
    BY <1>1, <1>2
  <2>2. t[n] = s[n] /\ t[n + 1] = r
    BY <1>1, <1>2
  <2>3. ~(t[n].position <= t[n + 1].position)
    BY <1>2, <1>3, <1>4, <1>10, <2>2
  <2> QED
    BY <1>5, <2>1, <2>2, <2>3
<1>11. Log!GroupedByContig(t)
  BY <1>8 DEF Log!GroupedByContig
<1>12. Log!AscendingInContig(t) <=> ~(r.position < s[n].position)
  BY <1>9, <1>10 DEF Log!AscendingInContig
<1> QED
  BY <1>11, <1>12 DEF t, n
-----------------------------------------------------------------------------
(* The three outcomes of check_sorted, on the states of the invariant: the *)
(* Boolean read through end() makes no difference.                         *)
LEMMA CheckSortedCases ==
  ASSUME OrderTypeOK, NEW r \in Log!Located, check_sorted(r)
  PROVE  \/ /\ r.contig \notin found
            /\ finished_contigs' = StartContig(r.contig)
            /\ previous_contig' = r.contig
            /\ Passes(r)
         \/ /\ r.contig \in found /\ finished_contigs[r.contig]
            /\ Throws(r, "not contiguous")
            /\ UNCHANGED <<finished_contigs, previous_contig, previous_position>>
         \/ /\ r.contig \in found /\ ~finished_contigs[r.contig]
            /\ r.position < previous_position
            /\ Throws(r, "not sorted by position")
            /\ UNCHANGED <<finished_contigs, previous_contig, previous_position>>
         \/ /\ r.contig \in found /\ ~finished_contigs[r.contig]
            /\ ~(r.position < previous_position)
            /\ Passes(r)
            /\ UNCHANGED <<finished_contigs, previous_contig>>
<1>1. ~(r.position < 0)
  BY LocatedPosition
<1>2. CheckPosition(r, 0) => Passes(r)
  BY <1>1 DEF CheckPosition
<1>3. CASE r.contig \notin found
  <2>1. /\ finished_contigs' = StartContig(r.contig)
        /\ previous_contig' = r.contig
        /\ CheckPosition(r, 0)
    BY <1>3, Zenon DEF check_sorted
  <2> QED
    BY <1>2, <1>3, <2>1
<1>4. CASE r.contig \in found
  <2>1. \/ /\ finished_contigs[r.contig]
           /\ Throws(r, "not contiguous")
           /\ UNCHANGED <<finished_contigs, previous_contig, previous_position>>
        \/ /\ ~finished_contigs[r.contig]
           /\ CheckPosition(r, previous_position)
           /\ UNCHANGED <<finished_contigs, previous_contig>>
    BY <1>4, Zenon DEF check_sorted
  <2> QED
    BY <1>4, <2>1 DEF CheckPosition
<1> QED
  BY <1>3, <1>4

(* A record of a contig not found in the map is accepted. *)
LEMMA StepNewContig ==
  ASSUME OrderInv, NEW r \in Log!Located, r.contig \notin found,
         finished_contigs' = StartContig(r.contig),
         previous_contig' = r.contig, Passes(r)
  PROVE  Log!Accept(r) /\ OrderInv'
<1> DEFINE n == Len(accepted)
<1>1. /\ previous_position' = r.position
      /\ accepted' = Append(accepted, r)
      /\ refused' = refused
      /\ r.contig \in Contigs /\ r.position \in Nat
  BY OrderConstants DEF Passes, Log!Located
<1>2. /\ accepted \in Seq(Log!Located)
      /\ found = {accepted[i].contig : i \in 1..n}
  BY DEF OrderInv, OrderTypeOK, MapMeaning
<1>3. /\ accepted' \in Seq(Log!Located)
      /\ n \in Nat /\ Len(accepted') = n + 1 /\ accepted'[n + 1] = r
      /\ \A i \in 1..n : accepted'[i] = accepted[i]
  BY <1>1, <1>2, AppendIndex
<1>4. Log!GroupedByContig(accepted') /\ Log!AscendingInContig(accepted')
  BY <1>1, <1>2, AppendNewContig DEF OrderInv
<1>5. found' = found \cup {r.contig}
  BY DEF found, StartContig
<1>6. OrderTypeOK'
  <2>1. finished_contigs' \in [found' -> BOOLEAN]
    BY <1>5 DEF OrderInv, OrderTypeOK, StartContig
  <2> QED
    BY <1>1, <1>3, <1>5, <2>1 DEF OrderInv, OrderTypeOK
<1>7. MapMeaning'
  <2>1. found' = {accepted'[i].contig : i \in 1..Len(accepted')}
    <3>1. \A i \in 1..(n + 1) : i \in 1..n \/ i = n + 1
      BY <1>3
    <3>2. \A i \in 1..n : i \in 1..(n + 1)
      BY <1>3
    <3>3. n + 1 \in 1..(n + 1)
      BY <1>3
    <3> QED
      BY <1>2, <1>3, <1>5, <3>1, <3>2, <3>3
  <2>2. \A c \in found' : finished_contigs'[c] <=> c # previous_contig'
    <3>1. \A c \in found : finished_contigs[c] <=> c # previous_contig
      BY DEF OrderInv, MapMeaning
    <3> QED
      BY <1>5, <3>1 DEF StartContig
  <2> QED
    BY <1>1, <1>3, <2>1, <2>2 DEF MapMeaning
<1> QED
  BY <1>1, <1>4, <1>6, <1>7 DEF OrderInv, Log!Accept

(* A record that extends the contig of the last one is accepted. *)
LEMMA StepSameContig ==
  ASSUME OrderInv, NEW r \in Log!Located,
         r.contig \in found, ~finished_contigs[r.contig],
         ~(r.position < previous_position),
         UNCHANGED <<finished_contigs, previous_contig>>, Passes(r)
  PROVE  Log!Accept(r) /\ OrderInv'
<1> DEFINE n == Len(accepted)
<1>1. /\ previous_position' = r.position
      /\ accepted' = Append(accepted, r)
      /\ refused' = refused
      /\ r.position \in Nat
  BY LocatedPosition DEF Passes
<1>2. /\ accepted \in Seq(Log!Located)
      /\ found = {accepted[i].contig : i \in 1..n}
      /\ r.contig = previous_contig
  BY DEF OrderInv, OrderTypeOK, MapMeaning
<1>3. /\ accepted' \in Seq(Log!Located)
      /\ n \in Nat /\ Len(accepted') = n + 1 /\ accepted'[n + 1] = r
      /\ \A i \in 1..n : accepted'[i] = accepted[i]
      /\ accepted # << >> <=> n > 0
  BY <1>1, <1>2, AppendIndex
<1>4. n > 0
  BY <1>2, <1>3
<1>5. accepted[n].contig = r.contig /\ accepted[n].position = previous_position
  BY <1>2, <1>3, <1>4 DEF OrderInv, MapMeaning
<1>6. Log!GroupedByContig(accepted') /\ Log!AscendingInContig(accepted')
  BY <1>1, <1>2, <1>4, <1>5, AppendSameContig DEF OrderInv
<1>7. found' = found
  BY DEF found
<1>8. OrderTypeOK'
  BY <1>1, <1>3, <1>7 DEF OrderInv, OrderTypeOK
<1>9. MapMeaning'
  <2>1. found' = {accepted'[i].contig : i \in 1..Len(accepted')}
    <3>1. \A i \in 1..(n + 1) : i \in 1..n \/ i = n + 1
      BY <1>3
    <3>2. \A i \in 1..n : i \in 1..(n + 1)
      BY <1>3
    <3> QED
      BY <1>2, <1>3, <1>7, <3>1, <3>2
  <2>2. \A c \in found' : finished_contigs'[c] <=> c # previous_contig'
    BY <1>7 DEF OrderInv, MapMeaning
  <2> QED
    BY <1>1, <1>2, <1>3, <2>1, <2>2 DEF MapMeaning
<1> QED
  BY <1>1, <1>6, <1>8, <1>9 DEF OrderInv, Log!Accept

(* A record of a finished contig is refused for being out of its block,    *)
(* one below the last position for that, and neither leaves a trace.       *)
LEMMA StepRefused ==
  ASSUME OrderInv, NEW r \in Log!Located, NEW why, r.contig \in found,
         \/ why = "not contiguous" /\ finished_contigs[r.contig]
         \/ /\ why = "not sorted by position"
            /\ ~finished_contigs[r.contig] /\ r.position < previous_position,
         UNCHANGED <<finished_contigs, previous_contig, previous_position>>,
         Throws(r, why)
  PROVE  Log!Refuse(r, why) /\ OrderInv'
<1> DEFINE n == Len(accepted)
<1>1. /\ accepted' = accepted
      /\ refused' = Append(refused, [record |-> r, why |-> why])
  BY DEF Throws
<1>2. /\ accepted \in Seq(Log!Located)
      /\ found = {accepted[i].contig : i \in 1..n}
      /\ finished_contigs[r.contig] <=> r.contig # previous_contig
  BY DEF OrderInv, OrderTypeOK, MapMeaning
<1>3. PICK m \in 1..n : accepted[m].contig = r.contig
  BY <1>2
<1>4. n \in Nat /\ n > 0 /\ accepted # << >>
  <2>1. n \in Nat /\ (accepted # << >> <=> n > 0)
    BY <1>2, AppendIndex
  <2>2. n > 0
    BY <1>3, <2>1, IndexedNotEmpty
  <2> QED
    BY <2>1, <2>2, Zenon
<1>5. accepted[n].contig = previous_contig /\ accepted[n].position = previous_position
  BY <1>4 DEF OrderInv, MapMeaning
<1>6. ~Log!GroupedByContig(Append(accepted, r)) \/ why # "not contiguous"
  <2>1. CASE why = "not contiguous"
    BY <1>2, <1>3, <1>5, <2>1, AppendFinishedContig
  <2> QED
    BY <2>1
<1>7. ASSUME why = "not sorted by position", ~finished_contigs[r.contig],
             r.position < previous_position
      PROVE  /\ Log!GroupedByContig(Append(accepted, r))
             /\ ~Log!AscendingInContig(Append(accepted, r))
  BY <1>2, <1>4, <1>5, <1>7, AppendSameContig DEF OrderInv
<1>8. Log!Refuse(r, why)
  BY <1>1, <1>6, <1>7 DEF Log!Refuse
<1>9. refused' \in Seq([record : Log!Located, why : Log!Reasons])
  <2>1. [record |-> r, why |-> why] \in [record : Log!Located, why : Log!Reasons]
    BY DEF Log!Reasons
  <2>2. refused \in Seq([record : Log!Located, why : Log!Reasons])
    BY DEF OrderInv, OrderTypeOK
  <2> QED
    BY <1>1, <2>1, <2>2, AppendIndex
<1>10. OrderTypeOK' /\ MapMeaning'
  BY <1>1, <1>9 DEF OrderInv, OrderTypeOK, MapMeaning, found
<1> QED
  BY <1>1, <1>8, <1>10 DEF OrderInv
-----------------------------------------------------------------------------
(* Every call of check_sorted is a step of OrderedLog. *)
LEMMA CheckSortedStep ==
  ASSUME OrderInv, NEW r \in Log!Located, check_sorted(r)
  PROVE  Log!LogNext /\ OrderInv'
<1>1. OrderTypeOK
  BY DEF OrderInv
<1>2. (Log!Accept(r) \/ \E why \in Log!Reasons : Log!Refuse(r, why)) /\ OrderInv'
  BY <1>1, CheckSortedCases, StepNewContig, StepSameContig, StepRefused DEF Log!Reasons
<1> QED
  BY <1>2 DEF Log!LogNext

(* The invariant holds before the first record. *)
LEMMA OrderInvInit == OrderInit => OrderInv /\ Log!LogInit
<1> SUFFICES ASSUME OrderInit
             PROVE  OrderInv /\ Log!LogInit
  OBVIOUS
<1>1. accepted = << >> /\ refused = << >> /\ found = {}
  BY DEF OrderInit, found
<1>2. Len(accepted) = 0 /\ 1..Len(accepted) = {}
  BY <1>1
<1>3. OrderTypeOK
  <2>1. finished_contigs \in [found -> BOOLEAN]
    BY <1>1 DEF OrderInit
  <2> QED
    BY <1>1, <2>1, OrderConstants DEF OrderInit, OrderTypeOK
<1>4. MapMeaning
  BY <1>1, <1>2 DEF MapMeaning
<1>5. Log!GroupedByContig(accepted) /\ Log!AscendingInContig(accepted)
  BY <1>2 DEF Log!GroupedByContig, Log!AscendingInContig
<1> QED
  BY <1>1, <1>3, <1>4, <1>5 DEF OrderInv, Log!LogInit

(* A step that leaves the variables of check_sorted alone changes nothing. *)
LEMMA OrderInvStutter == OrderInv /\ UNCHANGED orderVars => OrderInv'
  BY DEF orderVars, OrderInv, OrderTypeOK, MapMeaning, found,
         Log!GroupedByContig, Log!AscendingInContig

(***************************************************************************)
(* The map, the previous contig and the previous position always mean what *)
(* parse_policy.hpp says, and the accepted records are in order.           *)
(***************************************************************************)
THEOREM OrderInvariant == OrderSpec => []OrderInv
<1>1. OrderInv /\ [OrderNext]_orderVars => OrderInv'
  BY CheckSortedStep, OrderInvStutter DEF OrderNext
<1> QED
  BY <1>1, OrderInvInit, PTL DEF OrderSpec

(* check_sorted implements the ordered log. *)
THEOREM OrderRefinement == OrderSpec => ImplementsOrderedLog
<1>1. OrderInv /\ [OrderNext]_orderVars => [Log!LogNext]_(Log!logVars)
  <2>1. ASSUME OrderInv, OrderNext
        PROVE  Log!LogNext
    BY <2>1, CheckSortedStep DEF OrderNext
  <2>2. UNCHANGED orderVars => UNCHANGED Log!logVars
    BY DEF orderVars, Log!logVars
  <2> QED
    BY <2>1, <2>2
<1> QED
  BY <1>1, OrderInvInit, OrderInvariant, PTL DEF OrderSpec, ImplementsOrderedLog, Log!LogSpec
-----------------------------------------------------------------------------
(***************************************************************************)
(* A line of the body section.                                             *)
(***************************************************************************)

(* Lines are numbered by the records read, and everything the cache has    *)
(* ever been handed came from an accepted line.                            *)
LinesInv ==
  /\ outcome \in Seq([record : BodyRecords, verdict : Verdicts])
  /\ \A e \in fed : e.line \in AcceptedLines
  /\ todo # << >> => line \in AcceptedLines

BodyInv == OrderInv /\ CacheInv /\ LinesInv

(* Whether one of the findings is about a line. *)
Names(findings, n) == \E x \in findings : x.line = n

(* Findings are about lines that have ended, and the line whose record is  *)
(* still being checked was accepted and has no finding yet.                *)
HandledInv ==
  /\ phase \in {"idle", "duplicates", "optional", "escaped"}
  /\ defined_metadata \subseteq Described
  /\ errors \subseteq [line : 1..n_lines, what : {"record", "order"}]
  /\ warnings \subseteq [line : 1..n_lines, what : MetaKeys \cup {"record"}]
  /\ phase \in {"duplicates", "optional"} =>
       n_lines \in AcceptedLines /\ ~Names(errors, n_lines) /\ ~Names(warnings, n_lines)
  /\ ErrorPerLostRecord
  /\ WarnedWhenDue

(* The accepted lines are, in this order, the accepted records of          *)
(* check_sorted, and the cache is handed their cores line by line.         *)
PlaceInv ==
  /\ line <= n_lines
  /\ \A e \in fed : e.line <= line /\ e.core.chromosome = outcome[e.line].record.contig
  /\ \A e, f \in fed : e.ord < f.ord => e.line <= f.line
  /\ \A i \in 1..Len(todo) : todo[i].chromosome = outcome[line].record.contig
  /\ \A n \in AcceptedLines :
       \E i \in 1..Len(accepted) : accepted[i] = Place(outcome[n].record)
  /\ \A m, n \in AcceptedLines : m < n =>
       \E i, k \in 1..Len(accepted) : /\ i < k
                                      /\ accepted[i] = Place(outcome[m].record)
                                      /\ accepted[k] = Place(outcome[n].record)
-----------------------------------------------------------------------------
(* The constants of a record that the checks use. *)
LEMMA BodyRecordParts ==
  ASSUME NEW r \in BodyRecords
  PROVE  Place(r) \in Log!Located /\ r.cores \in RecordCores
  BY BodyConstants DEF BodyRecord, Place, Log!Located

(* One more record on the list: the lines accepted before stay accepted,   *)
(* and the new line is when it was.                                        *)
LEMMA EndedLines ==
  ASSUME outcome \in Seq([record : BodyRecords, verdict : Verdicts]),
         NEW r \in BodyRecords, NEW v \in Verdicts, Ended(r, v)
  PROVE  /\ outcome' \in Seq([record : BodyRecords, verdict : Verdicts])
         /\ AcceptedLines \subseteq AcceptedLines'
         /\ AcceptedLines' = AcceptedLines \cup (IF v = "accepted" THEN {n_lines + 1} ELSE {})
         /\ v = "accepted" => n_lines + 1 \in AcceptedLines'
         /\ n_lines \in Nat /\ n_lines + 1 \in Nat /\ n_lines' = n_lines + 1
         /\ \A i \in 1..n_lines : outcome'[i] = outcome[i]
         /\ outcome'[n_lines + 1].record = r /\ outcome'[n_lines + 1].verdict = v
<1> DEFINE S == [record : BodyRecords, verdict : Verdicts]
           x == [record |-> r, verdict |-> v]
           n == Len(outcome)
<1>1. x \in S /\ outcome' = Append(outcome, x)
  BY DEF Ended
<1>2. /\ outcome' \in Seq(S) /\ n \in Nat /\ Len(outcome') = n + 1
      /\ \A i \in 1..n : outcome'[i] = outcome[i]
      /\ outcome'[n + 1] = x
  BY <1>1, AppendIndex
<1>3. AcceptedLines' = {i \in 1..(n + 1) : outcome'[i].verdict = "accepted"}
  BY <1>2 DEF AcceptedLines, n_lines
<1>4. AcceptedLines = {i \in 1..n : outcome[i].verdict = "accepted"}
  BY DEF AcceptedLines, n_lines
<1>5. n \in Nat /\ n_lines = n /\ x.verdict = v /\ x.record = r
  BY <1>2 DEF n_lines
<1> HIDE DEF n
<1>6. \A i \in 1..n : i \in 1..(n + 1)
  BY <1>5
<1>7. AcceptedLines \subseteq AcceptedLines'
  BY <1>2, <1>3, <1>4, <1>6
<1>8. v = "accepted" => n_lines + 1 \in AcceptedLines'
  BY <1>2, <1>3, <1>5
<1>9. AcceptedLines' = AcceptedLines \cup (IF v = "accepted" THEN {n_lines + 1} ELSE {})
  <2>1. ASSUME NEW i \in AcceptedLines', i # n + 1 PROVE i \in AcceptedLines
    BY <1>2, <1>3, <1>4, <1>5, <2>1
  <2>2. n + 1 \in AcceptedLines' => v = "accepted"
    BY <1>2, <1>3, <1>5
  <2> QED
    BY <1>5, <1>7, <1>8, <2>1, <2>2
<1>10. n_lines' = n_lines + 1
  BY <1>2, <1>5 DEF n_lines
<1>11. outcome'[n_lines + 1].record = r /\ outcome'[n_lines + 1].verdict = v
  BY <1>2, <1>5
<1> QED
  BY <1>2, <1>5, <1>7, <1>8, <1>9, <1>10, <1>11

(* Before the first record. *)
LEMMA BodyInvInit == BodyInit => BodyInv /\ Log!LogInit
<1> SUFFICES ASSUME BodyInit PROVE BodyInv /\ Log!LogInit
  OBVIOUS
<1>1. CacheInv /\ OrderInv /\ Log!LogInit
  BY InitCacheInv, OrderInvInit DEF BodyInit
<1>2. LinesInv
  BY DEF BodyInit, CacheInit, LinesInv
<1> QED
  BY <1>1, <1>2 DEF BodyInv

(* A record that is not looked at further: none was built. *)
LEMMA LostRecordStep ==
  ASSUME BodyInv, NEW r \in BodyRecords, BuildEscapes(r) \/ RecordThrows(r)
  PROVE  BodyInv' /\ UNCHANGED Log!logVars
<1>1. UNCHANGED <<cacheVars, orderVars>>
  BY DEF BuildEscapes, RecordThrows
<1>2. CacheInv' /\ OrderInv'
  BY <1>1, StutterCacheInv, OrderInvStutter DEF BodyInv
<1>3. PICK v \in Verdicts : Ended(r, v)
  BY DEF BuildEscapes, RecordThrows, Verdicts
<1>4. LinesInv'
  BY <1>1, <1>3, EndedLines DEF BodyInv, LinesInv, cacheVars
<1> QED
  BY <1>1, <1>2, <1>4 DEF BodyInv, orderVars, Log!logVars

(* A record that is built takes a step of the ordered log; when the log    *)
(* accepts it, its cores are handed to the cache.                          *)
LEMMA RecordBuiltStep ==
  ASSUME BodyInv, NEW r \in BodyRecords, RecordBuilt(r)
  PROVE  BodyInv' /\ Log!LogNext
<1>1. Place(r) \in Log!Located /\ r.cores \in RecordCores /\ check_sorted(Place(r))
  BY BodyRecordParts DEF RecordBuilt
<1>2. Log!LogNext /\ OrderInv'
  BY <1>1, CheckSortedStep DEF BodyInv
<1>3. CASE Ended(r, "refused") /\ UNCHANGED cacheVars
  <2>1. CacheInv'
    BY <1>3, StutterCacheInv DEF BodyInv
  <2>2. LinesInv'
    BY <1>3, EndedLines DEF BodyInv, LinesInv, cacheVars, Verdicts
  <2> QED
    BY <1>2, <2>1, <2>2 DEF BodyInv
<1>4. CASE Ended(r, "accepted") /\ CheckDuplicates(n_lines + 1, r.cores)
  <2>1. /\ outcome' \in Seq([record : BodyRecords, verdict : Verdicts])
        /\ AcceptedLines \subseteq AcceptedLines'
        /\ n_lines + 1 \in AcceptedLines'
        /\ n_lines + 1 \in Nat
    BY <1>4, EndedLines DEF BodyInv, LinesInv, Verdicts
  <2>2. CacheInv'
    BY <1>1, <1>4, <2>1, CheckDuplicatesCacheInv DEF BodyInv
  <2>3. line' = n_lines + 1 /\ fed' = fed
    BY <1>4 DEF CheckDuplicates
  <2>4. LinesInv'
    BY <2>1, <2>3 DEF BodyInv, LinesInv
  <2> QED
    BY <1>2, <2>2, <2>4 DEF BodyInv
<1> QED
  BY <1>3, <1>4 DEF RecordBuilt

(* The loop of check_duplicates hands the cache cores of the current line. *)
LEMMA DuplicateCheckStep ==
  ASSUME BodyInv, DuplicateCheck
  PROVE  BodyInv' /\ UNCHANGED Log!logVars
<1>1. CheckCore /\ UNCHANGED orderVars /\ outcome' = outcome
  BY DEF DuplicateCheck
<1>2. CacheInv' /\ OrderInv'
  BY <1>1, CheckCoreCacheInv, OrderInvStutter DEF BodyInv
<1>3. /\ fed' = fed \cup {NewEntry} /\ NewEntry.line = line /\ line' = line
      /\ todo # << >>
  BY <1>1, CheckCoreEffect DEF BodyInv, CacheInv, CheckCore
<1>4. AcceptedLines' = AcceptedLines
  BY <1>1 DEF AcceptedLines, n_lines
<1>5. LinesInv'
  BY <1>1, <1>3, <1>4 DEF BodyInv, LinesInv
<1> QED
  BY <1>1, <1>2, <1>5 DEF BodyInv, orderVars, Log!logVars

(* The optional checks, and steps of other parts, only read. *)
LEMMA OtherStep ==
  ASSUME BodyInv, OptionalCheck \/ UNCHANGED allVars
  PROVE  BodyInv' /\ UNCHANGED Log!logVars
<1>1. UNCHANGED <<cacheVars, orderVars, outcome>>
  <2>1. OptionalCheck => UNCHANGED <<cacheVars, orderVars, outcome>>
    BY Zenon DEF OptionalCheck
  <2> QED
    BY <2>1 DEF allVars, bodyVars
<1>2. CacheInv' /\ OrderInv'
  BY <1>1, StutterCacheInv, OrderInvStutter DEF BodyInv
<1>3. AcceptedLines' = AcceptedLines
  BY <1>1 DEF AcceptedLines, n_lines
<1>4. LinesInv'
  BY <1>1, <1>3 DEF BodyInv, LinesInv, cacheVars
<1> QED
  BY <1>1, <1>2, <1>4 DEF BodyInv, orderVars, Log!logVars

(* Every step keeps the invariant and is a step of the ordered log. *)
LEMMA BodyStep == BodyInv /\ [BodyNext]_allVars => BodyInv' /\ [Log!LogNext]_(Log!logVars)
<1> SUFFICES ASSUME BodyInv, [BodyNext]_allVars
             PROVE  BodyInv' /\ [Log!LogNext]_(Log!logVars)
  OBVIOUS
<1>1. ASSUME NEW r \in BodyRecords, BuildEscapes(r) \/ RecordThrows(r)
      PROVE  BodyInv' /\ [Log!LogNext]_(Log!logVars)
  BY <1>1, LostRecordStep
<1>2. ASSUME NEW r \in BodyRecords, RecordBuilt(r)
      PROVE  BodyInv' /\ [Log!LogNext]_(Log!logVars)
  BY <1>2, RecordBuiltStep
<1>3. CASE DuplicateCheck
  BY <1>3, DuplicateCheckStep
<1>4. CASE OptionalCheck \/ UNCHANGED allVars
  BY <1>4, OtherStep
<1> QED
  BY <1>1, <1>2, <1>3, <1>4 DEF BodyNext
-----------------------------------------------------------------------------
(* What makes the optional checks warn about a record. *)
Warns(r) == r.checks = "warn" \/ \E i \in 1..Len(r.uses) : r.uses[i] \notin Described

(* The two properties of handled lines, line by line. *)
ErrorsRight(lines, out, errs) ==
  \A n \in lines : Names(errs, n) <=> out[n].verdict \in {"not built", "refused"}

WarningsRight(lines, out, among, warns) ==
  \A n \in lines : Names(warns, n) <=> n \in among /\ Warns(out[n].record)

(* The two properties as operators of what they depend on. *)
LEMMA HandledForm ==
  /\ ErrorPerLostRecord <=> ErrorsRight(HandledLines, outcome, errors)
  /\ ErrorPerLostRecord' <=> ErrorsRight(HandledLines', outcome', errors')
  /\ WarnedWhenDue <=> WarningsRight(HandledLines, outcome, AcceptedLines, warnings)
  /\ WarnedWhenDue' <=> WarningsRight(HandledLines', outcome', AcceptedLines', warnings')
  BY DEF ErrorPerLostRecord, WarnedWhenDue, ErrorsRight, WarningsRight, Names, Warns

(* A line that ends without findings of its own and stays open, because an *)
(* exception escaped or because its record goes on to the next checks.     *)
LEMMA OpenLineStep ==
  ASSUME LinesInv, HandledInv, NEW r \in BodyRecords, NEW v \in Verdicts, phase = "idle",
         Ended(r, v), UNCHANGED <<defined_metadata, errors, warnings>>,
         phase' = "escaped" \/ (phase' = "duplicates" /\ v = "accepted")
  PROVE  HandledInv'
<1>1. /\ AcceptedLines' = AcceptedLines \cup (IF v = "accepted" THEN {n_lines + 1} ELSE {})
      /\ n_lines \in Nat /\ n_lines' = n_lines + 1
      /\ \A i \in 1..n_lines : outcome'[i] = outcome[i]
  BY EndedLines DEF LinesInv
<1>2. HandledLines = 1..n_lines /\ HandledLines' = 1..n_lines
  BY <1>1 DEF HandledLines
<1>3. ErrorsRight(1..n_lines, outcome, errors)
      /\ WarningsRight(1..n_lines, outcome, AcceptedLines, warnings)
  BY <1>2, HandledForm DEF HandledInv
<1>4. ErrorsRight(1..n_lines, outcome', errors')
      /\ WarningsRight(1..n_lines, outcome', AcceptedLines', warnings')
  <2>1. \A n \in 1..n_lines : n \in AcceptedLines' <=> n \in AcceptedLines
    BY <1>1
  <2>2. errors' = errors /\ warnings' = warnings
    OBVIOUS
  <2>3. ErrorsRight(1..n_lines, outcome', errors')
    BY <1>1, <1>3, <2>2, Zenon DEF ErrorsRight
  <2>4. WarningsRight(1..n_lines, outcome', AcceptedLines', warnings')
    BY <1>1, <1>3, <2>1, <2>2, Zenon DEF WarningsRight
  <2> QED
    BY <2>3, <2>4
<1>5. ErrorPerLostRecord' /\ WarnedWhenDue'
  BY <1>2, <1>4, HandledForm
<1>6. ~Names(errors, n_lines + 1) /\ ~Names(warnings, n_lines + 1)
  BY <1>1 DEF HandledInv, Names
<1>7. /\ errors' \subseteq [line : 1..n_lines', what : {"record", "order"}]
      /\ warnings' \subseteq [line : 1..n_lines', what : MetaKeys \cup {"record"}]
  BY <1>1 DEF HandledInv
<1>8. phase' = "duplicates" =>
        n_lines' \in AcceptedLines' /\ ~Names(errors', n_lines') /\ ~Names(warnings', n_lines')
  BY <1>1, <1>6
<1>9. defined_metadata' \subseteq Described
  BY DEF HandledInv
<1> QED
  BY <1>5, <1>7, <1>8, <1>9 DEF HandledInv

(* An element of a list. *)
LEMMA ElementOf ==
  ASSUME NEW S, NEW s \in Seq(S), NEW i \in 1..Len(s)
  PROVE  s[i] \in S
  OBVIOUS

(* The indices of a list that gets one more element. *)
LEMMA NextIndex ==
  ASSUME NEW n \in Nat
  PROVE  /\ \A i \in 1..(n + 1) : i \in 1..n \/ i = n + 1
         /\ n + 1 \in 1..(n + 1) /\ n + 1 \notin 1..n
         /\ 1..n \subseteq 1..(n + 1)
  OBVIOUS

(* A line that is lost: it ends with an error, and is done with. *)
LEMMA LostLineStep ==
  ASSUME LinesInv, HandledInv, NEW r \in BodyRecords, NEW v \in Verdicts,
         v \in {"not built", "refused"},
         NEW why \in {"record", "order"}, phase = "idle", Ended(r, v), LineError(why),
         UNCHANGED <<phase, defined_metadata, warnings>>
  PROVE  HandledInv'
<1> DEFINE x == [line |-> n_lines + 1, what |-> why]
<1>1. /\ AcceptedLines' = AcceptedLines /\ AcceptedLines \subseteq 1..n_lines
      /\ n_lines \in Nat /\ n_lines' = n_lines + 1
      /\ \A i \in 1..n_lines : outcome'[i] = outcome[i]
      /\ outcome'[n_lines + 1].verdict \in {"not built", "refused"}
  <2>1. v \in Verdicts /\ v # "accepted"
    BY DEF Verdicts
  <2>2. outcome \in Seq([record : BodyRecords, verdict : Verdicts])
    BY DEF LinesInv
  <2>3. /\ AcceptedLines' = AcceptedLines \cup (IF v = "accepted" THEN {n_lines + 1} ELSE {})
        /\ n_lines \in Nat /\ n_lines' = n_lines + 1
        /\ \A i \in 1..n_lines : outcome'[i] = outcome[i]
        /\ outcome'[n_lines + 1].verdict = v
    BY <2>1, <2>2, EndedLines
  <2>4. AcceptedLines \subseteq 1..n_lines
    BY DEF AcceptedLines
  <2>5. AcceptedLines' = AcceptedLines
    BY <2>1, <2>3
  <2> QED
    BY <2>3, <2>4, <2>5
<1>2. HandledLines = 1..n_lines /\ HandledLines' = 1..(n_lines + 1)
  BY <1>1 DEF HandledLines
<1>3. ErrorsRight(1..n_lines, outcome, errors)
      /\ WarningsRight(1..n_lines, outcome, AcceptedLines, warnings)
  BY <1>2, HandledForm DEF HandledInv
<1>4. errors' = errors \cup {x} /\ x.line = n_lines + 1 /\ warnings' = warnings
  BY DEF LineError
<1> HIDE DEF x
<1>5. /\ \A n \in 1..(n_lines + 1) : n \in 1..n_lines \/ n = n_lines + 1
      /\ n_lines + 1 \in 1..(n_lines + 1) /\ n_lines + 1 \notin 1..n_lines
      /\ 1..n_lines \subseteq 1..(n_lines + 1)
  BY <1>1, NextIndex
<1>6. /\ \A n \in 1..n_lines : Names(errors', n) <=> Names(errors, n)
      /\ Names(errors', n_lines + 1)
      /\ ~Names(warnings', n_lines + 1)
      /\ n_lines + 1 \notin AcceptedLines'
  <2>1. \A n \in 1..n_lines : x.line # n
    BY <1>4, <1>5
  <2>2. \A w \in warnings : w.line # n_lines + 1
    <3>1. \A w \in warnings : w.line \in 1..n_lines
      BY DEF HandledInv
    <3> QED
      BY <1>5, <3>1
  <2>3. n_lines + 1 \notin AcceptedLines'
    BY <1>1, <1>5
  <2> QED
    BY <1>4, <2>1, <2>2, <2>3 DEF Names
<1>7. ErrorPerLostRecord'
  <2>1. ErrorsRight(1..(n_lines + 1), outcome', errors')
    BY <1>1, <1>3, <1>5, <1>6, Zenon DEF ErrorsRight
  <2> QED
    BY <1>2, <2>1, HandledForm
<1>8. WarnedWhenDue'
  <2>1. WarningsRight(1..(n_lines + 1), outcome', AcceptedLines', warnings')
    BY <1>1, <1>3, <1>4, <1>5, <1>6, Zenon DEF WarningsRight
  <2> QED
    BY <1>2, <2>1, HandledForm
<1>9. /\ errors' \subseteq [line : 1..n_lines', what : {"record", "order"}]
      /\ warnings' \subseteq [line : 1..n_lines', what : MetaKeys \cup {"record"}]
  <2>1. x \in [line : 1..(n_lines + 1), what : {"record", "order"}]
    BY <1>5 DEF x
  <2>2. /\ errors \subseteq [line : 1..(n_lines + 1), what : {"record", "order"}]
        /\ warnings \subseteq [line : 1..(n_lines + 1), what : MetaKeys \cup {"record"}]
    BY <1>5 DEF HandledInv
  <2>3. n_lines' = n_lines + 1
    BY <1>1
  <2> QED
    BY <1>4, <2>1, <2>2, <2>3
<1>10. phase' = "idle" /\ defined_metadata' \subseteq Described
  BY DEF HandledInv
<1> QED
  BY <1>7, <1>8, <1>9, <1>10 DEF HandledInv

(* The loop of check_duplicates finds nothing of the kinds counted here. *)
LEMMA DuplicateCheckHandled ==
  ASSUME HandledInv, DuplicateCheck
  PROVE  HandledInv'
<1>1. /\ phase = "duplicates" /\ phase' \in {"duplicates", "optional"}
      /\ UNCHANGED <<defined_metadata, outcome, errors, warnings>>
  BY DEF DuplicateCheck
<1>2. n_lines' = n_lines /\ AcceptedLines' = AcceptedLines /\ HandledLines' = HandledLines
  BY <1>1 DEF n_lines, AcceptedLines, HandledLines
<1>3. ErrorPerLostRecord' /\ WarnedWhenDue'
  BY <1>1, <1>2, HandledForm DEF HandledInv
<1> QED
  BY <1>1, <1>2, <1>3 DEF HandledInv

(* The lookups of meta data stop at the first use that is not described,   *)
(* and warn exactly when there is one.                                     *)
LEMMA MetaChecksRight ==
  ASSUME defined_metadata \subseteq Described, NEW uses \in Seq(MetaKeys), MetaChecks(uses)
  PROVE  /\ defined_metadata' \subseteq Described
         /\ \/ /\ \A i \in 1..Len(uses) : uses[i] \in Described
               /\ warnings' = warnings
            \/ \E i \in 1..Len(uses) :
                 /\ uses[i] \notin Described /\ uses[i] \in MetaKeys
                 /\ warnings' = warnings \cup {[line |-> n_lines, what |-> uses[i]]}
<1> DEFINE U == {i \in 1..Len(uses) : uses[i] \notin defined_metadata \cup Described}
           stop == FirstUndefined(uses)
           seen == IF stop = 0 THEN 1..Len(uses) ELSE 1..(stop - 1)
<1>1. U = {i \in 1..Len(uses) : uses[i] \notin Described}
  OBVIOUS
<1>2. /\ defined_metadata' = defined_metadata \cup {uses[i] : i \in seen}
      /\ warnings' = warnings \cup {[line |-> n_lines, what |-> uses[i]] : i \in {stop} \ {0}}
  BY DEF MetaChecks
<1>3. stop = IF U = {} THEN 0 ELSE Min(U)
  BY DEF FirstUndefined
<1>4. Len(uses) \in Nat
  OBVIOUS
<1> HIDE DEF stop, U
<1>5. CASE U = {}
  <2>1. stop = 0 /\ \A i \in 1..Len(uses) : uses[i] \in Described
    BY <1>1, <1>3, <1>5
  <2> QED
    BY <1>2, <2>1
<1>6. CASE U # {}
  <2>1. U \subseteq Nat /\ U \subseteq 1..Len(uses)
    BY <1>1, <1>4
  <2>2. \E i \in U : \A k \in U : i <= k
    BY <1>6, <2>1, LeastNat
  <2>3. stop \in U /\ \A k \in U : stop <= k
    BY <1>3, <1>6, <2>2 DEF Min
  <2>4. stop \in 1..Len(uses) /\ uses[stop] \notin Described /\ uses[stop] \in MetaKeys
    BY <1>1, <2>3
  <2>5. stop # 0 /\ {stop} \ {0} = {stop}
    BY <1>4, <2>4
  <2>6. \A i \in 1..(stop - 1) : i \in 1..Len(uses) /\ i \notin U
    BY <1>4, <2>3, <2>4
  <2>7. \A i \in seen : uses[i] \in Described
    BY <1>1, <2>5, <2>6
  <2>8. warnings' = warnings \cup {[line |-> n_lines, what |-> uses[stop]]}
    BY <1>2, <2>5
  <2> QED
    BY <1>2, <2>4, <2>7, <2>8
<1> QED
  BY <1>5, <1>6

(* The optional checks are done, and their warnings, if they had any, are  *)
(* about the line they checked.                                            *)
LEMMA LineDoneStep ==
  ASSUME LinesInv, HandledInv, phase = "optional", phase' = "idle",
         UNCHANGED <<outcome, errors>>, defined_metadata' \subseteq Described,
         NEW added \in SUBSET [line : {n_lines}, what : MetaKeys \cup {"record"}],
         warnings' = warnings \cup added, added # {} <=> Warns(record)
  PROVE  HandledInv'
<1>1. /\ n_lines \in AcceptedLines /\ ~Names(errors, n_lines) /\ ~Names(warnings, n_lines)
      /\ n_lines' = n_lines /\ AcceptedLines' = AcceptedLines
  BY DEF HandledInv, n_lines, AcceptedLines
<1>2. n_lines \in Nat /\ n_lines - 1 \in Nat
  BY <1>1 DEF AcceptedLines, n_lines, LinesInv
<1>3. HandledLines = 1..(n_lines - 1) /\ HandledLines' = 1..n_lines
  BY <1>1 DEF HandledLines
<1>4. \A n \in 1..n_lines : (n \in 1..(n_lines - 1) /\ n # n_lines) \/ n = n_lines
  BY <1>2
<1>5. ErrorsRight(1..(n_lines - 1), outcome, errors)
      /\ WarningsRight(1..(n_lines - 1), outcome, AcceptedLines, warnings)
  BY <1>3, HandledForm DEF HandledInv
<1>6. ErrorPerLostRecord'
  <2>1. outcome[n_lines].verdict \notin {"not built", "refused"}
    BY <1>1 DEF AcceptedLines
  <2>2. ErrorsRight(1..n_lines, outcome, errors)
    BY <1>1, <1>4, <1>5, <2>1, Zenon DEF ErrorsRight
  <2> QED
    BY <1>3, <2>2, HandledForm
<1>7. WarnedWhenDue'
  <2>1. \A w \in added : w.line = n_lines
    OBVIOUS
  <2>2. \A n \in 1..n_lines : n # n_lines => (Names(warnings', n) <=> Names(warnings, n))
    BY <2>1 DEF Names
  <2>3. Names(warnings', n_lines) <=> added # {}
    BY <1>1, <2>1 DEF Names
  <2>4. Names(warnings', n_lines) <=> Warns(outcome[n_lines].record)
    BY <2>3 DEF record
  <2>5. \A n \in 1..n_lines :
          Names(warnings', n) <=> n \in AcceptedLines /\ Warns(outcome[n].record)
    <3> SUFFICES ASSUME NEW n \in 1..n_lines
                 PROVE  Names(warnings', n) <=> n \in AcceptedLines /\ Warns(outcome[n].record)
      OBVIOUS
    <3>1. CASE n = n_lines
      BY <1>1, <2>4, <3>1
    <3>2. CASE n \in 1..(n_lines - 1) /\ n # n_lines
      BY <1>5, <2>2, <3>2, Zenon DEF WarningsRight
    <3> QED
      BY <1>4, <3>1, <3>2
  <2>6. WarningsRight(1..n_lines, outcome, AcceptedLines, warnings')
    BY <2>5 DEF WarningsRight
  <2> QED
    BY <1>1, <1>3, <2>6, HandledForm
<1>8. /\ errors' \subseteq [line : 1..n_lines', what : {"record", "order"}]
      /\ warnings' \subseteq [line : 1..n_lines', what : MetaKeys \cup {"record"}]
  <2>1. n_lines \in 1..n_lines
    BY <1>1 DEF AcceptedLines
  <2>2. added \subseteq [line : 1..n_lines, what : MetaKeys \cup {"record"}]
    BY <2>1
  <2> QED
    BY <1>1, <2>2 DEF HandledInv
<1> QED
  BY <1>6, <1>7, <1>8 DEF HandledInv

(* An exception escapes from the optional checks. *)
LEMMA EscapedCheckStep ==
  ASSUME HandledInv, phase = "optional", phase' = "escaped",
         UNCHANGED <<outcome, defined_metadata, errors, warnings>>
  PROVE  HandledInv'
<1>1. n_lines' = n_lines /\ AcceptedLines' = AcceptedLines /\ HandledLines' = HandledLines
  BY DEF n_lines, AcceptedLines, HandledLines
<1>2. ErrorPerLostRecord' /\ WarnedWhenDue'
  BY <1>1, HandledForm DEF HandledInv
<1> QED
  BY <1>1, <1>2 DEF HandledInv

(* optional_check_body_entry, the three ways it ends. *)
LEMMA OptionalCheckHandled ==
  ASSUME LinesInv, HandledInv, OptionalCheck
  PROVE  HandledInv'
<1>1. /\ phase = "optional" /\ UNCHANGED <<outcome, errors>>
      /\ n_lines \in AcceptedLines /\ defined_metadata \subseteq Described
  BY DEF OptionalCheck, HandledInv
<1>2. record \in BodyRecords
  <2>1. n_lines \in 1..Len(outcome)
    BY <1>1 DEF AcceptedLines, n_lines
  <2>2. outcome[n_lines] \in [record : BodyRecords, verdict : Verdicts]
    BY <2>1, ElementOf DEF LinesInv
  <2> QED
    BY <2>2 DEF record
<1>3. record.uses \in Seq(MetaKeys) /\ record.checks \in {"pass", "warn", "escape"}
  BY <1>2, BodyConstants DEF BodyRecord
<1>4. CASE record.checks = "pass" /\ MetaChecks(record.uses) /\ phase' = "idle"
  <2> DEFINE uses == record.uses
  <2>1. /\ defined_metadata' \subseteq Described
        /\ \/ /\ \A i \in 1..Len(uses) : uses[i] \in Described
              /\ warnings' = warnings
           \/ \E i \in 1..Len(uses) :
                /\ uses[i] \notin Described /\ uses[i] \in MetaKeys
                /\ warnings' = warnings \cup {[line |-> n_lines, what |-> uses[i]]}
    BY <1>1, <1>3, <1>4, MetaChecksRight
  <2>2. Warns(record) <=> \E i \in 1..Len(uses) : uses[i] \notin Described
    BY <1>4 DEF Warns
  <2>3. CASE (\A i \in 1..Len(uses) : uses[i] \in Described) /\ warnings' = warnings
    <3>1. warnings' = warnings \cup {} /\ ~Warns(record)
      BY <2>2, <2>3
    <3> QED
      BY <1>1, <1>4, <2>1, <3>1, LineDoneStep
  <2>4. ASSUME NEW i \in 1..Len(uses), uses[i] \notin Described, uses[i] \in MetaKeys,
               warnings' = warnings \cup {[line |-> n_lines, what |-> uses[i]]}
        PROVE  HandledInv'
    <3>1. Warns(record)
      BY <2>2, <2>4
    <3>2. {[line |-> n_lines, what |-> uses[i]]}
            \in SUBSET [line : {n_lines}, what : MetaKeys \cup {"record"}]
      BY <2>4
    <3> QED
      BY <1>1, <1>4, <2>1, <2>4, <3>1, <3>2, LineDoneStep
  <2> QED
    BY <2>1, <2>3, <2>4
<1>5. CASE /\ record.checks = "warn" /\ phase' = "idle" /\ UNCHANGED defined_metadata
           /\ warnings' = warnings \cup {[line |-> n_lines, what |-> "record"]}
  <2>1. Warns(record)
    BY <1>5 DEF Warns
  <2>2. {[line |-> n_lines, what |-> "record"]}
          \in SUBSET [line : {n_lines}, what : MetaKeys \cup {"record"}]
    OBVIOUS
  <2> QED
    BY <1>1, <1>5, <2>1, <2>2, LineDoneStep
<1>6. CASE phase' = "escaped" /\ UNCHANGED <<defined_metadata, warnings>>
  BY <1>1, <1>6, EscapedCheckStep
<1> QED
  BY <1>4, <1>5, <1>6, Zenon DEF OptionalCheck

(* Before the first line nothing was found. *)
LEMMA HandledInvInit == BodyInit => HandledInv
<1> SUFFICES ASSUME BodyInit PROVE HandledInv
  OBVIOUS
<1>1. /\ phase = "idle" /\ defined_metadata = {} /\ outcome = << >>
      /\ errors = {} /\ warnings = {}
  BY DEF BodyInit
<1>2. HandledLines = {}
  BY <1>1 DEF HandledLines, n_lines
<1>3. ErrorPerLostRecord /\ WarnedWhenDue
  BY <1>2 DEF ErrorPerLostRecord, WarnedWhenDue
<1> QED
  BY <1>1, <1>3 DEF HandledInv

(* Every step keeps the findings right. *)
LEMMA HandledStep == BodyInv /\ HandledInv /\ [BodyNext]_allVars => HandledInv'
<1> SUFFICES ASSUME LinesInv, HandledInv, [BodyNext]_allVars PROVE HandledInv'
  BY DEF BodyInv
<1>1. ASSUME NEW r \in BodyRecords, BuildEscapes(r) PROVE HandledInv'
  BY <1>1, OpenLineStep DEF BuildEscapes, BodyLine, Verdicts
<1>2. ASSUME NEW r \in BodyRecords, RecordThrows(r) PROVE HandledInv'
  BY <1>2, LostLineStep DEF RecordThrows, BodyLine, Verdicts
<1>3. ASSUME NEW r \in BodyRecords, RecordBuilt(r) PROVE HandledInv'
  <2>1. phase = "idle" /\ UNCHANGED <<defined_metadata, warnings>>
    BY <1>3 DEF RecordBuilt, BodyLine
  <2>2. CASE Ended(r, "refused") /\ LineError("order") /\ UNCHANGED phase
    BY <2>1, <2>2, LostLineStep DEF Verdicts
  <2>3. CASE Ended(r, "accepted") /\ phase' = "duplicates" /\ UNCHANGED errors
    BY <2>1, <2>3, OpenLineStep DEF Verdicts
  <2> QED
    BY <1>3, <2>2, <2>3 DEF RecordBuilt
<1>4. CASE DuplicateCheck
  BY <1>4, DuplicateCheckHandled
<1>5. CASE OptionalCheck
  BY <1>5, OptionalCheckHandled
<1>6. CASE UNCHANGED allVars
  <2>1. UNCHANGED <<phase, defined_metadata, outcome, errors, warnings>>
    BY <1>6 DEF allVars, bodyVars
  <2>2. n_lines' = n_lines /\ AcceptedLines' = AcceptedLines /\ HandledLines' = HandledLines
    BY <2>1 DEF n_lines, AcceptedLines, HandledLines
  <2>3. ErrorPerLostRecord' /\ WarnedWhenDue'
    BY <2>1, <2>2, HandledForm DEF HandledInv
  <2> QED
    BY <2>1, <2>2, <2>3 DEF HandledInv
<1> QED
  BY <1>1, <1>2, <1>3, <1>4, <1>5, <1>6 DEF BodyNext
-----------------------------------------------------------------------------
(* The three parts of PlaceInv: the lines of the cores, the contig of the  *)
(* cores, and the places of the accepted lines.                            *)
LEMMA PlaceInvInit == BodyInit => PlaceInv
<1> SUFFICES ASSUME BodyInit PROVE PlaceInv
  OBVIOUS
<1>1. outcome = << >> /\ todo = << >> /\ fed = {} /\ line = 0
  BY DEF BodyInit, CacheInit
<1>2. n_lines = 0 /\ AcceptedLines = {} /\ Len(todo) = 0
  BY <1>1 DEF n_lines, AcceptedLines
<1> QED
  BY <1>1, <1>2 DEF PlaceInv

(* A line of which no record reaches check_duplicates. *)
LEMMA SkippedLinePlace ==
  ASSUME BodyInv, PlaceInv, NEW r \in BodyRecords, NEW v \in Verdicts, v # "accepted",
         Ended(r, v), UNCHANGED <<cacheVars, accepted>>
  PROVE  PlaceInv'
<1>1. /\ AcceptedLines' = AcceptedLines
      /\ n_lines \in Nat /\ n_lines' = n_lines + 1
      /\ \A i \in 1..n_lines : outcome'[i] = outcome[i]
  BY EndedLines DEF BodyInv, LinesInv
<1>2. \A i \in AcceptedLines : i \in 1..n_lines
  BY DEF AcceptedLines
<1>3. UNCHANGED <<todo, line, fed, accepted>>
  BY DEF cacheVars
<1>4. line' <= n_lines'
  BY <1>1, <1>3 DEF PlaceInv, BodyInv, CacheInv, CacheTypeOK
<1>5. \A e \in fed' : e.line <= line' /\ e.core.chromosome = outcome'[e.line].record.contig
  BY <1>1, <1>2, <1>3 DEF PlaceInv, BodyInv, LinesInv
<1>6. \A i \in 1..Len(todo') : todo'[i].chromosome = outcome'[line'].record.contig
  <2>1. CASE todo = << >>
    BY <1>3, <2>1
  <2>2. CASE todo # << >>
    BY <1>1, <1>2, <1>3, <2>2 DEF PlaceInv, BodyInv, LinesInv
  <2> QED
    BY <2>1, <2>2
<1>7. \A n \in AcceptedLines' : outcome'[n] = outcome[n]
  BY <1>1, <1>2
<1> QED
  BY <1>1, <1>3, <1>4, <1>5, <1>6, <1>7 DEF PlaceInv

(* An accepted line: its cores are handed to check_duplicates, and its     *)
(* place is the last one of check_sorted's accepted records.               *)
LEMMA AcceptedLinePlace ==
  ASSUME BodyInv, PlaceInv, NEW r \in BodyRecords, Ended(r, "accepted"),
         CheckDuplicates(n_lines + 1, r.cores), accepted' = Append(accepted, Place(r))
  PROVE  PlaceInv'
<1>1. /\ AcceptedLines' = AcceptedLines \cup {n_lines + 1}
      /\ n_lines \in Nat /\ n_lines' = n_lines + 1
      /\ \A i \in 1..n_lines : outcome'[i] = outcome[i]
      /\ outcome'[n_lines + 1].record = r
  BY EndedLines DEF BodyInv, LinesInv, Verdicts
<1>2. \A i \in AcceptedLines : i \in 1..n_lines
  BY DEF AcceptedLines
<1>3. line' = n_lines + 1 /\ fed' = fed /\ todo' = r.cores
  BY DEF CheckDuplicates
<1>4. \A e \in fed : e.line \in 1..n_lines
  BY <1>2 DEF BodyInv, LinesInv
<1>5. \A e \in fed' : e.line <= line' /\ e.core.chromosome = outcome'[e.line].record.contig
  BY <1>1, <1>3, <1>4 DEF PlaceInv
<1>6. \A i \in 1..Len(todo') : todo'[i].chromosome = outcome'[line'].record.contig
  BY <1>1, <1>3, BodyConstants
<1>7. \A e, f \in fed' : e.ord < f.ord => e.line <= f.line
  BY <1>3 DEF PlaceInv
<1>8. /\ Place(r) \in Log!Located /\ accepted \in Seq(Log!Located)
  BY BodyRecordParts DEF BodyInv, OrderInv, OrderTypeOK
<1>9. PICK k \in Nat : k = Len(accepted)
  BY <1>8
<1>10. /\ Len(accepted') = k + 1 /\ accepted'[k + 1] = Place(r)
       /\ \A i \in 1..k : accepted'[i] = accepted[i]
  BY <1>8, <1>9, AppendIndex
<1>11. \A n \in AcceptedLines :
         \E i \in 1..k : accepted'[i] = Place(outcome'[n].record)
  BY <1>1, <1>2, <1>9, <1>10 DEF PlaceInv
<1>12. Place(outcome'[n_lines + 1].record) = accepted'[k + 1]
  BY <1>1, <1>10
<1>13. \A i \in 1..k : i \in 1..(k + 1) /\ i < k + 1
  OBVIOUS
<1>14. \A n \in AcceptedLines' :
         \E i \in 1..Len(accepted') : accepted'[i] = Place(outcome'[n].record)
  <2>1. k + 1 \in 1..Len(accepted')
    BY <1>10
  <2> QED
    BY <1>1, <1>10, <1>11, <1>12, <1>13, <2>1
<1>15. ASSUME NEW m \in AcceptedLines', NEW n \in AcceptedLines', m < n
       PROVE  \E i, j \in 1..Len(accepted') : /\ i < j
                                              /\ accepted'[i] = Place(outcome'[m].record)
                                              /\ accepted'[j] = Place(outcome'[n].record)
  <2>1. m \in AcceptedLines
    BY <1>1, <1>2, <1>15
  <2>2. CASE n = n_lines + 1
    <3>1. PICK i \in 1..k : accepted'[i] = Place(outcome'[m].record)
      BY <1>11, <2>1
    <3>2. i < k + 1 /\ i \in 1..Len(accepted') /\ k + 1 \in 1..Len(accepted')
      BY <1>10, <1>13
    <3> QED
      BY <1>12, <2>2, <3>1, <3>2
  <2>3. CASE n \in AcceptedLines
    <3>1. PICK i, j \in 1..Len(accepted) : /\ i < j
                                           /\ accepted[i] = Place(outcome[m].record)
                                           /\ accepted[j] = Place(outcome[n].record)
      BY <1>15, <2>1, <2>3 DEF PlaceInv
    <3>2. outcome'[m] = outcome[m] /\ outcome'[n] = outcome[n]
      BY <1>1, <1>2, <2>1, <2>3
    <3>3. /\ i \in 1..Len(accepted') /\ j \in 1..Len(accepted')
          /\ accepted'[i] = accepted[i] /\ accepted'[j] = accepted[j]
      BY <1>9, <1>10, <1>13
    <3> QED
      BY <3>1, <3>2, <3>3
  <2> QED
    BY <1>1, <2>2, <2>3
<1>16. line' <= n_lines'
  BY <1>1, <1>3
<1> QED
  BY <1>5, <1>6, <1>7, <1>14, <1>15, <1>16 DEF PlaceInv

(* One core of the record that was accepted last. *)
LEMMA DuplicateCheckPlace ==
  ASSUME BodyInv, PlaceInv, DuplicateCheck
  PROVE  PlaceInv'
<1>1. CacheTypeOK /\ CheckCore /\ UNCHANGED <<outcome, accepted>>
  BY DEF BodyInv, CacheInv, DuplicateCheck, orderVars
<1>2. /\ fed' = fed \cup {NewEntry} /\ NewEntry.line = line /\ line' = line
      /\ NewEntry.ord = count + 1
  BY <1>1, CheckCoreEffect
<1>3. todo # << >> /\ todo \in Seq(Core) /\ todo' = Tail(todo) /\ NewEntry.core = todo[1]
  BY <1>1 DEF CheckCore, CacheTypeOK, NewEntry
<1>4. /\ 1 \in 1..Len(todo)
      /\ \A i \in 1..Len(todo') : i + 1 \in 1..Len(todo) /\ todo'[i] = todo[i + 1]
  BY <1>3
<1>5. line' <= n_lines' /\ AcceptedLines' = AcceptedLines
  BY <1>1, <1>2 DEF PlaceInv, n_lines, AcceptedLines
<1>6. \A i \in 1..Len(todo') : todo'[i].chromosome = outcome'[line'].record.contig
  BY <1>1, <1>2, <1>4 DEF PlaceInv
<1>7. line \in Nat /\ count \in Nat /\ \A e \in fed : e.ord \in 1..count
  BY DEF BodyInv, CacheInv, CacheTypeOK, HistoryInv
<1>8. \A e \in fed' : e.line <= line' /\ e.core.chromosome = outcome'[e.line].record.contig
  <2>1. NewEntry.core.chromosome = outcome[line].record.contig
    BY <1>3, <1>4 DEF PlaceInv
  <2>2. NewEntry.line <= line
    BY <1>2, <1>7
  <2> QED
    BY <1>1, <1>2, <2>1, <2>2 DEF PlaceInv
<1>9. ASSUME NEW e \in fed', NEW f \in fed', e.ord < f.ord PROVE e.line <= f.line
  <2>1. CASE f \in fed
    <3>1. e \in fed
      BY <1>2, <1>7, <1>9, <2>1
    <3> QED
      BY <1>9, <2>1, <3>1 DEF PlaceInv
  <2>2. CASE f = NewEntry
    BY <1>2, <1>8, <2>2
  <2> QED
    BY <1>2, <2>1, <2>2
<1> QED
  BY <1>1, <1>5, <1>6, <1>8, <1>9 DEF PlaceInv

(* A built record is accepted exactly when check_sorted kept its place. *)
LEMMA RecordBuiltPlace ==
  ASSUME BodyInv, PlaceInv, NEW r \in BodyRecords, RecordBuilt(r)
  PROVE  PlaceInv'
<1> DEFINE p == Place(r)
<1>1. p \in Log!Located /\ OrderTypeOK /\ check_sorted(p)
  BY BodyRecordParts DEF BodyInv, OrderInv, RecordBuilt
<1>2. Passes(p) \/ \E why : Throws(p, why)
  BY <1>1, CheckSortedCases
<1>3. ASSUME NEW why, Throws(p, why) PROVE refused' # refused /\ accepted' = accepted
  <2>1. refused' = Append(refused, [record |-> p, why |-> why]) /\ accepted' = accepted
    BY <1>3 DEF Throws
  <2>2. PICK T : refused \in Seq(T)
    BY <1>1 DEF OrderTypeOK
  <2>3. Len(refused') = Len(refused) + 1 /\ Len(refused) \in Nat
    BY <2>1, <2>2
  <2> QED
    BY <2>1, <2>3
<1>4. CASE refused' # refused
  <2>1. accepted' = accepted
    BY <1>2, <1>3, <1>4 DEF Passes
  <2>2. Ended(r, "refused") /\ UNCHANGED cacheVars
    BY <1>4 DEF RecordBuilt
  <2> QED
    BY <2>1, <2>2, SkippedLinePlace DEF Verdicts
<1>5. CASE refused' = refused
  <2>1. accepted' = Append(accepted, Place(r))
    BY <1>2, <1>3, <1>5 DEF Passes
  <2>2. Ended(r, "accepted") /\ CheckDuplicates(n_lines + 1, r.cores)
    BY <1>5 DEF RecordBuilt
  <2> QED
    BY <2>1, <2>2, AcceptedLinePlace
<1> QED
  BY <1>4, <1>5

(* Every step keeps the lines, the cores and the places together. *)
LEMMA PlaceStep == BodyInv /\ PlaceInv /\ [BodyNext]_allVars => PlaceInv'
<1> SUFFICES ASSUME BodyInv, PlaceInv, [BodyNext]_allVars PROVE PlaceInv'
  OBVIOUS
<1>1. ASSUME NEW r \in BodyRecords, BuildEscapes(r) \/ RecordThrows(r) PROVE PlaceInv'
  <2>1. UNCHANGED <<cacheVars, accepted>>
    BY <1>1 DEF BuildEscapes, RecordThrows, orderVars
  <2>2. PICK v \in Verdicts : v # "accepted" /\ Ended(r, v)
    BY <1>1 DEF BuildEscapes, RecordThrows, Verdicts
  <2> QED
    BY <2>1, <2>2, SkippedLinePlace
<1>2. ASSUME NEW r \in BodyRecords, RecordBuilt(r) PROVE PlaceInv'
  BY <1>2, RecordBuiltPlace
<1>3. CASE DuplicateCheck
  BY <1>3, DuplicateCheckPlace
<1>4. CASE OptionalCheck \/ UNCHANGED allVars
  <2>1. UNCHANGED <<todo, line, fed, accepted, outcome>>
    <3>1. OptionalCheck => UNCHANGED <<cacheVars, orderVars, outcome>>
      BY Zenon DEF OptionalCheck
    <3> QED
      BY <1>4, <3>1 DEF allVars, bodyVars, cacheVars, orderVars
  <2>2. n_lines' = n_lines /\ AcceptedLines' = AcceptedLines
    BY <2>1 DEF n_lines, AcceptedLines
  <2> QED
    BY <2>1, <2>2 DEF PlaceInv
<1> QED
  BY <1>1, <1>2, <1>3, <1>4 DEF BodyNext
-----------------------------------------------------------------------------
(* The handling of body lines keeps the invariant. *)
THEOREM BodyInvariant == BodySpec => []BodyInv
  BY BodyInvInit, BodyStep, PTL DEF BodySpec

(***************************************************************************)
(* The body section as the parser handles it, with records that cannot be  *)
(* built, duplicates and warnings in between, is an ordered log.           *)
(***************************************************************************)
THEOREM BodyRefinesOrderedLog == BodySpec => ImplementsOrderedLog
  BY BodyInvInit, BodyStep, BodyInvariant, PTL
  DEF BodySpec, ImplementsOrderedLog, Log!LogSpec

(***************************************************************************)
(* No record that was refused or not built is ever compared with another   *)
(* or named by a DuplicationError.                                         *)
(***************************************************************************)
THEOREM ComparedWereAccepted == BodySpec => []OnlyAcceptedCompared
<1>1. BodyInv => OnlyAcceptedCompared
  BY DEF BodyInv, CacheInv, HistoryInv, NoFalseDuplicates, LinesInv, OnlyAcceptedCompared
<1> QED
  BY <1>1, BodyInvariant, PTL

(* The bookkeeping of check_sorted means what parse_policy.hpp says. *)
THEOREM BodyMapMeaning == BodySpec => []MapMeaning
<1>1. BodyInv => MapMeaning
  BY DEF BodyInv, OrderInv
<1> QED
  BY <1>1, BodyInvariant, PTL

(* What was found on which line, and which place the accepted lines have   *)
(* in the log, stays right.                                                *)
THEOREM LinesInvariant == BodySpec => [](HandledInv /\ PlaceInv)
  BY HandledInvInit, HandledStep, PlaceInvInit, PlaceStep, BodyInvariant, PTL DEF BodySpec

(***************************************************************************)
(* The body section is handled in the states BodyTypeOK describes: among   *)
(* other things, only keys that the meta section describes are ever        *)
(* remembered as well defined (ParsingState::defined_metadata).            *)
(***************************************************************************)
THEOREM BodyTypeCorrect == BodySpec => []BodyTypeOK
<1>1. BodyInv /\ HandledInv => BodyTypeOK
  <2> SUFFICES ASSUME BodyInv, HandledInv PROVE BodyTypeOK
    OBVIOUS
  <2>1. CacheTypeOK /\ OrderTypeOK
    BY DEF BodyInv, CacheInv, OrderInv
  <2>2. outcome \in Seq([record : BodyRecords, verdict : Verdicts])
    BY DEF BodyInv, LinesInv
  <2>3. 1..n_lines \subseteq Nat
    BY <2>2 DEF n_lines
  <2>4. /\ errors \subseteq [line : Nat, what : {"record", "order"}]
        /\ warnings \subseteq [line : Nat, what : MetaKeys \cup {"record"}]
    BY <2>3 DEF HandledInv
  <2> QED
    BY <2>1, <2>2, <2>4 DEF BodyTypeOK, HandledInv
<1> QED
  BY <1>1, BodyInvariant, LinesInvariant, PTL

(* A record that is not built or not in order costs its line exactly the   *)
(* error of the outer catch of record_end; no other line has an error.     *)
THEOREM LostRecordsHaveErrors == BodySpec => []ErrorPerLostRecord
<1>1. HandledInv => ErrorPerLostRecord
  BY DEF HandledInv
<1> QED
  BY <1>1, LinesInvariant, PTL

(* A line is warned about exactly when its record is, whatever records     *)
(* before it filled the memory of well defined meta data.                  *)
THEOREM WarningsAreDue == BodySpec => []WarnedWhenDue
<1>1. HandledInv => WarnedWhenDue
  BY DEF HandledInv
<1> QED
  BY <1>1, LinesInvariant, PTL

(* In a plain file, the cores that reach the cache ascend in the order by  *)
(* which it erases: check_sorted orders the lines, PlainFile the rest.     *)
LEMMA PlainFileIsSorted ==
  ASSUME BodyInv, PlaceInv, PlainFile
  PROVE  SortedInput
<1> SUFFICES ASSUME NEW e \in fed, NEW f \in fed, e.ord < f.ord
             PROVE  ~CoreLess(f.core, e.core)
  BY DEF SortedInput
<1>1. e \in Entry /\ f \in Entry
  BY DEF BodyInv, CacheInv, CacheTypeOK
<1>2. PICK c, d \in Core : c = e.core /\ d = f.core
  BY <1>1 DEF Entry
<1>3. PICK m, n \in Nat : m = e.line /\ n = f.line
  BY <1>1 DEF Entry
<1>4. m \in AcceptedLines /\ n \in AcceptedLines /\ m <= n
  BY <1>3 DEF BodyInv, LinesInv, PlaceInv
<1>5. PICK q, r : q = outcome[m].record /\ r = outcome[n].record
  OBVIOUS
<1>6. /\ c.chromosome = q.contig /\ c.position = q.position
      /\ d.chromosome = r.contig /\ d.position = r.position
  BY <1>2, <1>3, <1>5 DEF PlaceInv, PlainFile
<1>7. c.chromosome = d.chromosome /\ c.position = d.position => c = d
  BY <1>2 DEF PlainFile
<1>8. ~CoreLess(c, c)
  BY CoreLessOrder
<1>9. CASE m = n
  <2>1. c = d
    BY <1>5, <1>6, <1>7, <1>9
  <2> QED
    BY <1>2, <1>8, <2>1
<1>10. CASE m < n
  <2>1. PICK i, k \in 1..Len(accepted) : /\ i < k
                                         /\ accepted[i] = Place(outcome[m].record)
                                         /\ accepted[k] = Place(outcome[n].record)
    BY <1>4, <1>10 DEF PlaceInv
  <2>2. /\ accepted[i].contig = q.contig /\ accepted[i].position = q.position
        /\ accepted[k].contig = r.contig /\ accepted[k].position = r.position
    BY <1>5, <2>1 DEF Place
  <2>3. accepted[i].contig <= accepted[k].contig
    BY <2>1 DEF PlainFile
  <2>4. accepted[i].contig = accepted[k].contig => accepted[i].position <= accepted[k].position
    BY <2>1 DEF BodyInv, OrderInv, Log!AscendingInContig
  <2>5. /\ c.chromosome <= d.chromosome
        /\ c.chromosome = d.chromosome => c.position <= d.position
    BY <1>6, <2>2, <2>3, <2>4
  <2>6. \A x \in Core : x.chromosome \in Nat /\ x.position \in Nat /\ x.allele \in Nat
    BY CacheConstants DEF Core
  <2>7. ~CoreLess(d, c)
    BY <1>7, <1>8, <2>5, <2>6 DEF CoreLess
  <2> QED
    BY <1>2, <2>7
<1> QED
  BY <1>3, <1>4, <1>9, <1>10

(***************************************************************************)
(* What check_sorted and the cache guarantee together, for every capacity  *)
(* and any number of records: in a file whose contigs come in the order of *)
(* their names, with one kind of allele at each place, every repetition of *)
(* an accepted variant is reported.                                        *)
(***************************************************************************)
THEOREM PlainFilesAreComplete == BodySpec => []PlainFilesComplete
<1>1. BodyInv /\ PlaceInv => PlainFilesComplete
  BY PlainFileIsSorted DEF PlainFilesComplete, BodyInv, CacheInv, SortedComplete
<1> QED
  BY <1>1, BodyInvariant, LinesInvariant, PTL
=============================================================================
