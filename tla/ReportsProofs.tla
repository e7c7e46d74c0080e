--------------------------- MODULE ReportsProofs ---------------------------
(***************************************************************************)
(* Theorems about the two outputs of Reports, for every transaction_size   *)
(* and any number of findings.  BatchInv says that the findings in the     *)
(* database and, after them, those in the current transaction are numbered *)
(* from 1 on without a gap, and that the size that OdbReportRW keeps is    *)
(* the size of the transaction whenever one is current.  LossInv relates   *)
(* them to what was handed over; SummaryInv relates the keys remembered by *)
(* the SummaryTracker to it.                                               *)
(***************************************************************************)
EXTENDS Reports, FiniteSetTheorems, TLAPS

(* A sequence of the numbers that follow n. *)
NumbersFrom(s, n) == s \in Seq(Nat) /\ \A i \in 1..Len(s) : s[i] = n + i

BatchInv ==
  /\ has_current \in BOOLEAN
  /\ NumbersFrom(stored, 0)
  /\ NumbersFrom(pending, Len(stored))
  /\ current_transaction_size \in 0..(transaction_size - 1)
  /\ has_current => Len(pending) = current_transaction_size /\ current_transaction_size # 0
  /\ ~has_current => pending = << >>

LossInv ==
  /\ handed \in Seq(Findings)
  /\ process \in {"running", "exited", "killed"}
  /\ process # "running" => ~has_current
  /\ process # "killed" => Len(stored) + Len(pending) = Len(handed)
  /\ Len(handed) - Len(stored) \in 0..(transaction_size - 1)

ReportInv == BatchInv /\ LossInv
-----------------------------------------------------------------------------
(* Numbers that follow each other. *)
LEMMA NumbersConcat ==
  ASSUME NEW s, NEW t, NEW n \in Nat, NumbersFrom(s, n), NumbersFrom(t, n + Len(s))
  PROVE  NumbersFrom(s \o t, n) /\ Len(s \o t) = Len(s) + Len(t)
<1>1. s \in Seq(Nat) /\ t \in Seq(Nat) /\ Len(s) \in Nat /\ Len(t) \in Nat
  BY DEF NumbersFrom
<1>2. /\ s \o t \in Seq(Nat) /\ Len(s \o t) = Len(s) + Len(t)
      /\ \A i \in 1..Len(s) : (s \o t)[i] = s[i]
      /\ \A i \in (Len(s) + 1)..(Len(s) + Len(t)) : (s \o t)[i] = t[i - Len(s)]
  BY <1>1
<1>3. ASSUME NEW i \in 1..Len(s \o t)
      PROVE  (s \o t)[i] = n + i
  <2>1. CASE i <= Len(s)
    BY <1>1, <1>2, <2>1 DEF NumbersFrom
  <2>2. CASE i > Len(s)
    <3>1. i - Len(s) \in 1..Len(t) /\ (s \o t)[i] = t[i - Len(s)]
      BY <1>1, <1>2, <2>2
    <3>2. t[i - Len(s)] = (n + Len(s)) + (i - Len(s))
      BY <3>1 DEF NumbersFrom
    <3>3. (n + Len(s)) + (i - Len(s)) = n + i
      BY <1>1, <1>2
    <3> QED BY <3>1, <3>2, <3>3
  <2> QED BY <1>1, <1>2, <2>1, <2>2
<1> QED BY <1>2, <1>3 DEF NumbersFrom

(* The next number. *)
LEMMA NumbersAppend ==
  ASSUME NEW s, NEW n \in Nat, NumbersFrom(s, n)
  PROVE  /\ NumbersFrom(Append(s, n + Len(s) + 1), n)
         /\ Len(Append(s, n + Len(s) + 1)) = Len(s) + 1
<1>1. s \in Seq(Nat) /\ Len(s) \in Nat
  BY DEF NumbersFrom
<1>2. n + Len(s) + 1 \in Nat
  BY <1>1
<1>3. /\ Append(s, n + Len(s) + 1) \in Seq(Nat)
      /\ Len(Append(s, n + Len(s) + 1)) = Len(s) + 1
      /\ \A i \in 1..Len(s) : Append(s, n + Len(s) + 1)[i] = s[i]
      /\ Append(s, n + Len(s) + 1)[Len(s) + 1] = n + Len(s) + 1
  BY <1>1, <1>2
<1>4. ASSUME NEW i \in 1..(Len(s) + 1)
      PROVE  Append(s, n + Len(s) + 1)[i] = n + i
  <2>1. CASE i \in 1..Len(s)
    BY <1>3, <2>1 DEF NumbersFrom
  <2>2. CASE i = Len(s) + 1
    BY <1>1, <1>3, <2>2
  <2> QED BY <1>1, <2>1, <2>2
<1> QED BY <1>3, <1>4 DEF NumbersFrom

(* No number at all. *)
LEMMA NoNumbers ==
  ASSUME NEW n \in Nat
  PROVE  NumbersFrom(<< >>, n)
BY DEF NumbersFrom

(* A sequence of the numbers from 1 on is the function TLC compares with. *)
LEMMA NumbersAreIdentity ==
  ASSUME NEW s, NumbersFrom(s, 0)
  PROVE  s = [i \in 1..Len(s) |-> i]
<1>1. s \in [1..Len(s) -> Nat]
  BY DEF NumbersFrom
<1>2. \A i \in 1..Len(s) : s[i] = i
  BY DEF NumbersFrom
<1> QED BY <1>1, <1>2

(* Committing the current transaction, whether it is full or not. *)
LEMMA CommitKeepsBatch ==
  ASSUME NEW t, NumbersFrom(stored, 0), NumbersFrom(t, Len(stored)), Commit(t),
         current_transaction_size' \in 0..(transaction_size - 1)
  PROVE  BatchInv' /\ Len(stored') = Len(stored) + Len(t) /\ Len(pending') = 0 /\ ~has_current'
<1>1. stored' = stored \o t /\ pending' = << >> /\ has_current' = FALSE
  BY DEF Commit
<1>2. Len(stored) \in Nat
  BY DEF NumbersFrom
<1>3. NumbersFrom(t, 0 + Len(stored))
  BY <1>2
<1>4. NumbersFrom(stored', 0) /\ Len(stored') = Len(stored) + Len(t)
  BY <1>1, <1>3, NumbersConcat
<1>5. NumbersFrom(pending', Len(stored')) /\ Len(pending') = 0
  <2>1. Len(stored') \in Nat
    BY <1>4 DEF NumbersFrom
  <2> QED BY <1>1, <2>1, NoNumbers
<1> QED BY <1>1, <1>4, <1>5 DEF BatchInv

(* OdbReportRW::write of the next finding. *)
LEMMA PersistKeepsInv ==
  ASSUME ReportInv, CanWrite, process = "running", NEW f \in Findings,
         handed' = Append(handed, f), process' = process, Persist(Number)
  PROVE  ReportInv'
<1>1. /\ NumbersFrom(stored, 0) /\ NumbersFrom(pending, Len(stored))
      /\ current_transaction_size \in 0..(transaction_size - 1)
      /\ Len(stored) + Len(pending) = Len(handed) /\ handed \in Seq(Findings)
  BY DEF ReportInv, BatchInv, LossInv
<1>2. Len(stored) \in Nat /\ Len(pending) \in Nat /\ transaction_size \in Nat \ {0}
  BY <1>1, ReportConstants DEF NumbersFrom
<1>3. handed' \in Seq(Findings) /\ Len(handed') = Len(handed) + 1
  BY <1>1
<1> DEFINE t == IF current_transaction_size = 0 THEN <<Number>> ELSE Append(pending, Number)
           size == current_transaction_size + 1
<1>4. /\ Len(pending) = current_transaction_size
      /\ current_transaction_size = 0 => pending = << >>
  <2>1. CASE has_current
    BY <2>1 DEF ReportInv, BatchInv, CanWrite
  <2>2. CASE ~has_current
    <3>1. pending = << >> /\ current_transaction_size = 0
      BY <2>2 DEF ReportInv, BatchInv, CanWrite
    <3> QED BY <3>1
  <2> QED BY <2>1, <2>2
<1>40. /\ Len(handed') = Len(stored) + size /\ size \in Nat
       /\ Len(stored) \in Nat
  <2>1. Len(handed') = (Len(stored) + current_transaction_size) + 1
    BY <1>1, <1>3, <1>4
  <2>2. current_transaction_size \in Nat
    BY <1>2, <1>4
  <2> QED BY <1>2, <2>1, <2>2
<1>5. t = Append(pending, Len(stored) + Len(pending) + 1)
  <2>1. Number = Len(stored) + Len(pending) + 1
    BY <1>1 DEF Number
  <2>2. CASE current_transaction_size = 0
    <3>1. Append(<< >>, Number) = <<Number>>
      OBVIOUS
    <3> QED BY <1>4, <2>1, <2>2, <3>1
  <2>3. CASE current_transaction_size # 0
    BY <2>1, <2>3
  <2> QED BY <2>2, <2>3
<1>6. NumbersFrom(t, Len(stored)) /\ Len(t) = size
  BY <1>1, <1>2, <1>4, <1>5, NumbersAppend
<1>7. \/ size = transaction_size /\ Commit(t) /\ current_transaction_size' = 0
      \/ /\ size # transaction_size /\ pending' = t /\ has_current' = TRUE
         /\ current_transaction_size' = size /\ stored' = stored
  BY DEF Persist
<1> HIDE DEF t
<1>8. CASE size = transaction_size /\ Commit(t) /\ current_transaction_size' = 0
  <2>1. 0 \in 0..(transaction_size - 1)
    BY <1>2
  <2>2. /\ BatchInv' /\ Len(stored') = Len(stored) + Len(t) /\ Len(pending') = 0
        /\ ~has_current'
    BY <1>1, <1>6, <1>8, <2>1, CommitKeepsBatch
  <2>3. Len(stored') = Len(handed')
    BY <1>6, <1>40, <2>2
  <2>4. /\ Len(stored') + Len(pending') = Len(handed')
        /\ Len(handed') - Len(stored') \in 0..(transaction_size - 1)
    <3>1. Len(stored') \in Nat
      BY <1>40, <2>3
    <3> QED BY <2>1, <2>2, <2>3, <3>1
  <2> QED BY <1>3, <2>2, <2>4 DEF ReportInv, LossInv
<1>9. CASE /\ size # transaction_size /\ pending' = t /\ has_current' = TRUE
           /\ current_transaction_size' = size /\ stored' = stored
  <2>1. /\ size \in 0..(transaction_size - 1) /\ size # 0
    BY <1>1, <1>2, <1>9
  <2>2. BatchInv'
    BY <1>1, <1>6, <1>9, <2>1 DEF BatchInv
  <2>3. /\ Len(stored') + Len(pending') = Len(handed')
        /\ Len(handed') - Len(stored') \in 0..(transaction_size - 1)
    <3>1. Len(stored') = Len(stored) /\ Len(pending') = size
      BY <1>6, <1>9
    <3> HIDE DEF size
    <3> QED BY <1>40, <2>1, <3>1
  <2> QED BY <1>3, <2>2, <2>3 DEF ReportInv, LossInv
<1> QED BY <1>7, <1>8, <1>9

(* flush, by the caller or by the destructor. *)
LEMMA CommitKeepsInv ==
  ASSUME ReportInv, process = "running", process' \in {"running", "exited"},
         handed' = handed, current_transaction_size' = current_transaction_size,
         Commit(pending)
  PROVE  ReportInv'
<1>1. /\ NumbersFrom(stored, 0) /\ NumbersFrom(pending, Len(stored))
      /\ current_transaction_size' \in 0..(transaction_size - 1)
      /\ Len(stored) + Len(pending) = Len(handed) /\ handed \in Seq(Findings)
  BY DEF ReportInv, BatchInv, LossInv
<1>2. Len(stored) \in Nat /\ Len(pending) \in Nat /\ transaction_size \in Nat \ {0}
  BY <1>1, ReportConstants DEF NumbersFrom
<1>3. /\ BatchInv' /\ Len(stored') = Len(stored) + Len(pending) /\ Len(pending') = 0
      /\ ~has_current'
  BY <1>1, CommitKeepsBatch
<1>4. /\ Len(stored') + Len(pending') = Len(handed')
      /\ Len(handed') - Len(stored') \in 0..(transaction_size - 1)
  BY <1>1, <1>2, <1>3
<1> QED BY <1>1, <1>3, <1>4 DEF ReportInv, LossInv

(***************************************************************************)
(* ReportInv is an invariant of the database report (OdbReportRW) for      *)
(* every size of transactions.                                             *)
(***************************************************************************)
THEOREM ReportInvariant == ReportSpec => []ReportInv
<1>1. ReportInit => ReportInv
  <2> SUFFICES ASSUME ReportInit
               PROVE  ReportInv
    OBVIOUS
  <2>1. NumbersFrom(<< >>, 0) /\ Len(<< >>) = 0 /\ << >> \in Seq(Findings)
    BY NoNumbers
  <2>2. 0 \in 0..(transaction_size - 1)
    BY ReportConstants
  <2>3. BatchInv
    BY <2>1, <2>2 DEF ReportInit, BatchInv
  <2>4. LossInv
    BY <2>1, <2>2 DEF ReportInit, LossInv
  <2> QED BY <2>3, <2>4 DEF ReportInv
<1>2. ReportInv /\ [ReportNext]_reportVars => ReportInv'
  <2> SUFFICES ASSUME ReportInv, [ReportNext]_reportVars
               PROVE  ReportInv'
    OBVIOUS
  <2>1. ASSUME NEW f \in Findings, WriteError(f)
        PROVE  ReportInv'
    <3>1. /\ CanWrite /\ process = "running" /\ handed' = Append(handed, f)
          /\ process' = process /\ Persist(Number)
      BY <2>1 DEF WriteError
    <3> QED BY <3>1, PersistKeepsInv
  <2>2. ASSUME NEW f \in Findings, WriteWarning(f)
        PROVE  ReportInv'
    <3>1. /\ CanWrite /\ process = "running" /\ handed' = Append(handed, f)
          /\ process' = process /\ Persist(Number)
      BY <2>2 DEF WriteWarning
    <3> QED BY <3>1, PersistKeepsInv
  <2>3. CASE Flush
    <3>1. /\ process = "running" /\ process' = "running" /\ handed' = handed /\ Commit(pending)
          /\ current_transaction_size' = current_transaction_size
      BY <2>3 DEF Flush
    <3> QED BY <3>1, CommitKeepsInv
  <2>4. CASE WriteThrows
    <3>1. ~has_current
      BY <2>4 DEF WriteThrows, CanWrite, ReportInv, BatchInv
    <3> QED BY <2>4, <3>1 DEF WriteThrows, ReportInv, BatchInv, LossInv
  <2>5. CASE Destroy
    <3>1. /\ process = "running" /\ process' = "exited" /\ handed' = handed /\ Commit(pending)
          /\ current_transaction_size' = current_transaction_size
      BY <2>5 DEF Destroy
    <3> QED BY <3>1, CommitKeepsInv
  <2>6. CASE Kill
    <3>1. NumbersFrom(<< >>, Len(stored))
      BY NoNumbers DEF ReportInv, BatchInv, NumbersFrom
    <3>2. /\ process' = "killed" /\ pending' = << >> /\ has_current' = FALSE
          /\ stored' = stored /\ handed' = handed
          /\ current_transaction_size' = current_transaction_size
      BY <2>6 DEF Kill
    <3>3. BatchInv'
      BY <3>1, <3>2 DEF ReportInv, BatchInv
    <3>4. LossInv'
      BY <3>2 DEF ReportInv, LossInv
    <3> QED BY <3>3, <3>4 DEF ReportInv
  <2>7. CASE CountErrors \/ UNCHANGED reportVars
    BY <2>7 DEF CountErrors, reportVars, ReportInv, BatchInv, LossInv
  <2> QED BY <2>1, <2>2, <2>3, <2>4, <2>5, <2>6, <2>7 DEF ReportNext
<1> QED BY <1>1, <1>2, PTL DEF ReportSpec

(***************************************************************************)
(* For every size of transactions, the database holds the findings handed  *)
(* over first, in order and once each, and less than a full transaction is *)
(* ever missing, also after the process was killed between two writes.     *)
(***************************************************************************)
THEOREM DatabaseLosesLessThanABatch == ReportSpec => []DatabaseIsPrefix
<1>1. ReportInv => DatabaseIsPrefix
  BY NumbersAreIdentity DEF ReportInv, BatchInv, LossInv, DatabaseIsPrefix
<1> QED BY <1>1, ReportInvariant, PTL

(***************************************************************************)
(* When the validator exits, normally or by an exception that main         *)
(* catches, the database has every finding (the destructor of OdbReportRW  *)
(* commits the incomplete transaction).                                    *)
(***************************************************************************)
THEOREM ExitLosesNothing == ReportSpec => []CompleteWhenExited
<1>1. ReportInv => CompleteWhenExited
  <2> SUFFICES ASSUME ReportInv, process = "exited"
               PROVE  stored = [n \in 1..Len(handed) |-> n]
    BY DEF CompleteWhenExited
  <2>1. /\ NumbersFrom(stored, 0) /\ pending = << >> /\ Len(stored) + Len(pending) = Len(handed)
    BY DEF ReportInv, BatchInv, LossInv
  <2>2. Len(stored) \in Nat /\ Len(pending) = 0
    BY <2>1 DEF NumbersFrom
  <2>3. Len(stored) = Len(handed)
    BY <2>1, <2>2
  <2> QED BY <2>1, <2>3, NumbersAreIdentity
<1> QED BY <1>1, ReportInvariant, PTL-----------------------------------------------------------------------------
(* The answer of count_errors: the errors among the findings stored are    *)
(* those handed over first, and what was handed over after them bounds     *)
(* what is missing.                                                        *)
LEMMA CountIsClose ==
  ASSUME ReportInv
  PROVE  /\ ErrorsAmong(stored) \in Nat /\ AllErrors \in Nat
         /\ AllErrors - ErrorsAmong(stored) < transaction_size
         /\ Len(stored) = Len(handed) => ErrorsAmong(stored) = AllErrors
<1> DEFINE A == {i \in 1..Len(stored) : handed[stored[i]].severity = "error"}
           B == {n \in 1..Len(handed) : handed[n].severity = "error"}
           R == (Len(stored) + 1)..Len(handed)
<1>1. /\ Len(stored) \in Nat /\ Len(handed) \in Nat /\ transaction_size \in Nat
      /\ Len(handed) - Len(stored) \in 0..(transaction_size - 1)
      /\ \A i \in 1..Len(stored) : stored[i] = i
  BY ReportConstants DEF ReportInv, BatchInv, LossInv, NumbersFrom
<1>2. A = {n \in 1..Len(stored) : handed[n].severity = "error"}
  BY <1>1
<1>3. IsFiniteSet(1..Len(handed)) /\ IsFiniteSet(R) /\ Cardinality(R) = Len(handed) - Len(stored)
  BY <1>1, FS_Interval
<1>4. B \in SUBSET (1..Len(handed)) /\ A \in SUBSET B /\ B \in SUBSET (A \cup R)
  BY <1>1, <1>2
<1> HIDE DEF A, B, R
<1>5. IsFiniteSet(B)
  BY <1>3, <1>4, FS_Subset
<1>6. IsFiniteSet(A)
  BY <1>4, <1>5, FS_Subset
<1>7. Cardinality(A) \in Nat /\ Cardinality(B) \in Nat
  BY <1>5, <1>6, FS_CardinalityType
<1>8. Cardinality(B) <= Cardinality(A) + (Len(handed) - Len(stored))
  <2>1. /\ IsFiniteSet(A \cup R)
        /\ Cardinality(A \cup R) = Cardinality(A) + Cardinality(R) - Cardinality(A \cap R)
    BY <1>3, <1>6, FS_Union
  <2>2. A \cap R \in SUBSET A
    OBVIOUS
  <2>3. Cardinality(A \cap R) \in Nat
    BY <1>6, <2>2, FS_Subset, FS_CardinalityType
  <2>4. Cardinality(B) <= Cardinality(A \cup R)
    BY <1>4, <2>1, FS_Subset
  <2>5. Cardinality(A \cup R) \in Nat
    BY <2>1, FS_CardinalityType
  <2> QED
    BY <1>1, <1>3, <1>7, <2>1, <2>3, <2>4, <2>5
<1>9. Cardinality(B) - Cardinality(A) < transaction_size
  BY <1>1, <1>7, <1>8
<1>10. Len(stored) = Len(handed) => A = B
  BY <1>2 DEF B
<1>11. ErrorsAmong(stored) = Cardinality(A) /\ AllErrors = Cardinality(B)
  BY DEF ErrorsAmong, AllErrors, A, B
<1> QED
  BY <1>7, <1>9, <1>10, <1>11

(* The answer was computed while no transaction was current. *)
ReaderInv == counted \in [got : Nat, of : Nat] /\ ReadersSeeAll

(* ReaderInv is an invariant: an answer of count_errors stays right until  *)
(* the next one, and the process does not come back to life.               *)
THEOREM ReaderInvariant == ReportSpec => []ReaderInv
<1>1. ReportInit => ReaderInv
  BY ReportConstants DEF ReportInit, ReaderInv, ReadersSeeAll
<1>2. ReportInv /\ ReaderInv /\ [ReportNext]_reportVars => ReaderInv'
  <2> SUFFICES ASSUME ReportInv, ReaderInv, [ReportNext]_reportVars
               PROVE  ReaderInv'
    OBVIOUS
  <2>1. CASE CountErrors
    <3>1. /\ ~has_current /\ process' = process
          /\ counted' = [got |-> ErrorsAmong(stored), of |-> AllErrors]
      BY <2>1 DEF CountErrors
    <3>2. process # "killed" => Len(stored) = Len(handed)
      <4> SUFFICES ASSUME process # "killed" PROVE Len(stored) = Len(handed)
        OBVIOUS
      <4>1. /\ pending = << >> /\ Len(stored) + Len(pending) = Len(handed)
            /\ stored \in Seq(Nat)
        BY <3>1 DEF ReportInv, BatchInv, LossInv, NumbersFrom
      <4> QED
        BY <4>1
    <3> QED
      BY <3>1, <3>2, CountIsClose DEF ReaderInv, ReadersSeeAll
  <2>2. CASE ~CountErrors
    <3>1. counted' = counted /\ (process = "killed" => process' = "killed")
      BY <2>2 DEF ReportNext, WriteError, WriteWarning, Flush, WriteThrows, Destroy, Kill, reportVars
    <3> QED
      BY <3>1 DEF ReaderInv, ReadersSeeAll
  <2> QED
    BY <2>1, <2>2
<1> QED
  BY <1>1, <1>2, ReportInvariant, PTL DEF ReportSpec

(***************************************************************************)
(* Whoever is answered by count_errors is told of every error handed over, *)
(* and after a kill of all but less than a transaction.                    *)
(***************************************************************************)
THEOREM ReadersAreToldAll == ReportSpec => []ReadersSeeAll
<1>1. ReaderInv => ReadersSeeAll
  BY DEF ReaderInv
<1> QED
  BY <1>1, ReaderInvariant, PTL
-----------------------------------------------------------------------------
(* What the SummaryTracker remembers is every definition that was missing  *)
(* so far, and the text holds findings that were handed over.              *)
SummaryInv ==
  /\ skip \in BOOLEAN
  /\ already_reported = {k \in Keys : \E n \in 1..Len(handed) : handed[n].key = k}
  /\ text \in Seq(Nat)
  /\ \A i \in 1..Len(text) : text[i] \in 1..Len(handed)
  /\ SummaryKeepsFirsts

(* Nothing changes for the findings handed over before, whether or not the *)
(* new one is written.                                                     *)
LEMMA SummaryOfNext ==
  ASSUME ReportInv, SummaryInv, NEW f \in Findings, handed' = Append(handed, f),
         text' = text \/ text' = Append(text, Number),
         already_reported' = {k \in Keys : k \in already_reported \/ k = f.key},
         skip' \in BOOLEAN,
         f.severity = "error" => text' = Append(text, Number),
         f.key # NoKey => (text' = text <=> f.key \in already_reported)
  PROVE  SummaryInv'
<1>1. handed \in Seq(Findings) /\ Len(handed) \in Nat /\ Number = Len(handed) + 1
  BY DEF ReportInv, LossInv, Number
<1>2. /\ handed' \in Seq(Findings) /\ Len(handed') = Number
      /\ \A n \in 1..Len(handed) : handed'[n] = handed[n]
      /\ handed'[Number] = f
  BY <1>1
<1>3. text \in Seq(Nat) /\ Len(text) \in Nat /\ \A i \in 1..Len(text) : text[i] \in 1..Len(handed)
  BY DEF SummaryInv
<1>4. /\ Append(text, Number) \in Seq(Nat) /\ Len(Append(text, Number)) = Len(text) + 1
      /\ \A i \in 1..Len(text) : Append(text, Number)[i] = text[i]
      /\ Append(text, Number)[Len(text) + 1] = Number
  BY <1>1, <1>3
<1>5. text' \in Seq(Nat) /\ \A i \in 1..Len(text') : text'[i] \in 1..Len(handed')
  <2>1. \A i \in 1..Len(text) : text[i] \in 1..Number
    BY <1>1, <1>3
  <2>2. CASE text' = text
    BY <1>2, <1>3, <2>1, <2>2
  <2>3. CASE text' = Append(text, Number)
    <3>1. ASSUME NEW i \in 1..(Len(text) + 1) PROVE Append(text, Number)[i] \in 1..Number
      <4>1. i \in 1..Len(text) \/ i = Len(text) + 1
        BY <1>3
      <4> QED
        BY <1>1, <1>4, <2>1, <4>1
    <3> QED
      BY <1>2, <1>4, <2>3, <3>1
  <2> QED
    BY <2>2, <2>3
<1>6. ASSUME NEW n \in 1..Len(handed) PROVE Written(n)' <=> Written(n)
  <2>1. CASE text' = text
    BY <2>1 DEF Written
  <2>2. CASE text' = Append(text, Number)
    <3>1. n # Number
      BY <1>1
    <3>2. ASSUME NEW i \in 1..Len(text'), text'[i] = n PROVE Written(n)
      <4>1. i \in 1..Len(text)
        BY <1>3, <1>4, <2>2, <3>1, <3>2
      <4> QED
        BY <1>4, <2>2, <3>2, <4>1 DEF Written
    <3>3. ASSUME NEW i \in 1..Len(text), text[i] = n PROVE Written(n)'
      <4>1. i \in 1..Len(text') /\ text'[i] = n
        BY <1>3, <1>4, <2>2, <3>3
      <4> QED
        BY <4>1 DEF Written
    <3> QED
      BY <3>2, <3>3 DEF Written
  <2> QED
    BY <2>1, <2>2
<1>7. PICK k \in Nat : k = Number
  BY <1>1
<1>8. Written(k)' <=> text' = Append(text, Number)
  <2>1. CASE text' = Append(text, Number)
    <3>1. Len(text) + 1 \in 1..Len(text') /\ text'[Len(text) + 1] = k
      BY <1>3, <1>4, <1>7, <2>1
    <3>2. Written(k)'
      BY <3>1 DEF Written
    <3> QED
      BY <2>1, <3>2
  <2>2. CASE text' = text
    <3>1. ~ \E i \in 1..Len(text') : text'[i] = k
      BY <1>1, <1>3, <1>7, <2>2
    <3>2. text' # Append(text, Number)
      BY <1>3, <1>4, <2>2
    <3> QED
      BY <3>1, <3>2 DEF Written
  <2> QED
    BY <2>1, <2>2
<1>9. already_reported' = {x \in Keys : \E n \in 1..Len(handed') : handed'[n].key = x}
  <2>1. \A n \in 1..Len(handed') : n \in 1..Len(handed) \/ n = Number
    BY <1>1, <1>2
  <2>2. Number \in 1..Len(handed') /\ \A n \in 1..Len(handed) : n \in 1..Len(handed')
    BY <1>1, <1>2
  <2>3. ASSUME NEW x \in Keys
        PROVE  (x \in already_reported \/ x = f.key) <=> \E n \in 1..Len(handed') : handed'[n].key = x
    BY <1>2, <2>1, <2>2 DEF SummaryInv
  <2> QED
    BY <2>3
<1>10. ASSUME NEW n \in 1..Len(handed')
       PROVE  /\ handed'[n].severity = "error" => Written(n)'
              /\ handed'[n].key # NoKey =>
                   (Written(n)' <=> \A m \in 1..(n - 1) : handed'[m].key # handed'[n].key)
  <2>1. n \in 1..Len(handed) \/ n = Number
    BY <1>1, <1>2
  <2>2. CASE n \in 1..Len(handed)
    <3>1. \A m \in 1..(n - 1) : m \in 1..Len(handed)
      BY <1>1, <2>2
    <3>2. handed'[n] = handed[n] /\ \A m \in 1..(n - 1) : handed'[m] = handed[m]
      BY <1>2, <2>2, <3>1
    <3> QED
      BY <1>6, <2>2, <3>2 DEF SummaryInv, SummaryKeepsFirsts
  <2>3. CASE n = Number
    <3>1. handed'[n] = f /\ n = k /\ \A m \in 1..(n - 1) : m \in 1..Len(handed) /\ handed'[m] = handed[m]
      BY <1>1, <1>2, <1>7, <2>3
    <3>2. f.severity = "error" => Written(n)'
      BY <1>8, <3>1
    <3>3. ASSUME f.key # NoKey
          PROVE  Written(n)' <=> \A m \in 1..(n - 1) : handed'[m].key # f.key
      <4>1. f.key \in Keys
        BY <3>3 DEF Findings, Finding
      <4>2. Append(text, Number) # text
        BY <1>3, <1>4
      <4>3. Written(n)' <=> f.key \notin already_reported
        BY <1>8, <3>1, <3>3, <4>2
      <4>4. 1..(n - 1) = 1..Len(handed)
        BY <1>1, <2>3
      <4>5. f.key \in already_reported <=> \E m \in 1..Len(handed) : handed[m].key = f.key
        BY <4>1 DEF SummaryInv
      <4> QED
        BY <3>1, <4>3, <4>4, <4>5
    <3> QED
      BY <3>1, <3>2, <3>3
  <2> QED
    BY <2>1, <2>2, <2>3
<1>11. SummaryKeepsFirsts'
  BY <1>10 DEF SummaryKeepsFirsts
<1> QED
  BY <1>5, <1>9, <1>11 DEF SummaryInv

(* SummaryInv is an invariant: the set of keys that SummaryTracker keeps   *)
(* is never behind and never ahead of what was handed over.                *)
THEOREM SummaryInvariant == ReportSpec => []SummaryInv
<1>1. ReportInit => SummaryInv
  <2> SUFFICES ASSUME ReportInit PROVE SummaryInv
    OBVIOUS
  <2>1. /\ Len(handed) = 0 /\ Len(text) = 0 /\ text \in Seq(Nat)
        /\ already_reported = {} /\ skip \in BOOLEAN
    <3>1. Len(<< >>) = 0 /\ << >> \in Seq(Nat)
      OBVIOUS
    <3>2. handed = << >> /\ text = << >> /\ already_reported = {} /\ skip = FALSE
      BY DEF ReportInit
    <3> QED
      BY <3>1, <3>2
  <2>2. SummaryKeepsFirsts
    BY <2>1 DEF SummaryKeepsFirsts
  <2> QED
    BY <2>1, <2>2 DEF SummaryInv
<1>2. ReportInv /\ SummaryInv /\ [ReportNext]_reportVars => SummaryInv'
  <2> SUFFICES ASSUME ReportInv, SummaryInv, [ReportNext]_reportVars
               PROVE  SummaryInv'
    OBVIOUS
  <2>1. ASSUME NEW f \in Findings, WriteError(f)
        PROVE  SummaryInv'
    <3>1. f.severity = "error" /\ f.key = NoKey /\ f.key \notin Keys
      BY <2>1, ReportConstants DEF WriteError, Findings
    <3>2. /\ handed' = Append(handed, f) /\ text' = Append(text, Number)
          /\ already_reported' = already_reported /\ skip' = skip
      BY <2>1 DEF WriteError
    <3>3. already_reported' = {k \in Keys : k \in already_reported \/ k = f.key}
      BY <3>1, <3>2 DEF SummaryInv
    <3>4. skip' \in BOOLEAN
      BY <3>2 DEF SummaryInv
    <3> QED
      BY <3>1, <3>2, <3>3, <3>4, SummaryOfNext
  <2>2. ASSUME NEW f \in Findings, WriteWarning(f)
        PROVE  SummaryInv'
    <3>1. /\ handed' = Append(handed, f) /\ Visit(f) /\ f.severity = "warning"
          /\ text' = IF skip' THEN text ELSE Append(text, Number)
      BY <2>2 DEF WriteWarning
    <3>2. f.key \in Keys \cup {NoKey}
      BY DEF Findings, Finding
    <3>3. text' = text \/ text' = Append(text, Number)
      BY <3>1
    <3>4. CASE f.key = NoKey
      <4>1. already_reported' = already_reported /\ skip' = skip /\ f.key \notin Keys
        BY <3>1, <3>4, ReportConstants DEF Visit
      <4>2. already_reported' = {k \in Keys : k \in already_reported \/ k = f.key}
        BY <4>1 DEF SummaryInv
      <4>3. skip' \in BOOLEAN
        BY <4>1 DEF SummaryInv
      <4> QED
        BY <3>1, <3>3, <3>4, <4>2, <4>3, SummaryOfNext
    <3>5. CASE f.key # NoKey
      <4>1. /\ skip' = (f.key \in already_reported)
            /\ already_reported' = already_reported \cup {f.key}
        BY <3>1, <3>5 DEF Visit
      <4>2. already_reported' = {k \in Keys : k \in already_reported \/ k = f.key}
        BY <3>2, <3>5, <4>1 DEF SummaryInv
      <4>3. skip' \in BOOLEAN
        BY <4>1
      <4>4. Append(text, Number) # text
        BY DEF SummaryInv, Number
      <4>5. text' = text <=> f.key \in already_reported
        BY <3>1, <4>1, <4>4
      <4> QED
        BY <3>1, <3>3, <3>5, <4>2, <4>3, <4>5, SummaryOfNext
    <3> QED
      BY <3>4, <3>5
  <2>3. CASE \/ Flush \/ WriteThrows \/ Destroy \/ Kill \/ CountErrors
             \/ UNCHANGED reportVars
    <3>1. UNCHANGED <<handed, already_reported, skip, text>>
      BY <2>3 DEF Flush, WriteThrows, Destroy, Kill, CountErrors, reportVars
    <3> QED
      BY <3>1 DEF SummaryInv, SummaryKeepsFirsts, Written
  <2> QED
    BY <2>1, <2>2, <2>3 DEF ReportNext
<1> QED
  BY <1>1, <1>2, ReportInvariant, PTL DEF ReportSpec

(***************************************************************************)
(* The text summary has every error, and each missing definition exactly   *)
(* where it is first handed over, for any number of findings.              *)
(***************************************************************************)
THEOREM SummaryIsComplete == ReportSpec => []SummaryKeepsFirsts
<1>1. SummaryInv => SummaryKeepsFirsts
  BY DEF SummaryInv
<1> QED
  BY <1>1, SummaryInvariant, PTL

(* Type correctness of both reports. *)
THEOREM ReportTypeCorrect == ReportSpec => []ReportTypeOK
<1>1. ReportInv /\ ReaderInv /\ SummaryInv => ReportTypeOK
  <2> SUFFICES ASSUME ReportInv, ReaderInv, SummaryInv PROVE ReportTypeOK
    OBVIOUS
  <2>1. /\ handed \in Seq(Findings) /\ process \in {"running", "exited", "killed"}
        /\ has_current \in BOOLEAN /\ pending \in Seq(Nat) /\ stored \in Seq(Nat)
        /\ current_transaction_size \in 0..(transaction_size - 1)
    BY DEF ReportInv, BatchInv, LossInv, NumbersFrom
  <2>2. already_reported \subseteq Keys /\ skip \in BOOLEAN /\ text \in Seq(Nat)
    BY DEF SummaryInv
  <2> QED
    BY <2>1, <2>2 DEF ReaderInv, ReportTypeOK
<1> QED
  BY <1>1, ReportInvariant, ReaderInvariant, SummaryInvariant, PTL
=============================================================================
