------------------------------ MODULE Reports ------------------------------
(***************************************************************************)
(* The outputs of the validator: write_errors (validator.cpp) hands every  *)
(* error and warning to each ReportWriter.  Both kinds of writers are      *)
(* used, as with `-r database,text': OdbReportRW, which collects findings  *)
(* in a transaction of a SQLite database and commits it from time to time, *)
(* and SummaryReportWriter, which writes every line of text at once but    *)
(* leaves out what it takes for repetitions.                               *)
(*                                                                         *)
(* A finding is identified by its number, the place it has in `handed'.    *)
(* ODB and SQLite are external: a transaction is the findings persisted    *)
(* since it began, it is lost if the process ends before the commit, and   *)
(* persist outside a transaction throws.                                   *)
(***************************************************************************)
EXTENDS Integers, Sequences, FiniteSets

CONSTANTS
  Keys,              (* (column, field) pairs of NoMetaDefinitionErrors    *)
  NoKey,             (* stands for every other type of error               *)
  transaction_size,  (* 1000000 in the code                                *)
  MaxFindings        (* bound: how many findings a run of validate has     *)

ASSUME ReportConstants ==
  /\ transaction_size \in Nat \ {0}
  /\ NoKey \notin Keys
  /\ MaxFindings \in Nat

VARIABLES
  handed,                    (* history: the findings that were accepted   *)
  process,                   (* "running", "exited" or "killed"            *)
  already_reported, skip,    (* SummaryTracker                             *)
  text,                      (* findings in the text file                  *)
  has_current,               (* a transaction is current                   *)
  pending,                   (* what was persisted in it                   *)
  stored,                    (* what was committed to the database         *)
  current_transaction_size,
  counted                    (* history: the last answer of count_errors,  *)
                             (* and how many errors had been handed over   *)

reportVars == <<handed, process, already_reported, skip, text, has_current,
                pending, stored, current_transaction_size, counted>>

Finding == [severity : {"error", "warning"}, key : Keys \cup {NoKey}]

(* Only the optional checks throw NoMetaDefinitionErrors, as warnings. *)
Findings == {f \in Finding : f.severity = "error" => f.key = NoKey}

Number == Len(handed) + 1

ErrorsAmong(numbers) == Cardinality({i \in 1..Len(numbers) : handed[numbers[i]].severity = "error"})
AllErrors == Cardinality({n \in 1..Len(handed) : handed[n].severity = "error"})
-----------------------------------------------------------------------------
ReportInit ==
  /\ handed = << >>
  /\ process = "running"
  /\ already_reported = {} /\ skip = FALSE
  /\ text = << >>
  /\ has_current = FALSE
  /\ pending = << >> /\ stored = << >>
  /\ current_transaction_size = 0
  /\ counted = [got |-> 0, of |-> 0]

(* flush, the transaction being t.  It leaves current_transaction_size. *)
Commit(t) ==
  /\ stored' = stored \o t
  /\ pending' = << >>
  /\ has_current' = FALSE

(* A write that does not reset the size after the commit. *)
MutantPersist(n) ==
  LET t == IF current_transaction_size = 0 THEN <<n>> ELSE Append(pending, n)
  IN  IF current_transaction_size + 1 = transaction_size
        THEN Commit(t) /\ current_transaction_size' = current_transaction_size + 1
        ELSE /\ pending' = t
             /\ has_current' = TRUE
             /\ current_transaction_size' = current_transaction_size + 1
             /\ UNCHANGED stored

(* A write that compares the size before it is incremented. *)
MutantPersistLate(n) ==
  LET t == IF current_transaction_size = 0 THEN <<n>> ELSE Append(pending, n)
  IN  \/ /\ current_transaction_size = transaction_size
         /\ Commit(t)
         /\ current_transaction_size' = 0
      \/ /\ current_transaction_size # transaction_size
         /\ pending' = t
         /\ has_current' = TRUE
         /\ current_transaction_size' = current_transaction_size + 1
         /\ UNCHANGED stored

(* OdbReportRW::write: the transaction that it starts or finds is          *)
(* committed when it is full.                                              *)
Persist(n) ==
  LET t    == IF current_transaction_size = 0 THEN <<n>> ELSE Append(pending, n)
      size == current_transaction_size + 1
  IN  \/ /\ size = transaction_size
         /\ Commit(t)
         /\ current_transaction_size' = 0
      \/ /\ size # transaction_size
         /\ pending' = t
         /\ has_current' = TRUE
         /\ current_transaction_size' = size
         /\ UNCHANGED stored

(* A transaction must be current exactly when this is not its beginning. *)
CanWrite == has_current <=> current_transaction_size # 0

(* write_error of both writers, the database first. *)
WriteError(f) ==
  /\ process = "running" /\ CanWrite
  /\ f.severity = "error"
  /\ handed' = Append(handed, f)
  /\ Persist(Number)
  /\ text' = Append(text, Number)
  /\ UNCHANGED <<process, already_reported, skip, counted>>

(* A tracker that forgets to remember. *)
MutantVisitForgets(f) ==
  /\ skip' = (f.key \in already_reported)
  /\ UNCHANGED already_reported

(* SummaryTracker::visit: only the one for NoMetaDefinitionErrors has a    *)
(* body.                                                                   *)
Visit(f) ==
  \/ /\ f.key = NoKey
     /\ UNCHANGED <<already_reported, skip>>
  \/ /\ f.key # NoKey
     /\ skip' = (f.key \in already_reported)
     /\ already_reported' = already_reported \cup {f.key}

(* write_warning of both writers; should_write_report returns not skip. *)
WriteWarning(f) ==
  /\ process = "running" /\ CanWrite
  /\ f.severity = "warning"
  /\ handed' = Append(handed, f)
  /\ Persist(Number)
  /\ Visit(f)
  /\ text' = IF skip' THEN text ELSE Append(text, Number)
  /\ UNCHANGED <<process, counted>>

(* flush, the public one. *)
Flush ==
  /\ process = "running" /\ has_current
  /\ Commit(pending)
  /\ UNCHANGED <<handed, process, already_reported, skip, text,
                 current_transaction_size, counted>>

(* A write after a flush: db->persist throws as no transaction is current. *)
(* The exception gets to main, which returns.                              *)
WriteThrows ==
  /\ process = "running" /\ ~CanWrite
  /\ process' = "exited"
  /\ UNCHANGED <<handed, already_reported, skip, text, has_current, pending,
                 stored, current_transaction_size, counted>>

(* A destructor that does not commit. *)
MutantDestroy ==
  /\ process = "running"
  /\ pending' = << >> /\ has_current' = FALSE
  /\ process' = "exited"
  /\ UNCHANGED <<handed, already_reported, skip, text, stored,
                 current_transaction_size, counted>>

(* main returns: ~OdbReportRW flushes. *)
Destroy ==
  /\ process = "running"
  /\ Commit(pending)
  /\ process' = "exited"
  /\ UNCHANGED <<handed, already_reported, skip, text, current_transaction_size, counted>>

(* std::terminate is called (AbortErrorPolicy), or the process is killed:  *)
(* no destructor runs.                                                     *)
Kill ==
  /\ process = "running"
  /\ process' = "killed"
  /\ pending' = << >> /\ has_current' = FALSE
  /\ UNCHANGED <<handed, already_reported, skip, text, stored,
                 current_transaction_size, counted>>

(* A reader that does not mind a current transaction. *)
MutantCountErrors ==
  /\ counted' = [got |-> ErrorsAmong(stored), of |-> AllErrors]
  /\ UNCHANGED <<handed, process, already_reported, skip, text, has_current,
                 pending, stored, current_transaction_size>>

(* count_errors, of the object that wrote or of one that was opened later. *)
(* It throws, and changes nothing, while a transaction is current.         *)
CountErrors ==
  /\ ~has_current
  /\ counted' = [got |-> ErrorsAmong(stored), of |-> AllErrors]
  /\ UNCHANGED <<handed, process, already_reported, skip, text, has_current,
                 pending, stored, current_transaction_size>>

ReportNext ==
  \/ \E f \in Findings : Len(handed) < MaxFindings /\ (WriteError(f) \/ WriteWarning(f))
  \/ Flush
  \/ WriteThrows
  \/ Destroy
  \/ Kill
  \/ CountErrors

ReportSpec == ReportInit /\ [][ReportNext]_reportVars
-----------------------------------------------------------------------------
ReportTypeOK ==
  /\ handed \in Seq(Findings)
  /\ process \in {"running", "exited", "killed"}
  /\ already_reported \subseteq Keys
  /\ skip \in BOOLEAN /\ has_current \in BOOLEAN
  /\ text \in Seq(Nat) /\ pending \in Seq(Nat) /\ stored \in Seq(Nat)
  /\ current_transaction_size \in 0..(transaction_size - 1)
  /\ counted \in [got : Nat, of : Nat]

(***************************************************************************)
(* What is in the database is what was handed over first, each finding     *)
(* once and in order; what is missing is in the current transaction, or    *)
(* was lost with it when the process was killed, and is always less than a *)
(* full transaction.                                                       *)
(***************************************************************************)
DatabaseIsPrefix ==
  /\ stored = [i \in 1..Len(stored) |-> i]
  /\ Len(handed) - Len(stored) \in 0..(transaction_size - 1)
  /\ process # "killed" => Len(stored) + Len(pending) = Len(handed)

(***************************************************************************)
(* When the process exits, by return or by exception, the database has     *)
(* every finding that was accepted (the destructor commits the last,       *)
(* incomplete transaction).                                                *)
(***************************************************************************)
CompleteWhenExited ==
  process = "exited" => stored = [n \in 1..Len(handed) |-> n]

(***************************************************************************)
(* "You can only read if the changes were flushed": whoever is answered    *)
(* while the writer lives or after it exited is told about every error     *)
(* handed over so far, and after a kill at most an incomplete transaction  *)
(* is missing.                                                             *)
(***************************************************************************)
ReadersSeeAll ==
  /\ process # "killed" => counted.got = counted.of
  /\ counted.of - counted.got < transaction_size

Written(n) == \E i \in 1..Len(text) : text[i] = n

(***************************************************************************)
(* The summary has every error, and each missing definition once, the      *)
(* first time it appears, whatever else was written or left out.           *)
(***************************************************************************)
SummaryKeepsFirsts ==
  \A n \in 1..Len(handed) :
    LET f == handed[n]
    IN  /\ f.severity = "error" => Written(n)
        /\ f.key # NoKey => (Written(n) <=> \A m \in 1..(n - 1) : handed[m].key # f.key)

(***************************************************************************)
(* summary_report_writer.hpp: "all errors will be printed the first time   *)
(* they appear"; report_writer_test.cpp: "SummaryTracker should write      *)
(* every time important Errors".                                           *)
(***************************************************************************)
SummaryKeepsOthers ==
  \A n \in 1..Len(handed) : handed[n].key = NoKey => Written(n)
=============================================================================
