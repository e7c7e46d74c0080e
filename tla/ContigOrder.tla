---------------------------- MODULE ContigOrder ----------------------------
(***************************************************************************)
(* StoreParsePolicy::check_sorted: the map of contigs already seen and the *)
(* place of the previous record, with which the parser decides whether a   *)
(* record keeps the contigs contiguous and the positions sorted.           *)
(***************************************************************************)
EXTENDS Integers, Sequences

CONSTANTS
  Contigs,       (* names of contigs, as ranks                              *)
  LogPositions,  (* values of the POS column                                *)
  NoContig       (* the empty string previous_contig starts as              *)

ASSUME OrderConstants ==
  /\ LogPositions \subseteq Nat
  /\ NoContig \notin Contigs

VARIABLES
  finished_contigs,   (* std::map: a contig found so far -> fully read      *)
  previous_contig,
  previous_position,  (* not initialised by any constructor                 *)
  accepted,           (* history: records that passed, in order             *)
  refused             (* history: records that did not, with the reason     *)

orderVars == <<finished_contigs, previous_contig, previous_position,
               accepted, refused>>

Log == INSTANCE OrderedLog WITH log <- accepted

found == DOMAIN finished_contigs

OrderInit ==
  /\ finished_contigs = [c \in {} |-> FALSE]
  /\ previous_contig = NoContig
  /\ previous_position \in LogPositions
  /\ accepted = << >>
  /\ refused = << >>

(* A bug that forgets to finish the previous contig. *)
MutantStartContig(contig) ==
  [c \in found \cup {contig} |-> IF c = contig THEN FALSE ELSE finished_contigs[c]]

(* The contigs after one not found in the map: the previous one is         *)
(* finished (operator[] assigns, the first contig has no previous one).    *)
StartContig(contig) ==
  [c \in found \cup {contig} |->
     IF c = contig THEN FALSE
     ELSE c = previous_contig \/ finished_contigs[c]]

(* The record is kept and the position remembered. *)
Passes(r) ==
  /\ previous_position' = r.position
  /\ accepted' = Append(accepted, r)
  /\ UNCHANGED refused

(* An Error is thrown: nothing that check_sorted did before is undone. *)
Throws(r, why) ==
  /\ refused' = Append(refused, [record |-> r, why |-> why])
  /\ UNCHANGED accepted

(* The second half of check_sorted, after previous_position became         *)
(* `previous'.                                                             *)
CheckPosition(r, previous) ==
  IF r.position < previous
    THEN Throws(r, "not sorted by position") /\ previous_position' = previous
    ELSE Passes(r)

(* A bug that keeps the position of the previous contig. *)
MutantCheckSorted(r) ==
  IF r.contig \notin found
    THEN /\ finished_contigs' = StartContig(r.contig)
         /\ previous_contig' = r.contig
         /\ CheckPosition(r, previous_position)
    ELSE /\ UNCHANGED <<finished_contigs, previous_contig>>
         /\ IF finished_contigs[r.contig]
              THEN Throws(r, "not contiguous") /\ UNCHANGED previous_position
              ELSE CheckPosition(r, previous_position)

(* check_sorted.  The flag of the contig is read through the iterator      *)
(* before the test that the iterator is not end(), so for a contig that is *)
(* not in the map any Boolean may be read.                                 *)
check_sorted(r) ==
  LET contig_not_found == r.contig \notin found
  IN  \E contig_already_finished \in
           IF contig_not_found THEN BOOLEAN ELSE {finished_contigs[r.contig]} :
        \/ /\ contig_not_found
           /\ finished_contigs' = StartContig(r.contig)
           /\ previous_contig' = r.contig
           /\ CheckPosition(r, 0)
        \/ /\ ~contig_not_found
           /\ contig_already_finished
           /\ Throws(r, "not contiguous")
           /\ UNCHANGED <<finished_contigs, previous_contig, previous_position>>
        \/ /\ ~contig_not_found
           /\ ~contig_already_finished
           /\ CheckPosition(r, previous_position)
           /\ UNCHANGED <<finished_contigs, previous_contig>>

OrderNext == \E r \in Log!Located : check_sorted(r)

OrderSpec == OrderInit /\ [][OrderNext]_orderVars
-----------------------------------------------------------------------------
OrderTypeOK ==
  /\ found \subseteq Contigs
  /\ finished_contigs \in [found -> BOOLEAN]
  /\ previous_contig \in Contigs \cup {NoContig}
  /\ previous_position \in Nat
  /\ accepted \in Seq(Log!Located)
  /\ refused \in Seq([record : Log!Located, why : Log!Reasons])

(***************************************************************************)
(* What finished_contigs, previous_contig and previous_position stand for  *)
(* (parse_policy.hpp): a contig is in the map exactly when one of its      *)
(* records was accepted, the contig of the last accepted record is the     *)
(* only one not fully read, and its position is the one remembered.        *)
(***************************************************************************)
MapMeaning ==
  /\ found = {accepted[i].contig : i \in 1..Len(accepted)}
  /\ \A c \in found : finished_contigs[c] <=> c # previous_contig
  /\ accepted # << >> =>
       /\ previous_contig = accepted[Len(accepted)].contig
       /\ previous_position = accepted[Len(accepted)].position

(***************************************************************************)
(* The order check implements OrderedLog: with only a flag per contig and  *)
(* the last place, and whatever the read through end() returns, a record   *)
(* is accepted exactly when it keeps the log of accepted records grouped   *)
(* and ascending, refused records leave no trace, and the reason is right. *)
(***************************************************************************)
ImplementsOrderedLog == Log!LogSpec
=============================================================================
