----------------------------- MODULE OrderedLog -----------------------------
(***************************************************************************)
(* What the order check of the body section promises, without its          *)
(* bookkeeping: records come one by one, a record is accepted when it      *)
(* extends the accepted ones to a log grouped by contig and ascending      *)
(* within each contig, and is refused, for a reason, when it does not.     *)
(***************************************************************************)
EXTENDS Integers, Sequences

CONSTANTS
  Contigs,      (* names of contigs                                        *)
  LogPositions  (* values of the POS column                                *)

VARIABLES
  log,      (* the records accepted so far                                 *)
  refused   (* the refused records, each with the reason                   *)

logVars == <<log, refused>>

Located == [contig : Contigs, position : LogPositions]
Reasons == {"not contiguous", "not sorted by position"}

(* The records of a contig form one block. *)
GroupedByContig(s) ==
  \A i, k \in 1..Len(s) : \A j \in i..k :
    s[i].contig = s[k].contig => s[j].contig = s[i].contig

(* Positions never decrease within a contig. *)
AscendingInContig(s) ==
  \A i, k \in 1..Len(s) :
    i < k /\ s[i].contig = s[k].contig => s[i].position <= s[k].position

Accept(r) ==
  /\ GroupedByContig(Append(log, r))
  /\ AscendingInContig(Append(log, r))
  /\ log' = Append(log, r)
  /\ UNCHANGED refused

Refuse(r, why) ==
  /\ \/ why = "not contiguous" /\ ~GroupedByContig(Append(log, r))
     \/ /\ why = "not sorted by position"
        /\ GroupedByContig(Append(log, r))
        /\ ~AscendingInContig(Append(log, r))
  /\ refused' = Append(refused, [record |-> r, why |-> why])
  /\ UNCHANGED log

LogInit == log = << >> /\ refused = << >>

LogNext == \E r \in Located : Accept(r) \/ \E why \in Reasons : Refuse(r, why)

LogSpec == LogInit /\ [][LogNext]_logVars
=============================================================================
