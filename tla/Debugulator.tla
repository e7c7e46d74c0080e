---------------------------- MODULE Debugulator ----------------------------
(***************************************************************************)
(* fix_vcf_file (debugulator.cpp): the lines of a file and the errors of   *)
(* its report, ordered by line, are read side by side.  A line without an  *)
(* error is copied, one with an error is written by the Fixer.             *)
(*                                                                         *)
(* `output' also says which line of the input each of its lines comes      *)
(* from, for the properties.                                               *)
(***************************************************************************)
EXTENDS Fixer

VARIABLES
  input,           (* the lines of the file                                *)
  errors,          (* the report, in the order in which it is read         *)
  errors_fixed,    (* how many of them are dealt with                      *)
  current_line,    (* the number of lines read                             *)
  output,
  ignored_errors,
  status           (* "fixing", "copying" (the rest), "returned", or how   *)
                   (* the process ended: "throws", "crashes"               *)

debugulatorVars == <<input, errors, errors_fixed, current_line, output, ignored_errors, status>>

(* A line of the input as it is written. *)
From(at, line) == [at |-> at, line |-> line]

(* The call.  An empty report ends it before anything is written. *)
Start(lines, report) ==
  /\ input' = lines
  /\ errors' = report
  /\ errors_fixed' = 0
  /\ current_line' = 0
  /\ output' = << >>
  /\ ignored_errors' = 0
  /\ status' = IF report = << >> THEN "returned" ELSE "fixing"

line_index == errors[errors_fixed + 1].line

(* A bug: the line of the error is also copied. *)
MutantAdvance ==
  /\ status = "fixing"
  /\ errors_fixed < Len(errors)
  /\ current_line < line_index
  /\ current_line < Len(input)
  /\ current_line' = current_line + 1
  /\ output' = Append(output, From(current_line + 1, input[current_line + 1]))
  /\ UNCHANGED <<input, errors, errors_fixed, ignored_errors, status>>

(* One turn of the loop that advances to the line of the next error. *)
Advance ==
  /\ status = "fixing"
  /\ errors_fixed < Len(errors)
  /\ current_line < line_index
  /\ current_line < Len(input)
  /\ current_line' = current_line + 1
  /\ output' = IF current_line + 1 = line_index THEN output
               ELSE Append(output, From(current_line + 1, input[current_line + 1]))
  /\ UNCHANGED <<input, errors, errors_fixed, ignored_errors, status>>

(* "The file was shorter than expected" *)
TooShort ==
  /\ status = "fixing"
  /\ errors_fixed < Len(errors)
  /\ current_line < line_index
  /\ current_line = Len(input)
  /\ status' = "throws"
  /\ UNCHANGED <<input, errors, errors_fixed, current_line, output, ignored_errors>>

FixError ==
  /\ status = "fixing"
  /\ errors_fixed < Len(errors)
  /\ current_line >= line_index
  /\ \E outcome \in fix(input[current_line], errors[errors_fixed + 1].error) :
       /\ output' = output \o [k \in 1..Len(outcome.written) |->
                                 From(current_line, outcome.written[k])]
       /\ ignored_errors' = ignored_errors + outcome.ignored
       /\ IF outcome.ends = "no"
            THEN errors_fixed' = errors_fixed + 1 /\ UNCHANGED status
            ELSE status' = outcome.ends /\ UNCHANGED errors_fixed
  /\ UNCHANGED <<input, errors, current_line>>

(* for_each_error has come to its end. *)
EndOfReport ==
  /\ status = "fixing"
  /\ errors_fixed = Len(errors)
  /\ status' = "copying"
  /\ UNCHANGED <<input, errors, errors_fixed, current_line, output, ignored_errors>>

CopyLine ==
  /\ status = "copying"
  /\ current_line < Len(input)
  /\ current_line' = current_line + 1
  /\ output' = Append(output, From(current_line + 1, input[current_line + 1]))
  /\ UNCHANGED <<input, errors, errors_fixed, ignored_errors, status>>

ReturnIgnored ==
  /\ status = "copying"
  /\ current_line = Len(input)
  /\ status' = "returned"
  /\ UNCHANGED <<input, errors, errors_fixed, current_line, output, ignored_errors>>

FixVcfFile ==
  Advance \/ TooShort \/ FixError \/ EndOfReport \/ CopyLine \/ ReturnIgnored
-----------------------------------------------------------------------------
DebugulatorTypeOK ==
  /\ input \in Seq(Lines)
  /\ errors \in Seq([line : Nat, error : Errors])
  /\ errors_fixed \in 0..Len(errors)
  /\ current_line \in 0..Len(input)
  /\ output \in Seq([at : 1..Len(input), line : Lines])
  /\ ignored_errors \in 0..Len(errors)
  /\ status \in {"fixing", "copying", "returned", "throws", "crashes"}

ErrorsAt(at) == FieldsAt(errors, LAMBDA i : errors[i].line = at)
HasErrors(at) == \E i \in 1..Len(errors) : errors[i].line = at
IsDuplicate(at) == \E i \in 1..Len(errors) :
                     errors[i].line = at /\ errors[i].error.type = "DuplicationError"

(***************************************************************************)
(* The output has the lines of the input in their order, each one once but *)
(* duplicates, which it has not at all, and lines without an error as they *)
(* are: up to the line that was read, while the file is fixed, and for the *)
(* whole file in the end.                                                  *)
(***************************************************************************)
Settled(at) == at < current_line \/ ~HasErrors(at)
               \/ (errors_fixed > 0 /\ errors[errors_fixed].line = at)
OutputInOrder ==
  /\ \A i, k \in 1..Len(output) : i < k => output[i].at < output[k].at
  /\ \A i \in 1..Len(output) :
       ~HasErrors(output[i].at) => output[i].line = input[output[i].at]
  /\ {output[i].at : i \in 1..Len(output)}
       = {at \in 1..current_line : Settled(at) /\ ~IsDuplicate(at)}
  /\ (status = "returned" /\ errors # << >>) => current_line = Len(input)
=============================================================================
