----------------------------- MODULE ErrorReport -----------------------------
(***************************************************************************)
(* report_err() of src/error.c: it finds the line of an error, prints it,  *)
(* and prints carets under it.  A character is "n", a newline, or "x", any *)
(* other.  Indices are 0-based as in the code, so strv_char_at(k) is       *)
(* source[k + 1], and are size_t: differences wrap around.                 *)
(***************************************************************************)
EXTENDS Integers, Sequences

CONSTANTS
    Errors,      (* the errors to report: a source and a place in it        *)
    SIZE_MAX     (* the largest size_t                                      *)

Newline == "n"
Char == {Newline, "x"}

(* Only an error of positive length is shown in its source.  It lies       *)
(* inside it and, as src/error.h assumes, in one line.                     *)
IsError(r) ==
    /\ r.source \in Seq(Char) /\ r.src_idx \in Nat /\ r.len \in Nat \ {0}
    /\ r.src_idx + r.len <= Len(r.source) /\ Len(r.source) <= SIZE_MAX
    /\ \A k \in r.src_idx + 1 .. r.src_idx + r.len : r.source[k] # Newline

ASSUME SizeAssumption == SIZE_MAX \in Nat
ASSUME ErrorsAssumption == \A r \in Errors : IsError(r)

VARIABLES
    error,       (* the Error; never changes                                *)
    line_idx,    (* where its line starts, as far as is known               *)
    i,           (* the loop counter                                        *)
    start,       (* how many spaces to print before the carets              *)
    line,        (* what is printed of the source: indices of characters    *)
    column,      (* spaces printed under it                                 *)
    at           (* the loop being run, "scan", "line" or "spaces"; "done"  *)

reportvars == <<error, line_idx, i, start, line, column, at>>

source == error.source
srclen == Len(source)

ReportInit ==
    /\ error \in Errors
    /\ line_idx = 0 /\ i = 0 /\ start = 0
    /\ line = <<>> /\ column = 0
    /\ at = "scan"

AtError == i >= error.src_idx

SizeT(n) == n % (SIZE_MAX + 1)

(* Mutant of Start: all lines are treated like the later ones.             *)
StartAnyLine(l) == SizeT(error.src_idx - l - 1)

Start(l) == IF l > 0 THEN SizeT(error.src_idx - l - 1) ELSE error.src_idx

(* Mutant of Scan: the newline is taken to start the next line.            *)
ScanFromNewline ==
    /\ at = "scan" /\ i < srclen
    /\ line_idx' = IF source[i + 1] = Newline THEN i ELSE line_idx
    /\ IF AtError
       THEN start' = Start(line_idx') /\ i' = 0 /\ at' = "line"
       ELSE i' = i + 1 /\ UNCHANGED <<start, at>>
    /\ UNCHANGED <<error, line, column>>

(* One character of the search for the line.  The loop always ends by its  *)
(* break, as an error lies inside its source.                              *)
Scan ==
    /\ at = "scan" /\ i < srclen
    /\ line_idx' = IF source[i + 1] = Newline THEN i + 1 ELSE line_idx
    /\ IF AtError
       THEN start' = Start(line_idx') /\ i' = 0 /\ at' = "line"
       ELSE i' = i + 1 /\ UNCHANGED <<start, at>>
    /\ UNCHANGED <<error, line, column>>

(* Mutant of PrintCharacter: one more character after the last.            *)
PrintCharacterPastEnd ==
    /\ at = "line"
    /\ line' = Append(line, line_idx + i)
    /\ IF source[line_idx + i + 1] = Newline \/ line_idx + i + 1 > srclen
       THEN i' = 0 /\ at' = "spaces"
       ELSE i' = i + 1 /\ UNCHANGED at
    /\ UNCHANGED <<error, line_idx, start, column>>

(* One character of the line; the newline or the end of the source ends it. *)
PrintCharacter ==
    /\ at = "line"
    /\ line' = Append(line, line_idx + i)
    /\ IF source[line_idx + i + 1] = Newline \/ line_idx + i + 1 >= srclen
       THEN i' = 0 /\ at' = "spaces"
       ELSE i' = i + 1 /\ UNCHANGED at
    /\ UNCHANGED <<error, line_idx, start, column>>

PrintSpace ==
    /\ at = "spaces" /\ i < start
    /\ column' = column + 1
    /\ i' = i + 1
    /\ UNCHANGED <<error, line_idx, start, line, at>>

(* As many carets as the error is long, and the message.                   *)
PrintCarets ==
    /\ at = "spaces" /\ i >= start
    /\ at' = "done"
    /\ UNCHANGED <<error, line_idx, i, start, line, column>>

Reported == at = "done" /\ UNCHANGED reportvars

ReportNext == Scan \/ PrintCharacter \/ PrintSpace \/ PrintCarets \/ Reported

ReportSpec == ReportInit /\ [][ReportNext]_reportvars

----------------------------------------------------------------------------
(* Types, and that no character is read outside the source: strv_char_at   *)
(* would panic.                                                            *)
ReportTypeOK ==
    /\ IsError(error)
    /\ line_idx \in 0 .. srclen /\ i \in Nat /\ start \in 0 .. SIZE_MAX
    /\ line \in Seq(0 .. srclen - 1) /\ column \in 0 .. SIZE_MAX
    /\ at \in {"scan", "line", "spaces", "done"}
    /\ at = "scan" => i < srclen
    /\ at = "line" => line_idx + i < srclen

(* The characters l .. m are a line; a newline at its end belongs to it.   *)
IsLine(l, m) ==
    /\ l = 0 \/ source[l] = Newline
    /\ m = srclen - 1 \/ source[m + 1] = Newline
    /\ \A j \in l + 1 .. m : source[j] # Newline

(* What is printed is the line of the error, all of it and nothing else,   *)
(* also when it is the last line and has no newline, or an empty one is    *)
(* next to it.                                                             *)
LinePrinted ==
    at = "done" =>
        \E l \in 0 .. error.src_idx, m \in error.src_idx .. srclen - 1 :
            /\ IsLine(l, m)
            /\ line = [k \in 1 .. m - l + 1 |-> l + k - 1]

FirstLine == \A j \in 1 .. error.src_idx : source[j] # Newline

(* The first caret stands under the first character of the error if the    *)
(* error is in the first line.  On later lines src_idx - line_idx - 1 is   *)
(* one too few, and wraps around at the start of a line.                   *)
FirstLineCaret == at = "done" /\ FirstLine => column = error.src_idx
=============================================================================
