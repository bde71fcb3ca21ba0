----------------------------- MODULE FileReports -----------------------------
(***************************************************************************)
(* The promise of the last part of matchAST, file by file: one step for    *)
(* each file, in which its matches are reported if it has any.             *)
(***************************************************************************)
EXTENDS Elimination

VARIABLES
  input,       \* the files, and the owner and the range of each match
  done,        \* how many files are done
  reported     \* files with their results

Of(f) == {m \in DOMAIN input.owner : input.owner[m] = f}

next == input.asts[done + 1]

Init == done = 0 /\ reported = << >>

PassOver ==
  /\ done < Len(input.asts) /\ Of(next) = {}
  /\ done' = done + 1
  /\ UNCHANGED <<input, reported>>

Report ==
  /\ done < Len(input.asts) /\ Of(next) # {}
  /\ \E k \in Reports(Of(next), input.range) :
       reported' = Append(reported, [ast |-> next, matches |-> k])
  /\ done' = done + 1
  /\ UNCHANGED input

Next == PassOver \/ Report

Spec ==
  Init /\ [][Next]_<<input, done, reported>>
=============================================================================
