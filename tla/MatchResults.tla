---------------------------- MODULE MatchResults ----------------------------
(***************************************************************************)
(* The last part of LHSTemplate::matchAST: for each file, the complete     *)
(* matches found in it are sorted on the start of their ranges, and one    *)
(* pass over neighbours drops a match that overlaps the one before it.     *)
(***************************************************************************)
EXTENDS TemplateRange, Sequences, FiniteSets

CONSTANTS
  Match,     \* complete matches
  Ast,       \* the files
  Inputs     \* what the matching loop left, see Input

Input ==
  [ asts  : Seq(Ast),
    owner : [Match -> Ast],
    range : [Match -> TemplateRanges] ]   \* first root's start, last root's end

ASSUME MatchAssumption == IsFiniteSet(Match)

(* No match begins or ends inside a macro, or ends in an absent node (an   *)
(* if without an else as the last one): its range is well-formed.          *)
ASSUME InputsAssumption ==
  /\ Inputs \subseteq Input
  /\ \A i \in Inputs : \A m \in Match : Valid(i.range[m])

VARIABLES
  input,            \* never changes
  done,             \* how many files are done
  phase,            \* "gather", "eliminate" or "returned"
  resultRanges,     \* the current file's matches, sorted
  looked,           \* how many of them the pass has looked at
  results,          \* those it kept
  resultsForFiles   \* the result: files with the matches kept for each

vars == <<input, done, phase, resultRanges, looked, results, resultsForFiles>>

range(m) == input.range[m]

Owned(ast) == {m \in Match : input.owner[m] = ast}

Init ==
  /\ input \in Inputs
  /\ done = 0
  /\ phase = "gather"
  /\ resultRanges = << >>
  /\ looked = 0
  /\ results = << >>
  /\ resultsForFiles = << >>

-----------------------------------------------------------------------------

Gathering == phase = "gather" /\ done < Len(input.asts)

ast == input.asts[done + 1]

SkipFile ==
  /\ Gathering /\ Owned(ast) = {}
  /\ done' = done + 1
  /\ UNCHANGED <<input, phase, resultRanges, looked, results, resultsForFiles>>

StartsBefore_ByEnd(m, n) == LocLeq(range(m).end, range(n).end)

StartsBefore(m, n) == LocLeq(range(m).begin, range(n).begin)

(* std::sort: matches with the same start come out in any order.           *)
SortResults ==
  /\ Gathering /\ Owned(ast) # {}
  /\ LET index == 1 .. Cardinality(Owned(ast))
     IN  \E s \in [index -> Owned(ast)] :
           /\ \A m \in Owned(ast) : \E i \in index : s[i] = m
           /\ \A i, j \in index : i < j => s[i] # s[j] /\ StartsBefore(s[i], s[j])
           /\ resultRanges' = s
           /\ results' = <<s[1]>>
  /\ looked' = 1
  /\ phase' = "eliminate"
  /\ UNCHANGED <<input, done, resultsForFiles>>

Eliminating == phase = "eliminate" /\ looked < Len(resultRanges)

Overlapping_ByLine ==
  range(resultRanges[looked]).end[1] >= range(resultRanges[looked + 1]).begin[1]

Overlapping_OneOff ==
  LocGreater(range(resultRanges[looked]).end, range(resultRanges[looked + 1]).begin)

Overlapping_LastKept ==
  OverlapsWith(range(results[Len(results)]), range(resultRanges[looked + 1]))

Overlapping ==
  OverlapsWith(range(resultRanges[looked]), range(resultRanges[looked + 1]))

KeepResult ==
  /\ Eliminating /\ ~ Overlapping
  /\ results' = Append(results, resultRanges[looked + 1])
  /\ looked' = looked + 1
  /\ UNCHANGED <<input, done, phase, resultRanges, resultsForFiles>>

RemoveResult ==
  /\ Eliminating /\ Overlapping
  /\ looked' = looked + 1
  /\ UNCHANGED <<input, done, phase, resultRanges, results, resultsForFiles>>

FileDone_KeepsLooked ==
  /\ phase = "eliminate" /\ looked = Len(resultRanges)
  /\ resultsForFiles' = Append(resultsForFiles, [ast |-> ast, matches |-> results])
  /\ done' = done + 1
  /\ phase' = "gather"
  /\ resultRanges' = << >> /\ results' = << >>
  /\ UNCHANGED <<input, looked>>

FileDone ==
  /\ phase = "eliminate" /\ looked = Len(resultRanges)
  /\ resultsForFiles' = Append(resultsForFiles, [ast |-> ast, matches |-> results])
  /\ done' = done + 1
  /\ phase' = "gather"
  /\ resultRanges' = << >> /\ looked' = 0 /\ results' = << >>
  /\ UNCHANGED input

Return ==
  /\ phase = "gather" /\ done = Len(input.asts)
  /\ phase' = "returned"
  /\ UNCHANGED <<input, done, resultRanges, looked, results, resultsForFiles>>

Finished == phase = "returned" /\ UNCHANGED vars

Next ==
  \/ SkipFile \/ SortResults \/ KeepResult \/ RemoveResult \/ FileDone
  \/ Return \/ Finished

(* One thread runs the loops, and nothing in them waits.                   *)
Spec == Init /\ [][Next]_vars /\ WF_vars(Next)

-----------------------------------------------------------------------------
(* Properties                                                              *)

Kept(r) == {r.matches[i] : i \in DOMAIN r.matches}

FileResult == [ast : Ast, matches : Seq(Match)]

(* The vectors hold matches, and the pass never runs past the end.         *)
TypeOK ==
  /\ input \in Input
  /\ done \in 0 .. Len(input.asts)
  /\ phase \in {"gather", "eliminate", "returned"}
  /\ resultRanges \in Seq(Match)
  /\ looked \in 0 .. Len(resultRanges)
  /\ results \in Seq(Match)
  /\ resultsForFiles \in Seq(FileResult)

Dropped(r) == Owned(r.ast) \ Kept(r)

Results == {resultsForFiles[i] : i \in DOMAIN resultsForFiles}

Meets(m, n) == m # n /\ Intersect(range(m), range(n))

(* The overlap test looks at one end of one range only, yet it drops no    *)
(* match that shares no location with any other match of its file.         *)
DroppedMeetsAnother ==
  \A r \in Results : \A m \in Dropped(r) : \E n \in Owned(r.ast) : Meets(m, n)

(* The pass compares neighbours only, before anything is dropped.  Yet it  *)
(* takes a dropped match to hide an overlap: two matches that are kept and *)
(* meet have a dropped one that starts between them.                       *)
OverlapBehindDropped ==
  \A r \in Results : \A m, n \in Kept(r) :
    (Meets(m, n) /\ LocLeq(range(m).begin, range(n).begin)) =>
      \E d \in Dropped(r) :
        LocLeq(range(m).begin, range(d).begin) /\ LocLeq(range(d).begin, range(n).begin)

(* Any two of the file's matches are disjoint or one is inside the other:  *)
(* so it is when every match is a single subtree.                          *)
NestedMatches(f) ==
  \A m, n \in Owned(f) :
    Meets(m, n) => EnclosedIn(range(m), range(n)) \/ EnclosedIn(range(n), range(m))

(* The text of m lies inside one that starts where one of k does: with one  *)
(* of k itself, unless matches have the same start.                        *)
CoveredBy(m, k, f) ==
  \E n \in k : \E o \in Owned(f) :
    range(o).begin = range(n).begin /\ EnclosedIn(range(m), range(o))

(* The pass compares with the previous match even if that was dropped, and *)
(* of matches with the same start any may come first.  Yet no place in the *)
(* file is lost by it when matches are nested: each dropped match lies in  *)
(* one that is kept, or in one with the same start as one that is kept.    *)
NestedDroppedCovered ==
  \A r \in Results : NestedMatches(r.ast) =>
    \A m \in Dropped(r) : CoveredBy(m, Kept(r), r.ast)

(* Sorting and the pass over neighbours, with what they drop, are one step *)
(* for each file: it is reported with just those matches that the match    *)
(* before does not overlap, in their order, and every file gets its turn.  *)
InOneStep == INSTANCE FileReports WITH reported <- resultsForFiles

ReportsFileByFile == InOneStep!Spec

(* The doc of matchAST: match results do not overlap.                      *)
ResultsDisjoint ==
  \A r \in Results : \A m, n \in Kept(r) : ~ Meets(m, n)
=============================================================================
