------------------------- MODULE MatchResultsProofs -------------------------
(***************************************************************************)
(* What the elimination of overlapping results guarantees, for any number  *)
(* of files and matches with any ranges.                                   *)
(***************************************************************************)
EXTENDS MatchResults, TemplateRangeTheorems, FiniteSetTheorems

WellFormed == \A m \in Match : Valid(range(m))

(* While a file is looked at there is one, and its first match is kept.    *)
InAFile == phase = "eliminate" => done < Len(input.asts) /\ looked >= 1

KeptSoFar == {results[i] : i \in DOMAIN results}

(* The vector has the matches of the file, each once, sorted.              *)
OfTheFile ==
  /\ \A i \in DOMAIN resultRanges : resultRanges[i] \in Owned(ast)
  /\ \A m \in Owned(ast) : \E i \in DOMAIN resultRanges : resultRanges[i] = m

InOrder ==
  \A i, j \in DOMAIN resultRanges :
    i < j => /\ resultRanges[i] # resultRanges[j]
             /\ StartsBefore(resultRanges[i], resultRanges[j])

Apart(i) == ~ OverlapsWith(range(resultRanges[i]), range(resultRanges[i + 1]))

KeptWereLookedAt == \A m \in KeptSoFar : \E i \in 1 .. looked : m = resultRanges[i]

FirstKept == resultRanges[1] \in KeptSoFar

(* A match behind the first one is kept if it is apart from its neighbour. *)
KeptIfApart ==
  \A i \in 1 .. looked - 1 : resultRanges[i + 1] \in KeptSoFar <=> Apart(i)

NestedSoFar ==
  NestedMatches(ast) =>
    \A i \in 1 .. looked : CoveredBy(resultRanges[i], KeptSoFar, ast)

PassInv ==
  /\ OfTheFile /\ InOrder
  /\ KeptWereLookedAt /\ FirstKept /\ KeptIfApart
  /\ NestedSoFar

(* The three properties of one result.                                     *)
DropsMeet(r) == \A m \in Dropped(r) : \E n \in Owned(r.ast) : Meets(m, n)

OverlapsHaveDrops(r) ==
  \A m, n \in Kept(r) :
    (Meets(m, n) /\ LocLeq(range(m).begin, range(n).begin)) =>
      \E d \in Dropped(r) :
        LocLeq(range(m).begin, range(d).begin) /\ LocLeq(range(d).begin, range(n).begin)

DropsCovered(r) ==
  NestedMatches(r.ast) => \A m \in Dropped(r) : CoveredBy(m, Kept(r), r.ast)

ReportedInv ==
  \A r \in Results : DropsMeet(r) /\ OverlapsHaveDrops(r) /\ DropsCovered(r)

IInv ==
  /\ TypeOK
  /\ WellFormed
  /\ InAFile
  /\ phase = "eliminate" => PassInv
  /\ ReportedInv

(* The elements of a sequence to which one is appended.                    *)
LEMMA AppendedElements ==
  ASSUME NEW S, NEW s \in Seq(S), NEW e \in S
  PROVE  {Append(s, e)[i] : i \in DOMAIN Append(s, e)} = {s[i] : i \in DOMAIN s} \cup {e}
<1>1. DOMAIN s = 1 .. Len(s) /\ Len(s) \in Nat
      /\ DOMAIN Append(s, e) = 1 .. Len(s) + 1
  OBVIOUS
<1>2. Append(s, e)[Len(s) + 1] = e
      /\ \A i \in 1 .. Len(s) : Append(s, e)[i] = s[i]
  OBVIOUS
<1>3. \A i \in 1 .. Len(s) + 1 : i \in 1 .. Len(s) \/ i = Len(s) + 1
  BY <1>1
<1>4. \A i \in 1 .. Len(s) : i \in 1 .. Len(s) + 1
  BY <1>1
<1>5. Len(s) + 1 \in 1 .. Len(s) + 1
  BY <1>1
<1> QED
  BY <1>1, <1>2, <1>3, <1>4, <1>5

LEMMA RangeType ==
  ASSUME TypeOK, NEW m \in Match
  PROVE  range(m) \in TemplateRanges /\ range(m).begin \in Location
         /\ range(m).end \in Location
  BY DEF TypeOK, Input, range, TemplateRanges

LEMMA InitIInv == Init => IInv
<1> SUFFICES ASSUME Init PROVE IInv
  OBVIOUS
<1>1. input \in Input /\ \A m \in Match : Valid(input.range[m])
  BY InputsAssumption DEF Init
<1>2. TypeOK
  <2>1. Len(input.asts) \in Nat
    BY <1>1 DEF Input
  <2> QED
    BY <1>1, <2>1 DEF Init, TypeOK
<1>3. Results = {}
  BY DEF Init, Results
<1> QED
  BY <1>1, <1>2, <1>3 DEF Init, IInv, WellFormed, InAFile, ReportedInv, range

(* Steps that report nothing leave what is reported as it is.              *)
LEMMA SameReports ==
  ASSUME IInv, UNCHANGED <<input, resultsForFiles>>
  PROVE  ReportedInv' /\ WellFormed'
  BY DEF IInv, ReportedInv, WellFormed, Results, DropsMeet, OverlapsHaveDrops,
     DropsCovered, Dropped, Kept, Owned, Meets, range, NestedMatches, CoveredBy

LEMMA SkipIInv == ASSUME IInv, SkipFile PROVE IInv'
<1> USE DEF SkipFile, Gathering
<1>1. TypeOK'
  BY DEF IInv, TypeOK, Input
<1> QED
  BY <1>1, SameReports DEF IInv, InAFile

LEMMA SortIInv == ASSUME IInv, SortResults PROVE IInv'
<1>1. input' = input /\ done' = done /\ looked' = 1 /\ phase' = "eliminate"
      /\ resultsForFiles' = resultsForFiles /\ Gathering /\ Owned(ast) # {}
  BY DEF SortResults
<1> DEFINE index == 1 .. Cardinality(Owned(ast))
<1>2. PICK s \in [index -> Owned(ast)] :
        /\ \A m \in Owned(ast) : \E i \in index : s[i] = m
        /\ \A i, j \in index : i < j => s[i] # s[j] /\ StartsBefore(s[i], s[j])
        /\ resultRanges' = s
        /\ results' = <<s[1]>>
  BY Zenon DEF SortResults
<1>3. Cardinality(Owned(ast)) \in Nat
  <2>1. Owned(ast) \subseteq Match
    BY DEF Owned
  <2> QED
    BY <2>1, MatchAssumption, FS_Subset, FS_CardinalityType
<1>4. 1 \in index
  <2>1. \E i \in index : TRUE
    BY <1>1, <1>2
  <2> QED
    BY <1>3, <2>1
<1>5. resultRanges' \in Seq(Match) /\ Len(resultRanges') = Cardinality(Owned(ast))
      /\ DOMAIN resultRanges' = index /\ s[1] \in Match
  <2>1. \A i \in index : s[i] \in Match
    BY <1>2 DEF Owned
  <2> QED
    BY <1>2, <1>3, <1>4, <2>1
<1>6. TypeOK'
  BY <1>1, <1>2, <1>3, <1>4, <1>5 DEF IInv, TypeOK
<1>7. InAFile'
  BY <1>1 DEF InAFile, Gathering
<1>8. ast' = ast /\ Owned(ast)' = Owned(ast)
  BY <1>1 DEF ast, Owned
<1>9. KeptSoFar' = {s[1]}
  BY <1>2 DEF KeptSoFar
<1>10. OfTheFile' /\ InOrder'
  BY <1>1, <1>2, <1>5, <1>8 DEF OfTheFile, InOrder, StartsBefore, range
<1>11. (KeptWereLookedAt /\ FirstKept /\ KeptIfApart)'
  BY <1>1, <1>2, <1>9 DEF KeptWereLookedAt, FirstKept, KeptIfApart
<1>12. NestedSoFar'
  <2>1. s[1] \in Owned(ast)
    BY <1>2, <1>4
  <2>2. CoveredBy(s[1], {s[1]}, ast)
    BY <1>5, <2>1, RangeType, LocTotal DEF IInv, CoveredBy, EnclosedIn, LocGeq, LocLess
  <2> QED
    BY <1>1, <1>2, <1>8, <1>9, <2>2 DEF NestedSoFar, CoveredBy, range
<1> QED
  BY <1>1, <1>6, <1>7, <1>10, <1>11, <1>12, SameReports DEF IInv, PassInv

(* What is known when the pass looks at the match behind the one at looked. *)
LEMMA Looking ==
  ASSUME IInv, Eliminating
  PROVE  /\ PassInv /\ TypeOK /\ done < Len(input.asts)
         /\ looked \in Nat /\ looked >= 1
         /\ looked \in DOMAIN resultRanges /\ looked + 1 \in DOMAIN resultRanges
         /\ DOMAIN resultRanges = 1 .. Len(resultRanges) /\ Len(resultRanges) \in Nat
         /\ \A i \in DOMAIN resultRanges : resultRanges[i] \in Match
         /\ resultRanges[looked + 1] \notin KeptSoFar
         /\ Overlapping <=> ~ Apart(looked)
<1>1. PassInv /\ TypeOK /\ done < Len(input.asts) /\ looked >= 1
  BY DEF IInv, InAFile, Eliminating
<1>2. /\ DOMAIN resultRanges = 1 .. Len(resultRanges) /\ Len(resultRanges) \in Nat
      /\ \A i \in DOMAIN resultRanges : resultRanges[i] \in Match
      /\ looked \in Nat
  BY <1>1 DEF TypeOK
<1>3. looked \in DOMAIN resultRanges /\ looked + 1 \in DOMAIN resultRanges
  BY <1>1, <1>2 DEF Eliminating
<1>4. \A i \in 1 .. looked : i < looked + 1 /\ i \in DOMAIN resultRanges
  BY <1>2, <1>3
<1>5. resultRanges[looked + 1] \notin KeptSoFar
  BY <1>1, <1>2, <1>3, <1>4 DEF PassInv, KeptWereLookedAt, InOrder
<1>6. Overlapping <=> ~ Apart(looked)
  BY DEF Overlapping, Apart
<1> QED
  BY <1>1, <1>2, <1>3, <1>5, <1>6

(* Both steps of the pass leave the vector as it is.                       *)
LEMMA SameVector ==
  ASSUME IInv, Eliminating, UNCHANGED <<input, done, resultRanges>>
  PROVE  /\ (OfTheFile /\ InOrder)' /\ ast' = ast
         /\ NestedMatches(ast)' = NestedMatches(ast)
         /\ \A m, k : CoveredBy(m, k, ast)' <=> CoveredBy(m, k, ast)
         /\ \A m : range(m)' = range(m)
         /\ \A i : Apart(i)' = Apart(i)
<1>1. ast' = ast /\ \A m : range(m)' = range(m)
  BY DEF ast, range
<1>2. OfTheFile' /\ InOrder'
  BY <1>1, Looking DEF PassInv, OfTheFile, InOrder, StartsBefore, Owned
<1>3. NestedMatches(ast)' = NestedMatches(ast)
      /\ \A m, k : CoveredBy(m, k, ast)' <=> CoveredBy(m, k, ast)
  BY <1>1 DEF NestedMatches, CoveredBy, Owned, Meets
<1>4. \A i : Apart(i)' = Apart(i)
  BY <1>1 DEF Apart
<1> QED
  BY <1>1, <1>2, <1>3, <1>4

LEMMA KeepIInv == ASSUME IInv, KeepResult PROVE IInv'
<1> USE DEF KeepResult
<1>1. Eliminating /\ Apart(looked) /\ looked' = looked + 1
  BY Looking
<1> DEFINE next == resultRanges[looked + 1]
<1>2. next \in Match
  BY <1>1, Looking
<1>3. KeptSoFar' = KeptSoFar \cup {next}
  <2>1. results \in Seq(Match)
    BY DEF IInv, TypeOK
  <2> QED
    BY <2>1, <1>2, AppendedElements DEF KeptSoFar
<1>4. TypeOK'
  BY <1>1, <1>2, Looking DEF TypeOK
<1>5. KeptWereLookedAt' /\ FirstKept'
  BY <1>1, <1>3, Looking DEF PassInv, KeptWereLookedAt, FirstKept
<1>6. KeptIfApart'
  <2> SUFFICES ASSUME NEW i \in 1 .. looked
               PROVE  resultRanges[i + 1] \in KeptSoFar' <=> Apart(i)
    BY <1>1, SameVector, Looking DEF KeptIfApart
  <2>1. CASE i = looked
    BY <2>1, <1>1, <1>3
  <2>2. CASE i # looked
    <3>1. i \in 1 .. looked - 1 /\ i + 1 \in DOMAIN resultRanges
          /\ i + 1 < looked + 1
      BY <2>2, <1>1, Looking
    <3>2. resultRanges[i + 1] # next
      BY <3>1, <1>1, Looking DEF PassInv, InOrder
    <3> QED
      BY <3>1, <3>2, <1>1, <1>3, Looking DEF PassInv, KeptIfApart
  <2> QED
    BY <2>1, <2>2
<1>7. NestedSoFar'
  <2>1. CoveredBy(next, KeptSoFar \cup {next}, ast)
    <3>1. next \in Owned(ast)
      BY <1>1, Looking DEF PassInv, OfTheFile
    <3> QED
      BY <1>1, <1>2, <3>1, Looking, RangeType, LocTotal DEF CoveredBy, EnclosedIn, LocGeq, LocLess
  <2>2. \A i \in 1 .. looked + 1 : i \in 1 .. looked \/ i = looked + 1
    BY <1>1, Looking
  <2>3. ASSUME NestedMatches(ast), NEW i \in 1 .. looked + 1
        PROVE  CoveredBy(resultRanges[i], KeptSoFar', ast)
    <3>1. CASE i \in 1 .. looked
      BY <3>1, <2>3, <1>1, <1>3, Looking DEF PassInv, NestedSoFar, CoveredBy
    <3>2. CASE i = looked + 1
      BY <3>2, <2>1, <1>3
    <3> QED
      BY <3>1, <3>2, <2>2
  <2> QED
    BY <2>3, <1>1, SameVector DEF NestedSoFar
<1> QED
  BY <1>1, <1>4, <1>5, <1>6, <1>7, SameVector, SameReports, Looking
  DEF IInv, PassInv, InAFile, Eliminating

LEMMA EnclosedTransitive ==
  ASSUME NEW r \in TemplateRanges, NEW s \in TemplateRanges,
         NEW t \in TemplateRanges, EnclosedIn(r, s), EnclosedIn(s, t)
  PROVE  EnclosedIn(r, t)
<1>1. /\ r.begin \in Location /\ s.begin \in Location /\ t.begin \in Location
      /\ r.end \in Location /\ s.end \in Location /\ t.end \in Location
  BY DEF TemplateRanges
<1> QED
  BY <1>1, LocTransitive, LocTotal DEF EnclosedIn, LocGeq

(* A match that overlaps the one before it, which is covered: it lies in   *)
(* what that one lies in, or contains it and starts with it.               *)
LEMMA NextCovered ==
  ASSUME TypeOK, WellFormed, NEW f, NestedMatches(f), NEW kept,
         NEW m \in Owned(f), NEW n \in Owned(f), m # n,
         StartsBefore(m, n), OverlapsWith(range(m), range(n)), CoveredBy(m, kept, f)
  PROVE  CoveredBy(n, kept, f)
<1>1. m \in Match /\ n \in Match
  BY DEF Owned
<1>2. /\ range(m) \in TemplateRanges /\ range(n) \in TemplateRanges
      /\ range(m).begin \in Location /\ range(n).begin \in Location
      /\ range(m).end \in Location /\ range(n).end \in Location
  BY <1>1, RangeType
<1>3. Meets(m, n)
  BY <1>1, <1>2, OverlapIsIntersection DEF Meets, StartsBefore, WellFormed
<1>4. PICK k \in kept, o \in Owned(f) :
        range(o).begin = range(k).begin /\ EnclosedIn(range(m), range(o))
  BY DEF CoveredBy
<1>5. /\ o \in Match /\ range(o) \in TemplateRanges
      /\ range(o).begin \in Location /\ range(o).end \in Location
  BY <1>4, RangeType DEF Owned
<1>6. CASE EnclosedIn(range(n), range(m))
  BY <1>2, <1>4, <1>5, <1>6, EnclosedTransitive DEF CoveredBy
<1>7. CASE EnclosedIn(range(m), range(n))
  <2>1. range(m).begin = range(n).begin
    BY <1>2, <1>7 DEF EnclosedIn, LocGeq, LocLess, LocLeq, Location, StartsBefore
  <2>2. CASE o = n
    BY <1>4, <2>2, <1>2, LocTotal DEF CoveredBy, EnclosedIn, LocGeq, LocLess
  <2>3. CASE o # n
    <3>1. Intersect(range(n), range(o))
      BY <1>1, <1>2, <1>4, <1>5, <1>7, LocTransitive, LocTotal
      DEF Intersect, EnclosedIn, LocGeq, LocLess, WellFormed, Valid
    <3>2. EnclosedIn(range(n), range(o)) \/ EnclosedIn(range(o), range(n))
      BY <2>3, <3>1 DEF NestedMatches, Meets
    <3>3. CASE EnclosedIn(range(n), range(o))
      BY <1>4, <3>3 DEF CoveredBy
    <3>4. CASE EnclosedIn(range(o), range(n))
      <4>1. range(o).begin = range(n).begin
        BY <1>2, <1>4, <1>5, <2>1, <3>4
        DEF EnclosedIn, LocGeq, LocLess, LocLeq, Location
      <4>2. EnclosedIn(range(n), range(n))
        BY <1>2, LocTotal DEF EnclosedIn, LocGeq, LocLess
      <4> QED
        BY <1>4, <4>1, <4>2 DEF CoveredBy
    <3> QED
      BY <3>2, <3>3, <3>4
  <2> QED
    BY <2>2, <2>3
<1> QED
  BY <1>3, <1>6, <1>7 DEF NestedMatches

LEMMA RemoveIInv == ASSUME IInv, RemoveResult PROVE IInv'
<1> USE DEF RemoveResult
<1>1. Eliminating /\ ~ Apart(looked) /\ looked' = looked + 1
  BY Looking
<1> DEFINE prev == resultRanges[looked]
           next == resultRanges[looked + 1]
<1>2. prev \in Match /\ next \in Match
  BY <1>1, Looking
<1>3. KeptSoFar' = KeptSoFar
  BY DEF KeptSoFar
<1>4. TypeOK'
  BY <1>1, Looking DEF TypeOK
<1>5. KeptWereLookedAt' /\ FirstKept'
  BY <1>1, <1>3, Looking DEF PassInv, KeptWereLookedAt, FirstKept
<1>6. KeptIfApart'
  <2> SUFFICES ASSUME NEW i \in 1 .. looked
               PROVE  resultRanges[i + 1] \in KeptSoFar <=> Apart(i)
    BY <1>1, <1>3, SameVector, Looking DEF KeptIfApart
  <2>1. CASE i = looked
    BY <2>1, <1>1, Looking
  <2>2. CASE i # looked
    <3>1. i \in 1 .. looked - 1
      BY <2>2, <1>1, Looking
    <3> QED
      BY <3>1, <1>1, Looking DEF PassInv, KeptIfApart
  <2> QED
    BY <2>1, <2>2
<1>7. NestedSoFar'
  <2>1. SUFFICES ASSUME NestedMatches(ast), NEW i \in 1 .. looked + 1
                 PROVE  CoveredBy(resultRanges[i], KeptSoFar, ast)
    BY <1>1, <1>3, SameVector DEF NestedSoFar
  <2>2. \A k \in 1 .. looked : CoveredBy(resultRanges[k], KeptSoFar, ast)
    BY <2>1, <1>1, Looking DEF PassInv, NestedSoFar
  <2>3. CASE i \in 1 .. looked
    BY <2>2, <2>3
  <2>4. CASE i = looked + 1
    <3>1. prev # next /\ StartsBefore(prev, next)
          /\ prev \in Owned(ast) /\ next \in Owned(ast)
      BY <1>1, Looking DEF PassInv, InOrder, OfTheFile
    <3>2. CoveredBy(prev, KeptSoFar, ast)
      BY <2>2, <1>1, Looking
    <3>3. OverlapsWith(range(prev), range(next))
      BY <1>1 DEF Apart
    <3> QED
      BY <2>1, <2>4, <3>1, <3>2, <3>3, NextCovered DEF IInv
  <2> QED
    BY <2>3, <2>4, <1>1, Looking
<1> QED
  BY <1>1, <1>4, <1>5, <1>6, <1>7, SameVector, SameReports, Looking
  DEF IInv, PassInv, InAFile, Eliminating

(* What the pass leaves of a file when it has looked at all its matches.   *)
LEMMA PassReport ==
  ASSUME IInv, phase = "eliminate", looked = Len(resultRanges),
         NEW r \in FileResult, r = [ast |-> ast, matches |-> results]
  PROVE  DropsMeet(r) /\ OverlapsHaveDrops(r) /\ DropsCovered(r)
<1>1. PassInv /\ TypeOK /\ WellFormed /\ looked >= 1
  BY DEF IInv, InAFile
<1>2. /\ DOMAIN resultRanges = 1 .. looked /\ looked \in Nat
      /\ \A i \in 1 .. looked : resultRanges[i] \in Match
  BY <1>1 DEF TypeOK
<1>3. Kept(r) = KeptSoFar /\ r.ast = ast /\ Dropped(r) = Owned(ast) \ KeptSoFar
  BY DEF Kept, KeptSoFar, Dropped
<1>4. \A m \in Owned(ast) : \E i \in 1 .. looked : m = resultRanges[i]
  BY <1>1, <1>2 DEF PassInv, OfTheFile
<1>5. \A m \in KeptSoFar : \E i \in 1 .. looked : m = resultRanges[i]
  BY <1>1 DEF PassInv, KeptWereLookedAt
<1>6. \A i \in 1 .. looked : resultRanges[i] \in Owned(ast)
  BY <1>1, <1>2 DEF PassInv, OfTheFile
<1>7. \A i, j \in 1 .. looked :
        i < j => /\ resultRanges[i] # resultRanges[j]
                 /\ StartsBefore(resultRanges[i], resultRanges[j])
  BY <1>1, <1>2 DEF PassInv, InOrder
<1>8. \A i \in 1 .. looked :
        range(resultRanges[i]) \in TemplateRanges
        /\ range(resultRanges[i]).begin \in Location
        /\ range(resultRanges[i]).end \in Location
        /\ Valid(range(resultRanges[i]))
  BY <1>1, <1>2, RangeType DEF WellFormed
<1>9. DropsMeet(r)
  <2> SUFFICES ASSUME NEW m \in Owned(ast), m \notin KeptSoFar
               PROVE  \E n \in Owned(ast) : Meets(m, n)
    BY <1>3 DEF DropsMeet
  <2>1. PICK j \in 1 .. looked : m = resultRanges[j]
    BY <1>4
  <2>2. j # 1
    BY <1>1, <2>1 DEF PassInv, FirstKept
  <2>3. j - 1 \in 1 .. looked - 1 /\ j - 1 \in 1 .. looked /\ (j - 1) + 1 = j
        /\ j - 1 < j
    BY <1>2, <2>2
  <2> DEFINE n == resultRanges[j - 1]
  <2>4. ~ Apart(j - 1)
    BY <1>1, <2>1, <2>3 DEF PassInv, KeptIfApart
  <2>5. n # m /\ StartsBefore(n, m) /\ n \in Owned(ast)
    BY <1>6, <1>7, <2>1, <2>3
  <2>6. Intersect(range(n), range(m))
    BY <2>1, <2>3, <2>4, <2>5, <1>8, OverlapIsIntersection DEF Apart, StartsBefore
  <2> QED
    BY <2>5, <2>6 DEF Meets, Intersect
<1>10. OverlapsHaveDrops(r)
  <2>1. ASSUME NEW i \in 1 .. looked, NEW j \in 1 .. looked, i < j,
               resultRanges[j] \in KeptSoFar,
               Intersect(range(resultRanges[i]), range(resultRanges[j]))
        PROVE  \E d \in Owned(ast) \ KeptSoFar :
                 StartsBefore(resultRanges[i], d) /\ StartsBefore(d, resultRanges[j])
    <3>1. i \in 1 .. looked - 1 /\ i + 1 \in 1 .. looked /\ i < i + 1
          /\ (i + 1 = j \/ i + 1 < j)
      BY <1>2, <2>1
    <3>2. StartsBefore(resultRanges[i], resultRanges[i + 1])
          /\ StartsBefore(resultRanges[i], resultRanges[j])
      BY <1>7, <2>1, <3>1
    <3>3. OverlapsWith(range(resultRanges[i]), range(resultRanges[j]))
      BY <1>8, <2>1, <3>2, OverlapIsIntersection DEF StartsBefore
    <3>4. i + 1 < j => StartsBefore(resultRanges[i + 1], resultRanges[j])
      BY <1>7, <3>1
    <3>5. ~ Apart(i)
      BY <1>8, <3>1, <3>3, <3>4, DisjointCarriesOver DEF Apart, StartsBefore
    <3>6. resultRanges[i + 1] \notin KeptSoFar
      BY <1>1, <3>1, <3>5 DEF PassInv, KeptIfApart
    <3>7. i + 1 < j
      BY <2>1, <3>1, <3>6
    <3> QED
      BY <1>6, <3>1, <3>2, <3>4, <3>6, <3>7
  <2> SUFFICES ASSUME NEW m \in KeptSoFar, NEW n \in KeptSoFar, Meets(m, n),
                      LocLeq(range(m).begin, range(n).begin)
               PROVE  \E d \in Owned(ast) \ KeptSoFar :
                        StartsBefore(m, d) /\ StartsBefore(d, n)
    BY <1>3, Zenon DEF OverlapsHaveDrops, StartsBefore
  <2>2. PICK i \in 1 .. looked : m = resultRanges[i]
    BY <1>5
  <2>3. PICK j \in 1 .. looked : n = resultRanges[j]
    BY <1>5
  <2>4. m # n /\ Intersect(range(m), range(n)) /\ Intersect(range(n), range(m))
    BY DEF Meets, Intersect
  <2>5. CASE i < j
    BY <2>1, <2>2, <2>3, <2>4, <2>5
  <2>6. CASE j < i
    <3>1. PICK d \in Owned(ast) \ KeptSoFar : StartsBefore(n, d) /\ StartsBefore(d, m)
      BY <2>1, <2>2, <2>3, <2>4, <2>6
    <3>2. range(d).begin \in Location
      BY <1>1, RangeType DEF Owned
    <3>3. StartsBefore(m, d) /\ StartsBefore(d, n)
      BY <1>8, <2>2, <2>3, <3>1, <3>2, LocTransitive DEF StartsBefore
    <3> QED
      BY <3>3
  <2> QED
    BY <1>2, <2>2, <2>3, <2>4, <2>5, <2>6
<1>11. DropsCovered(r)
  BY <1>1, <1>3, <1>4 DEF DropsCovered, PassInv, NestedSoFar
<1> QED
  BY <1>9, <1>10, <1>11

LEMMA FileDoneIInv == ASSUME IInv, FileDone PROVE IInv'
<1> USE DEF FileDone
<1> DEFINE r == [ast |-> ast, matches |-> results]
<1>1. TypeOK /\ done < Len(input.asts)
  BY DEF IInv, InAFile
<1>2. ast \in Ast /\ done + 1 \in 0 .. Len(input.asts)
  BY <1>1 DEF TypeOK, Input, ast
<1>3. r \in FileResult
  BY <1>1, <1>2 DEF TypeOK, FileResult
<1>4. Results' = Results \cup {r}
  <2>1. resultsForFiles \in Seq(FileResult)
    BY <1>1 DEF TypeOK
  <2>2. resultsForFiles' = Append(resultsForFiles, r)
    OBVIOUS
  <2> HIDE DEF r
  <2>3. {Append(resultsForFiles, r)[i] : i \in DOMAIN Append(resultsForFiles, r)}
          = {resultsForFiles[i] : i \in DOMAIN resultsForFiles} \cup {r}
    BY <1>3, <2>1, AppendedElements
  <2> QED
    BY <2>2, <2>3, Zenon DEF Results
<1>5. TypeOK'
  BY <1>1, <1>2, <1>3 DEF TypeOK
<1>6. \A q \in Results' : DropsMeet(q) /\ OverlapsHaveDrops(q) /\ DropsCovered(q)
  BY <1>3, <1>4, PassReport DEF IInv, ReportedInv
<1>7. ReportedInv' /\ WellFormed'
  BY <1>6 DEF IInv, ReportedInv, WellFormed, DropsMeet, OverlapsHaveDrops,
     DropsCovered, Dropped, Kept, Owned, Meets, range, NestedMatches, CoveredBy
<1> QED
  BY <1>5, <1>7 DEF IInv, InAFile

LEMMA ReturnIInv == ASSUME IInv, Return PROVE IInv'
  BY SameReports DEF IInv, Return, TypeOK, InAFile

LEMMA StutterIInv == ASSUME IInv, UNCHANGED vars PROVE IInv'
<1> USE DEF vars
<1>1. TypeOK' /\ InAFile'
  BY DEF IInv, TypeOK, InAFile
<1>2. ASSUME PassInv PROVE PassInv'
  <2> USE <1>2 DEF PassInv
  <2>1. OfTheFile' /\ InOrder'
    BY DEF OfTheFile, InOrder, Owned, ast, StartsBefore, range
  <2>2. (KeptWereLookedAt /\ FirstKept /\ KeptIfApart)'
    BY DEF KeptWereLookedAt, FirstKept, KeptIfApart, KeptSoFar, Apart, range
  <2>3. NestedSoFar'
    BY DEF NestedSoFar, NestedMatches, CoveredBy, KeptSoFar, Owned, ast,
       Meets, range
  <2> QED
    BY <2>1, <2>2, <2>3
<1> QED
  BY <1>1, <1>2, SameReports DEF IInv

LEMMA NextIInv == IInv /\ [Next]_vars => IInv'
<1> SUFFICES ASSUME IInv, [Next]_vars PROVE IInv'
  OBVIOUS
<1>1. CASE SkipFile
  BY <1>1, SkipIInv
<1>2. CASE SortResults
  BY <1>2, SortIInv
<1>3. CASE KeepResult
  BY <1>3, KeepIInv
<1>4. CASE RemoveResult
  BY <1>4, RemoveIInv
<1>5. CASE FileDone
  BY <1>5, FileDoneIInv
<1>6. CASE Return
  BY <1>6, ReturnIInv
<1>7. CASE Finished \/ UNCHANGED vars
  BY <1>7, StutterIInv DEF Finished
<1> QED
  BY <1>1, <1>2, <1>3, <1>4, <1>5, <1>6, <1>7 DEF Next

(* The invariant of the elimination holds for any list of matches.         *)
THEOREM Invariance == Spec => []IInv
  BY InitIInv, NextIInv, PTL DEF Spec

(* Type correctness of the elimination.                                    *)
THEOREM TypeCorrect == Spec => []TypeOK
<1>1. IInv => TypeOK
  BY DEF IInv
<1> QED
  BY <1>1, Invariance, PTL

(* No match is dropped that meets no other match of its file.              *)
THEOREM DropsAreJustified == Spec => []DroppedMeetsAnother
<1>1. IInv => DroppedMeetsAnother
  BY DEF IInv, ReportedInv, DropsMeet, DroppedMeetsAnother
<1> QED
  BY <1>1, Invariance, PTL

(* Reported matches that overlap have a dropped one that starts between.   *)
THEOREM OverlapsHideBehindDrops == Spec => []OverlapBehindDropped
<1>1. IInv => OverlapBehindDropped
  BY DEF IInv, ReportedInv, OverlapsHaveDrops, OverlapBehindDropped
<1> QED
  BY <1>1, Invariance, PTL

(* Of nested matches, each one dropped lies in one that starts where a     *)
(* reported one does, though the pass compares with dropped ones as well   *)
(* and those with the same start come in any order.                        *)
THEOREM NestedDropsAreCovered == Spec => []NestedDroppedCovered
<1>1. IInv => NestedDroppedCovered
  BY DEF IInv, ReportedInv, DropsCovered, NestedDroppedCovered
<1> QED
  BY <1>1, Invariance, PTL

-----------------------------------------------------------------------------
(* The loops report file by file what Elimination says.                    *)

StayedSoFar == {p \in InOneStep!Staying(resultRanges, input.range) : p <= looked}

At(at) == [i \in DOMAIN at |-> resultRanges[at[i]]]

(* What is kept so far is what stays of the matches looked at.             *)
ListedSoFar ==
  phase = "eliminate" =>
    /\ Len(resultRanges) = Cardinality(Owned(ast))
    /\ \E at \in InOneStep!Listings(StayedSoFar, looked) : results = At(at)

(* A list of k positions, and position p behind them.                      *)
WithLast(at, k, p) == [i \in 1 .. k + 1 |-> IF i = k + 1 THEN p ELSE at[i]]

(* A position behind all others comes last in the list.                    *)
LEMMA ListingExtended ==
  ASSUME NEW n \in Nat, NEW positions, positions \subseteq 1 .. n,
         NEW at \in InOneStep!Listings(positions, n)
  PROVE  \E k \in 0 .. n :
           /\ DOMAIN at = 1 .. k /\ \A i \in 1 .. k : at[i] \in positions
           /\ WithLast(at, k, n + 1) \in InOneStep!Listings(positions \cup {n + 1}, n + 1)
<1>1. PICK k \in 0 .. n : at \in [1 .. k -> positions]
  BY DEF InOneStep!Listings
<1> DEFINE more == [i \in 1 .. k + 1 |-> IF i = k + 1 THEN n + 1 ELSE at[i]]
<1>2. k \in Nat /\ k + 1 \in 0 .. n + 1 /\ k + 1 \in 1 .. k + 1
  BY <1>1
<1>3. \A i \in 1 .. k + 1 : i = k + 1 \/ (i \in 1 .. k /\ i < k + 1)
  BY <1>2
<1>4. more \in [1 .. k + 1 -> positions \cup {n + 1}]
  BY <1>1, <1>3
<1>5. \A i, j \in DOMAIN more : i < j => more[i] < more[j]
  <2> SUFFICES ASSUME NEW i \in 1 .. k + 1, NEW j \in 1 .. k + 1, i < j
               PROVE  more[i] < more[j]
    OBVIOUS
  <2>4. i # k + 1 /\ i \in 1 .. k
    BY <1>2
  <2>1. i \in 1 .. k /\ more[i] = at[i] /\ at[i] \in 1 .. n
    BY <1>1, <2>4
  <2>2. CASE j = k + 1
    BY <2>1, <2>2
  <2>3. CASE j # k + 1
    <3>1. j \in 1 .. k /\ more[j] = at[j]
      BY <2>3, <1>3
    <3>2. at[i] < at[j]
      BY <1>1, <2>1, <3>1 DEF InOneStep!Listings
    <3> QED
      BY <2>1, <3>1, <3>2
  <2> QED
    BY <2>2, <2>3
<1>6. \A p \in positions \cup {n + 1} : \E i \in DOMAIN more : more[i] = p
  <2>1. \A p \in positions : \E i \in DOMAIN at : at[i] = p
    BY DEF InOneStep!Listings
  <2>2. \A i \in DOMAIN at : i \in 1 .. k + 1 /\ more[i] = at[i]
    BY <1>1, <1>2
  <2>3. more[k + 1] = n + 1
    BY <1>2
  <2> QED
    BY <2>1, <2>2, <2>3, <1>2
<1>7. more \in InOneStep!Listings(positions \cup {n + 1}, n + 1)
  <2> HIDE DEF more
  <2> QED
    BY <1>2, <1>4, <1>5, <1>6 DEF InOneStep!Listings
<1> QED
  BY <1>1, <1>7 DEF WithLast

LEMMA SameOverlap ==
  \A r, s : InOneStep!OverlapsWith(r, s) <=> OverlapsWith(r, s)
  BY DEF OverlapsWith, InOneStep!OverlapsWith, LocGeq, InOneStep!LocGeq,
     LocLess, InOneStep!LocLess, LocLeq, InOneStep!LocLeq

LEMMA SameCardinality == \A S : InOneStep!Cardinality(S) = Cardinality(S)
  BY DEF Cardinality, InOneStep!Cardinality

LEMMA StayingSoFarType ==
  ASSUME TypeOK
  PROVE  StayedSoFar \subseteq 1 .. looked
  BY DEF TypeOK, StayedSoFar, InOneStep!Staying

LEMMA SortListed == ASSUME IInv, SortResults PROVE ListedSoFar'
<1> DEFINE index == 1 .. Cardinality(Owned(ast))
<1>1. PICK s \in [index -> Owned(ast)] : resultRanges' = s /\ results' = <<s[1]>>
  BY Zenon DEF SortResults
<1>2. looked' = 1 /\ input' = input /\ done' = done /\ ast' = ast
      /\ Owned(ast)' = Owned(ast) /\ Owned(ast) # {}
  BY DEF SortResults, ast, Owned
<1>3. Cardinality(Owned(ast)) \in Nat
  <2>1. Owned(ast) \subseteq Match
    BY DEF Owned
  <2> QED
    BY <2>1, MatchAssumption, FS_Subset, FS_CardinalityType
<1>4. Len(resultRanges') = Cardinality(Owned(ast)) /\ DOMAIN resultRanges' = index
  BY <1>1, <1>3
<1>5. IInv' /\ phase' = "eliminate"
  BY SortIInv DEF SortResults
<1>6. 1 \in index
  BY <1>2, <1>4, <1>5 DEF IInv, TypeOK
<1>7. StayedSoFar' = {1}
  <2>1. \A i \in index : i <= 1 <=> i = 1
    BY <1>3
  <2> QED
    BY <1>2, <1>4, <1>6, <2>1 DEF StayedSoFar, InOneStep!Staying
<1> DEFINE at == [i \in 1 .. 1 |-> 1]
<1>8. at \in InOneStep!Listings({1}, 1)
  <2>1. at \in [1 .. 1 -> {1}] /\ 1 \in 0 .. 1 /\ DOMAIN at = 1 .. 1
    OBVIOUS
  <2>2. at[1] = 1 /\ 1 \in 1 .. 1
    OBVIOUS
  <2>3. \A i, j \in 1 .. 1 : ~ (i < j)
    OBVIOUS
  <2> HIDE DEF at
  <2> QED
    BY <2>1, <2>2, <2>3 DEF InOneStep!Listings
<1>9. results' = At(at)'
  <2>1. at' = at /\ DOMAIN at = 1 .. 1 /\ at[1] = 1
    OBVIOUS
  <2>2. At(at)' = [i \in 1 .. 1 |-> s[1]]
    BY <1>1, <2>1 DEF At
  <2> QED
    BY <1>1, <2>2
<1> QED
  BY <1>2, <1>4, <1>7, <1>8, <1>9 DEF ListedSoFar

LEMMA KeepListed == ASSUME IInv, ListedSoFar, KeepResult PROVE ListedSoFar'
<1>1. /\ looked' = looked + 1 /\ UNCHANGED <<input, done, phase, resultRanges>>
      /\ phase = "eliminate" /\ Eliminating /\ Apart(looked)
      /\ results' = Append(results, resultRanges[looked + 1])
  BY Looking DEF KeepResult, Eliminating
<1>2. looked \in Nat /\ looked + 1 \in DOMAIN resultRanges /\ looked >= 1
      /\ DOMAIN resultRanges = 1 .. Len(resultRanges) /\ Len(resultRanges) \in Nat
  BY <1>1, Looking
<1>3. Len(resultRanges') = Cardinality(Owned(ast)')
  BY <1>1 DEF ListedSoFar, Owned, ast
<1>4. StayedSoFar' = StayedSoFar \cup {looked + 1}
  <2>1. InOneStep!Staying(resultRanges, input.range)' = InOneStep!Staying(resultRanges, input.range)
    BY <1>1
  <2>2. looked + 1 \in InOneStep!Staying(resultRanges, input.range)
    BY <1>1, <1>2, SameOverlap DEF InOneStep!Staying, Apart, range
  <2>3. InOneStep!Staying(resultRanges, input.range) \subseteq 1 .. Len(resultRanges)
    BY <1>2 DEF InOneStep!Staying
  <2> QED
    BY <1>1, <1>2, <2>1, <2>2, <2>3 DEF StayedSoFar
<1>5. PICK at \in InOneStep!Listings(StayedSoFar, looked) : results = At(at)
  BY <1>1 DEF ListedSoFar
<1>6. StayedSoFar \subseteq 1 .. looked
  BY StayingSoFarType DEF IInv
<1>7. PICK k \in 0 .. looked :
        /\ DOMAIN at = 1 .. k /\ \A i \in 1 .. k : at[i] \in StayedSoFar
        /\ WithLast(at, k, looked + 1)
             \in InOneStep!Listings(StayedSoFar \cup {looked + 1}, looked + 1)
  <2>1. looked \in Nat
    BY <1>2
  <2> QED
    BY <2>1, <1>6, ListingExtended
<1>8. PICK more \in InOneStep!Listings(StayedSoFar \cup {looked + 1}, looked + 1) :
        more = [i \in 1 .. k + 1 |-> IF i = k + 1 THEN looked + 1 ELSE at[i]]
  BY <1>7 DEF WithLast
<1>9. results' = [i \in DOMAIN more |-> resultRanges[more[i]]]
  <2>1. results = [i \in 1 .. k |-> resultRanges[at[i]]]
    BY <1>5, <1>7 DEF At
  <2>2. results \in Seq(Match) /\ Len(results) = k
    BY <2>1, <1>7 DEF IInv, TypeOK
  <2>3. results' = [i \in 1 .. k + 1 |-> IF i = k + 1 THEN resultRanges[looked + 1]
                                         ELSE results[i]]
    BY <1>1, <2>2
  <2>4. \A i \in 1 .. k + 1 : i # k + 1 => i \in 1 .. k
    BY <1>7
  <2> QED
    BY <1>8, <2>1, <2>3, <2>4
<1>10. results' = At(more)'
  BY <1>1, <1>9 DEF At
<1> QED
  BY <1>1, <1>3, <1>4, <1>8, <1>10 DEF ListedSoFar

LEMMA RemoveListed == ASSUME IInv, ListedSoFar, RemoveResult PROVE ListedSoFar'
<1>1. /\ looked' = looked + 1 /\ UNCHANGED <<input, done, phase, resultRanges, results>>
      /\ phase = "eliminate" /\ Eliminating /\ ~ Apart(looked)
  BY Looking DEF RemoveResult, Eliminating
<1>2. looked \in Nat /\ looked >= 1 /\ looked + 1 \in DOMAIN resultRanges
      /\ DOMAIN resultRanges = 1 .. Len(resultRanges) /\ Len(resultRanges) \in Nat
  BY <1>1, Looking
<1>3. StayedSoFar' = StayedSoFar
  <2>1. InOneStep!Staying(resultRanges, input.range)' = InOneStep!Staying(resultRanges, input.range)
    BY <1>1
  <2>2. looked + 1 \notin InOneStep!Staying(resultRanges, input.range)
    BY <1>1, <1>2, SameOverlap DEF InOneStep!Staying, Apart, range
  <2>3. InOneStep!Staying(resultRanges, input.range) \subseteq 1 .. Len(resultRanges)
    BY <1>2 DEF InOneStep!Staying
  <2> QED
    BY <1>1, <1>2, <2>1, <2>2, <2>3 DEF StayedSoFar
<1>4. InOneStep!Listings(StayedSoFar, looked) \subseteq InOneStep!Listings(StayedSoFar, looked + 1)
  <2>1. 0 .. looked \subseteq 0 .. looked + 1
    BY <1>2
  <2> QED
    BY <2>1 DEF InOneStep!Listings
<1>5. Len(resultRanges') = Cardinality(Owned(ast)')
  BY <1>1 DEF ListedSoFar, Owned, ast
<1>6. PICK at \in InOneStep!Listings(StayedSoFar, looked) : results = At(at)
  BY <1>1 DEF ListedSoFar
<1>7. results' = At(at)'
  BY <1>1, <1>6 DEF At
<1> QED
  BY <1>1, <1>3, <1>4, <1>5, <1>6, <1>7 DEF ListedSoFar

LEMMA NextListed == IInv /\ ListedSoFar /\ [Next]_vars => ListedSoFar'
<1> SUFFICES ASSUME IInv, ListedSoFar, [Next]_vars PROVE ListedSoFar'
  OBVIOUS
<1>1. CASE SkipFile
  BY <1>1 DEF SkipFile, Gathering, ListedSoFar
<1>2. CASE SortResults
  BY <1>2, SortListed
<1>3. CASE KeepResult
  BY <1>3, KeepListed
<1>4. CASE RemoveResult
  BY <1>4, RemoveListed
<1>5. CASE FileDone \/ Return
  BY <1>5 DEF FileDone, Return, ListedSoFar
<1>6. CASE Finished \/ UNCHANGED vars
  <2>1. UNCHANGED vars
    BY <1>6 DEF Finished
  <2>2. UNCHANGED <<input, done, phase, resultRanges, looked, results>>
    BY <2>1 DEF vars
  <2>3. StayedSoFar' = StayedSoFar /\ Owned(ast)' = Owned(ast)
        /\ \A at : At(at)' = At(at)
    BY <2>2 DEF StayedSoFar, Owned, ast, At
  <2> QED
    BY <2>2, <2>3 DEF ListedSoFar
<1> QED
  BY <1>1, <1>2, <1>3, <1>4, <1>5, <1>6 DEF Next

(* What FileDone reports is what Elimination says of the file's matches.   *)
LEMMA FileDoneReports == ASSUME IInv, ListedSoFar, FileDone PROVE InOneStep!Report
<1>1. /\ phase = "eliminate" /\ looked = Len(resultRanges) /\ done' = done + 1
      /\ resultsForFiles' = Append(resultsForFiles, [ast |-> ast, matches |-> results])
      /\ input' = input
  BY DEF FileDone
<1>2. done < Len(input.asts) /\ PassInv /\ TypeOK
  BY <1>1 DEF IInv, InAFile
<1>3. InOneStep!next = ast /\ InOneStep!Of(ast) = Owned(ast)
  <2>1. DOMAIN input.owner = Match
    BY <1>2 DEF TypeOK, Input
  <2> QED
    BY <2>1 DEF InOneStep!next, ast, InOneStep!Of, Owned
<1>4. resultRanges \in Seq(Match) /\ Len(resultRanges) \in Nat
      /\ DOMAIN resultRanges = 1 .. Len(resultRanges)
  BY <1>2 DEF TypeOK
<1>5. resultRanges \in InOneStep!Orders(Owned(ast), input.range)
  <2>1. resultRanges \in [1 .. Cardinality(Owned(ast)) -> Owned(ast)]
    BY <1>1, <1>2, <1>4 DEF ListedSoFar, PassInv, OfTheFile
  <2>2. \A m \in Owned(ast) : \E i \in DOMAIN resultRanges : resultRanges[i] = m
    BY <1>2 DEF PassInv, OfTheFile
  <2>3. \A i, j \in DOMAIN resultRanges :
          i < j => /\ resultRanges[i] # resultRanges[j]
                   /\ InOneStep!LocLeq(input.range[resultRanges[i]].begin,
                                       input.range[resultRanges[j]].begin)
    BY <1>2 DEF PassInv, InOrder, StartsBefore, range, LocLeq, InOneStep!LocLeq
  <2> QED
    BY <2>1, <2>2, <2>3, SameCardinality DEF InOneStep!Orders
<1>6. StayedSoFar = InOneStep!Staying(resultRanges, input.range)
  BY <1>1, <1>4 DEF StayedSoFar, InOneStep!Staying
<1>7. results \in InOneStep!Reports(Owned(ast), input.range)
  <2>1. PICK at \in InOneStep!Listings(StayedSoFar, looked) : results = At(at)
    BY <1>1 DEF ListedSoFar
  <2>2. results = [i \in DOMAIN at |-> resultRanges[at[i]]]
    BY <2>1 DEF At
  <2> QED
    BY <1>1, <1>5, <1>6, <2>1, <2>2 DEF InOneStep!Reports
<1>8. Owned(ast) # {}
  BY <1>1, <1>2, <1>4 DEF IInv, InAFile, PassInv, OfTheFile, TypeOK
<1> QED
  BY <1>1, <1>2, <1>3, <1>7, <1>8 DEF InOneStep!Report

LEMMA StepReports == IInv /\ ListedSoFar /\ [Next]_vars =>
                       [InOneStep!Next]_<<input, done, resultsForFiles>>
<1> SUFFICES ASSUME IInv, ListedSoFar, [Next]_vars
             PROVE  [InOneStep!Next]_<<input, done, resultsForFiles>>
  OBVIOUS
<1>1. CASE SkipFile
  <2>1. DOMAIN input.owner = Match
    BY DEF IInv, TypeOK, Input
  <2>2. InOneStep!PassOver
    BY <1>1, <2>1 DEF SkipFile, Gathering, Owned, ast, InOneStep!PassOver,
       InOneStep!Of, InOneStep!next
  <2> QED
    BY <2>2 DEF InOneStep!Next
<1>2. CASE FileDone
  BY <1>2, FileDoneReports DEF InOneStep!Next
<1>3. CASE SortResults \/ KeepResult \/ RemoveResult \/ Return
  BY <1>3, Zenon DEF SortResults, KeepResult, RemoveResult, Return
<1>4. CASE Finished \/ UNCHANGED vars
  BY <1>4 DEF Finished, vars
<1> QED
  BY <1>1, <1>2, <1>3, <1>4 DEF Next

(* The elimination implements one step for each file, for any number of    *)
(* files and matches.                                                      *)
THEOREM ImplementsFileReports == Spec => ReportsFileByFile
<1>1. Init => InOneStep!Init /\ ListedSoFar
  BY DEF Init, InOneStep!Init, ListedSoFar
<1>2. Spec => []ListedSoFar
  BY <1>1, NextListed, Invariance, PTL DEF Spec
<1> QED
  BY <1>1, <1>2, StepReports, Invariance, PTL DEF Spec, ReportsFileByFile, InOneStep!Spec
=============================================================================
